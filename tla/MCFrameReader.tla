--------------------------- MODULE MCFrameReader ---------------------------
EXTENDS FrameReader

I(frame) == Nal("idr", TRUE, SLICE_I, frame)
P(frame) == Nal("slice", TRUE, SLICE_P, frame)
More(nal) == [nal EXCEPT !.first = FALSE]   \* another slice of a picture
Other == Nal("other", FALSE, SLICE_P, 0)

\* One file that begins with an I picture: groups of 2, 1 and 2.
Hevc == [typ |-> "hevc",
         files |-> << <<ParameterSet, I(1), P(2), More(P(2)), ParameterSet, I(3), Other, I(4), More(I(4)), P(5)>> >>]

\* Segments cut inside a group of pictures, and one that begins with an I picture.
H264 == [typ |-> "h264",
         files |-> << <<ParameterSet, I(1), P(2), I(3), I(4), P(5)>>,
                      <<P(6), More(P(6)), I(7), P(8)>>,
                      <<I(9), P(10)>> >>]

\* Samples of one picture, one of them of two slices; two chunks of two and one of one.
Mp4 == [typ |-> "mp4",
        files |-> << <<Other, I(1), P(2), More(P(2)), Other, I(3), I(4), P(5)>> >>,
        boxes |-> [sizes |-> <<1, 2, 1, 1, 1>>, depends |-> <<FALSE, TRUE, FALSE, FALSE, TRUE>>,
                   chunks |-> <<2, 6, 8>>, table |-> <<[first |-> 1, samples |-> 2], [first |-> 3, samples |-> 1]>>]]

\* An MKV file as ffmpeg might have written it: a frame on its own, two behind each other with Xiph
\* lacing and three with EBML lacing; then an unknown element, after which the next cluster has to be
\* searched for, and two of equal length.
Config == <<40, 0, 1>>
Data(frame, n) == [i \in 1 .. n |-> frame]
SimpleBlockOf(flags, rest) == Element(SimpleBlock, EncodeNumber(1) \o <<0, 1, flags>> \o rest)
Time == Element(\hE7, <<1, 2>>)
Blocks1 == SimpleBlockOf(128, Data(1, 2))
           \o SimpleBlockOf(\h82, <<1, 255, 45>> \o Data(2, 300) \o Data(3, 1))
           \o SimpleBlockOf(\h86, <<2, \h83, \hBE>> \o Data(4, 3) \o Data(5, 2) \o Data(6, 4))
Blocks2 == SimpleBlockOf(4, <<1>> \o Data(7, 2) \o Data(8, 2))
Mkv == MkvRoute(WriteEbmlHeader(4, 2) \o InfiniteSegment \o Element(\hEC, <<0, 0, 0>>)
                \o Element(\h1549A966, Element(\h2AD7B1, <<15, 66, 64>>) \o Element(\h4489, <<0, 0, 0, 0>>))
                \o Element(Tracks, Element(TrackEntry, Element(TrackNumber, <<1>>) \o Element(\h4FFF, <<0>>)
                                                      \o Element(TrackType, <<1>>) \o Element(CodecPrivate, Config)))
                \o Element(Cluster, Time \o Blocks1) \o Element(\h4FFF, <<0, \h1F>>) \o Element(\hEC, <<0>>)
                \o Element(Cluster, Time \o Blocks2), Config)

Raw == [typ |-> "raw", files |-> << <<>> >>]

MCRoutes == {Hevc, H264, Mp4, Mkv, Raw}
=============================================================================
