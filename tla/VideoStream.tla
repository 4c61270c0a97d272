----------------------------- MODULE VideoStream -----------------------------
(***************************************************************************)
(* Videos as streams of NAL units, their index and the groups of pictures  *)
(* that frames are decoded from: tools/lib/vidindex, and index_pstream,    *)
(* StreamGOPReader, MP4GOPReader of tools/lib/framereader.py.              *)
(*                                                                         *)
(* Abstractions.  Offsets count NAL units, frames are numbered from 1, and *)
(* a frame is known by its number in the whole recording.  Of a header     *)
(* only the bits that are read to find the slice type are kept, with their *)
(* Exp-Golomb code.  Pictures refer to the one before them (no B-frames).  *)
(***************************************************************************)
EXTENDS Integers, SequencesExt

NoSlice == -2       \* not the first slice of a picture
Raises == <<>>      \* in place of a result
SLICE_P == 1
SLICE_I == 2
EndOfFile == -1     \* 0xFFFFFFFF

\* A NAL unit: parameter sets, a slice, a slice of an IRAP/IDR picture, or another.
Nal(type, first, slice, frame) == [type |-> type, first |-> first, slice |-> slice, frame |-> frame]
ParameterSet == Nal("set", FALSE, SLICE_P, 0)
IsSlice(n) == n.type \in {"slice", "idr"}
Nals == [type : {"set", "slice", "idr", "other"}, first : BOOLEAN, slice : {SLICE_P, SLICE_I}, frame : Nat]

\* The members of a set of numbers, from the least on; what a sequence has at such places.
\* (The set is bound before it is sorted: TLC then computes it once.)
Ascending(set) ==
    LET sorted(S) == [k \in 1 .. Cardinality(S) |-> CHOOSE i \in S : Cardinality({j \in S : j <= i}) = k]
    IN  CHOOSE s \in {sorted(S) : S \in {set}} : TRUE
Only(s, at) == LET places == Ascending(at) IN [k \in DOMAIN places |-> s[places[k]]]

\* The pictures of a stream: the first slices of them.
FirstSlices(data) == {i \in DOMAIN data : IsSlice(data[i]) /\ data[i].first}
Pictures(data) == Only(data, FirstSlices(data))

\* An encoder numbers its pictures; from an I picture to the next there are at most so many.
Consecutive(pictures) == \A m \in 2 .. Len(pictures) : pictures[m].frame = pictures[m - 1].frame + 1
GroupsOf(pictures, size) ==
    \A k \in 1 .. Len(pictures) - size : \E i \in k + 1 .. k + size : pictures[i].slice = SLICE_I

----------------------------------------------------------------------------
(* vidindex/bitstream.c: a stream is the bits left of it. *)

Skip(bs, n) == SubSeq(bs, n + 1, Len(bs))

\* bs_get; past the end it is 0.
BsGet(bs, n) == IF n > Len(bs) THEN 0
                ELSE FoldLeft(LAMBDA value, bit : 2 * value + bit, 0, SubSeq(bs, 1, n))

\* The table exp_golomb_bits: the zeros that a byte begins with.
LeadingZeros(bits) ==
    IF \E i \in DOMAIN bits : bits[i] = 1
    THEN (CHOOSE i \in DOMAIN bits : bits[i] = 1 /\ \A j \in 1 .. i - 1 : bits[j] = 0) - 1
    ELSE Len(bits)

\* bs_ue: eight bits at a time, as long as they are zero and there are as many.
GolombZeros(bs) ==
    LET zeros[at \in 0 .. Len(bs)] ==
          LET byte == SubSeq(bs, at + 1, IF at + 8 <= Len(bs) THEN at + 8 ELSE Len(bs))
          IN  IF Len(byte) = 8 /\ LeadingZeros(byte) = 8 THEN 8 + zeros[at + 8]
              ELSE LeadingZeros(byte)
    IN  zeros[0]

BsUe(bs) == BsGet(Skip(bs, GolombZeros(bs)), GolombZeros(bs) + 1) - 1
AfterUe(bs) == Skip(bs, 2 * GolombZeros(bs) + 1)

\* The code of a small number, as an encoder writes it.
Golomb(v) == << <<1>>, <<0, 1, 0>>, <<0, 1, 1>>, <<0, 0, 1, 0, 0>> >>[v + 1]
Flag(b) == <<IF b THEN 1 ELSE 0>>

\* The slice headers, after the NAL unit's own.
HevcHeader(n) == Flag(n.first) \o (IF n.type = "idr" THEN <<0>> ELSE <<>>) \o <<1>> \o Golomb(n.slice)
H264Header(n) == Golomb(IF n.first THEN 0 ELSE 3) \o Golomb(n.slice) \o Golomb(0)

----------------------------------------------------------------------------
(* vidindex/vidindex.c. *)

\* no_output_of_prior_pics_flag is there for IRAP pictures only.
HevcSlice(n) ==
    LET bs == HevcHeader(n)
        id == Skip(bs, IF n.type = "idr" THEN 2 ELSE 1)
    IN  IF BsGet(bs, 1) = 0 THEN NoSlice ELSE BsUe(Skip(id, 1))

H264Slice(n) ==
    LET bs == H264Header(n)
    IN  IF BsUe(bs) # 0 THEN NoSlice ELSE BsUe(AfterUe(bs))

Parsed == [typ \in {"hevc", "h264"}, type \in {"slice", "idr"}, first \in BOOLEAN, slice \in {SLICE_P, SLICE_I} |->
            LET n == Nal(type, first, slice, 0) IN IF typ = "hevc" THEN HevcSlice(n) ELSE H264Slice(n)]

SliceType(n, typ) == IF IsSlice(n) THEN Parsed[typ, n.type, n.first, n.slice] ELSE NoSlice

\* The type and the offset of the first slice of every picture, and a last entry at the
\* end of the file; the prefix is every parameter set of the file.
Vidindex(file, typ) ==
    LET types == [i \in DOMAIN file |-> SliceType(file[i], typ)]
        frames == Ascending({i \in DOMAIN file : types[i] # NoSlice})
    IN  [index  |-> Append([k \in DOMAIN frames |-> [slice |-> types[frames[k]], offset |-> frames[k]]],
                           [slice |-> EndOfFile, offset |-> Len(file) + 1]),
         prefix |-> Only(file, {i \in DOMAIN file : file[i].type = "set"})]

----------------------------------------------------------------------------
(* Indexes as they are cached. *)

NumIFrames(index) == Cardinality({k \in DOMAIN index : index[k].slice = SLICE_I})

Entry(index, prefix, sizes) ==
    [index |-> index, global_prefix |-> prefix, sizes |-> sizes, prefix_frame_data |-> <<>>, num_prefix_frames |-> 0]

Indexed(file, typ) ==
    LET v == Vidindex(file, typ)
    IN  Entry(v.index, v.prefix, <<>>)

\* vidindex_mp4: boxes has the sizes of the samples and what depends on others, the offsets of the
\* chunks, and how many samples the chunks have from a first one on.
Mp4Index(boxes, prefix) ==
    LET per(chunk) == boxes.table[CHOOSE i \in DOMAIN boxes.table :
                          /\ boxes.table[i].first <= chunk
                          /\ i < Len(boxes.table) => chunk < boxes.table[i + 1].first].samples
        place(sofar, chunk) == sofar \o [j \in 1 .. per(chunk) |->
            boxes.chunks[chunk] + FoldLeft(+, 0, SubSeq(boxes.sizes, Len(sofar) + 1, Len(sofar) + j - 1))]
        offsets == FoldLeft(place, <<>>, [c \in DOMAIN boxes.chunks |-> c])
    IN  Entry([k \in DOMAIN boxes.sizes |->
                  [slice |-> IF boxes.depends[k] THEN SLICE_P ELSE SLICE_I, offset |-> offsets[k]]],
              prefix, boxes.sizes)

\* The last I-frame of an index, or 0.
LastIFrame(index) ==
    LET at == {b \in DOMAIN index : index[b].slice = SLICE_I}
    IN  CHOOSE b \in at \cup {0} : \A c \in at : c <= b

\* The next file begins with an I-frame.
Whole(next) == next[1].slice = SLICE_I /\ next[1].offset <= 1

\* A mutant: the entry at the end of the index is counted as a frame.
PartialCountsEnd(file, index, next) ==
    LET b == LastIFrame(index)
    IN  IF Whole(next) THEN [data |-> <<>>, frames |-> 0]
        ELSE [data |-> Skip(file, index[b].offset - 1), frames |-> Len(index) - b + 1]

\* The partial GOP at the end of a file, put before the next one; what is left of
\* the last GOP's index is only counted.
Partial(file, index, next) ==
    LET b == LastIFrame(index)
    IN  IF Whole(next) THEN [data |-> <<>>, frames |-> 0]
        ELSE [data |-> Skip(file, index[b].offset - 1), frames |-> Len(index) - b]

\* pstream_predecompress: it begins with a call that cache_path_for_file_path has no parameter for.
Predecompress == Raises

\* A mutant: the last GOP is taken out of the index of its file, as the line that is commented
\* out (framereader.py:397) would.
IndexPstreamCut(files, own) ==
    LET next(i) == own[i + 1].index
        before(i) == IF i = 1 THEN [data |-> <<>>, frames |-> 0]
                     ELSE Partial(files[i - 1], own[i - 1].index, own[i].index)
        cut(i, index) == IF i = Len(files) \/ Whole(next(i)) THEN index
                         ELSE Append(SubSeq(index, 1, LastIFrame(index) - 1),
                                     [slice |-> EndOfFile, offset |-> index[LastIFrame(index)].offset])
    IN  IF NumIFrames(own[1].index) <= 1 THEN Raises
        ELSE [i \in DOMAIN files |->
               [own[i] EXCEPT !.index = cut(i, own[i].index), !.global_prefix = own[1].global_prefix,
                              !.prefix_frame_data = before(i).data, !.num_prefix_frames = before(i).frames]]

\* What makes each segment of a route self-contained, from the index of every file.
IndexPstream(files, own) ==
    LET noGop(i) == LastIFrame(own[i].index) = 0 /\ ~Whole(own[i + 1].index)
        before(i) == IF i = 1 THEN [data |-> <<>>, frames |-> 0]
                     ELSE Partial(files[i - 1], own[i - 1].index, own[i].index)
    IN  IF \/ own[1].global_prefix = <<>>
           \/ NumIFrames(own[1].index) <= 1 /\ Predecompress = Raises
           \/ \E i \in 1 .. Len(files) - 1 : noGop(i)
        THEN Raises
        ELSE [i \in DOMAIN files |->
               [own[i] EXCEPT !.global_prefix = own[1].global_prefix,
                              !.prefix_frame_data = before(i).data, !.num_prefix_frames = before(i).frames]]

----------------------------------------------------------------------------
(* StreamGOPReader, MP4GOPReader. *)

\* The index of an MP4 file has no entry for the end.
FrameCount(entry) == IF Last(entry.index).slice = EndOfFile THEN Len(entry.index) - 1 ELSE Len(entry.index)

\* The loops stop at an I-frame or at the ends of the index.
LookupGop(index, num) ==
    LET back == {b \in 1 .. num : b = 1 \/ index[b].slice = SLICE_I}
        end == IF num < Len(index) THEN Len(index) ELSE num + 1
        forth == {e \in num + 1 .. end : e = end \/ index[e].slice = SLICE_I}
    IN  [b |-> CHOOSE b \in back : \A c \in back : c <= b,
         e |-> CHOOSE e \in forth : \A c \in forth : e <= c]

FirstIFrame(index) ==
    CHOOSE i \in DOMAIN index : /\ index[i].slice = SLICE_I \/ i = Len(index)
                                /\ \A j \in 1 .. i - 1 : index[j].slice # SLICE_I

\* What is read of the file: the samples, which may lie in several chunks, or all between two offsets.
GopData(file, entry, gop) ==
    LET offset(k) == entry.index[k].offset
        samples[k \in gop.b - 1 .. gop.e - 1] ==
          IF k < gop.b THEN <<>>
          ELSE samples[k - 1] \o SubSeq(file, offset(k), offset(k) + entry.sizes[k] - 1)
    IN  IF entry.sizes = <<>> THEN SubSeq(file, offset(gop.b), offset(gop.e) - 1)
        ELSE samples[gop.e - 1]

\* A mutant: frames before the first I-frame are read as if there were none to skip.
GetGopUnskipped(file, entry, num) ==
    LET gop == LookupGop(entry.index, num)
    IN  [frame_b |-> gop.b, num_frames |-> gop.e - gop.b, skip_frames |-> 0,
         rawdat |-> entry.global_prefix \o GopData(file, entry, gop)]

GetGop(file, entry, num) ==
    LET gop == LookupGop(entry.index, num)
        early == num < FirstIFrame(entry.index)
    IN  [frame_b |-> gop.b, num_frames |-> gop.e - gop.b,
         skip_frames |-> IF early THEN entry.num_prefix_frames ELSE 0,
         rawdat |-> entry.global_prefix
                    \o (IF early THEN entry.prefix_frame_data ELSE <<>>)
                    \o GopData(file, entry, gop)]

----------------------------------------------------------------------------
(* The decoder: a picture comes out right if it has its parameter sets and the picture *)
(* it refers to; otherwise something comes out that is no frame of the video (0).      *)

Decode(data) ==
    LET at == Ascending(FirstSlices(data))
        pictures == Pictures(data)
        Right(k) == \E j \in 1 .. k : /\ pictures[j].slice = SLICE_I
                                      /\ \E i \in 1 .. at[j] - 1 : data[i].type = "set"
                                      /\ \A m \in j + 1 .. k : pictures[m].frame = pictures[m - 1].frame + 1
    IN  [k \in DOMAIN at |-> IF Right(k) THEN pictures[k].frame ELSE 0]

\* decompress_video_data and what _get_one makes of it; its assertion may fail.
DecodeGop(gop) ==
    LET ret == Skip(Decode(gop.rawdat), gop.skip_frames)
    IN  IF Len(ret) = gop.num_frames THEN ret ELSE Raises
=============================================================================
