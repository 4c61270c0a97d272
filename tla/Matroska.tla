------------------------------ MODULE Matroska ------------------------------
(***************************************************************************)
(* Matroska files, as tools/lib/mkvparse finds the frames in them and as   *)
(* it writes some frames into a file for the decoder: mkvparse.py,         *)
(* mkvindex.py, mkvgen.py.                                                 *)
(*                                                                         *)
(* A file is its bytes, at positions from 1.  Abstractions.  Numbers have  *)
(* at most four bytes.  Timecodes are read and left out, as MatroskaIndex  *)
(* does not use them, and so are names and values of elements that decide  *)
(* nothing; a text is bytes below 128, and a block has its whole header.   *)
(***************************************************************************)
EXTENDS Integers, SequencesExt

EBML == \h1A45DFA3
Segment == \h18538067
Cluster == \h1F43B675
Tracks == \h1654AE6B
TrackEntry == \hAE
SimpleBlock == \hA3
BlockGroup == \hA0
DocType == \h4282
TrackNumber == \hD7
TrackType == \h83
CodecPrivate == \h63A2
ContentEncodings == \h6D80
ContentCompAlgo == \h4254
ContentCompSettings == \h4255

\* element_types_names, the part of it that decides anything and some elements of every other type.
Kind(id) ==
    CASE id \in {Segment, Cluster} -> "just_go_on"
      [] id \in {EBML, Tracks, TrackEntry, BlockGroup, ContentEncodings, \h6240, \h5034, \hE0,
                 \h114D9B74, \h1549A966, \h1C53BB6B} -> "master"
      [] id \in {\h4286, \h42F7, \h42F2, \h42F3, \h4287, \h4285, TrackNumber, \h73C5, TrackType, \hE7,
                 \hB0, \hBA, \h2AD7B1, ContentCompAlgo, \hFB, \h4489} -> "number"
      [] id \in {SimpleBlock, CodecPrivate, ContentCompSettings, DocType, \h86, \hEC, \hBF} -> "bytes"
      [] OTHER -> "unknown"

MinOf(a, b) == IF a < b THEN a ELSE b

\* f.read(n) from a position; a negative n reads everything.
Until(file, p, n) == IF n < 0 THEN Len(file) + 1 ELSE MinOf(p + n, Len(file) + 1)
Read(file, p, n) == SubSeq(file, p, Until(file, p, n) - 1)

----------------------------------------------------------------------------
(* Numbers. *)

BigEndian(bytes) == FoldLeft(LAMBDA value, byte : 256 * value + byte, 0, bytes)

\* The zeros before the highest bit; 0 is no beginning of a number.
MajorBit(byte) == CHOOSE r \in 0 .. 7 : 2 ^ (7 - r) <= byte /\ byte < 2 ^ (8 - r)

\* A number whose length stands in its first byte, with the length or without it. The file may end
\* before it or in it, which Python 3 takes for the end.
Is(got, value, next) == [got |-> got, value |-> value, next |-> next]
NumberOf(file, p, n, unmodified) ==
    LET r == BigEndian(<<IF unmodified THEN file[p] ELSE file[p] - 2 ^ (7 - n)>> \o SubSeq(file, p + 1, p + n))
    IN  IF p + n > Len(file) THEN Is("end", 0, Len(file) + 1)
        ELSE Is("number", IF ~unmodified /\ r = 2 ^ (7 * n + 7) - 1 THEN -1 ELSE r, p + n + 1)
Number(file, p, unmodified) ==
    IF p > Len(file) THEN Is("end", 0, p)
    ELSE IF file[p] = 0 THEN Is("bad", 0, p + 1)
    ELSE NumberOf(file, p, MajorBit(file[p]), unmodified)

\* The difference of two lengths, in the same code.
Signed(buffer, p) ==
    LET n == MajorBit(buffer[p])
        r == BigEndian(<<buffer[p] - 2 ^ (7 - n)>> \o SubSeq(buffer, p + 1, p + n))
    IN  [value |-> r - (2 ^ (7 * n + 6) - 1), next |-> p + n + 1]

Xiph(buffer, p) ==
    LET end == CHOOSE q \in p .. Len(buffer) : buffer[q] < 255 /\ \A i \in p .. q - 1 : buffer[i] = 255
    IN  [value |-> 255 * (end - p) + buffer[end], next |-> end + 1]

FixedLength(bytes, signed) ==
    BigEndian(bytes) - (IF signed /\ bytes[1] >= 128 THEN 256 ^ Len(bytes) ELSE 0)

----------------------------------------------------------------------------
(* Elements. *)

Header(file, p) ==
    LET sized(id, size) == [got |-> size.got, id |-> id.value, size |-> size.value, next |-> size.next]
        of(id) == IF id.got # "number" THEN [got |-> id.got, id |-> 0, size |-> 0, next |-> id.next]
                  ELSE sized(id, Number(file, id.next, FALSE))
    IN  of(Number(file, p, TRUE))

\* A number that the file is too short for raises.
Cut(file, p, kind, size) == kind = "number" /\ p + size - 1 > Len(file)

\* read_ebml_element_tree: the children, and where it comes to a stop; not ok when it raises, as it does for
\* a child without a size, whose warning does not fit its format.
Tree(file, start, size) ==
    LET tree[p \in Nat, total \in Int] ==
          LET leaf(h) == [ok |-> ~Cut(file, h.next, Kind(h.id), h.size), children |-> Read(file, h.next, h.size),
                          next |-> Until(file, h.next, h.size)]
              child(h) == IF Kind(h.id) = "master" /\ h.size > 0 THEN tree[h.next, h.size] ELSE leaf(h)
              before(h, data, rest) == [rest EXCEPT !.children = <<[id |-> h.id, data |-> data]>> \o @]
              go(h, c) == IF c.ok THEN before(h, c.children, tree[c.next, total - h.size - (h.next - p)]) ELSE c
              at(h) == IF h.got # "number" \/ h.size = -1 THEN [ok |-> FALSE, children |-> <<>>, next |-> h.next]
                       ELSE IF h.size > total THEN [ok |-> TRUE, children |-> <<>>, next |-> Until(file, h.next, total)]
                       ELSE go(h, child(h))
          IN  IF total <= 0 THEN [ok |-> TRUE, children |-> <<>>, next |-> p] ELSE at(Header(file, p))
    IN  tree[start, size]

\* dict() of a tree keeps the last of the children with a name.
Named(tree, id) == SelectSeq(tree, LAMBDA child : child.id = id)
HasChild(tree, id) == Named(tree, id) # <<>>
Child(tree, id) == Last(Named(tree, id)).data

\* The next cluster, segment or tracks element, four bytes at a time once its first byte has been seen.
Resync(file, start) ==
    LET found(id, size) == [got |-> size.got, id |-> id, size |-> size.value, next |-> size.next]
        sync[p \in Nat] ==
          LET id == BigEndian(SubSeq(file, p, p + 3))
          IN  IF p > Len(file) THEN [got |-> "end", id |-> 0, size |-> 0, next |-> p]
              ELSE IF file[p] \notin {\h1F, \h18, \h16} THEN sync[p + 1]
              ELSE IF p + 3 <= Len(file) /\ id \in {Cluster, Segment, Tracks} THEN found(id, Number(file, p + 4, FALSE))
              ELSE sync[Until(file, p, 4)]
    IN  sync[start]

\* After an unknown element a search that fails is begun again; the end of the file is no result that the
\* caller of resync can unpack (ValueError).
Recover(file, p, unknown) ==
    LET again(r) == IF unknown /\ r.got # "number" THEN Resync(file, r.next) ELSE r
    IN  again(Resync(file, p))

Raised == [id |-> -1]   \* in place of an element: mkvparse raises

\* The loop of mkvparse: the elements that it handles. With an id, an element's header has been read.
Elements(file) ==
    LET from[p \in Nat, id \in Nat, size \in Int] ==
          LET resynced(r) == IF r.got # "number" THEN <<Raised>> ELSE from[r.next, r.id, r.size]
              item(data, next) == <<[id |-> id, at |-> p, data |-> data]>> \o from[next, 0, 0]
              begin(h) == IF h.got = "end" THEN <<>>
                          ELSE IF h.got = "bad" \/ Kind(h.id) = "unknown"
                          THEN resynced(Recover(file, h.next, h.got = "number"))
                          ELSE from[h.next, h.id, h.size]
              master(t) == IF t.ok THEN item(t.children, t.next) ELSE resynced(Recover(file, t.next, FALSE))
          IN  IF id = 0 THEN begin(Header(file, p))
              ELSE IF Kind(id) = "just_go_on" THEN from[p, 0, 0]
              ELSE IF Kind(id) = "master" THEN master(Tree(file, p, size))
              ELSE IF Cut(file, p, Kind(id), size) THEN <<Raised>>
              ELSE item(Read(file, p, size), Until(file, p, size))
    IN  from[1, 0, 0]

----------------------------------------------------------------------------
(* Blocks. *)

Total(lengths) == FoldLeft(LAMBDA total, length : total + length, 0, lengths)

\* handle_block: the frames of a block and where they are, for each of the four lacings. The last length is
\* what is left, except that all are the same with the third.
Block(buffer, at) ==
    LET flags == buffer[Number(buffer, 1, FALSE).next + 2]
        body == Number(buffer, 1, FALSE).next + 3
        lacing == (flags % 8) \div 2
        n == buffer[body] + 1
        begin == [lengths |-> <<>>, pos |-> body + 1]
        after(s, length, next) == [lengths |-> Append(s.lengths, length), pos |-> next]
        first == Number(buffer, body + 1, FALSE)
        xiph[i \in Nat] ==
          IF i = 0 THEN begin
          ELSE LET s == xiph[i - 1]
               IN  after(s, Xiph(buffer, s.pos).value, Xiph(buffer, s.pos).next)
        ebml[i \in Nat] ==
          IF i = 0 THEN after(begin, first.value, first.next)
          ELSE LET s == ebml[i - 1]
               IN  after(s, Last(s.lengths) + Signed(buffer, s.pos).value, Signed(buffer, s.pos).next)
        left(s) == Append(s.lengths, Len(buffer) - s.pos + 1 - Total(s.lengths))
        frames(s, lengths) ==
            [i \in DOMAIN lengths |->
               [pos |-> at + s.pos - 1 + Total(SubSeq(lengths, 1, i - 1)),
                length |-> lengths[i], keyframe |-> flags >= 128]]
    IN  CASE lacing = 0 -> frames([begin EXCEPT !.pos = body], <<Len(buffer) - body + 1>>)
          [] lacing = 1 -> frames(xiph[n - 1], left(xiph[n - 1]))
          [] lacing = 2 -> frames(begin, [i \in 1 .. n |-> (Len(buffer) - body) \div n])
          [] lacing = 3 -> LET s == ebml[IF n = 1 THEN 0 ELSE n - 2] IN frames(s, left(s))

\* The compression of a track that handle_block does not implement.
HeaderRemoval(track) ==
    LET encoding == Child(track, ContentEncodings)[1].data
        compression == encoding[1].data
    IN  /\ HasChild(track, ContentEncodings) /\ Child(track, ContentEncodings) # <<>>
        /\ encoding # <<>> /\ Kind(encoding[1].id) = "master"
        /\ HasChild(compression, ContentCompAlgo) /\ FixedLength(Child(compression, ContentCompAlgo), FALSE) = 3
        /\ HasChild(compression, ContentCompSettings)

\* MatroskaIndex: the configuration record of the first track, and where the frames are. Whatever
\* raises here ends mkvparse.
Mkvindex(file) ==
    LET number(track) == FixedLength(Child(track, TrackNumber), FALSE)
        entries(e) == SelectSeq(e.data, LAMBDA child : child.id = TrackEntry)
        ones(e) == SelectSeq(entries(e), LAMBDA t : number(t.data) = 1)
        unusable(e) == \/ \E t \in ToSet(entries(e)) : ~HasChild(t.data, TrackNumber) \/ ~HasChild(t.data, TrackType)
                       \/ ones(e) = <<>> \/ ~HasChild(Last(ones(e)).data, CodecPrivate)
        removed(e) == {number(t.data) : t \in {u \in ToSet(entries(e)) : HeaderRemoval(u.data)}}
        fails(es, i) ==
            \/ es[i].id \in {Raised.id, BlockGroup}
            \/ es[i].id = EBML /\ ~HasChild(es[i].data, DocType)
            \/ es[i].id = Tracks /\ unusable(es[i])
            \/ /\ es[i].id = SimpleBlock
               /\ \E j \in 1 .. i - 1 : es[j].id = Tracks /\ Number(es[i].data, 1, FALSE).value \in removed(es[j])
        ok(es) == Named(es, Tracks) # <<>> /\ \A i \in DOMAIN es : ~fails(es, i)
        made(es) == IF ~ok(es) THEN [ok |-> FALSE, config_record |-> <<>>, index |-> <<>>]
                    ELSE [ok |-> TRUE, config_record |-> Child(Last(ones(Last(Named(es, Tracks)))).data, CodecPrivate),
                          index |-> FlattenSeq([i \in DOMAIN Named(es, SimpleBlock) |->
                                      Block(Named(es, SimpleBlock)[i].data, Named(es, SimpleBlock)[i].at)])]
    IN  CHOOSE parsed \in {made(es) : es \in {Elements(file)}} : TRUE

----------------------------------------------------------------------------
(* mkvgen.py, and simple_gen of mkvindex.py. *)

Ben[n \in Nat] == IF n < 256 THEN <<n>> ELSE Append(Ben[n \div 256], n % 256)

\* The shortest code of a number; the code of all ones is that of -1.
EncodeNumber(n) ==
    LET k == CHOOSE j \in 1 .. 4 : n < 2 ^ (7 * j) - 1 /\ \A i \in 1 .. j - 1 : n >= 2 ^ (7 * i) - 1
        byte(i) == (n \div (256 ^ (k - i))) % 256
    IN  IF n = -1 THEN <<255>> ELSE [i \in 1 .. k |-> byte(i) + (IF i = 1 THEN 2 ^ (8 - k) ELSE 0)]

Element(id, data) == Ben[id] \o EncodeNumber(Len(data)) \o data

Text == <<77, 75, 86>>  \* a name

WriteEbmlHeader(version, read_version) ==
    Element(EBML, Element(\h4286, Ben[1]) \o Element(\h42F7, Ben[1]) \o Element(\h42F2, Ben[4]) \o Element(\h42F3, Ben[8])
                  \o Element(DocType, Text) \o Element(\h4287, Ben[version]) \o Element(\h4285, Ben[read_version]))

InfiniteSegment == Ben[Segment] \o EncodeNumber(-1)

SimpleGen(config_record, w, h, framedata) ==
    LET block(data) == Element(SimpleBlock, EncodeNumber(1) \o <<0, 0, 128>> \o data)
        blocks == FlattenSeq([i \in DOMAIN framedata |-> block(framedata[i])])
    IN  WriteEbmlHeader(2, 2) \o InfiniteSegment
        \o Element(Tracks, Element(TrackEntry,
              Element(TrackNumber, Ben[1]) \o Element(\h73C5, Ben[1]) \o Element(TrackType, Ben[1]) \o Element(\h86, Text)
              \o Element(\hE0, Element(\hB0, Ben[w]) \o Element(\hBA, Ben[h]))
              \o Element(CodecPrivate, config_record)))
        \o Element(Cluster, Element(\hE7, Ben[0]) \o blocks)

----------------------------------------------------------------------------
\* What the comments of mkvparse.py say of its numbers (lines 33-35, 81-89, 117-121, 142-146), but for the fourth,
\* which the code takes for the number of all ones, and that what mkvgen writes is read back, on both sides of
\* every length at which the code grows by a byte.
ASSUME NumberExamples ==
    /\ MajorBit(149) = 0 /\ MajorBit(21) = 3 /\ MajorBit(127) = 1
    /\ Number(<<\h81>>, 1, FALSE).value = 1 /\ Number(<<\h40, 1>>, 1, FALSE).value = 1
    /\ Number(<<\h3F, 255, 255>>, 1, FALSE) = [got |-> "number", value |-> -1, next |-> 4]
    /\ Number(<<\h20, 0, 1>>, 1, TRUE).value = \h200001
    /\ Signed(<<\hBF>>, 1).value = 0 /\ Signed(<<\hBE>>, 1).value = -1 /\ Signed(<<\hC0>>, 1).value = 1
    /\ Signed(<<\h5F, \hEF>>, 1) = [value |-> -16, next |-> 3]
    /\ Xiph(<<255, 4>>, 1).value = \h103 /\ Xiph(<<255, 255, 4>>, 1).value = \h202
    /\ Xiph(<<255, 255, 0>>, 1) = [value |-> \h1FE, next |-> 4]
    /\ FixedLength(<<255, 4>>, FALSE) = \hFF04 /\ FixedLength(<<255, 4>>, TRUE) = -\hFC
    /\ \A n \in 0 .. 300 \cup 16380 .. 16390 \cup 2097149 .. 2097153 :
         Number(EncodeNumber(n), 1, FALSE) = [got |-> "number", value |-> n, next |-> Len(EncodeNumber(n)) + 1]
=============================================================================
