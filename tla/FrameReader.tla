----------------------------- MODULE FrameReader -----------------------------
(***************************************************************************)
(* Reading frames of the videos of a route (tools/lib/framereader.py): the *)
(* index of a video is computed, cached on disk and loaded; a reader then  *)
(* decodes groups of pictures, with a cache of frames and a thread that    *)
(* reads ahead, or an iterator decodes the whole stream, or a feeder is to *)
(* cut the frames of many requests out of streams for one ffmpeg, which it *)
(* never does.  An MKV file, where each frame stands alone, has a reader   *)
(* without any of this.                                                    *)
(*                                                                         *)
(* A program opens one segment in one of these ways, and may die; the next *)
(* one finds what is in the cache.  Pixel formats are left out.  The file  *)
(* is written for Python 2 and 3 (line 11): python2 says which runs.  Not  *)
(* all that it imports is; cache.py is modelled by what it does.           *)
(***************************************************************************)
EXTENDS VideoStream, Matroska

CONSTANTS Routes,       \* [typ, files] and what else is known of them: the routes there are (MkvRoute)
          CacheSize,    \* LRU(64)
          Readahead,    \* readahead_len
          InFlight,     \* IN_FLIGHT_GOPS
          Width, Height,    \* of a picture, as ffprobe has them
          Delay,        \* frames ffmpeg is behind its input, before its end
          Gets          \* bound on the gets of a program

\* A file of a stream as an encoder writes it, with no more pictures in a group than the cache holds.
Encoded(file) ==
    /\ file \in Seq(Nals) /\ Pictures(file) # <<>>
    /\ Consecutive(Pictures(file)) /\ GroupsOf(Pictures(file), CacheSize)
Starts(file) == Pictures(file)[1].slice = SLICE_I
Sample(file, entry, k) ==
    SubSeq(file, entry.index[k].offset, entry.index[k].offset + entry.sizes[k] - 1)

\* HEVC streams begin with an I picture (asserted at line 1125), and have their parameter sets;
\* an H.264 recording is cut into segments anywhere; a sample of an MP4 file is one picture; and
\* the frames of an MKV file come out of the file made of them.
IsHevc(r) == \A s \in DOMAIN r.files : /\ Starts(r.files[s])
                                       /\ \E i \in DOMAIN r.files[s] : r.files[s][i].type = "set"
IsH264(r) == /\ Starts(r.files[1])
             /\ \A s \in DOMAIN r.files \ {1} :
                  Pictures(r.files[s])[1].frame = Last(Pictures(r.files[s - 1])).frame + 1
IsMp4(r) ==
    LET file == r.files[1]
        entry == Mp4Index(r.boxes, <<ParameterSet>>)
    IN  /\ Len(r.files) = 1 /\ Starts(file)
        /\ r.boxes.sizes \in Seq(Nat) /\ Len(r.boxes.sizes) = Len(Pictures(file))
        /\ \A k \in DOMAIN r.boxes.sizes : /\ entry.index[k].slice = Pictures(file)[k].slice
                                           /\ entry.index[k].offset \in Nat \ {0}
                                           /\ Sample(file, entry, k) \in Seq(Nals)
                                           /\ Pictures(Sample(file, entry, k)) = <<Pictures(file)[k]>>
IsMkv(r) == /\ r.entry # Raises => Len(r.entry.index) \in Nat
            /\ \A frame \in r.frames : frame.ret = frame.nums

ASSUME FrameReaderAssumption ==
    /\ CacheSize \in Nat \ {0} /\ Readahead \in Nat /\ InFlight \in Nat \ {0}
    /\ Delay \in Nat /\ Gets \in Nat

ASSUME RoutesAssumption ==
    \A r \in Routes :
      /\ r.typ \in {"hevc", "h264", "mp4", "mkv", "raw"} /\ Len(r.files) \in Nat \ {0} /\ DOMAIN r.files = 1 .. Len(r.files)
      /\ r.typ \in {"hevc", "h264", "mp4"} => \A s \in DOMAIN r.files : Encoded(r.files[s])
      /\ CASE r.typ = "hevc" -> IsHevc(r) [] r.typ = "h264" -> IsH264(r) [] r.typ = "mp4" -> IsMp4(r)
           [] r.typ = "mkv" -> IsMkv(r) [] OTHER -> TRUE

\* The headers an encoder writes are read right; TLC computes them all.
ASSUME HeadersAssumption ==
    \A typ \in {"hevc", "h264"}, type \in {"slice", "idr"}, first \in BOOLEAN, slice \in {SLICE_P, SLICE_I} :
      Parsed[typ, type, first, slice] = IF first THEN slice ELSE NoSlice

Threads == {"main", "ahead"}
NoEntry == Entry(<<>>, <<>>, <<>>)

VARIABLES
  route, python2,   \* what there is to read, and what reads it
  cache,            \* the indexes on disk, per segment
  seg, use, entry, toWrite, \* the segment opened, how, its index; the indexes to write
  pc, todo,         \* per thread: where it is, the frames it has still to fetch
  lru, lock,        \* frame_cache, the latest used last; cache_lock
  open, last,       \* open_, readahead_last
  from, got, raised,  \* the get under way; what went wrong
  fed, ended, work, read,   \* the decompressor: its input, read_work, frames taken from it
  written,          \* i of GOPFrameIterator: frames whose groups of pictures are written
  gets              \* gets made

disk == <<route, python2, cache>>
opened == <<seg, use, entry, toWrite>>
frames == <<lru, lock>>
reader == <<open, last, from, got, raised>>
decoder == <<fed, ended, work, read, written>>
readerVars == <<disk, opened, pc, todo, frames, reader, decoder, gets>>

Segs == DOMAIN route.files
File == route.files[seg]
Count == IF route.typ = "mkv" THEN Len(entry.index) ELSE FrameCount(entry)
NoEntries == [s \in Segs |-> NoEntry]

\* The frame that is the k-th of a segment; those of an MKV file are known by their place in it.
FrameOf(s, k) == IF route.typ = "mkv" THEN k ELSE Pictures(route.files[s])[k].frame

\* index_mkv: the configuration record is the prefix of every frame.
MkvIndex(file) ==
    CHOOSE index \in {IF parsed.ok THEN Entry(parsed.index, parsed.config_record, <<>>) ELSE Raises :
                         parsed \in {Mkvindex(file)}} : TRUE

\* The decoder: a frame is any number of bytes, each its number, and comes out right with the
\* configuration record of the video.
DecodeMkv(file, parsed, config) ==
    LET data(f) == Read(file, f.pos, f.length)
        right(f) == parsed.config_record = config /\ data(f) # <<>> /\ ToSet(data(f)) = {data(f)[1]}
    IN  [k \in DOMAIN parsed.index |-> IF right(parsed.index[k]) THEN data(parsed.index[k])[1] ELSE 0]

\* The frames asked for, one or two, put into a file of their own and decoded from it.
MkvFrames(file, config, index) ==
    LET n == IF index = Raises THEN 0 ELSE Len(index.index)
        asked == {<<k>> : k \in 1 .. n} \cup {<<k, k + 1>> : k \in 1 .. n - 1}
        data(k) == Read(file, index.index[k].pos, index.index[k].length)
        made(nums) == SimpleGen(index.global_prefix, Width, Height, [i \in DOMAIN nums |-> data(nums[i])])
        files == {[nums |-> nums, file |-> made(nums)] : nums \in asked}
        streams == {[nums |-> f.nums, file |-> f.file, parsed |-> Mkvindex(f.file)] : f \in files}
    IN  {[nums |-> s.nums, ret |-> DecodeMkv(s.file, s.parsed, config)] : s \in streams}

\* A route of one MKV file.  The file does not change: its index and what its frames are decoded to
\* go with it.
MkvRoute(file, config) ==
    LET with(index) == [typ |-> "mkv", files |-> <<file>>, entry |-> index, frames |-> MkvFrames(file, config, index)]
    IN  CHOOSE r \in {with(index) : index \in {MkvIndex(file)}} : TRUE

Start == [main |-> "start", ahead |-> "none"]

ReaderInit ==
    /\ route \in Routes /\ python2 \in BOOLEAN
    /\ cache = NoEntries
    /\ seg = 1 /\ use = "none" /\ entry = NoEntry /\ toWrite = <<>>
    /\ pc = Start /\ todo = [t \in Threads |-> <<>>] /\ lru = <<>> /\ lock = "free"
    /\ open = FALSE /\ last = 0 /\ from = 1 /\ got = <<>> /\ raised = "no"
    /\ fed = <<>> /\ ended = FALSE /\ work = <<>> /\ read = 0 /\ written = 0
    /\ gets = 0

GoTo(t, step) == pc' = [pc EXCEPT ![t] = step]
Cached == {s \in Segs : cache[s] # NoEntry}

----------------------------------------------------------------------------
(* The index: get_video_index, index_video, index_stream, index_pstream, cache_fn. *)

\* get_gop asserts that there is something to put before frames that need it.
Unreadable(num) == num < FirstIFrame(entry.index) /\ entry.prefix_frame_data = <<>>

\* A segment, and how it is to be read: nothing reads ahead in an MKV file.
Open == /\ pc["main"] = "start" /\ gets = 0
        /\ seg' \in Segs /\ use' \in {"get", "ahead", "behind", "iterate", "feed"}
        /\ use' = "behind" => route.typ \notin {"mp4", "mkv"}
        /\ use' = "ahead" => route.typ # "mkv"
        /\ route.typ = "raw" => use' = "get"
        /\ GoTo("main", IF use' = "feed" THEN "feed" ELSE "index")
        /\ UNCHANGED <<disk, entry, toWrite, todo, frames, reader, decoder, gets>>

\* An exception ends the program, or the thread that reads ahead.
Fail(t, what) == IF t = "main" THEN raised' = what /\ GoTo(t, "done") ELSE UNCHANGED raised /\ GoTo(t, "dead")

\* An HEVC stream has an index of its own, and an MP4 or MKV file.  On Python 3 map() is consumed by
\* all(), so that the list of existing indexes is too short, and a str has no decode().
MakeIndex ==
    /\ pc["main"] = "index" /\ seg \notin Cached
    /\ \/ /\ route.typ = "hevc" /\ GoTo("main", "write") /\ UNCHANGED raised
          /\ toWrite' = [NoEntries EXCEPT ![seg] = Indexed(File, "hevc")]
       \/ /\ route.typ = "mp4" /\ python2 /\ GoTo("main", "write") /\ UNCHANGED raised
          /\ toWrite' = [NoEntries EXCEPT ![seg] = Mp4Index(route.boxes, <<ParameterSet>>)]
       \/ /\ route.typ = "mkv"
          /\ IF route.entry = Raises THEN Fail("main", "unreadable") /\ UNCHANGED toWrite
             ELSE toWrite' = [NoEntries EXCEPT ![seg] = route.entry] /\ GoTo("main", "write") /\ UNCHANGED raised
       \/ route.typ = "h264" /\ python2 /\ GoTo("main", "route") /\ toWrite' = <<>> /\ UNCHANGED raised
       \/ route.typ \in {"h264", "mp4"} /\ ~python2 /\ Fail("main", "unreadable") /\ UNCHANGED toWrite
    /\ UNCHANGED <<disk, seg, use, entry, todo, frames, open, last, from, got, decoder, gets>>

\* RawData opens its file with a module that is not imported.
OpenRaw == /\ pc["main"] = "index" /\ route.typ = "raw" /\ Fail("main", "NameError")
           /\ UNCHANGED <<disk, opened, todo, frames, open, last, from, got, decoder, gets>>

\* feed_ffmpeg_fcamera_input: the asynchronous generator that is to read the frames asked for is
\* not imported.  The input of ffmpeg is closed, with nothing in it.
FeedFrames == /\ pc["main"] = "feed" /\ Fail("main", "NameError") /\ ended' = TRUE
              /\ UNCHANGED <<disk, opened, todo, frames, open, last, from, got, fed, work, read, written, gets>>

\* The next file of the route, or its index if that was there at the beginning.
IndexFile ==
    /\ pc["main"] = "route" /\ Len(toWrite) < Len(route.files)
    /\ LET i == Len(toWrite) + 1
       IN  toWrite' = Append(toWrite, IF i \in Cached THEN cache[i] ELSE Indexed(route.files[i], "h264"))
    /\ UNCHANGED <<disk, seg, use, entry, pc, todo, frames, reader, decoder, gets>>

\* Every index of a route is there before the first is written.
IndexRoute ==
    /\ pc["main"] = "route" /\ Len(toWrite) = Len(route.files)
    /\ LET entries == IndexPstream(route.files, toWrite)
       IN  IF entries = Raises THEN Fail("main", "unreadable") /\ UNCHANGED toWrite
           ELSE toWrite' = entries /\ GoTo("main", "write") /\ UNCHANGED raised
    /\ UNCHANGED <<disk, seg, use, entry, todo, frames, open, last, from, got, decoder, gets>>

\* atomic_write_in_dir, one file after the other; what is there stays.
WriteIndex ==
    /\ pc["main"] = "write"
    /\ LET left == {s \in Segs : toWrite[s] # NoEntry /\ s \notin Cached}
           s == CHOOSE x \in left : \A y \in left : x <= y
       IN  IF left = {} THEN GoTo("main", "index") /\ UNCHANGED cache
           ELSE cache' = [cache EXCEPT ![s] = toWrite[s]] /\ UNCHANGED pc
    /\ UNCHANGED <<route, python2, opened, todo, frames, reader, decoder, gets>>

\* The index that a program makes which finds nothing on disk.
Made(r, s) ==
    CASE r.typ = "hevc" -> Indexed(r.files[s], "hevc")
      [] r.typ = "h264" -> IndexPstream(r.files, [i \in DOMAIN r.files |-> Indexed(r.files[i], "h264")])[s]
      [] r.typ = "mp4" -> Mp4Index(r.boxes, <<ParameterSet>>)
      [] OTHER -> r.entry

LoadIndex ==
    /\ pc["main"] = "index" /\ seg \in Cached
    /\ entry' = cache[seg] /\ toWrite' = <<>>
    /\ open' = TRUE
    /\ pc' = [main |-> IF route.typ = "mkv" /\ use = "iterate" THEN "each" ELSE IF use = "iterate" THEN use ELSE "ready",
              ahead |-> IF use \in {"ahead", "behind"} THEN "loop" ELSE "dead"]
    /\ UNCHANGED <<disk, seg, use, todo, frames, last, from, got, raised, decoder, gets>>

----------------------------------------------------------------------------
(* GOPFrameReader: get, _get_one, and the thread that reads ahead. *)

GetFrames == /\ pc["main"] = "ready" /\ gets < Gets /\ gets' = gets + 1
             /\ \E num \in 1 .. Count, count \in {1, 2} :
                  /\ num + count - 1 <= Count
                  /\ todo' = [todo EXCEPT !["main"] = [i \in 1 .. count |-> num + i - 1]]
                  /\ from' = num
             /\ got' = <<>> /\ GoTo("main", "in")
             /\ UNCHANGED <<disk, opened, frames, open, last, raised, decoder>>

Has(num) == \E i \in DOMAIN lru : lru[i].num = num
Frame(num) == (CHOOSE e \in ToSet(lru) : e.num = num).frame
Touch(cached, e) == LET s == Append(Only(cached, {i \in DOMAIN cached : cached[i].num # e.num}), e)
                    IN  IF Len(s) > CacheSize THEN Tail(s) ELSE s

\* The frame at the head of todo has been found.
Found(t, frame) ==
    /\ todo' = [todo EXCEPT ![t] = Tail(@)]
    /\ got' = (IF t = "main" THEN Append(got, frame) ELSE got)
    /\ GoTo(t, IF Len(todo[t]) > 1 THEN "in" ELSE IF t = "main" THEN "got" ELSE "loop")

\* The first look at the cache is made without the lock, and so is the use of it.
LookIn(t) == /\ pc[t] = "in" /\ route.typ # "mkv" /\ GoTo(t, IF Has(Head(todo[t])) THEN "take" ELSE "lock")
             /\ UNCHANGED <<disk, opened, todo, frames, reader, decoder, gets>>

Take(t) == /\ pc[t] = "take"
           /\ LET num == Head(todo[t])
              IN  IF Has(num)
                  THEN /\ Found(t, Frame(num)) /\ UNCHANGED raised
                       /\ lru' = Touch(lru, [num |-> num, frame |-> Frame(num)])
                  ELSE Fail(t, "KeyError") /\ UNCHANGED <<todo, got, lru>>
           /\ UNCHANGED <<disk, opened, lock, open, last, from, decoder, gets>>

Lock(t) == /\ pc[t] = "lock" /\ lock = "free"
           /\ lock' = (IF use = "get" THEN "free" ELSE t) /\ GoTo(t, "locked")
           /\ UNCHANGED <<disk, opened, todo, lru, reader, decoder, gets>>

\* A group of pictures goes into the cache, oldest first, and its frame num is taken from there.
PutGop(t, gop, ret) ==
    LET num == Head(todo[t])
        filled[i \in 0 .. Len(ret)] ==
          IF i = 0 THEN lru ELSE Touch(filled[i - 1], [num |-> gop.frame_b + i - 1, frame |-> ret[i]])
    IN  /\ lru' = filled[Len(ret)]
        /\ IF gop.frame_b + Len(ret) - num > CacheSize
           THEN Fail(t, "KeyError") /\ UNCHANGED <<todo, got>>
           ELSE Found(t, ret[num - gop.frame_b + 1]) /\ UNCHANGED raised

\* A second look; if need be the group of pictures is decoded.
Fetch(t) ==
    /\ pc[t] = "locked" /\ lock' = "free"
    /\ LET num == Head(todo[t])
       IN  \/ /\ Has(num) /\ Found(t, Frame(num)) /\ UNCHANGED raised
              /\ lru' = Touch(lru, [num |-> num, frame |-> Frame(num)])
           \/ ~Has(num) /\ \E gop \in {GetGop(File, entry, num)} : \E ret \in {DecodeGop(gop)} :
                IF Unreadable(num) \/ ret = Raises THEN Fail(t, "assert") /\ UNCHANGED <<todo, got, lru>>
                ELSE PutGop(t, gop, ret)
    /\ UNCHANGED <<disk, opened, open, last, from, decoder, gets>>

Notified == IF pc["ahead"] = "wait" THEN [pc EXCEPT !["ahead"] = "woken"] ELSE pc

\* The end of get: readahead_last, and the condition is notified.
Return == /\ pc["main"] = "got"
          /\ last' = from + Len(got)
          /\ pc' = [Notified EXCEPT !["main"] = "ready"]
          /\ UNCHANGED <<disk, opened, todo, frames, open, from, got, raised, decoder, gets>>

\* A mutant: wait() without the test of open_.
AheadWaitUntested == /\ pc["ahead"] = "loop" /\ GoTo("ahead", "wait")
                     /\ UNCHANGED <<disk, opened, todo, frames, reader, decoder, gets>>

\* Under the condition's lock: the test of open_, and wait().
AheadWait == /\ pc["ahead"] = "loop" /\ GoTo("ahead", IF open THEN "wait" ELSE "dead")
             /\ UNCHANGED <<disk, opened, todo, frames, reader, decoder, gets>>

AheadFrames ==
    IF use = "behind"
    THEN LET down == last - Readahead - 1
             first == (IF down > 0 THEN down ELSE 0) + 2
         IN  [i \in 1 .. last - first |-> last - i]
    ELSE LET end == IF last + Readahead - 1 < FrameCount(entry) THEN last + Readahead - 1 ELSE FrameCount(entry)
         IN  [i \in 1 .. end - last + 1 |-> last + i - 1]

AheadWoken == /\ pc["ahead"] = "woken"
              /\ IF open THEN /\ todo' = [todo EXCEPT !["ahead"] = AheadFrames]
                              /\ GoTo("ahead", IF AheadFrames = <<>> THEN "loop" ELSE "in")
                 ELSE GoTo("ahead", "dead") /\ UNCHANGED todo
              /\ UNCHANGED <<disk, opened, frames, reader, decoder, gets>>

Close == /\ pc["main"] = "ready" /\ open' = FALSE /\ GoTo("main", "notify")
         /\ UNCHANGED <<disk, opened, todo, frames, last, from, got, raised, decoder, gets>>

CloseNotify == /\ pc["main"] = "notify" /\ pc' = [Notified EXCEPT !["main"] = "join"]
               /\ UNCHANGED <<disk, opened, todo, frames, reader, decoder, gets>>

Join == /\ pc["main"] = "join" /\ pc["ahead"] = "dead" /\ GoTo("main", "done")
        /\ UNCHANGED <<disk, opened, todo, frames, reader, decoder, gets>>

----------------------------------------------------------------------------
(* MKVFrameReader, and FrameIterator over it. *)

\* Frames of an MKV file. What is written for the decoder are strings, which on Python 3 the stream refuses.
ReadMkv(nums) ==
    IF ~python2 THEN Fail("main", "TypeError") /\ UNCHANGED got
    ELSE \E frame \in route.frames :
           /\ frame.nums = nums
           /\ IF Len(frame.ret) # Len(nums) THEN Fail("main", "assert") /\ UNCHANGED got
              ELSE got' = got \o frame.ret /\ UNCHANGED raised /\ GoTo("main", IF use = "get" THEN "ready" ELSE "each")

GetMkv == /\ pc["main"] = "in" /\ route.typ = "mkv" /\ ReadMkv(todo["main"])
          /\ todo' = [todo EXCEPT !["main"] = <<>>]
          /\ UNCHANGED <<disk, opened, frames, open, last, from, decoder, gets>>

IterMkv == /\ pc["main"] = "each" /\ Len(got) < Count /\ ReadMkv(<<Len(got) + 1>>)
           /\ UNCHANGED <<disk, opened, todo, frames, open, last, from, decoder, gets>>

IterMkvEnd == /\ pc["main"] = "each" /\ Len(got) = Count /\ GoTo("main", "done")
              /\ UNCHANGED <<disk, opened, todo, frames, reader, decoder, gets>>

ReaderStep(t) == LookIn(t) \/ Take(t) \/ Lock(t) \/ Fetch(t)
MainStep == ReaderStep("main") \/ Return \/ Close \/ CloseNotify \/ Join
AheadStep == ReaderStep("ahead") \/ AheadWait \/ AheadWoken

----------------------------------------------------------------------------
(* GOPFrameIterator over VideoStreamDecompressor. *)

\* Frames that ffmpeg has put out: all but the last few, and all at the end of its input.
Decoded == LET all == Decode(fed)
           IN  IF ended THEN all ELSE SubSeq(all, 1, Len(all) - Delay)

\* The next group of pictures is written, unless enough of them are on their way.
IterWrite ==
    /\ pc["main"] = "iterate" /\ Len(work) < InFlight /\ written < FrameCount(entry)
    /\ LET gop == GetGop(File, entry, written + 1)
       IN  IF Unreadable(written + 1) THEN Fail("main", "assert") /\ UNCHANGED <<fed, work, written>>
           ELSE /\ fed' = fed \o gop.rawdat
                /\ work' = Append(work, <<gop.skip_frames, gop.num_frames>>)
                /\ written' = written + gop.num_frames
                /\ UNCHANGED <<pc, raised>>
    /\ UNCHANGED <<disk, opened, todo, frames, open, last, from, got, ended, read, gets>>

IterEos == /\ pc["main"] = "iterate" /\ Len(work) < InFlight /\ written >= FrameCount(entry) /\ ~ended
           /\ ended' = TRUE
           /\ UNCHANGED <<disk, opened, pc, todo, frames, reader, fed, work, read, written, gets>>

\* A frame is skipped or yielded: reading blocks until ffmpeg has one.
IterRead ==
    /\ pc["main"] = "iterate" /\ work # <<>> /\ (Len(work) >= InFlight \/ ended)
    /\ read < Len(Decoded) /\ read' = read + 1
    /\ LET g == Head(work)
       IN  IF g[1] > 0
           THEN work' = [work EXCEPT ![1] = <<g[1] - 1, g[2]>>] /\ UNCHANGED got
           ELSE /\ got' = Append(got, Decoded[read + 1])
                /\ work' = (IF g[2] = 1 THEN Tail(work) ELSE [work EXCEPT ![1] = <<0, g[2] - 1>>])
    /\ UNCHANGED <<disk, opened, pc, todo, frames, open, last, from, raised, fed, ended, written, gets>>

IterEnd == /\ pc["main"] = "iterate" /\ ended /\ work = <<>> /\ GoTo("main", "done")
           /\ UNCHANGED <<disk, opened, todo, frames, reader, decoder, gets>>

----------------------------------------------------------------------------
\* The program dies, or another one follows it; dying elsewhere leaves the same disk.
Restart ==
         /\ pc["main"] \in {"index", "route", "write", "done"}
         /\ seg' = 1 /\ use' = "none" /\ entry' = NoEntry /\ toWrite' = <<>>
         /\ pc' = Start /\ todo' = [t \in Threads |-> <<>>] /\ lru' = <<>> /\ lock' = "free"
         /\ open' = FALSE /\ last' = 0 /\ from' = 1 /\ got' = <<>> /\ raised' = "no"
         /\ fed' = <<>> /\ ended' = FALSE /\ work' = <<>> /\ read' = 0 /\ written' = 0
         /\ gets' = 0
         /\ UNCHANGED disk

IndexStep == MakeIndex \/ OpenRaw \/ IndexFile \/ IndexRoute \/ WriteIndex \/ LoadIndex
IterStep == IterWrite \/ IterEos \/ IterRead \/ IterEnd
MkvStep == GetMkv \/ IterMkv \/ IterMkvEnd
Step == Open \/ FeedFrames \/ IndexStep \/ MainStep \/ IterStep \/ MkvStep

ReaderNext == Step \/ GetFrames \/ AheadStep \/ Restart

\* Both threads run; nobody is bound to get more frames.
ReaderFairness == WF_readerVars(Step) /\ WF_readerVars(AheadStep)

ReaderSpec == ReaderInit /\ [][ReaderNext]_readerVars
ReaderFairSpec == ReaderSpec /\ ReaderFairness

----------------------------------------------------------------------------
(* Properties. *)

ReaderTypeOK ==
    /\ route \in Routes /\ python2 \in BOOLEAN /\ seg \in Segs
    /\ use \in {"none", "get", "ahead", "behind", "iterate", "feed"}
    /\ pc["main"] \in {"start", "index", "route", "write", "iterate", "each", "feed", "ready", "in", "take", "lock",
                       "locked", "got", "notify", "join", "done"}
    /\ pc["ahead"] \in {"none", "loop", "wait", "woken", "in", "take", "lock", "locked", "dead"}
    /\ lock \in Threads \cup {"free"} /\ Len(lru) <= CacheSize
    /\ raised \in {"no", "unreadable", "assert", "KeyError", "TypeError", "NameError"}
    /\ Len(work) <= InFlight /\ read \in Nat /\ gets \in 0 .. Gets

\* A frame that a reader has cached under a number, returned or yielded is the frame of the
\* segment with that number, and comes out decoded right: the index, the partial groups
\* of pictures put before a segment, the frames skipped and the cache agree with each other,
\* whichever program computed the index (framereader.py:928-1214).  Only the iteration over an
\* MP4 file yields its last group of pictures once more at the end: the loop at line 1048 leaves the last
\* frame out of its group, and get_gop begins anew for it.
FramesRight ==
    /\ \A e \in ToSet(lru) : e.frame = FrameOf(seg, e.num)
    /\ \A i \in DOMAIN got :
         IF use = "iterate" /\ route.typ = "mp4" /\ i >= FrameCount(entry)
         THEN got[i] = FrameOf(seg, LookupGop(entry.index, FrameCount(entry)).b + i - FrameCount(entry))
         ELSE got[i] = FrameOf(seg, from + i - 1)

\* What a caller asks for within the video it gets: decoding yields as many frames as the
\* index says (the assertions at framereader.py:997 and 1158), for every segment of a route that could
\* be indexed, and no frame is gone from the cache after it was put or seen there
\* (lines 985, 1002), unless the thread that reads ahead took its place meanwhile.
GetsSucceed == raised # "assert" /\ (raised = "KeyError" => use \in {"ahead", "behind"})

\* An index on disk is the one that a program makes of the segment which finds nothing there and
\* does not die, although the indexes of a route are written one after the other, and a program
\* that finds the first of them mixes what it loads with what it computes: the parts of groups of
\* pictures put before the segments come of indexes from both (framereader.py:326-414).
IndexesAgree == \A s \in Cached : cache[s] = Made(route, s)

\* A program that does not die comes to its end: the index is there once it was made,
\* the frames in flight are enough for the decoder to start and every frame is yielded
\* (GOPFrameIterator), and close() does not wait for a thread that
\* missed its notification (framereader.py:950-959).
ReadersEnd == pc["main"] # "start" ~> \/ pc["main"] = "start"
                                      \/ pc["main"] = "done" /\ (use = "iterate" /\ raised = "no" => Len(got) >= Count)
=============================================================================
