-------------------------- MODULE PredictionVideo --------------------------
(***************************************************************************)
(* train/test_prediction_video.py: a video of what the student, and the    *)
(* teacher beside it, predict along one or more recorded segments.  It is  *)
(* decoded, inferred and written chunk by chunk; frames, poses, CAN        *)
(* samples, recurrent state and calibration must stay in step across       *)
(* chunks and change all at once where one segment ends and the next       *)
(* begins.                                                                 *)
(*                                                                         *)
(* Abstractions.  A frame is its number in its video, from 1.  A recurrent *)
(* state is the sequence of inputs it has absorbed since it was zero.  A   *)
(* row of the video says which frame is shown, what the models were given, *)
(* which calibration it is drawn with and what is drawn.                   *)
(***************************************************************************)
EXTENDS DriveSignals, FiniteSets

CONSTANTS Library,   \* what may be on the disk: functions from names to recordings
          Arguments, \* what may be asked for, see main (montage: 1 + FRAME_IDX, 0 for a video)
          Chunk      \* CHUNK_FRAMES

\* What the argument parser lets pass: at least one segment, and all of them known.
IsRequest(args, library) ==
    /\ args.segs \in Seq(DOMAIN library) /\ args.segs # << >> /\ args.logs \in DOMAIN library
    /\ {args.calibrate, args.teacher, args.real, args.badge} \subseteq BOOLEAN
    /\ args.total \in Nat /\ args.montage \in Nat

ASSUME VideoAssumption ==
    /\ Chunk \in Nat \ {0}
    /\ \A library \in Library :
          /\ \A name \in DOMAIN library : IsRecording(library[name])
          /\ \A args \in Arguments : IsRequest(args, library)

VARIABLES
  recs, req,            \* the recordings; the arguments
  pc, rpyCalib,         \* where it is; the calibration that goes for all segments
  seg, rpy, real, driver,   \* the segment at work and what was loaded for it
  cap, prev, written,   \* its frames decoded, the last one, its rows written
  student, teacher,     \* recurrent states
  yuv, rgb, row,        \* the chunk at work: inputs, images, rows written of it
  out, file, png        \* rows given to the writer; the file; the montage

segVars == <<seg, rpy, real, driver>>
capVars == <<cap, prev, written, student, teacher>>
chunkVars == <<yuv, rgb, row>>
output == <<out, file, png>>
videoVars == <<recs, req, pc, rpyCalib, segVars, capVars, chunkVars, output>>

NoPng == [image |-> 0, student |-> << >>]
Zero == "zero"
Raw == "raw"
Smaller(a, b) == IF a < b THEN a ELSE b
Rec == recs[req.segs[seg]]
Ended == {"returned", "raised", "killed"}

VideoInit ==
    /\ recs \in Library /\ req \in Arguments
    /\ pc = "main" /\ rpyCalib = NoRpy
    /\ seg = 0 /\ rpy = Zero /\ real = << >> /\ driver = << >>
    /\ cap = 0 /\ prev = 0 /\ written = 0 /\ student = << >> /\ teacher = << >>
    /\ yuv = << >> /\ rgb = << >> /\ row = 0
    /\ out = << >> /\ file = "earlier" /\ png = NoPng

----------------------------------------------------------------------------
(* main, and what comes before the first frame. *)

\* One calibration for all segments if it was given; for a single segment it is looked
\* for where --segment-logs says.
Resolve == /\ pc = "main"
           /\ rpyCalib' = IF req.rpy = NoRpy /\ Len(req.segs) = 1
                           THEN SegmentRpy(recs[req.logs]) ELSE req.rpy
           /\ pc' = IF req.montage = 0 THEN "check" ELSE "montage"
           /\ UNCHANGED <<recs, req, segVars, capVars, chunkVars, output>>

HasVideo(s) == recs[s].video # "missing"

\* Every segment must have a video before a model is loaded.
CheckVideos == /\ pc = "check"
               /\ pc' = IF \A i \in 1 .. Len(req.segs) : HasVideo(req.segs[i])
                        THEN "load" ELSE "raised"
               /\ UNCHANGED <<recs, req, rpyCalib, segVars, capVars, chunkVars, output>>

\* The models are loaded; then the file is opened, which truncates it.
LoadModels == /\ pc = "load"
              /\ pc' = "writer"
              /\ UNCHANGED <<recs, req, rpyCalib, segVars, capVars, chunkVars, output>>

OpenWriter == /\ pc = "writer"
              /\ file' = "open"
              /\ pc' = "segments"
              /\ UNCHANGED <<recs, req, rpyCalib, segVars, capVars, chunkVars, out, png>>

----------------------------------------------------------------------------
(* generate_prediction_video: the loop over the segments. *)

Enough == Len(out) >= req.total
More == seg < Len(req.segs) /\ ~Enough

\* A segment brings its own calibration, trajectory and steering, if it has them.
BeginSegment ==
    /\ pc = "segments" /\ More
    /\ seg' = seg + 1
    /\ LET rec == recs[req.segs[seg + 1]]
           own == IF rpyCalib # NoRpy THEN rpyCalib ELSE SegmentRpy(rec)
       IN /\ rpy' = IF own = NoRpy THEN Zero ELSE own
          /\ real' = IF req.real /\ rec.times # << >>
                     THEN [i \in 1 .. Len(rec.times) |-> RealPath(rec.times, i)] ELSE << >>
          /\ driver' = IF req.badge /\ HasDriver(rec) THEN DriverActive(rec) ELSE << >>
    /\ pc' = "open"
    /\ UNCHANGED <<recs, req, rpyCalib, capVars, chunkVars, output>>

\* All segments are done or the clip is long enough: the writer is released.
Finish == /\ pc = "segments" /\ ~More
          /\ file' = "closed"
          /\ pc' = "returned"
          /\ UNCHANGED <<recs, req, rpyCalib, segVars, capVars, chunkVars, out, png>>

----------------------------------------------------------------------------
(* _stream_segment *)

\* A mutant: the recurrent states outlive the segment.
OpenVideoCarriesState ==
    /\ pc = "open"
    /\ IF Rec.video = "unopenable" \/ Rec.frames = 0
       THEN pc' = "segments" /\ UNCHANGED capVars
       ELSE /\ pc' = "chunk"
            /\ cap' = 1 /\ prev' = 1 /\ written' = 0
            /\ UNCHANGED <<student, teacher>>
    /\ UNCHANGED <<recs, req, rpyCalib, segVars, chunkVars, output>>

\* A video that cannot be opened or has no frame is skipped.  The first frame is only
\* the one before the second; the states start at zero.
OpenVideo ==
    /\ pc = "open"
    /\ IF Rec.video = "unopenable" \/ Rec.frames = 0
       THEN pc' = "segments" /\ UNCHANGED capVars
       ELSE /\ pc' = "chunk"
            /\ cap' = 1 /\ prev' = 1 /\ written' = 0
            /\ student' = << >> /\ teacher' = << >>
    /\ UNCHANGED <<recs, req, rpyCalib, segVars, chunkVars, output>>

\* What this segment may still contribute; max_frames is fixed when it begins.
\* A mutant: the frames of the segments before are not subtracted.
RemainingOfTotal == req.total - written
Remaining == req.total - Len(out)
Want == Smaller(Chunk, Remaining)
Got == Smaller(Want, Rec.frames - cap)

\* A mutant: an empty chunk is not the end.
DecodeAgain ==
    /\ pc = "chunk" /\ Remaining > 0 /\ Got > 0
    /\ yuv' = [k \in 1 .. Got + 1 |-> IF k = 1 THEN prev ELSE cap + k - 1]
    /\ rgb' = [k \in 1 .. Got |-> cap + k]
    /\ row' = 0
    /\ prev' = yuv'[Got + 1]
    /\ cap' = cap + Got
    /\ pc' = "rows"
    /\ UNCHANGED <<recs, req, rpyCalib, segVars, written, student, teacher, output>>

\* The next frames behind the last one of the chunk before; none left ends the segment.
Decode ==
    /\ pc = "chunk" /\ Remaining > 0
    /\ IF Got = 0
       THEN pc' = "segments" /\ UNCHANGED <<chunkVars, cap, prev>>
       ELSE /\ yuv' = [k \in 1 .. Got + 1 |-> IF k = 1 THEN prev ELSE cap + k - 1]
            /\ rgb' = [k \in 1 .. Got |-> cap + k]
            /\ row' = 0
            /\ prev' = yuv'[Got + 1]
            /\ cap' = cap + Got
            /\ pc' = "rows"
    /\ UNCHANGED <<recs, req, rpyCalib, segVars, written, student, teacher, output>>

EndStream == /\ pc = "chunk" /\ Remaining = 0
             /\ pc' = "segments"
             /\ UNCHANGED <<recs, req, rpyCalib, segVars, capVars, chunkVars, output>>

\* frame_index0 + written: poses and commands are those of the frame shown.
Fidx == 2 + written
At(signal, otherwise) ==
    IF Fidx <= Len(signal) THEN signal[Fidx] ELSE otherwise

\* teacher | driven | student: as wide as the first two are there.
Panels(withTeacher, withReal) ==
    1 + (IF withTeacher THEN 1 ELSE 0) + (IF withReal THEN 1 ELSE 0)

\* One forward pass of each model, and a row of panels.
WriteRow ==
    /\ pc = "rows" /\ row < Len(rgb)
    /\ row' = row + 1
    /\ LET pair == [of |-> req.segs[seg], pair |-> <<yuv[row'], yuv[row' + 1]>>,
                    rpy |-> IF req.calibrate THEN rpy ELSE Raw]
       IN /\ student' = Append(student, pair)
          /\ teacher' = IF req.teacher THEN Append(teacher, pair) ELSE teacher
    /\ out' = Append(out,
           [seg |-> seg, image |-> rgb[row'], student |-> student', teacher |-> teacher',
            draw |-> rpy, path |-> At(real, NoPath), badge |-> At(driver, FALSE),
            panels |-> Panels(req.teacher, real # << >>)])
    /\ written' = written + 1
    /\ UNCHANGED <<recs, req, pc, rpyCalib, segVars, cap, prev, yuv, rgb, file, png>>

\* cv2.VideoWriter drops an image that is not of the size it was opened with, and says
\* nothing; a segment without poses has no panel for the path driven.
InFile == LET kept[k \in 0 .. Len(out)] ==
                  IF k = 0 THEN << >>
                  ELSE IF out[k].panels = Panels(req.teacher, req.real)
                       THEN Append(kept[k - 1], out[k]) ELSE kept[k - 1]
          IN kept[Len(out)]

\* A chunk that came up short of what was wanted was the last one of the segment.
EndChunk == /\ pc = "rows" /\ row = Len(rgb)
            /\ pc' = IF Remaining > 0 /\ Len(rgb) < Chunk THEN "segments" ELSE "chunk"
            /\ UNCHANGED <<recs, req, rpyCalib, segVars, capVars, chunkVars, output>>

----------------------------------------------------------------------------
(* generate_calib_montage: one frame, the model warmed up to it. *)

Montage ==
    /\ pc = "montage"
    /\ LET s == req.segs[1]
           own == IF rpyCalib # NoRpy THEN rpyCalib ELSE SegmentRpy(recs[s])
           base == IF own = NoRpy THEN Zero ELSE own
           n == Smaller(req.montage, recs[s].frames - 1)
       IN IF recs[s].video = "there" /\ recs[s].frames > 1
          THEN /\ png' = [image |-> n + 1,
                          student |-> [k \in 1 .. n |-> [of |-> s, pair |-> <<k, k + 1>>,
                                                         rpy |-> base]]]
               /\ pc' = "returned"
          ELSE pc' = "raised" /\ UNCHANGED png
    /\ UNCHANGED <<recs, req, rpyCalib, segVars, capVars, chunkVars, out, file>>

----------------------------------------------------------------------------

\* A model that is missing, a frame of another size, memory: an exception, and the
\* writer is released if it was open.
Raise == /\ pc \in {"load", "writer", "open", "chunk", "rows", "montage"}
         /\ pc' = "raised"
         /\ file' = IF file = "open" THEN "closed" ELSE file
         /\ UNCHANGED <<recs, req, rpyCalib, segVars, capVars, chunkVars, out, png>>

\* The process is killed; a file that was open is never completed.
Kill == /\ pc \notin Ended
        /\ pc' = "killed"
        /\ file' = IF file = "open" THEN "torn" ELSE file
        /\ UNCHANGED <<recs, req, rpyCalib, segVars, capVars, chunkVars, out, png>>

Step == \/ Resolve \/ CheckVideos \/ LoadModels \/ OpenWriter \/ BeginSegment \/ Finish
        \/ OpenVideo \/ Decode \/ EndStream \/ WriteRow \/ EndChunk \/ Montage

VideoNext == Step \/ Raise \/ Kill

VideoSpec == VideoInit /\ [][VideoNext]_videoVars
\* A process that is not killed goes on.
VideoFairSpec == VideoSpec /\ WF_videoVars(Step)

----------------------------------------------------------------------------

VideoTypeOK ==
    /\ recs \in Library /\ req \in Arguments
    /\ pc \in {"main", "check", "load", "writer", "segments", "open", "chunk", "rows",
               "montage"} \cup Ended
    /\ seg \in 0 .. Len(req.segs)
    /\ {cap, prev, written, row} \subseteq Nat
    /\ real \in Seq(Seq(Nat)) /\ driver \in Seq(BOOLEAN)
    /\ yuv \in Seq(Nat) /\ rgb \in Seq(Nat)
    /\ file \in {"earlier", "open", "closed", "torn"}

\* What a row about frame f of a segment must be, said without chunks and loops.

\* The inputs of all frames of the segment so far, each with the frame before it.
Warmed(s, f, calibration) ==
    [k \in 1 .. f - 1 |-> [of |-> s, pair |-> <<k, k + 1>>, rpy |-> calibration]]

\* "first future sample at/after each anchor", and none without the full horizon.
DrivenPath(times, f) ==
    IF f <= Len(times) /\ times[f] + Anchors[NumAnchors] <= times[Len(times)]
    THEN [k \in 1 .. NumAnchors |->
            CHOOSE j \in f .. Len(times) :
                /\ times[j] >= times[f] + Anchors[k]
                /\ \A i \in f .. j - 1 : times[i] < times[f] + Anchors[k]]
    ELSE NoPath

\* "rise at `hi`, hold while above `lo`, and keep holding for `hold_frames` after that":
\* the torque was high once and has not been low for longer than that since.
Overriding(torque, f) ==
    \E i \in 1 .. f : /\ torque[i] = "high"
                      /\ \A j \in i .. f - Hold : \E k \in j .. j + Hold : torque[k] # "low"

\* "openpilot is not commanding steer, OR it is but the human is overriding it".
Steering(rec, f) ==
    /\ f <= Len(rec.times) /\ rec.lka # << >>
    /\ \/ Overriding(rec.torque, f)
       \/ \E j \in 1 .. Len(rec.lka) :
             /\ ~rec.lka[j][2]
             /\ j = 1 \/ rec.lka[j][1] <= rec.times[f]
             /\ \A k \in j + 1 .. Len(rec.lka) : rec.lka[k][1] > rec.times[f]

Calibration(s) ==
    IF req.rpy # NoRpy THEN req.rpy
    ELSE LET own == SegmentRpy(recs[IF Len(req.segs) = 1 THEN req.logs ELSE s])
             other == IF own = NoRpy THEN SegmentRpy(recs[s]) ELSE own
         IN IF other = NoRpy THEN Zero ELSE other

Expected(i, f) ==
    LET s == req.segs[i]
        input == IF req.calibrate THEN Calibration(s) ELSE Raw
    IN [seg |-> i, image |-> f, student |-> Warmed(s, f, input),
        teacher |-> IF req.teacher THEN Warmed(s, f, input) ELSE << >>,
        draw |-> Calibration(s),
        path |-> IF req.real THEN DrivenPath(recs[s].times, f) ELSE NoPath,
        badge |-> req.badge /\ Steering(recs[s], f),
        panels |-> Panels(req.teacher, req.real /\ recs[s].times # << >>)]

\* "multiple segments are concatenated into one video, with the model's recurrent state
\* reset at each boundary" (test_prediction_video.py:701-703): wherever chunks and
\* segments end, a row shows the frame that the models were given last, warmed up by
\* this segment alone and without a gap, drawn with this segment's calibration, with the
\* trajectory and the badge of this very frame; and rows follow in order.
RowsAligned ==
    /\ \A k \in 1 .. Len(out) : out[k] = Expected(out[k].seg, out[k].image)
    /\ \A k \in 1 .. Len(out) :
          IF k > 1 /\ out[k].seg = out[k - 1].seg
          THEN out[k].image = out[k - 1].image + 1
          ELSE out[k].image = 2 /\ (k > 1 => out[k].seg > out[k - 1].seg)
    /\ png # NoPng =>
          png.student = Warmed(req.segs[1], png.image, Calibration(req.segs[1]))

\* "Returns (output_path, frames_written)" (test_prediction_video.py:705): a call that
\* returns has closed the file and written as many rows as were asked for, or as the
\* segments that can be read have between them; and all of them are in the file, if
\* every segment has the poses that a panel was asked of.
Readable(i) == LET rec == recs[req.segs[i]]
               IN IF rec.video = "there" /\ rec.frames > 0 THEN rec.frames - 1 ELSE 0
InAll == LET upTo[i \in 0 .. Len(req.segs)] == IF i = 0 THEN 0 ELSE upTo[i - 1] + Readable(i)
         IN upTo[Len(req.segs)]
FullLength ==
    pc = "returned" /\ req.montage = 0 =>
        /\ file = "closed"
        /\ Len(out) = Smaller(req.total, InAll)
        /\ (req.real => \A i \in 1 .. Len(req.segs) : recs[req.segs[i]].times # << >>) =>
              InFile = out

\* A render ends, however few frames there are and wherever the chunks end.
Ends == <>(pc \in Ended)

\* "For each T_IDXS anchor, take the first future sample at/after it"
\* (gt_real/generate_gt.py:176), "the same quantity" (test_prediction_video.py:222):
\* the plan of a frame is made of the samples its rendered path is made of.
GtTakesFirstSample ==
    \A s \in DOMAIN recs : \A i \in 1 .. PlansGt(recs[s].times) :
        FutureSteps(recs[s].times, i) = Samples(recs[s].times, i)
============================================================================
