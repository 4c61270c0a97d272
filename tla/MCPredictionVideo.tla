------------------------- MODULE MCPredictionVideo -------------------------
EXTENDS PredictionVideo

\* Time runs in units of half a frame; the second anchor falls between two frames.
FrameTimes(n) == [i \in 1 .. n |-> 2 * i]
T_IDXS == <<0, 3, 4>>
HoldFrames == 2
Moving == 2

Rec0 == [video |-> "there", frames |-> 6, times |-> FrameTimes(6), moving |-> 6,
         logs |-> "zero", torque |-> [i \in 1 .. 6 |-> "low"], lka |-> <<<<3, TRUE>>>>]

\* Six recordings: a whole one, one without poses, one with a log and fewer poses than
\* frames, one of a single frame, one whose video does not open, one without a video.
Base == [name \in {"whole", "bare", "short", "single", "broken", "absent"} |->
  CASE name = "whole"  -> Rec0
    [] name = "bare"   -> [Rec0 EXCEPT !.frames = 4, !.times = << >>, !.torque = << >>,
                                       !.lka = << >>, !.moving = 0]
    [] name = "short"  -> [Rec0 EXCEPT !.frames = 5, !.times = FrameTimes(4), !.logs = "rows",
                                       !.torque = [i \in 1 .. 4 |-> "low"],
                                       !.lka = <<<<2, FALSE>>, <<5, TRUE>>, <<8, FALSE>>>>]
    [] name = "single" -> [Rec0 EXCEPT !.frames = 1]
    [] name = "broken" -> [Rec0 EXCEPT !.video = "unopenable"]
    [] name = "absent" -> [Rec0 EXCEPT !.video = "missing"]]

\* Every course of the torque, in the first recording.
AnyTorque == {[Base EXCEPT !["whole"].torque = t] : t \in [1 .. 6 -> {"low", "mid", "high"}]}

Plain == [segs |-> <<"whole">>, logs |-> "whole", rpy |-> NoRpy, calibrate |-> TRUE,
          teacher |-> TRUE, real |-> TRUE, badge |-> TRUE, total |-> 9, montage |-> 0]
Asked ==
  {Plain,
   [Plain EXCEPT !.logs = "short", !.total = 4, !.calibrate = FALSE],
   [Plain EXCEPT !.segs = <<"whole", "bare", "short">>],
   [Plain EXCEPT !.segs = <<"broken", "short", "whole">>, !.total = 7, !.teacher = FALSE],
   [Plain EXCEPT !.segs = <<"single", "bare">>, !.rpy = "given", !.real = FALSE],
   [Plain EXCEPT !.segs = <<"whole", "absent">>],
   [Plain EXCEPT !.montage = 3],
   [Plain EXCEPT !.segs = <<"bare", "whole">>, !.montage = 8],
   [Plain EXCEPT !.segs = <<"single">>, !.logs = "single", !.montage = 2]}
============================================================================
