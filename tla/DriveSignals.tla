---------------------------- MODULE DriveSignals ----------------------------
(***************************************************************************)
(* What the repository reads from a recorded drive besides its frames: the *)
(* trajectory that was driven, the camera's calibration, and who steered.  *)
(*                                                                         *)
(* A recording is a record                                                 *)
(*   video   "missing", "unopenable" or "there"                            *)
(*   frames  the number of its frames                                      *)
(*   times   when the poses of global_pose were taken, << >> without any   *)
(*   moving  how many of these poses are fast enough to calibrate from     *)
(*   logs    the liveCalibration rows of its log: "none", "zero", "rows"   *)
(*   torque  the driver's torque at each pose: "low", "mid" or "high"      *)
(*   lka     openpilot's steer commands, <<time, engaged>> in order        *)
(* Frames, poses and samples are numbered from 1, where Python starts at 0.*)
(* The k-th pose is that of the k-th frame; there may be fewer, or more.   *)
(* Torques are compared with two thresholds; levels stand for them.        *)
(***************************************************************************)
EXTENDS Naturals, Sequences

CONSTANTS Anchors,    \* T_IDXS: when after a frame the path is sampled
          Hold,       \* DRIVER_STEER_HOLD_S * fps
          MinMoving   \* poses it takes to calibrate

ASSUME SignalsAssumption ==
    /\ Anchors \in Seq(Nat) /\ Anchors # << >> /\ Anchors[1] = 0
    /\ \A k \in 1 .. Len(Anchors) - 1 : Anchors[k] < Anchors[k + 1]
    /\ Hold \in Nat /\ MinMoving \in Nat

\* The poses are one after the other, and the torque is interpolated at each of them.
IsRecording(rec) ==
    /\ rec.video \in {"missing", "unopenable", "there"} /\ rec.frames \in Nat
    /\ rec.times \in Seq(Nat) /\ rec.moving \in Nat /\ rec.logs \in {"none", "zero", "rows"}
    /\ \A i, j \in 1 .. Len(rec.times) : i < j => rec.times[i] < rec.times[j]
    /\ rec.torque \in Seq({"low", "mid", "high"}) /\ Len(rec.torque) = Len(rec.times)
    /\ rec.lka \in Seq(Nat \X BOOLEAN)

NumAnchors == Len(Anchors)
NoPath == << >>

----------------------------------------------------------------------------
(* The trajectory driven, twice. *)

\* The first sample at or after a time; one past the end if there is none.
FirstAfter(times, t) ==
    CHOOSE j \in 1 .. Len(times) + 1 :
        /\ j = Len(times) + 1 \/ times[j] >= t
        /\ \A i \in 1 .. j - 1 : times[i] < t

\* test_prediction_video.py: searchsorted for every anchor at once.
Samples(times, i) == [k \in 1 .. NumAnchors |-> FirstAfter(times, times[i] + Anchors[k])]

\* The loop breaks at the first frame without the whole horizon: it and the frames
\* after it have no path.
RealPath(times, i) ==
    IF \A j \in 1 .. i : Samples(times, j)[NumAnchors] <= Len(times)
    THEN Samples(times, i) ELSE NoPath

\* gt_real/generate_gt.py: one walk over the samples from the frame on, that moves to
\* the next anchor and the next sample together.
FutureSteps(times, i) ==
    LET taken[j \in 0 .. Len(times)] ==
            IF j < i THEN << >>
            ELSE LET t == taken[j - 1]
                 IN IF Len(t) < NumAnchors /\ times[j] - times[i] >= Anchors[Len(t) + 1]
                    THEN Append(t, j) ELSE t
    IN taken[Len(times)]

\* How many frames of a recording get a plan.
PlansGt(times) ==
    CHOOSE n \in 0 .. Len(times) :
        /\ \A i \in 1 .. n : Len(FutureSteps(times, i)) = NumAnchors
        /\ n = Len(times) \/ Len(FutureSteps(times, n + 1)) < NumAnchors

----------------------------------------------------------------------------
(* Who steered. *)

\* A latch: on at a high torque, held by a mid one, and for Hold samples after that.
Schmitt(torque) ==
    LET latch[i \in 0 .. Len(torque)] ==
            IF i = 0 THEN [on |-> FALSE, hold |-> 0]
            ELSE LET l == latch[i - 1]
                 IN IF torque[i] = "high" THEN [on |-> TRUE, hold |-> Hold]
                    ELSE IF l.on /\ torque[i] = "mid" THEN [on |-> TRUE, hold |-> Hold]
                    ELSE IF l.hold > 0 THEN [on |-> l.on, hold |-> l.hold - 1]
                    ELSE [on |-> FALSE, hold |-> 0]
    IN [i \in 1 .. Len(torque) |-> latch[i].on]

\* The last command before a frame holds; before the first one, the first one does.
Engaged(lka, t) ==
    LET before == {j \in 1 .. Len(lka) : lka[j][1] <= t}
        last == IF before = {} THEN 1 ELSE CHOOSE j \in before : \A k \in before : k <= j
    IN lka[last][2]

\* Without poses to align by, or without commands on the bus, there is no badge.
HasDriver(rec) == rec.times # << >> /\ rec.lka # << >>

DriverActive(rec) ==
    [i \in 1 .. Len(rec.times) |->
        ~Engaged(rec.lka, rec.times[i]) \/ Schmitt(rec.torque)[i]]

----------------------------------------------------------------------------
(* Calibration: from the log if it has any, else from the poses, else none. *)

NoRpy == "none"
LiveRpy(rec) == IF rec.logs = "rows" THEN "live" ELSE NoRpy
PoseRpy(rec) == IF rec.times # << >> /\ rec.moving >= MinMoving THEN "pose" ELSE NoRpy
SegmentRpy(rec) == IF LiveRpy(rec) # NoRpy THEN LiveRpy(rec) ELSE PoseRpy(rec)
============================================================================
