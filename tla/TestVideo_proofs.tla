-------------------------- MODULE TestVideo_proofs --------------------------
(***************************************************************************)
(* Proofs about test videos: of the launcher that has one rendered on a    *)
(* pod, and of the program that renders it there.                          *)
(*                                                                         *)
(* The launcher implements the pod fleet: each of its steps and of its     *)
(* script's steps is a step of PodFleet or leaves the pods alone.  What is *)
(* proved of the fleet therefore holds of the launcher, for every number   *)
(* of pods, GPU types, retries and runs, and whatever SSH commands fail.   *)
(* About the run itself, on a pod whose old script has ended and a volume  *)
(* that shows the truncated log at once (Alone): the log, the position in  *)
(* it and the script agree at every place of the launcher; before the      *)
(* script has truncated the log nothing was read, afterwards every line up *)
(* to the position has been taken note of.                                 *)
(*                                                                         *)
(* The renderer, for every set of recordings and arguments, every size of  *)
(* chunk, anchors and hold: what the code computes of a drive sample by    *)
(* sample, the path and the badge, is what it says it is (PathIsDriven,    *)
(* BadgeIsSteering); decoding, inference and writing stay in step through  *)
(* every chunk and segment (VideoIInv); each row that is written is the    *)
(* one that Expected names, and there are as many of them as can be read.  *)
(***************************************************************************)
EXTENDS TestVideoLauncher, PredictionVideo, PodFleet_proofs, SequenceTheorems,
        WellFoundedInduction

----------------------------------------------------------------------------
(* Sets of numbers. *)

\* A set of natural numbers has a least element.
LEMMA LeastExists ==
    ASSUME NEW S \in SUBSET Nat, S # {}
    PROVE  \E m \in S : \A n \in S : m <= n
<1>1. PICK m \in S : \A n \in S : <<n, m>> \notin OpToRel(<, Nat)
  BY NatLessThanWellFounded, WFMin
<1>2. ASSUME NEW n \in S PROVE m <= n
  <2>1. ~(n < m)
    BY <1>1, <1>2 DEF OpToRel
  <2> QED
    BY <2>1
<1> QED
  BY <1>2

\* A non-empty set of numbers up to n has a largest.
LEMMA LargestExists ==
    ASSUME NEW n \in Nat, NEW T \in SUBSET (1 .. n), T # {}
    PROVE  \E i \in T : \A j \in T : j <= i
<1> DEFINE D == {n - i : i \in T}
<1>1. D \subseteq Nat /\ D # {}
  <2>1. \A i \in T : i \in 1 .. n /\ n - i \in Nat
    OBVIOUS
  <2> QED
    BY <2>1
<1>2. PICK x \in D : \A y \in D : <<y, x>> \notin OpToRel(<, Nat)
  BY <1>1, NatLessThanWellFounded, WFMin
<1>3. \A y \in D : ~ (y < x)
  BY <1>1, <1>2 DEF OpToRel
<1>4. PICK i \in T : x = n - i
  BY <1>2
<1>5. \A j \in T : ~ (n - j < n - i)
  BY <1>3, <1>4
<1> QED
  BY <1>5
----------------------------------------------------------------------------
(* The launcher: its pods. *)

\* A step of the script touches no pod.
LEMMA ScriptKeepsPods ==
    ASSUME NEW r \in RunIds, ScriptStep(r) PROVE UNCHANGED fleetVars
BY DEF ScriptStep, ScriptStarts, Render, MarkFinished, PrintPath

\* A step of the launcher at work keeps its pod, leaves it or gives it back.
LEMMA LauncherKeepsOrEnds ==
    ASSUME LauncherStep \/ StopWatching
    PROVE  UNCHANGED fleetVars \/ Leave \/ GiveBack
<1>1. CASE Sync \/ Launch \/ PollLog \/ Check
  BY <1>1 DEF Sync, Launch, PollLog, Check, LeavePod
<1>2. CASE SetForced
  BY <1>2 DEF SetForced, LeavePod
<1>3. CASE Flush \/ Verify \/ Download
  BY <1>3 DEF Flush, Verify, Download, LeavePod
<1>4. CASE TerminatePod \/ StopWatching
  BY <1>4 DEF TerminatePod, StopWatching, LeavePod
<1> QED
  BY <1>1, <1>2, <1>3, <1>4 DEF LauncherStep

\* Each step is one of the fleet's.
LEMMA StepRefines == ASSUME [Next]_vars PROVE [FleetNext]_fleetVars
<1>1. ASSUME NEW request \in Requests, Invoke(request) PROVE FleetNext
  BY <1>1 DEF Invoke, FleetNext
<1>2. ASSUME NEW request \in Requests, Reuse(request) PROVE FleetNext
  BY <1>2 DEF Reuse, FleetNext
<1>3. CASE Boot
  BY <1>3 DEF Boot, FleetNext
<1>4. CASE LauncherStep \/ StopWatching
  BY <1>4, LauncherKeepsOrEnds DEF FleetNext
<1>5. ASSUME NEW r \in RunIds, ScriptStep(r) PROVE UNCHANGED fleetVars
  BY <1>5, ScriptKeepsPods
<1>6. CASE UNCHANGED vars
  BY <1>6 DEF vars
<1> QED
  BY <1>1, <1>2, <1>3, <1>4, <1>5, <1>6 DEF Next

\* The launcher implements the pod fleet.
THEOREM ImplementsFleet == Spec => FleetSpec
<1>1. Init => FleetInit
  BY DEF Init
<1> QED
  BY <1>1, StepRefines, PTL DEF Spec, FleetSpec

\* Over all its runs, reused pods, failed uploads and downloads and interrupts, a pod
\* that runs is in the launcher's hands or on record (runpod_lib.py:279-280).
THEOREM LauncherForgetsNoPod == Spec => []Accounted
BY ImplementsFleet, NoPodForgotten, PTL
----------------------------------------------------------------------------
(* The launcher: the run. *)

\* What the run is checked under.
Alone == ~SlowStart /\ ~ReuseBusy

\* The removal of a stale list and the start of the script do not fail unnoticed.
Reliable == SshMayFail \cap {"forced", "launch"} = {}

Before == {"boot", "sync", "forced", "launch"}
Watching == {"tail", "check", "flush", "verify", "download"}

Texts == {"start", "error", "finished"} \cup Outputs
Entries == [run : RunIds, what : Texts]
Logs == Seq(Entries)
Lines == 1 .. Len(log)

\* Where the script of the run is.
Stage == IF run = 0 THEN "off" ELSE script[run]
AtWork == Stage \in {"render", "mark", "path"}

\* The part of TypeOK that is not about the pods.
Types ==
    /\ lpc \in {"idle", "terminate"} \cup Before \cup Watching
    /\ run \in Versions
    /\ args \in [RunIds -> Requests]
    /\ nextLine \in Nat \ {0} /\ marker \in BOOLEAN /\ path \in Outputs \cup {"none"}
    /\ local \in Versions \cup {Torn}
    /\ script \in [RunIds -> {"off", "starting", "render", "mark", "path"}]
    /\ segments \in [RunIds -> Versions] /\ forced \in Versions
    /\ log \in Logs
    /\ video \in [Outputs -> Versions \cup {Torn}]

\* At most one script is at work, that of the run; none before the launcher starts it.
OneScript ==
    /\ \A r \in OnPod : r = run /\ args[r].output \in Outputs
    /\ lpc \in Before => OnPod = {}
    /\ lpc # "idle" => run # 0
    /\ lpc \in {"sync", "forced", "launch"} \cup Watching => args[run].output \in Outputs

\* The log and the video are as far as the script is.
Printed ==
    /\ \A i \in Lines : log[i].run <= run
    /\ lpc \in Before \/ Stage = "starting" => \A i \in Lines : log[i].run < run
    /\ AtWork => \A i \in Lines : log[i].run = run
    /\ Stage \in {"mark", "path"} => video[args[run].output] = run
    /\ \A i \in Lines : log[i].run = run =>
          /\ log[i].what = "finished" => Stage \in {"path", "off"}
          /\ log[i].what \in Outputs => /\ Stage = "off" /\ log[i].what = args[run].output
                                        /\ video[args[run].output] = run

\* What the launcher has read, and what it knows by it.
Seen ==
    /\ lpc \in Before \/ (lpc = "tail" /\ Stage = "starting") =>
          nextLine = 1 /\ ~marker /\ path = "none"
    /\ lpc \in Watching \ {"tail"} => Stage # "starting"
    /\ lpc \in Watching \cup {"terminate"} =>
          /\ nextLine <= Len(log) + 1
          /\ \A i \in 1 .. nextLine - 1 : log[i].what = "finished" => marker
          /\ marker => Stage \in {"path", "off"}
          /\ path # "none" => \E i \in Lines : log[i].what = path
    /\ lpc \in {"verify", "download", "terminate"} /\ Asked.output # "list" => marker
    /\ lpc = "terminate" /\ Asked.output = "list" => path = "none"
    /\ lpc = "download" => video[Remote] # 0

\* What is asked for is uploaded, taken and read in that order, if no start fails.
Wanted == IF Asked.force THEN run ELSE 0
Fresh ==
    /\ lpc = "launch" \/ Stage = "starting" => forced = Wanted
    /\ AtWork \/ (\E i \in Lines : log[i].run = run) => segments[run] = Wanted
    /\ lpc \in Watching \/ (lpc = "terminate" /\ Asked.output # "list") =>
          Stage = "starting" \/ \A i \in Lines : log[i].run = run

IInv == Types /\ OneScript /\ Printed /\ Seen /\ TerminatedWithFile /\ (Reliable => Fresh)

\* Reading to the end of the log: every line from the position on is taken note of.
LEMMA ReadLinesReads ==
    ASSUME log \in Logs, nextLine \in Nat \ {0}, nextLine <= Len(log) + 1,
           marker \in BOOLEAN, path \in Outputs \cup {"none"}, ReadLines
    PROVE  /\ nextLine' = Len(log) + 1
           /\ marker' = (marker \/ \E i \in nextLine .. Len(log) : log[i].what = "finished")
           /\ path' = path \/ \E i \in Lines : log[i].what = path' /\ path' \in Outputs
<1> DEFINE new == SubSeq(log, nextLine, Len(log))
           paths == {i \in 1 .. Len(new) : new[i].what \in Outputs}
<1>1. Len(log) \in Nat /\ \A i \in nextLine .. Len(log) : log[i] \in Entries
  <2>1. Len(log) \in Nat /\ \A i \in 1 .. Len(log) : log[i] \in Entries
    BY LenProperties, ElementOfSeq DEF Logs
  <2> QED
    BY <2>1
<1>2. /\ Len(new) = Len(log) - nextLine + 1
      /\ \A i \in 1 .. Len(new) : new[i] = log[nextLine + i - 1]
  BY <1>1, SubSeqProperties
<1>3. nextLine' = nextLine + Len(new)
  BY DEF ReadLines
<1>4. marker' = (marker \/ \E i \in 1 .. Len(new) : new[i].what = "finished")
  BY DEF ReadLines
<1>5. path' = IF paths = {} THEN path
              ELSE new[CHOOSE i \in paths : \A j \in paths : j <= i].what
  BY DEF ReadLines
<1> HIDE DEF new
<1>6. (\E i \in 1 .. Len(new) : new[i].what = "finished")
        <=> \E i \in nextLine .. Len(log) : log[i].what = "finished"
  <2>1. ASSUME NEW i \in nextLine .. Len(log), log[i].what = "finished"
        PROVE  \E j \in 1 .. Len(new) : new[j].what = "finished"
    <3>1. i - nextLine + 1 \in 1 .. Len(new) /\ nextLine + (i - nextLine + 1) - 1 = i
      BY <1>1, <1>2
    <3> QED
      BY <1>2, <2>1, <3>1
  <2>2. ASSUME NEW j \in 1 .. Len(new), new[j].what = "finished"
        PROVE  \E i \in nextLine .. Len(log) : log[i].what = "finished"
    <3>1. nextLine + j - 1 \in nextLine .. Len(log) /\ new[j] = log[nextLine + j - 1]
      BY <1>1, <1>2
    <3> QED
      BY <2>2, <3>1
  <2> QED
    BY <2>1, <2>2
<1>7. path' = path \/ \E i \in Lines : log[i].what = path' /\ path' \in Outputs
  <2>1. CASE paths = {}
    BY <1>5, <2>1
  <2>2. CASE paths # {}
    <3>1. \E i \in paths : \A j \in paths : j <= i
      <4>1. Len(new) \in Nat /\ paths \in SUBSET (1 .. Len(new))
        BY <1>1, <1>2
      <4> HIDE DEF paths
      <4> QED
        BY <2>2, <4>1, LargestExists
    <3> DEFINE last == CHOOSE i \in paths : \A j \in paths : j <= i
    <3>2. last \in paths
      BY <3>1
    <3>3. path' = new[last].what
      BY <1>5, <2>2
    <3> HIDE DEF last
    <3>4. last \in 1 .. Len(new) /\ new[last].what \in Outputs
      BY <3>2
    <3>5. nextLine + last - 1 \in Lines /\ new[last] = log[nextLine + last - 1]
      BY <1>1, <1>2, <3>4 DEF Lines
    <3> QED
      BY <3>3, <3>4, <3>5 DEF last
  <2> QED
    BY <2>1, <2>2
<1>8. nextLine' = Len(log) + 1
  BY <1>1, <1>2, <1>3
<1> QED
  BY <1>4, <1>6, <1>7, <1>8

\* One more line in the log.
LEMMA LogGrows ==
    ASSUME Types, NEW r \in RunIds, NEW what \in Texts, log' = Append(log, Line(r, what))
    PROVE  /\ log' \in Logs /\ Len(log) \in Nat /\ Len(log') = Len(log) + 1
           /\ log'[Len(log')] = Line(r, what)
           /\ \A i \in Lines' : (i \in Lines /\ log'[i] = log[i]) \/ (i = Len(log') /\ log'[i] = Line(r, what))
           /\ \A i \in Lines : i \in Lines' /\ log'[i] = log[i]
<1>1. Line(r, what) \in Entries /\ log \in Logs
  BY DEF Line, Entries, Types
<1>2. Len(log) \in Nat
  BY <1>1, LenProperties DEF Logs
<1>3. /\ log' \in Logs /\ Len(log') = Len(log) + 1
      /\ \A i \in 1 .. Len(log) : log'[i] = log[i]
      /\ log'[Len(log) + 1] = Line(r, what)
  BY <1>1, AppendProperties DEF Logs
<1> QED
  BY <1>2, <1>3 DEF Lines

\* A step of the script: the only one at work, of the run that the launcher follows.
LEMMA ScriptStepKeeps ==
    ASSUME Alone, IInv, NEW r \in RunIds, ScriptStep(r)
    PROVE  IInv'
<1>1. /\ Types /\ r = run /\ run \in RunIds /\ Stage = script[run] /\ args[run].output \in Outputs
      /\ lpc \notin Before /\ Stage # "off"
  BY DEF IInv, OneScript, OnPod, ScriptStep, ScriptStarts, Render, MarkFinished, PrintPath, Stage,
         RunIds, TestVideoAssumption
<1>2. /\ UNCHANGED <<lpc, run, args, nextLine, marker, path, local, forced>>
      /\ \E stage \in {"off", "render", "mark", "path"} : script' = [script EXCEPT ![r] = stage]
  BY DEF ScriptStep, ScriptStarts, Render, MarkFinished, PrintPath, launcherVars, watchVars
<1>3. script' \in [RunIds -> {"off", "starting", "render", "mark", "path"}] /\ Stage' = script'[run]
  BY <1>1, <1>2 DEF Types, Stage
<1>4. OneScript'
  BY <1>1, <1>2, <1>3 DEF IInv, OneScript, OnPod, Types
<1>5. lpc \notin {"verify", "download", "terminate"} \/ Stage = "path"
  BY <1>1 DEF IInv, Seen, Outputs, Asked, Watching
<1>6. CASE ScriptStarts(r)
  <2>1. /\ Stage = "starting" /\ Stage' = "render" /\ log' = <<Line(run, "start")>>
        /\ segments' = [segments EXCEPT ![run] = forced] /\ UNCHANGED video
    BY <1>1, <1>3, <1>6 DEF ScriptStarts, Types
  <2>2. log' \in Logs /\ Len(log') = 1 /\ log'[1] = Line(run, "start") /\ Lines' = {1}
    BY <1>1, <2>1 DEF Logs, Entries, Line, Texts, Lines
  <2>3. Types'
    BY <1>1, <1>2, <1>3, <2>1, <2>2 DEF Types
  <2>4. lpc \in {"idle", "tail"} /\ (lpc = "tail" => nextLine = 1 /\ ~marker /\ path = "none")
    BY <1>1, <1>5, <2>1 DEF IInv, Seen, Types, Watching
  <2>5. Printed'
    BY <1>1, <1>2, <2>1, <2>2 DEF Printed, Line, Outputs, AtWork, Versions, RunIds, TestVideoAssumption
  <2>6. Seen' /\ TerminatedWithFile'
    BY <1>2, <2>1, <2>2, <2>4 DEF Seen, TerminatedWithFile, Watching, Before
  <2>7. Reliable => Fresh'
    BY <1>1, <1>2, <2>1, <2>2 DEF IInv, Fresh, Wanted, Line, Types, Asked
  <2> QED
    BY <1>4, <2>3, <2>5, <2>6, <2>7 DEF IInv
<1>7. CASE Render(r)
  <2>1. Stage = "render" /\ UNCHANGED segments /\ \A i \in Lines : log[i].run = run
    BY <1>1, <1>7 DEF Render, IInv, Printed, AtWork
  <2>2. CASE /\ video' = [video EXCEPT ![args[r].output] = r] /\ script' = [script EXCEPT ![r] = "mark"]
             /\ UNCHANGED log
    <3>1. Stage' = "mark" /\ video'[args[run].output] = run
          /\ video' \in [Outputs -> Versions \cup {Torn}]
      BY <1>1, <1>3, <2>2 DEF Types, Versions, RunIds
    <3>2. Types'
      BY <1>1, <1>2, <1>3, <2>1, <2>2, <3>1 DEF Types
    <3>3. Printed'
      BY <1>1, <1>2, <2>1, <2>2, <3>1 DEF IInv, Printed, AtWork, Lines
    <3>4. Seen' /\ TerminatedWithFile'
      BY <1>2, <1>5, <2>1, <2>2, <3>1 DEF IInv, Seen, TerminatedWithFile, Lines, Watching, Before, Asked
    <3>5. Reliable => Fresh'
      BY <1>1, <1>2, <2>1, <2>2, <3>1 DEF IInv, Fresh, Wanted, Lines, AtWork, Asked
    <3> QED
      BY <1>4, <3>2, <3>3, <3>4, <3>5 DEF IInv
  <2>3. CASE /\ video' \in {video, [video EXCEPT ![args[r].output] = Torn]}
             /\ script' = [script EXCEPT ![r] = "off"]
             /\ log' = Append(log, Line(r, "error"))
    <3>1. Stage' = "off" /\ video' \in [Outputs -> Versions \cup {Torn}]
      BY <1>1, <1>3, <2>3 DEF Types
    <3>2. /\ log' \in Logs /\ Len(log) \in Nat /\ Len(log') = Len(log) + 1
          /\ \A i \in Lines' : (i \in Lines /\ log'[i] = log[i]) \/ log'[i] = Line(run, "error")
          /\ \A i \in Lines : i \in Lines' /\ log'[i] = log[i]
      BY <1>1, <2>3, LogGrows DEF Texts
    <3>3. Types'
      BY <1>1, <1>2, <1>3, <2>1, <3>1, <3>2 DEF Types
    <3>4. Printed'
      BY <1>1, <1>2, <2>1, <3>1, <3>2 DEF IInv, Printed, AtWork, Line, Outputs, RunIds
    <3>5. Seen' /\ TerminatedWithFile'
      <4>1. \A i \in 1 .. nextLine - 1 : lpc \in Watching => i \in Lines
        BY <1>1, <3>2 DEF IInv, Seen, Lines, Types
      <4> QED
        BY <1>1, <1>2, <1>5, <2>1, <3>1, <3>2, <4>1
           DEF IInv, Seen, TerminatedWithFile, Types, Watching, Before, Asked
    <3>6. Reliable => Fresh'
      BY <1>1, <1>2, <2>1, <3>1, <3>2 DEF IInv, Fresh, Wanted, AtWork, Line, Asked
    <3> QED
      BY <1>4, <3>3, <3>4, <3>5, <3>6 DEF IInv
  <2> QED
    BY <1>7, <2>2, <2>3 DEF Render
<1>8. CASE MarkFinished(r) \/ PrintPath(r)
  <2>1. PICK what \in {"finished"} \cup Outputs :
          /\ log' = Append(log, Line(run, what)) /\ UNCHANGED <<segments, video>>
          /\ IF what = "finished" THEN Stage = "mark" /\ Stage' = "path"
                                  ELSE Stage = "path" /\ Stage' = "off" /\ what = args[run].output
    BY <1>1, <1>3, <1>8 DEF MarkFinished, PrintPath, Types, Outputs
  <2>2. what \in Texts
    BY <2>1 DEF Texts
  <2>3. /\ log' \in Logs /\ Len(log) \in Nat /\ Len(log') = Len(log) + 1
        /\ \A i \in Lines' : (i \in Lines /\ log'[i] = log[i]) \/ log'[i] = Line(run, what)
        /\ \A i \in Lines : i \in Lines' /\ log'[i] = log[i]
    BY <1>1, <2>1, <2>2, LogGrows
  <2>4. Types'
    BY <1>1, <1>2, <1>3, <2>1, <2>3 DEF Types
  <2>5. /\ Stage \in {"mark", "path"} /\ Stage' \in {"path", "off"} /\ AtWork
        /\ what \in Outputs => Stage' = "off" /\ what = args[run].output
    BY <2>1 DEF AtWork, Outputs
  <2>6. /\ video[args[run].output] = run
        /\ \A i \in Lines : log[i].run = run /\ log[i].what \notin Outputs
    BY <1>1, <2>5 DEF IInv, Printed
  <2>7. Printed'
    <3>1. \A i \in Lines' : /\ log'[i].run = run
                            /\ log'[i].what \in Outputs => what \in Outputs /\ log'[i].what = what
      BY <2>3, <2>6 DEF Line
    <3>2. \A i \in Lines' : log'[i].run <= run'
      BY <1>1, <1>2, <3>1 DEF RunIds
    <3>3. \A i \in Lines' : log'[i].run = run'
      BY <1>2, <3>1
    <3>4. lpc' \notin Before /\ Stage' # "starting"
      BY <1>1, <1>2, <2>5
    <3>5. video'[args'[run'].output] = run'
      BY <1>2, <2>1, <2>6
    <3>6. \A i \in Lines' : log'[i].what \in Outputs => Stage' = "off" /\ log'[i].what = args'[run'].output
      BY <1>2, <2>5, <3>1
    <3> QED
      BY <2>5, <3>2, <3>3, <3>4, <3>5, <3>6 DEF Printed
  <2>8. Seen' /\ TerminatedWithFile'
    <3>1. \A i \in 1 .. nextLine - 1 : lpc \in Watching \cup {"terminate"} => i \in Lines
      BY <1>1, <2>3 DEF IInv, Seen, Lines, Types
    <3>2. UNCHANGED <<lpc, run, args, nextLine, marker, path, local, video>>
      BY <1>2, <2>1
    <3>3. lpc \in Watching \cup {"terminate"} =>
            /\ nextLine <= Len(log') + 1
            /\ \A i \in 1 .. nextLine - 1 : log'[i].what = "finished" => marker
            /\ path # "none" => \E i \in Lines' : log'[i].what = path
      BY <1>1, <2>3, <3>1 DEF IInv, Seen, Types
    <3>4. lpc' \notin Before /\ Stage' # "starting"
      BY <1>1, <1>2, <2>5
    <3>5. Seen'
      BY <2>5, <3>2, <3>3, <3>4 DEF IInv, Seen, Asked, Remote
    <3> QED
      BY <3>2, <3>5 DEF IInv, TerminatedWithFile, Asked, Remote
  <2>9. Reliable => Fresh'
    <3>1. UNCHANGED <<lpc, run, args, segments, forced>>
      BY <1>2, <2>1
    <3>2. \A i \in Lines' : log'[i].run = run'
      BY <2>3, <2>6, <3>1 DEF Line
    <3>3. lpc' \notin Before /\ Stage' # "starting"
      BY <1>1, <1>2, <2>5
    <3> QED
      BY <2>5, <3>1, <3>2, <3>3 DEF IInv, Fresh, Wanted, Asked, Before
  <2> QED
    BY <1>4, <2>4, <2>7, <2>8, <2>9 DEF IInv
<1> QED
  BY <1>6, <1>7, <1>8 DEF ScriptStep

\* A new run, of which there is nothing in the log yet.
LEMMA BeginKeeps ==
    ASSUME Alone, IInv, NEW request \in Requests, Invoke(request) \/ Reuse(request)
    PROVE  IInv'
<1>1. Types /\ OnPod = {} /\ lpc = "idle" /\ run < Runs
  BY DEF IInv, Invoke, Reuse, Begin, Alone
<1>2. /\ run' = run + 1 /\ args' = [args EXCEPT ![run + 1] = request]
      /\ nextLine' = 1 /\ marker' = FALSE /\ path' = "none"
      /\ UNCHANGED <<local, script, segments, log, video, forced>>
  BY DEF Invoke, Reuse, Begin, scriptVars
<1>3. run \in Nat /\ run' \in RunIds /\ Runs \in Nat
  BY <1>1, <1>2, TestVideoAssumption DEF Types, Versions, RunIds
<1>4. args' \in [RunIds -> Requests] /\ args'[run'] = request
  BY <1>1, <1>2, <1>3 DEF Types
<1>5. lpc' \in {"boot", "sync", "terminate"}
      /\ (lpc' = "boot" \/ IF request.output = "list" THEN lpc' = "terminate" ELSE lpc' = "sync")
  BY <1>4 DEF Invoke, Reuse, Start, Asked
<1>6. OnPod' = {} /\ Stage' = "off"
  BY <1>1, <1>2, <1>3 DEF OnPod, Stage
<1>7. Types'
  <2>1. run' \in Versions /\ nextLine' \in Nat \ {0}
    BY <1>2, <1>3 DEF Versions, RunIds
  <2> QED
    BY <1>1, <1>2, <1>4, <1>5, <2>1 DEF Types, Before, Watching
<1>8. OneScript'
  <2>1. lpc' = "sync" => args'[run'].output \in Outputs
    BY <1>4, <1>5 DEF Requests, Listing
  <2> QED
    BY <1>3, <1>5, <1>6, <2>1 DEF OneScript, Watching, RunIds
<1>9. Len(log) \in Nat /\ \A i \in Lines : log[i] \in Entries /\ log[i].run < run'
  <2>1. Len(log) \in Nat /\ \A i \in Lines : log[i] \in Entries
    BY <1>1, LenProperties, ElementOfSeq DEF Types, Logs, Lines
  <2> QED
    BY <1>2, <1>3, <2>1 DEF IInv, Printed, Entries, RunIds
<1>10. Printed'
  <2>1. \A i \in Lines : log[i].run < run' /\ log[i].run \in Nat
    BY <1>9 DEF Entries, RunIds
  <2> QED
    BY <1>2, <1>3, <1>6, <2>1 DEF Printed, AtWork, Lines, RunIds
<1>11. Seen' /\ TerminatedWithFile'
  BY <1>2, <1>4, <1>5, <1>6, <1>9 DEF Seen, TerminatedWithFile, Watching, Before, Asked
<1>12. Fresh'
  <2>1. \A i \in Lines : log[i].run # run'
    BY <1>3, <1>9 DEF Entries, RunIds
  <2> QED
    BY <1>2, <1>4, <1>5, <1>6, <2>1 DEF Fresh, AtWork, Watching, Lines, Asked
<1> QED
  BY <1>7, <1>8, <1>10, <1>11, <1>12 DEF IInv

\* The launcher before and after it watches the run.
LEMMA WorkKeeps ==
    ASSUME Alone, IInv, Boot \/ Sync \/ SetForced \/ Check \/ Verify \/ StopWatching
    PROVE  IInv'
<1> USE DEF watchVars, scriptVars
<1>1. /\ Types /\ UNCHANGED <<run, args, nextLine, marker, path, local, script, segments, log, video>>
      /\ lpc # "idle"
  BY DEF IInv, Boot, Sync, SetForced, Check, Verify, StopWatching
<1>2. CASE Boot
  <2> USE DEF Boot, Start
  <2>1. args[run] \in Requests
    BY <1>1 DEF IInv, Types, OneScript, Versions, RunIds
  <2>2. Asked.output # "list" => args[run].output \in Outputs
    BY <2>1 DEF Requests, Listing, Asked
  <2>3. Types' /\ OneScript' /\ Printed'
    BY <1>1, <1>2, <2>2 DEF IInv, Types, OneScript, Printed, OnPod, Stage, AtWork, Lines, Before, Watching
  <2>4. Seen' /\ TerminatedWithFile'
    BY <1>1, <1>2 DEF IInv, Types, Seen, TerminatedWithFile, OneScript, Stage, Lines, Before, Watching, Asked, Remote
  <2>5. Reliable => Fresh'
    BY <1>1, <1>2 DEF IInv, Types, OneScript, Fresh, Reliable, Wanted, Stage, AtWork, Lines, Before, Watching, Asked
  <2> QED
    BY <2>3, <2>4, <2>5 DEF IInv
<1>3. CASE Sync
  <2> USE DEF Sync, LeavePod
  <2>1. Types' /\ OneScript' /\ Printed'
    BY <1>1, <1>3 DEF IInv, Types, OneScript, Printed, OnPod, Stage, AtWork, Lines, Before, Watching
  <2>2. Seen' /\ TerminatedWithFile'
    BY <1>1, <1>3 DEF IInv, Types, Seen, TerminatedWithFile, OneScript, Stage, Lines, Before, Watching, Asked, Remote
  <2>3. Reliable => Fresh'
    BY <1>1, <1>3 DEF IInv, Types, OneScript, Fresh, Reliable, Wanted, Stage, AtWork, Lines, Before, Watching, Asked
  <2> QED
    BY <2>1, <2>2, <2>3 DEF IInv
<1>4. CASE SetForced
  <2> USE DEF SetForced, LeavePod, SshFails
  <2>1. forced' \in Versions
    BY <1>1, <1>4, TestVideoAssumption DEF Types, Versions
  <2>2. Types' /\ OneScript' /\ Printed'
    BY <1>1, <1>4, <2>1 DEF IInv, Types, OneScript, Printed, OnPod, Stage, AtWork, Lines, Before, Watching
  <2>3. Seen' /\ TerminatedWithFile'
    BY <1>1, <1>4 DEF IInv, Types, Seen, TerminatedWithFile, OneScript, Stage, Lines, Before, Watching, Asked, Remote
  <2>4. Reliable => Fresh'
    BY <1>1, <1>4 DEF IInv, Types, OneScript, Fresh, Reliable, Wanted, Stage, AtWork, Lines, Before, Watching, Asked
  <2> QED
    BY <2>2, <2>3, <2>4 DEF IInv
<1>5. CASE Check
  <2> USE DEF Check
  <2>1. Types' /\ OneScript' /\ Printed'
    BY <1>1, <1>5 DEF IInv, Types, OneScript, Printed, OnPod, Stage, AtWork, Lines, Before, Watching
  <2>2. Seen' /\ TerminatedWithFile'
    BY <1>1, <1>5 DEF IInv, Types, Seen, TerminatedWithFile, OneScript, Stage, Lines, Before, Watching, Asked, Remote
  <2>3. Reliable => Fresh'
    BY <1>1, <1>5 DEF IInv, Types, OneScript, Fresh, Reliable, Wanted, Stage, AtWork, Lines, Before, Watching, Asked
  <2> QED
    BY <2>1, <2>2, <2>3 DEF IInv
<1>6. CASE Verify
  <2> USE DEF Verify, LeavePod
  <2>1. Types' /\ OneScript' /\ Printed'
    BY <1>1, <1>6 DEF IInv, Types, OneScript, Printed, OnPod, Stage, AtWork, Lines, Before, Watching
  <2>2. Seen' /\ TerminatedWithFile'
    BY <1>1, <1>6 DEF IInv, Types, Seen, TerminatedWithFile, OneScript, Stage, Lines, Before, Watching, Asked, Remote
  <2>3. Reliable => Fresh'
    BY <1>1, <1>6 DEF IInv, Types, OneScript, Fresh, Reliable, Wanted, Stage, AtWork, Lines, Before, Watching, Asked
  <2> QED
    BY <2>1, <2>2, <2>3 DEF IInv
<1>7. CASE StopWatching
  <2> USE DEF StopWatching, LeavePod
  <2>1. Types' /\ OneScript' /\ Printed'
    BY <1>1, <1>7 DEF IInv, Types, OneScript, Printed, OnPod, Stage, AtWork, Lines, Before, Watching
  <2>2. Seen' /\ TerminatedWithFile'
    BY <1>1, <1>7 DEF IInv, Types, Seen, TerminatedWithFile, OneScript, Stage, Lines, Before, Watching, Asked, Remote
  <2>3. Reliable => Fresh'
    BY <1>1, <1>7 DEF IInv, Types, OneScript, Fresh, Reliable, Wanted, Stage, AtWork, Lines, Before, Watching, Asked
  <2> QED
    BY <2>1, <2>2, <2>3 DEF IInv
<1> QED
  BY <1>2, <1>3, <1>4, <1>5, <1>6, <1>7

\* The script is started, or is not, and then nothing of the run is ever in the log.
LEMMA LaunchKeeps ==
    ASSUME Alone, IInv, Launch
    PROVE  IInv'
<1>1. /\ Types /\ lpc = "launch" /\ lpc' = "tail" /\ run \in RunIds /\ OnPod = {} /\ Stage = "off"
      /\ args[run].output \in Outputs /\ nextLine = 1 /\ ~marker /\ path = "none"
      /\ \A i \in Lines : log[i].run < run
  BY DEF IInv, Launch, Types, OneScript, Printed, Seen, Before, Versions, RunIds, OnPod, Stage
<1>2. /\ UNCHANGED <<run, args, nextLine, marker, path, local, segments, log, forced, video>>
      /\ \/ script' = [script EXCEPT ![run] = "starting"]
         \/ ~Reliable /\ UNCHANGED script
  BY DEF Launch, SshFails, Reliable, watchVars
<1>3. /\ script' \in [RunIds -> {"off", "starting", "render", "mark", "path"}]
      /\ Stage' \in {"off", "starting"} /\ Stage' = script'[run]
      /\ (Reliable => Stage' = "starting") /\ \A r \in OnPod' : r = run
  <2>1. /\ script \in [RunIds -> {"off", "starting", "render", "mark", "path"}]
        /\ \A r \in RunIds : script[r] = "off"
    BY <1>1 DEF Types, OnPod
  <2>2. run # 0
    BY <1>1 DEF RunIds
  <2> QED
    BY <1>1, <1>2, <2>1, <2>2 DEF Stage, OnPod
<1>4. Types' /\ OneScript'
  BY <1>1, <1>2, <1>3 DEF Types, OneScript, Before, Watching, RunIds
<1>5. Len(log) \in Nat /\ \A i \in Lines : log[i].run \in Nat
  <2>1. Len(log) \in Nat /\ \A i \in Lines : log[i] \in Entries
    BY <1>1, LenProperties, ElementOfSeq DEF Types, Logs, Lines
  <2> QED
    BY <2>1 DEF Entries, RunIds
<1>6. Printed'
  BY <1>1, <1>2, <1>3, <1>5 DEF IInv, Printed, AtWork, Lines, Before, RunIds
<1>7. Seen' /\ TerminatedWithFile'
  BY <1>1, <1>2, <1>3, <1>5 DEF Seen, TerminatedWithFile, Before, Watching
<1>8. Reliable => Fresh'
  <2>1. ~ \E i \in Lines : log[i].run = run
    BY <1>1, <1>5 DEF RunIds
  <2> QED
    BY <1>1, <1>2, <1>3, <2>1 DEF IInv, Fresh, AtWork, Wanted, Asked, Lines
<1> QED
  BY <1>4, <1>6, <1>7, <1>8 DEF IInv

\* A look at the log, and the last look.
LEMMA LookKeeps ==
    ASSUME Alone, IInv, PollLog \/ Flush
    PROVE  IInv' /\ \A i \in Lines : log[i].what = "finished" => marker'
<1>1. /\ Types /\ ReadLines /\ lpc \in {"tail", "flush"} /\ run \in RunIds
      /\ Stage = script[run] /\ Stage # "starting" /\ args[run].output \in Outputs
      /\ nextLine <= Len(log) + 1
      /\ \A i \in 1 .. nextLine - 1 : log[i].what = "finished" => marker
      /\ marker => Stage \in {"path", "off"}
      /\ path # "none" => \E i \in Lines : log[i].what = path
  BY DEF PollLog, Flush, IInv, Types, OneScript, Seen, Watching, Versions, RunIds, Stage, Overtakes, Alone
<1>2. /\ UNCHANGED <<run, args, local, script, segments, log, video, forced>>
      /\ lpc' \in {"check", "verify", "idle"} /\ (lpc' = "verify" => marker')
  BY DEF PollLog, Flush, LeavePod, scriptVars
<1>3. Len(log) \in Nat /\ nextLine \in Nat \ {0} /\ \A i \in Lines : log[i] \in Entries
  BY <1>1, LenProperties, ElementOfSeq DEF Types, Logs, Lines
<1>4. /\ nextLine' = Len(log) + 1
      /\ marker' = (marker \/ \E i \in nextLine .. Len(log) : log[i].what = "finished")
      /\ path' = path \/ \E i \in Lines : log[i].what = path' /\ path' \in Outputs
  BY <1>1, ReadLinesReads DEF Types
<1>5. \A i \in Lines : log[i].what = "finished" => marker'
  <2> SUFFICES ASSUME NEW i \in Lines, log[i].what = "finished" PROVE marker'
    OBVIOUS
  <2>1. CASE i \in 1 .. nextLine - 1
    BY <1>1, <1>4, <2>1
  <2>2. CASE i \in nextLine .. Len(log)
    BY <1>4, <2>2
  <2> QED
    BY <1>3, <2>1, <2>2 DEF Lines
<1>6. marker' => Stage \in {"path", "off"}
  <2>1. ASSUME NEW i \in Lines, log[i].what = "finished" PROVE Stage \in {"path", "off"}
    <3>1. CASE log[i].run = run
      BY <2>1, <3>1 DEF IInv, Printed
    <3>2. CASE log[i].run # run
      BY <1>1, <3>2 DEF IInv, Printed, AtWork, Types
    <3> QED
      BY <3>1, <3>2
  <2>2. \A i \in nextLine .. Len(log) : i \in Lines
    BY <1>3 DEF Lines
  <2> QED
    BY <1>1, <1>4, <2>1, <2>2
<1>7. marker' \in BOOLEAN /\ path' \in Outputs \cup {"none"} /\ nextLine' \in Nat \ {0}
  BY <1>1, <1>3, <1>4 DEF Types
<1>8. Stage' = Stage /\ Types' /\ OneScript'
  BY <1>1, <1>2, <1>7 DEF IInv, Types, OneScript, OnPod, Stage, Before, Watching
<1>9. Printed'
  BY <1>1, <1>2, <1>8 DEF IInv, Printed, AtWork, Lines, Before
<1>10. Seen' /\ TerminatedWithFile'
  <2>1. path' # "none" => \E i \in Lines : log[i].what = path'
    BY <1>1, <1>4
  <2>2. \A i \in 1 .. nextLine' - 1 : i \in Lines
    BY <1>3, <1>4 DEF Lines
  <2>3. lpc' \notin {"download", "terminate", "tail"} \cup Before
    BY <1>2 DEF Before
  <2>4. nextLine' <= Len(log') + 1 /\ Lines' = Lines
    BY <1>2, <1>3, <1>4 DEF Lines
  <2> QED
    BY <1>1, <1>2, <1>5, <1>6, <1>8, <2>1, <2>2, <2>3, <2>4 DEF Seen, TerminatedWithFile, Watching
<1>11. Reliable => Fresh'
  BY <1>1, <1>2, <1>8 DEF IInv, Fresh, Wanted, AtWork, Lines, Watching, Asked
<1> QED
  BY <1>5, <1>8, <1>9, <1>10, <1>11 DEF IInv

\* The video comes down, whole or torn; the pod is terminated with its script.
LEMMA ClosingKeeps ==
    ASSUME Alone, IInv, Download \/ TerminatePod
    PROVE  IInv'
<1>1. Types /\ UNCHANGED <<run, args, nextLine, marker, path, log, video, segments, forced>>
  BY DEF IInv, Download, TerminatePod, watchVars, scriptVars
<1>2. CASE Download
  <2>1. /\ lpc = "download" /\ video[Remote] # 0 /\ UNCHANGED script /\ lpc' \in {"idle", "terminate"}
        /\ local' \in {Torn, video[Remote]} /\ (lpc' = "terminate" => local' = video[Remote])
    BY <1>2 DEF Download, LeavePod, IInv, Seen, scriptVars
  <2>2. local' \in Versions \cup {Torn}
    BY <1>1, <2>1 DEF Types, Remote, Outputs
  <2>3. Types' /\ OneScript' /\ Printed'
    BY <1>1, <2>1, <2>2
       DEF IInv, Types, OneScript, Printed, OnPod, Stage, AtWork, Lines, Before, Watching
  <2>4. Seen' /\ TerminatedWithFile'
    BY <1>1, <2>1
       DEF IInv, Seen, TerminatedWithFile, OneScript, Stage, Lines, Before, Watching, Asked, Remote, Outputs
  <2>5. Reliable => Fresh'
    BY <1>1, <2>1 DEF IInv, Fresh, Wanted, Stage, AtWork, Lines, Before, Watching, Asked
  <2> QED
    BY <2>3, <2>4, <2>5 DEF IInv
<1>3. CASE TerminatePod
  <2>1. /\ lpc = "terminate" /\ lpc' = "idle" /\ UNCHANGED local
        /\ script' = script \/ script' = [r \in RunIds |-> "off"]
    BY <1>3 DEF TerminatePod
  <2>2. /\ script' \in [RunIds -> {"off", "starting", "render", "mark", "path"}]
        /\ Stage' \in {Stage, "off"} /\ OnPod' \subseteq OnPod
    <3>1. script \in [RunIds -> {"off", "starting", "render", "mark", "path"}] /\ run \in RunIds /\ run # 0
      BY <1>1, <2>1 DEF IInv, OneScript, Types, Versions, RunIds
    <3> QED
      BY <1>1, <2>1, <3>1 DEF Stage, OnPod
  <2>3. Types' /\ OneScript' /\ Printed'
    BY <1>1, <2>1, <2>2
       DEF IInv, Types, OneScript, Printed, AtWork, Lines, Before, Watching
  <2>4. Seen' /\ TerminatedWithFile'
    BY <2>1 DEF Seen, TerminatedWithFile, Before, Watching
  <2>5. Reliable => Fresh'
    BY <1>1, <2>1, <2>2 DEF IInv, Fresh, Wanted, AtWork, Lines, Watching, Asked
  <2> QED
    BY <2>3, <2>4, <2>5 DEF IInv
<1> QED
  BY <1>2, <1>3

\* Nothing was run.
LEMMA RunBegins == Init => IInv
<1> SUFFICES ASSUME Init PROVE IInv
  OBVIOUS
<1>1. /\ lpc = "idle" /\ run = 0 /\ local = 0 /\ nextLine = 1 /\ marker = FALSE /\ path = "none"
      /\ log = << >> /\ forced = 0
      /\ args = [r \in RunIds |-> Listing] /\ script = [r \in RunIds |-> "off"]
      /\ segments = [r \in RunIds |-> 0] /\ video = [o \in Outputs |-> 0]
  BY DEF Init
<1>2. 0 \in Versions /\ Listing \in Requests /\ log \in Logs /\ Len(log) = 0 /\ Lines = {}
  BY <1>1, TestVideoAssumption DEF Versions, Requests, Logs, Lines
<1>3. Types
  <2>1. /\ args \in [RunIds -> Requests] /\ segments \in [RunIds -> Versions]
        /\ video \in [Outputs -> Versions \cup {Torn}]
        /\ script \in [RunIds -> {"off", "starting", "render", "mark", "path"}]
    BY <1>1, <1>2
  <2>2. run \in Versions /\ local \in Versions /\ forced \in Versions /\ marker \in BOOLEAN
    BY <1>1, <1>2, Zenon
  <2>3. lpc \in {"idle", "terminate"} /\ nextLine \in Nat \ {0} /\ path \in {"none"}
    BY <1>1
  <2> QED
    BY <1>2, <2>1, <2>2, <2>3 DEF Types
<1>4. OneScript /\ Stage = "off"
  BY <1>1 DEF OneScript, OnPod, Stage, Before, Watching
<1>5. Printed /\ Seen /\ TerminatedWithFile /\ Fresh
  BY <1>1, <1>2, <1>4 DEF Printed, Seen, TerminatedWithFile, Fresh, AtWork, Before, Watching
<1> QED
  BY <1>3, <1>4, <1>5 DEF IInv

\* What SuccessIsNoticed says of one step.
Noticed == lpc = "flush" /\ lpc' = "idle" /\ nextLine' # nextLine =>
               \A i \in Lines : log[i] # Line(run, "finished")

LEMMA StepKeeps ==
    ASSUME Alone, IInv, [Next]_vars PROVE IInv' /\ Noticed
<1>1. ASSUME NEW request \in Requests, Invoke(request) \/ Reuse(request) PROVE IInv' /\ Noticed
  <2>1. lpc = "idle"
    BY <1>1 DEF Invoke, Reuse, Begin
  <2> QED
    BY <1>1, <2>1, BeginKeeps DEF Noticed
<1>2. CASE Boot \/ Sync \/ SetForced \/ Check \/ Verify \/ StopWatching
  <2>1. nextLine' = nextLine
    BY <1>2 DEF Boot, Sync, SetForced, Check, Verify, StopWatching, watchVars
  <2> QED
    BY <1>2, <2>1, WorkKeeps DEF Noticed
<1>3. CASE PollLog
  <2>1. lpc = "tail"
    BY <1>3 DEF PollLog
  <2> QED
    BY <1>3, <2>1, LookKeeps DEF Noticed
<1>4. CASE Flush
  <2>1. lpc' = "idle" => ~marker'
    BY <1>4 DEF Flush
  <2> QED
    BY <1>4, <2>1, LookKeeps DEF Noticed, Line
<1>5. CASE Launch
  <2>1. lpc = "launch"
    BY <1>5 DEF Launch
  <2> QED
    BY <1>5, <2>1, LaunchKeeps DEF Noticed
<1>6. CASE Download \/ TerminatePod
  <2>1. lpc # "flush"
    BY <1>6 DEF Download, TerminatePod
  <2> QED
    BY <1>6, <2>1, ClosingKeeps DEF Noticed
<1>7. ASSUME NEW r \in RunIds, ScriptStep(r) PROVE IInv' /\ Noticed
  <2>1. nextLine' = nextLine
    BY <1>7 DEF ScriptStep, ScriptStarts, Render, MarkFinished, PrintPath, launcherVars, watchVars
  <2> QED
    BY <1>7, <2>1, ScriptStepKeeps DEF Noticed
<1>8. CASE UNCHANGED vars
  <2>1. UNCHANGED <<lpc, run, args, nextLine, marker, path, local, script, segments, log, video, forced>>
    BY <1>8 DEF vars, launcherVars, watchVars, scriptVars
  <2> QED
    BY <2>1 DEF IInv, Types, OneScript, OnPod, Printed, Seen, TerminatedWithFile, Fresh, Wanted, AtWork,
                Stage, Lines, Asked, Remote, Noticed
<1> QED
  BY <1>1, <1>2, <1>3, <1>4, <1>5, <1>6, <1>7, <1>8 DEF Next, LauncherStep

\* The invariant of the run, wherever SSH fails.
THEOREM Invariance == ASSUME Alone PROVE Spec => []IInv
<1>1. IInv /\ [Next]_vars => IInv'
  BY StepKeeps
<1> QED
  BY <1>1, RunBegins, PTL DEF Spec

\* Every variable keeps its type, those of the pod fleet too.
THEOREM TypeCorrect == ASSUME Alone PROVE Spec => []TypeOK
<1>1. IInv /\ FleetTypeOK => TypeOK
  BY DEF IInv, Types, TypeOK, Before, Watching, Texts, Entries, Logs
<1> QED
  BY <1>1, Invariance, ImplementsFleet, FleetTypeCorrect, PTL

\* A pod is terminated only with its file downloaded, even when the start of the script
\* failed and the log is that of an earlier run (launch_runpod_test_video.py:419).
THEOREM KeepsPodWithoutFile == ASSUME Alone PROVE Spec => []TerminatedWithFile
<1>1. IInv => TerminatedWithFile
  BY DEF IInv
<1> QED
  BY <1>1, Invariance, PTL

\* A path that was read leads to the video of this run, of the segments asked for, unless
\* the removal of a stale list or the start failed (launch_runpod_test_video.py:124-126).
THEOREM PathLeadsToThisRun == ASSUME Alone, Reliable PROVE Spec => []ReportedVideoIsFresh
<1>1. IInv => ReportedVideoIsFresh
  <2> SUFFICES ASSUME IInv, lpc \in {"verify", "download", "terminate"}, path # "none"
               PROVE  /\ path = Asked.output /\ video[path] = run /\ segments[run] = Wanted
    BY DEF ReportedVideoIsFresh, Wanted
  <2>1. /\ Asked.output # "list" /\ Stage # "starting" /\ path \in Outputs
        /\ \A i \in Lines : log[i].run = run
    BY DEF IInv, Types, OneScript, Seen, Fresh, Watching, Outputs, Asked
  <2>2. PICK i \in Lines : log[i].what = path
    BY DEF IInv, Seen, Watching
  <2>3. path = Asked.output /\ video[path] = run
    BY <2>1, <2>2 DEF IInv, Printed, Asked
  <2>4. segments[run] = Wanted
    BY <2>1, <2>2 DEF IInv, Fresh
  <2> QED
    BY <2>3, <2>4
<1> QED
  BY <1>1, Invariance, PTL

\* A marker that was printed is never missed (runpod_lib.py:220-234).
THEOREM MarkerIsNoticed == ASSUME Alone PROVE Spec => SuccessIsNoticed
<1>1. Noticed => (lpc = "flush" /\ lpc' = "idle" /\ nextLine' # nextLine =>
                     \A i \in 1 .. Len(log) : log[i] # Line(run, "finished"))
  BY DEF Noticed, Lines
<1>2. IInv /\ [Next]_vars => Noticed
  BY StepKeeps
<1> QED
  BY <1>1, <1>2, Invariance, PTL DEF Spec, SuccessIsNoticed
----------------------------------------------------------------------------
(* The renderer: the signals of a drive. *)

\* The anchors are natural numbers, the first is 0 and the last the greatest.
LEMMA AnchorsGrow ==
    /\ NumAnchors \in Nat \ {0} /\ Anchors[1] = 0
    /\ \A k \in 1 .. NumAnchors : Anchors[k] \in Nat /\ Anchors[k] <= Anchors[NumAnchors]
<1>1. /\ NumAnchors \in Nat \ {0} /\ Anchors[1] = 0
      /\ \A k \in 1 .. NumAnchors : Anchors[k] \in Nat
      /\ \A k \in 1 .. NumAnchors - 1 : Anchors[k] < Anchors[k + 1]
  BY SignalsAssumption DEF NumAnchors
<1> DEFINE Above == {k \in 1 .. NumAnchors : Anchors[k] > Anchors[NumAnchors]}
<1>2. SUFFICES ASSUME Above # {} PROVE FALSE
  BY <1>1
<1>3. PICK k \in Above : \A j \in Above : j <= k
  <2>1. NumAnchors \in Nat /\ Above \in SUBSET (1 .. NumAnchors)
    BY <1>1
  <2> HIDE DEF Above
  <2> QED
    BY <1>2, <2>1, LargestExists
<1>4. k \in 1 .. NumAnchors /\ k # NumAnchors /\ Anchors[k] > Anchors[NumAnchors]
  BY <1>1, <1>3
<1>5. k \in 1 .. NumAnchors - 1 /\ k + 1 \in 1 .. NumAnchors
  BY <1>1, <1>4
<1>6. Anchors[k] < Anchors[k + 1] /\ Anchors[k] \in Nat /\ Anchors[k + 1] \in Nat
  BY <1>1, <1>5
<1>7. k + 1 \in Above
  BY <1>1, <1>4, <1>5, <1>6
<1> QED
  BY <1>1, <1>3, <1>5, <1>7

\* searchsorted: the first sample at or after a time, if there is one.
LEMMA FirstAfterIs ==
    ASSUME NEW times \in Seq(Nat), NEW t \in Nat
    PROVE  LET j == FirstAfter(times, t)
           IN  /\ j \in 1 .. Len(times) + 1
               /\ j <= Len(times) => times[j] >= t
               /\ \A i \in 1 .. j - 1 : times[i] < t
<1> DEFINE Late == {i \in 1 .. Len(times) + 1 : i = Len(times) + 1 \/ times[i] >= t}
<1>1. Len(times) \in Nat /\ \A i \in 1 .. Len(times) : times[i] \in Nat
  OBVIOUS
<1>2. PICK j \in Late : \A i \in Late : j <= i
  <2>1. Late \in SUBSET Nat /\ Len(times) + 1 \in Late
    BY <1>1
  <2> HIDE DEF Late
  <2> QED
    BY <2>1, LeastExists
<1>3. \A i \in 1 .. j - 1 : times[i] < t
  BY <1>1, <1>2
<1>4. /\ j \in 1 .. Len(times) + 1
      /\ j = Len(times) + 1 \/ times[j] >= t
      /\ \A i \in 1 .. j - 1 : times[i] < t
  BY <1>2, <1>3
<1>5. /\ FirstAfter(times, t) \in 1 .. Len(times) + 1
      /\ FirstAfter(times, t) = Len(times) + 1 \/ times[FirstAfter(times, t)] >= t
      /\ \A i \in 1 .. FirstAfter(times, t) - 1 : times[i] < t
  BY <1>4 DEF FirstAfter
<1> QED
  BY <1>1, <1>5

Increase(times) == \A i, j \in 1 .. Len(times) : i < j => times[i] < times[j]

\* The trajectory that the renderer loads for a frame takes for every anchor the first
\* sample at or after it, and there is none for the frames without the full horizon:
\* that load_segment_real_path leaves its loop at the first of them loses no later one.
THEOREM PathIsDriven ==
    ASSUME NEW times \in Seq(Nat), Increase(times), NEW f \in 1 .. Len(times)
    PROVE  RealPath(times, f) = DrivenPath(times, f)
<1>0. PICK n, end : n = Len(times) /\ end = Anchors[NumAnchors]
  OBVIOUS
<1>1. /\ n \in Nat /\ f \in Nat /\ f \in 1 .. n /\ \A i \in 1 .. n : times[i] \in Nat
      /\ \A i, j \in 1 .. n : i <= j => times[i] <= times[j]
      /\ \A i, j \in 1 .. n : i < j => times[i] < times[j]
      /\ end \in Nat /\ NumAnchors \in 1 .. NumAnchors
      /\ \A k \in 1 .. NumAnchors : Anchors[k] \in Nat /\ Anchors[k] <= end
  <2>1. \A i \in 1 .. Len(times) : times[i] \in Nat
    OBVIOUS
  <2>2. \A i, j \in 1 .. n : i <= j => times[i] <= times[j]
    BY <1>0, <2>1 DEF Increase
  <2>3. \A i, j \in 1 .. n : i < j => times[i] < times[j]
    BY <1>0 DEF Increase
  <2> QED
    BY <1>0, <2>1, <2>2, <2>3, AnchorsGrow
<1>2. ASSUME NEW i \in 1 .. n, NEW k \in 1 .. NumAnchors
      PROVE  /\ Samples(times, i)[k] \in 1 .. n + 1
             /\ Samples(times, i)[k] <= n => times[Samples(times, i)[k]] >= times[i] + Anchors[k]
             /\ \A j \in 1 .. Samples(times, i)[k] - 1 : times[j] < times[i] + Anchors[k]
  <2>1. times[i] + Anchors[k] \in Nat
    BY <1>1, AnchorsGrow
  <2>2. Samples(times, i)[k] = FirstAfter(times, times[i] + Anchors[k])
    BY DEF Samples
  <2> QED
    BY <1>0, <2>1, <2>2, FirstAfterIs
<1>3. ASSUME NEW i \in 1 .. n
      PROVE  Samples(times, i)[NumAnchors] <= n <=> times[i] + end <= times[n]
  <2>1. PICK s : s = Samples(times, i)[NumAnchors]
    OBVIOUS
  <2>2. NumAnchors \in 1 .. NumAnchors /\ end \in Nat /\ times[i] \in Nat
    BY <1>1, <1>3
  <2>3. /\ s \in 1 .. n + 1
        /\ s <= n => times[s] >= times[i] + end
        /\ \A j \in 1 .. s - 1 : times[j] < times[i] + end
    BY <1>0, <1>2, <2>1, <2>2
  <2>4. CASE s <= n
    <3>1. s \in 1 .. n /\ n \in 1 .. n
      BY <1>1, <2>3, <2>4
    <3>2. times[s] <= times[n] /\ times[s] \in Nat /\ times[n] \in Nat
      BY <1>1, <3>1
    <3>3. PICK at, ts, tn : at = times[i] + end /\ ts = times[s] /\ tn = times[n]
      OBVIOUS
    <3>4. at \in Nat
      BY <2>2, <3>3
    <3>5. ts >= at
      BY <2>3, <2>4, <3>3
    <3>6. ts <= tn /\ ts \in Nat /\ tn \in Nat
      BY <3>2, <3>3
    <3>7. at <= tn
      BY <3>4, <3>5, <3>6
    <3> QED
      BY <2>1, <2>4, <3>3, <3>7
  <2>5. CASE s = n + 1
    <3>1. n \in 1 .. s - 1
      BY <1>1, <2>5
    <3>2. times[n] < times[i] + end
      BY <2>3, <3>1
    <3> QED
      BY <1>1, <2>1, <2>2, <2>5, <3>1, <3>2
  <2> QED
    BY <1>1, <2>3, <2>4, <2>5
<1>4. (\A j \in 1 .. f : Samples(times, j)[NumAnchors] <= n) <=> times[f] + end <= times[n]
  <2>1. ASSUME times[f] + end <= times[n], NEW j \in 1 .. f
        PROVE  Samples(times, j)[NumAnchors] <= n
    <3>1. j \in 1 .. n /\ times[j] <= times[f] /\ n \in 1 .. n
      BY <1>1
    <3>2. end \in Nat /\ times[j] \in Nat /\ times[f] \in Nat /\ times[n] \in Nat
      BY <1>1, <3>1, AnchorsGrow
    <3>3. PICK tj, tf, tn : tj = times[j] /\ tf = times[f] /\ tn = times[n]
      OBVIOUS
    <3>4. tf + end <= tn /\ tj <= tf /\ end \in Nat /\ tj \in Nat /\ tf \in Nat /\ tn \in Nat
      BY <2>1, <3>1, <3>2, <3>3
    <3>5. tj + end <= tn
      BY <3>4
    <3>6. times[j] + end <= times[n]
      BY <3>3, <3>5
    <3> QED
      BY <1>3, <3>1, <3>6
  <2>2. f \in 1 .. f
    BY <1>1
  <2> QED
    BY <1>1, <1>3, <2>1, <2>2
<1>5. CASE ~(times[f] + end <= times[n])
  BY <1>0, <1>1, <1>4, <1>5 DEF RealPath, DrivenPath
<1>6. CASE times[f] + end <= times[n]
  <2> DEFINE Is(k, j) == /\ times[j] >= times[f] + Anchors[k]
                         /\ \A i \in f .. j - 1 : times[i] < times[f] + Anchors[k]
             driven == [k \in 1 .. NumAnchors |-> CHOOSE j \in f .. n : Is(k, j)]
  <2>1. ASSUME NEW k \in 1 .. NumAnchors
        PROVE  Samples(times, f)[k] = CHOOSE j \in f .. n : Is(k, j)
    <3>1. PICK s : s = Samples(times, f)[k]
      OBVIOUS
    <3>2. /\ s \in 1 .. n + 1
          /\ s <= n => times[s] >= times[f] + Anchors[k]
          /\ \A j \in 1 .. s - 1 : times[j] < times[f] + Anchors[k]
      BY <1>1, <1>2, <3>1
    <3>3. PICK at : /\ at = times[f] + Anchors[k] /\ at \in Nat /\ at >= times[f]
                    /\ at <= times[f] + end
      <4>1. /\ Anchors[k] \in Nat /\ end \in Nat /\ Anchors[k] <= end
            /\ times[f] \in Nat
        BY <1>1
      <4> QED
        BY <4>1
    <3>4. s <= n
      <4>1. ~(times[n] < at)
        <5>1. times[n] \in Nat /\ times[f] + end \in Nat
          BY <1>1
        <5> QED
          BY <1>6, <3>3, <5>1
      <4>2. n \notin 1 .. s - 1
        BY <3>2, <3>3, <4>1
      <4> QED
        BY <1>1, <3>2, <4>2
    <3>5. f <= s
      <4>1. SUFFICES ASSUME s < f PROVE FALSE
        BY <1>1, <3>2
      <4>2. s \in 1 .. n /\ times[s] \in Nat /\ times[s] < times[f] /\ times[f] \in Nat
        BY <1>1, <3>2, <4>1
      <4>3. times[s] >= at
        BY <3>2, <3>3, <3>4
      <4> QED
        BY <3>3, <4>2, <4>3
    <3>6. s \in f .. n /\ Is(k, s)
      BY <1>1, <3>2, <3>4, <3>5
    <3>7. ASSUME NEW j \in f .. n, Is(k, j) PROVE j = s
      <4>1. j \in 1 .. n /\ s \in 1 .. n /\ times[j] \in Nat /\ times[s] \in Nat
        BY <1>1, <3>6
      <4>2. ~(j < s)
        <5>1. j < s => j \in 1 .. s - 1
          BY <1>1, <4>1
        <5>2. j < s => times[j] < at
          BY <3>2, <3>3, <5>1
        <5>3. times[j] >= at
          BY <3>3, <3>7
        <5> QED
          BY <3>3, <4>1, <5>2, <5>3
      <4>3. ~(s < j)
        <5>1. s < j => s \in f .. j - 1
          BY <1>1, <3>6, <4>1
        <5>2. s < j => times[s] < at
          BY <3>3, <3>7, <5>1
        <5>3. times[s] >= at
          BY <3>2, <3>3, <3>4
        <5> QED
          BY <3>3, <4>1, <5>2, <5>3
      <4> QED
        BY <4>1, <4>2, <4>3
    <3> HIDE DEF Is
    <3> QED
      BY <3>1, <3>6, <3>7
  <2>2. Samples(times, f) = driven
    BY <2>1 DEF Samples
  <2>3. DrivenPath(times, f) = driven
    BY <1>0, <1>1, <1>6 DEF DrivenPath
  <2> QED
    BY <1>0, <1>4, <1>6, <2>2, <2>3 DEF RealPath
<1> QED
  BY <1>5, <1>6

Levels == {"low", "mid", "high"}

\* What the latch does with one sample, and l is its course over the first n of them.
Latched(before, level) ==
    IF level = "high" THEN [on |-> TRUE, hold |-> Hold]
    ELSE IF before.on /\ level = "mid" THEN [on |-> TRUE, hold |-> Hold]
    ELSE IF before.hold > 0 THEN [on |-> before.on, hold |-> before.hold - 1]
    ELSE [on |-> FALSE, hold |-> 0]
IsLatch(l, torque, n) ==
    /\ l[0] = [on |-> FALSE, hold |-> 0]
    /\ \A i \in 1 .. n : l[i] = Latched(l[i - 1], torque[i])

LEMMA LatchExists ==
    ASSUME NEW torque, NEW n \in Nat
    PROVE  \E l : IsLatch(l, torque, n)
<1> DEFINE Bad == {k \in 0 .. n : ~ \E l : IsLatch(l, torque, k)}
<1>1. SUFFICES ASSUME Bad # {} PROVE FALSE
  OBVIOUS
<1>2. PICK k \in Bad : \A j \in Bad : k <= j
  <2>1. Bad \in SUBSET Nat
    OBVIOUS
  <2> HIDE DEF Bad
  <2> QED
    BY <1>1, <2>1, LeastExists
<1>3. k # 0
  <2>1. IsLatch([j \in {0} |-> [on |-> FALSE, hold |-> 0]], torque, 0)
    BY DEF IsLatch
  <2> QED
    BY <2>1
<1>4. k \in 1 .. n /\ k - 1 \in 0 .. n /\ k - 1 \notin Bad
  BY <1>2, <1>3
<1>5. PICK l : IsLatch(l, torque, k - 1)
  BY <1>4
<1> DEFINE m == [j \in 0 .. k |-> IF j = k THEN Latched(l[k - 1], torque[k]) ELSE l[j]]
<1>6. IsLatch(m, torque, k)
  <2>1. m[0] = [on |-> FALSE, hold |-> 0]
    BY <1>3, <1>4, <1>5 DEF IsLatch
  <2>2. ASSUME NEW j \in 1 .. k PROVE m[j] = Latched(m[j - 1], torque[j])
    <3>1. CASE j = k
      <4>1. m[j] = Latched(l[k - 1], torque[k]) /\ m[j - 1] = l[k - 1]
        BY <1>4, <3>1
      <4> QED
        BY <3>1, <4>1
    <3>2. CASE j # k
      <4>1. j \in 1 .. k - 1 /\ m[j] = l[j] /\ m[j - 1] = l[j - 1]
        BY <1>4, <3>2
      <4> QED
        BY <1>5, <4>1 DEF IsLatch
    <3> QED
      BY <3>1, <3>2
  <2> HIDE DEF m
  <2> QED
    BY <2>1, <2>2 DEF IsLatch
<1> QED
  BY <1>2, <1>6

\* The recursive definition of Schmitt has a solution, which it takes.
LEMMA SchmittDef ==
    ASSUME NEW torque \in Seq(Levels)
    PROVE  \E l : /\ IsLatch(l, torque, Len(torque))
                  /\ Schmitt(torque) = [i \in 1 .. Len(torque) |-> l[i].on]
<1> DEFINE Solves(l) == l = [i \in 0 .. Len(torque) |->
               IF i = 0 THEN [on |-> FALSE, hold |-> 0] ELSE Latched(l[i - 1], torque[i])]
           latch == CHOOSE l : Solves(l)
<1>0. Len(torque) \in Nat
  OBVIOUS
<1>1. PICK h : IsLatch(h, torque, Len(torque))
  BY LatchExists, <1>0
<1> DEFINE g == [i \in 0 .. Len(torque) |-> h[i]]
<1>2. Solves(g)
  <2>1. ASSUME NEW i \in 0 .. Len(torque), i # 0 PROVE g[i] = Latched(g[i - 1], torque[i])
    <3>1. i \in 1 .. Len(torque) /\ i - 1 \in 0 .. Len(torque)
      BY <2>1
    <3>2. g[i] = h[i] /\ g[i - 1] = h[i - 1]
      BY <3>1
    <3> QED
      BY <1>1, <3>1, <3>2 DEF IsLatch
  <2>2. g[0] = [on |-> FALSE, hold |-> 0]
    BY <1>0, <1>1 DEF IsLatch
  <2> QED
    BY <2>1, <2>2
<1>3. Schmitt(torque) = [i \in 1 .. Len(torque) |-> latch[i].on]
  BY DEF Schmitt, Latched
<1>4. Solves(latch)
  <2> HIDE DEF Solves
  <2> QED
    BY <1>2
<1>5. IsLatch(latch, torque, Len(torque))
  <2> HIDE DEF latch
  <2>1. latch[0] = [on |-> FALSE, hold |-> 0]
    BY <1>0, <1>4
  <2>2. ASSUME NEW i \in 1 .. Len(torque) PROVE latch[i] = Latched(latch[i - 1], torque[i])
    <3>1. i \in 0 .. Len(torque) /\ i # 0
      BY <1>0
    <3>2. latch = [j \in 0 .. Len(torque) |->
              IF j = 0 THEN [on |-> FALSE, hold |-> 0] ELSE Latched(latch[j - 1], torque[j])]
      BY <1>4
    <3> HIDE DEF Solves
    <3> QED
      BY <3>1, <3>2
  <2> QED
    BY <2>1, <2>2 DEF IsLatch
<1> QED
  BY <1>3, <1>5

\* The latch is on from a high sample until more than Hold of them in a row are low;
\* hold is what is left of this.
LatchIs(l, torque, f) ==
    /\ l[f].on \in BOOLEAN /\ l[f].hold \in 0 .. Hold
    /\ l[f].on <=> Overriding(torque, f)
    /\ ~l[f].on => l[f].hold = 0
    /\ l[f].on => LET last == f - (Hold - l[f].hold)
                  IN  /\ last \in 1 .. f /\ torque[last] # "low"
                      /\ \A j \in last + 1 .. f : torque[j] = "low"

LEMMA LatchStep ==
    ASSUME NEW torque \in Seq(Levels), NEW l, NEW f \in 1 .. Len(torque),
           l[f] = Latched(l[f - 1], torque[f]), LatchIs(l, torque, f - 1)
    PROVE  LatchIs(l, torque, f)
<1>1. /\ Hold \in Nat /\ f \in Nat \ {0} /\ f - 1 \in Nat /\ torque[f] \in Levels
      /\ l[f - 1].on \in BOOLEAN /\ l[f - 1].hold \in 0 .. Hold
  BY SignalsAssumption DEF LatchIs
<1> DEFINE High(i, n) == \A j \in i .. n - Hold : \E k \in j .. j + Hold : torque[k] # "low"
<1>2. ASSUME torque[f] # "high", Overriding(torque, f) PROVE Overriding(torque, f - 1)
  <2>1. PICK i \in 1 .. f : torque[i] = "high" /\ High(i, f)
    BY <1>2 DEF Overriding
  <2>2. i # f
    BY <1>2, <2>1
  <2>3. i \in 1 .. f - 1
    BY <1>1, <2>2
  <2>4. High(i, f - 1)
    <3>1. i .. f - 1 - Hold \subseteq i .. f - Hold
      BY <1>1
    <3> QED
      BY <2>1, <3>1
  <2> QED
    BY <2>1, <2>3, <2>4 DEF Overriding
<1>3. CASE torque[f] = "high"
  <2>1. l[f] = [on |-> TRUE, hold |-> Hold]
    BY <1>3 DEF Latched
  <2>2. High(f, f)
    <3>1. ASSUME NEW j \in f .. f - Hold PROVE \E k \in j .. j + Hold : torque[k] # "low"
      <4>1. f \in j .. j + Hold
        BY <1>1
      <4> QED
        BY <1>3, <4>1
    <3> QED
      BY <3>1
  <2>3. f \in 1 .. f
    BY <1>1
  <2>4. Overriding(torque, f)
    BY <1>3, <2>2, <2>3 DEF Overriding
  <2>5. f - (Hold - l[f].hold) = f
    BY <1>1, <2>1
  <2> QED
    <3>1. l[f].on = TRUE /\ l[f].hold = Hold /\ Hold \in 0 .. Hold
      BY <1>1, <2>1
    <3>2. /\ f \in 1 .. f /\ torque[f] # "low"
          /\ \A j \in f + 1 .. f : torque[j] = "low"
      BY <1>1, <1>3
    <3> QED
      BY <2>4, <2>5, <3>1, <3>2 DEF LatchIs
<1>4. CASE l[f - 1].on /\ torque[f] = "mid"
  <2>1. l[f] = [on |-> TRUE, hold |-> Hold]
    BY <1>4 DEF Latched
  <2>2. PICK i \in 1 .. f - 1 : torque[i] = "high" /\ High(i, f - 1)
    BY <1>4 DEF LatchIs, Overriding
  <2>3. High(i, f)
    <3>1. ASSUME NEW j \in i .. f - Hold PROVE \E k \in j .. j + Hold : torque[k] # "low"
      <4>1. CASE j = f - Hold
        <5>1. f \in j .. j + Hold
          BY <1>1, <4>1
        <5> QED
          BY <1>4, <5>1
      <4>2. CASE j # f - Hold
        <5>1. j \in i .. f - 1 - Hold
          BY <1>1, <4>2
        <5> QED
          BY <2>2, <5>1
      <4> QED
        BY <4>1, <4>2
    <3> QED
      BY <3>1
  <2>4. Overriding(torque, f)
    <3>1. i \in 1 .. f
      BY <1>1
    <3> QED
      BY <2>2, <2>3, <3>1 DEF Overriding
  <2>5. f - (Hold - l[f].hold) = f /\ f \in 1 .. f
    BY <1>1, <2>1
  <2> QED
    <3>1. l[f].on = TRUE /\ l[f].hold = Hold /\ Hold \in 0 .. Hold
      BY <1>1, <2>1
    <3>2. /\ f \in 1 .. f /\ torque[f] # "low"
          /\ \A j \in f + 1 .. f : torque[j] = "low"
      BY <1>1, <1>4
    <3> QED
      BY <2>4, <2>5, <3>1, <3>2 DEF LatchIs
<1>5. CASE ~l[f - 1].on /\ torque[f] # "high"
  <2>1. l[f] = [on |-> FALSE, hold |-> 0]
    <3>1. l[f - 1].hold = 0
      BY <1>5 DEF LatchIs
    <3> QED
      BY <1>5, <3>1 DEF Latched
  <2>2. ~Overriding(torque, f)
    BY <1>2, <1>5 DEF LatchIs
  <2> QED
    BY <1>1, <2>1, <2>2 DEF LatchIs
<1>6. CASE l[f - 1].on /\ torque[f] = "low"
  <2>1. PICK hold : hold = l[f - 1].hold
    OBVIOUS
  <2>2. PICK last : last = f - 1 - (Hold - hold)
    OBVIOUS
  <2>3. /\ hold \in 0 .. Hold /\ last \in 1 .. f - 1 /\ torque[last] # "low"
        /\ \A j \in last + 1 .. f - 1 : torque[j] = "low"
    BY <1>1, <1>6, <2>1, <2>2 DEF LatchIs
  <2>4. \A j \in last + 1 .. f : torque[j] = "low"
    <3>1. ASSUME NEW j \in last + 1 .. f PROVE j = f \/ j \in last + 1 .. f - 1
      BY <1>1, <2>3
    <3> QED
      BY <1>6, <2>3, <3>1
  <2>5. CASE hold > 0
    <3>1. l[f] = [on |-> TRUE, hold |-> hold - 1]
      BY <1>6, <2>1, <2>5 DEF Latched
    <3>2. PICK i \in 1 .. f - 1 : torque[i] = "high" /\ High(i, f - 1)
      BY <1>6 DEF LatchIs, Overriding
    <3>3. High(i, f)
      <4>1. ASSUME NEW j \in i .. f - Hold PROVE \E k \in j .. j + Hold : torque[k] # "low"
        <5>1. CASE j = f - Hold
          <6>1. last \in j .. j + Hold
            BY <1>1, <2>2, <2>3, <2>5, <5>1
          <6> QED
            BY <2>3, <6>1
        <5>2. CASE j # f - Hold
          <6>1. j \in i .. f - 1 - Hold
            BY <1>1, <5>2
          <6> QED
            BY <3>2, <6>1
        <5> QED
          BY <5>1, <5>2
      <4> QED
        BY <4>1
    <3>4. Overriding(torque, f)
      <4>1. i \in 1 .. f
        BY <1>1
      <4> QED
        BY <3>2, <3>3, <4>1 DEF Overriding
    <3>5. f - (Hold - l[f].hold) = last /\ last \in 1 .. f /\ l[f].hold \in 0 .. Hold
      BY <1>1, <2>2, <2>3, <2>5, <3>1
    <3> QED
      BY <2>3, <2>4, <3>1, <3>4, <3>5 DEF LatchIs
  <2>6. CASE hold = 0
    <3>1. l[f] = [on |-> FALSE, hold |-> 0]
      BY <1>6, <2>1, <2>6 DEF Latched
    <3>2. SUFFICES ~Overriding(torque, f)
      BY <1>1, <3>1 DEF LatchIs
    <3>3. SUFFICES ASSUME NEW i \in 1 .. f, torque[i] = "high", High(i, f) PROVE FALSE
      BY DEF Overriding
    <3>4. i \notin last + 1 .. f
      BY <2>4, <3>3
    <3>5. f - Hold \in i .. f - Hold
      BY <1>1, <2>2, <2>3, <2>6, <3>4
    <3>6. PICK k \in f - Hold .. f - Hold + Hold : torque[k] # "low"
      BY <3>3, <3>5
    <3>7. k \in last + 1 .. f
      BY <1>1, <2>2, <2>6
    <3> QED
      BY <2>4, <3>6, <3>7
  <2> QED
    BY <2>3, <2>5, <2>6
<1> QED
  BY <1>1, <1>3, <1>4, <1>5, <1>6 DEF Levels

\* The latch that the renderer runs over the torque of a drive tells the frames at which the
\* driver overrides: there was a high torque, and since then no Hold + 1 samples in a row
\* were low.
LEMMA LatchIsOverriding ==
    ASSUME NEW torque \in Seq(Levels), NEW f \in 1 .. Len(torque)
    PROVE  Schmitt(torque)[f] <=> Overriding(torque, f)
<1>1. PICK l : /\ IsLatch(l, torque, Len(torque))
               /\ Schmitt(torque) = [i \in 1 .. Len(torque) |-> l[i].on]
  BY SchmittDef
<1>2. Len(torque) \in Nat /\ Hold \in Nat
  BY SignalsAssumption
<1>3. LatchIs(l, torque, 0)
  <2>1. l[0] = [on |-> FALSE, hold |-> 0]
    BY <1>1 DEF IsLatch
  <2>2. ~Overriding(torque, 0)
    BY DEF Overriding
  <2> QED
    BY <1>2, <2>1, <2>2 DEF LatchIs
<1> DEFINE Bad == {k \in 0 .. Len(torque) : ~LatchIs(l, torque, k)}
<1>4. Bad = {}
  <2>1. SUFFICES ASSUME Bad # {} PROVE FALSE
    OBVIOUS
  <2>2. PICK k \in Bad : \A j \in Bad : k <= j
    <3>1. Bad \in SUBSET Nat
      OBVIOUS
    <3> HIDE DEF Bad
    <3> QED
      BY <2>1, <3>1, LeastExists
  <2>3. k \in 1 .. Len(torque) /\ k - 1 \in 0 .. Len(torque) /\ k - 1 \notin Bad
    BY <1>2, <1>3, <2>2
  <2>4. LatchIs(l, torque, k - 1)
    BY <2>3
  <2>5. l[k] = Latched(l[k - 1], torque[k])
    BY <1>1, <2>3 DEF IsLatch
  <2>6. LatchIs(l, torque, k)
    BY <2>3, <2>4, <2>5, LatchStep
  <2> QED
    BY <2>2, <2>6
<1>5. LatchIs(l, torque, f)
  BY <1>2, <1>4
<1> QED
  BY <1>1, <1>5 DEF LatchIs

\* The badge that the renderer computes for a frame says who steered: nobody but the driver
\* when the last command before the frame was not to steer, and the driver too if overriding.
THEOREM BadgeIsSteering ==
    ASSUME NEW rec, IsRecording(rec), rec.lka # << >>, NEW f \in 1 .. Len(rec.times)
    PROVE  DriverActive(rec)[f] <=> Steering(rec, f)
<1>1. PICK lka, t, n : lka = rec.lka /\ t = rec.times[f] /\ n = Len(rec.lka)
  OBVIOUS
<1>2. /\ n \in Nat \ {0} /\ lka \in Seq(Nat \X BOOLEAN) /\ t \in Nat /\ rec.times \in Seq(Nat)
      /\ \A j \in 1 .. n : lka[j][1] \in Nat /\ lka[j][2] \in BOOLEAN
  <2>1. lka \in Seq(Nat \X BOOLEAN) /\ lka # << >> /\ rec.times \in Seq(Nat)
    BY <1>1 DEF IsRecording
  <2>2. n \in Nat \ {0} /\ t \in Nat
    BY <1>1, <2>1
  <2>3. ASSUME NEW j \in 1 .. n PROVE lka[j][1] \in Nat /\ lka[j][2] \in BOOLEAN
    <3>1. lka[j] \in Nat \X BOOLEAN
      BY <1>1, <2>1
    <3> QED
      BY <3>1
  <2> QED
    BY <2>1, <2>2, <2>3
<1> DEFINE before == {j \in 1 .. n : lka[j][1] <= t}
           IsLast(j) == j \in before /\ \A k \in before : k <= j
           last == IF before = {} THEN 1 ELSE CHOOSE j \in before : \A k \in before : k <= j
<1>3. Engaged(lka, t) = lka[last][2]
  BY <1>1 DEF Engaged
<1>4. IF before = {} THEN last = 1 ELSE last \in before /\ \A k \in before : k <= last
  <2>1. before # {} => \E j \in before : \A k \in before : k <= j
    <3>1. before \in SUBSET (1 .. n) /\ n \in Nat
      BY <1>2
    <3> HIDE DEF before
    <3> QED
      BY <3>1, LargestExists
  <2> HIDE DEF before
  <2> QED
    BY <2>1
<1> HIDE DEF last
<1>5. /\ last \in 1 .. n
      /\ last = 1 \/ lka[last][1] <= t
      /\ \A k \in last + 1 .. n : lka[k][1] > t
  <2>1. CASE before = {}
    <3>1. \A k \in 1 .. n : lka[k][1] > t
      BY <1>2, <2>1
    <3> QED
      BY <1>2, <1>4, <2>1, <3>1
  <2>2. CASE before # {}
    <3>1. last \in 1 .. n /\ lka[last][1] <= t
      BY <1>4, <2>2
    <3>2. ASSUME NEW k \in last + 1 .. n PROVE lka[k][1] > t
      <4>1. k \in 1 .. n /\ ~(k <= last)
        BY <3>1
      <4>2. k \notin before
        BY <1>4, <2>2, <4>1
      <4> QED
        BY <1>2, <4>1, <4>2
    <3> QED
      BY <3>1, <3>2
  <2> QED
    BY <2>1, <2>2
<1>6. ASSUME NEW j \in 1 .. n, j = 1 \/ lka[j][1] <= t, \A k \in j + 1 .. n : lka[k][1] > t
      PROVE  j = last
  <2>1. ~(j < last)
    <3>1. j < last => last \in j + 1 .. n /\ last # 1
      BY <1>2, <1>5
    <3> QED
      BY <1>2, <1>5, <1>6, <3>1
  <2>2. ~(last < j)
    <3>1. last < j => j \in last + 1 .. n /\ j # 1
      BY <1>2, <1>5
    <3> QED
      BY <1>2, <1>5, <1>6, <3>1
  <2> QED
    BY <1>5, <2>1, <2>2
<1>7. (\E j \in 1 .. n : /\ ~lka[j][2]
                         /\ j = 1 \/ lka[j][1] <= t
                         /\ \A k \in j + 1 .. n : lka[k][1] > t)
        <=> ~Engaged(lka, t)
  <2> HIDE DEF before
  <2> QED
    BY <1>3, <1>5, <1>6
<1>8. Schmitt(rec.torque)[f] <=> Overriding(rec.torque, f)
  <2>1. rec.torque \in Seq(Levels) /\ f \in 1 .. Len(rec.torque)
    BY DEF IsRecording, Levels
  <2> QED
    BY <2>1, LatchIsOverriding
<1>9. DriverActive(rec)[f] = (~Engaged(lka, t) \/ Schmitt(rec.torque)[f])
  BY <1>1 DEF DriverActive
<1>10. f <= Len(rec.times)
  BY <1>2
<1>11. Steering(rec, f) <=> Overriding(rec.torque, f) \/ ~Engaged(lka, t)
  BY <1>1, <1>7, <1>10 DEF Steering
<1> QED
  BY <1>8, <1>9, <1>11
----------------------------------------------------------------------------
(* The renderer: its invariant. *)

Within == {"segments", "open", "chunk", "rows"}
Frame == {"chunk", "rows"}

\* What the models get of a segment, and the calibration that goes for all of them.
InputRpy(s) == IF req.calibrate THEN Calibration(s) ELSE Raw
FixedRpy == IF req.rpy = NoRpy /\ Len(req.segs) = 1 THEN SegmentRpy(recs[req.logs]) ELSE req.rpy

VideoTypes ==
    /\ recs \in Library /\ req \in Arguments
    /\ pc \in {"main", "check", "load", "writer", "montage"} \cup Within \cup Ended
    /\ seg \in 0 .. Len(req.segs)
    /\ cap \in Nat /\ prev \in Nat /\ written \in Nat /\ row \in Nat
    /\ real \in Seq(Seq(Nat)) /\ driver \in Seq(BOOLEAN)
    /\ yuv \in Seq(Nat) /\ rgb \in Seq(Nat)
    /\ file \in {"earlier", "open", "closed", "torn"}

\* How far main and the loop over the segments have come.
PlaceOK ==
    /\ pc \notin Ended \cup {"main"} => rpyCalib = FixedRpy
    /\ pc = "montage" => req.montage # 0
    /\ pc \in {"check", "load", "writer"} \cup Within => req.montage = 0
    /\ pc \in {"load", "writer"} \cup Within => \A i \in 1 .. Len(req.segs) : HasVideo(req.segs[i])
    /\ pc \in {"main", "check", "load", "writer", "montage"} => seg = 0 /\ out = << >>
    /\ pc \in Within => file = "open"

\* What was loaded for the segment at work is what its frames are to be shown with.
SegmentOK ==
    pc \in {"open"} \cup Frame =>
    /\ seg \in 1 .. Len(req.segs) /\ rpy = Calibration(req.segs[seg])
    /\ real = IF req.real THEN [i \in 1 .. Len(Rec.times) |-> DrivenPath(Rec.times, i)] ELSE << >>
    /\ driver = IF req.badge /\ HasDriver(Rec)
                THEN [i \in 1 .. Len(Rec.times) |-> Steering(Rec, i)] ELSE << >>

\* The frame decoded last is the last of the chunk; the models have seen the frames up to
\* the one written last.
StatesOK ==
    pc \in Frame =>
    LET seen == Warmed(req.segs[seg], written + 1, InputRpy(req.segs[seg]))
    IN  /\ Rec.video = "there" /\ cap \in 1 .. Rec.frames /\ prev = cap
        /\ student = seen /\ teacher = IF req.teacher THEN seen ELSE << >>
        /\ Len(out) <= req.total
        /\ pc = "chunk" => cap = written + 1

\* A chunk is a stretch of frames, with the one before it in front for the models.  It is
\* short at the end of the video or of the clip only.
ChunkOK ==
    pc = "rows" =>
    LET n == Len(rgb)
        first == written + 1 - row
    IN  /\ n \in 1 .. Chunk /\ row \in 0 .. n /\ row <= written
        /\ yuv = [k \in 1 .. n + 1 |-> first + k - 1] /\ rgb = [k \in 1 .. n |-> first + k]
        /\ cap = first + n
        /\ Len(out) - row + n <= req.total
        /\ n < Chunk => cap = Rec.frames \/ Len(out) - row + n = req.total

Rows == {Expected(i, f) : i \in 1 .. Len(req.segs), f \in Nat}
Follow(rows) ==
    \A k \in 1 .. Len(rows) :
        IF k > 1 /\ rows[k].seg = rows[k - 1].seg
        THEN rows[k].image = rows[k - 1].image + 1
        ELSE rows[k].image = 2 /\ (k > 1 => rows[k].seg > rows[k - 1].seg)

\* The next row follows on the last one.
RowsOK ==
    /\ out \in Seq(Rows) /\ Follow(out)
    /\ out = << >> /\ pc \in Frame => written = 0
    /\ out # << >> =>
          LET last == out[Len(out)]
          IN  /\ last.seg <= seg
              /\ pc = "open" => last.seg < seg
              /\ pc \in Frame => IF written = 0 THEN last.seg < seg
                                 ELSE last.seg = seg /\ last.image = written + 1

PngOK == png # NoPng => png.student = Warmed(req.segs[1], png.image, Calibration(req.segs[1]))

\* How many rows there are, where h sums what can be read of the segments.
IsSum(h) ==
    /\ h \in [0 .. Len(req.segs) -> Nat] /\ h[0] = 0
    /\ \A i \in 1 .. Len(req.segs) : h[i] = h[i - 1] + Readable(i)
LengthOK(h) ==
    /\ pc = "segments" => Len(out) = Smaller(req.total, h[seg])
    /\ pc = "open" => Len(out) = h[seg - 1] /\ Len(out) < req.total
    /\ pc \in Frame => Len(out) = h[seg - 1] + written
    /\ pc = "returned" /\ req.montage = 0 =>
          file = "closed" /\ Len(out) = Smaller(req.total, h[Len(req.segs)])
LengthsOK == \A h : IsSum(h) => LengthOK(h)

VideoIInv == /\ VideoTypes /\ PlaceOK /\ SegmentOK /\ StatesOK /\ ChunkOK
             /\ RowsOK /\ PngOK /\ LengthsOK

\* The recordings and the arguments do not change, and so neither does what is expected.
LEMMA StaticKeeps ==
    ASSUME recs' = recs, req' = req
    PROVE  /\ FixedRpy' = FixedRpy /\ Rows' = Rows
           /\ \A s : Calibration(s)' = Calibration(s) /\ InputRpy(s)' = InputRpy(s)
           /\ \A s : HasVideo(s)' = HasVideo(s)
           /\ \A i, f : Expected(i, f)' = Expected(i, f)
           /\ \A i : Readable(i)' = Readable(i)
           /\ \A h : IsSum(h)' <=> IsSum(h)
<1>1. FixedRpy' = FixedRpy
  BY DEF FixedRpy
<1>2. ASSUME NEW s PROVE Calibration(s)' = Calibration(s) /\ InputRpy(s)' = InputRpy(s)
  BY DEF Calibration, InputRpy
<1>3. ASSUME NEW s PROVE HasVideo(s)' = HasVideo(s)
  BY DEF HasVideo
<1>4. ASSUME NEW i, NEW f PROVE Expected(i, f)' = Expected(i, f)
  BY DEF Expected, Calibration
<1>5. Rows' = Rows
  BY <1>4 DEF Rows
<1>6. ASSUME NEW i PROVE Readable(i)' = Readable(i)
  BY DEF Readable
<1>7. ASSUME NEW h PROVE IsSum(h)' <=> IsSum(h)
  BY <1>6 DEF IsSum
<1> QED
  BY <1>1, <1>2, <1>3, <1>4, <1>5, <1>6, <1>7

\* Where nothing is loaded or decoded, only places and lengths are left to see to.
LEMMA ElsewhereKeeps ==
    ASSUME VideoIInv, recs' = recs, req' = req, VideoTypes', pc' \notin {"open"} \cup Frame,
           out' = out, png' = png, seg' = seg
    PROVE  SegmentOK' /\ StatesOK' /\ ChunkOK' /\ RowsOK' /\ PngOK'
<1>1. SegmentOK' /\ StatesOK' /\ ChunkOK'
  BY DEF SegmentOK, StatesOK, ChunkOK, Frame
<1>2. RowsOK'
  BY StaticKeeps DEF VideoIInv, RowsOK, Follow, Frame
<1>3. PngOK'
  BY StaticKeeps DEF VideoIInv, PngOK
<1> QED
  BY <1>1, <1>2, <1>3

LEMMA InitInvariant == VideoInit => VideoIInv
<1> SUFFICES ASSUME VideoInit PROVE VideoIInv
  OBVIOUS
<1>1. /\ recs \in Library /\ req \in Arguments /\ pc = "main" /\ seg = 0 /\ out = << >>
      /\ real = << >> /\ driver = << >> /\ yuv = << >> /\ rgb = << >>
      /\ cap = 0 /\ prev = 0 /\ written = 0 /\ row = 0 /\ file = "earlier" /\ png = NoPng
  BY DEF VideoInit
<1>2. req.segs \in Seq(DOMAIN recs)
  BY <1>1, VideoAssumption DEF IsRequest
<1>3. VideoTypes
  BY <1>1, <1>2 DEF VideoTypes
<1>4. PlaceOK /\ SegmentOK /\ StatesOK /\ ChunkOK /\ PngOK
  BY <1>1 DEF PlaceOK, SegmentOK, StatesOK, ChunkOK, PngOK, Ended, Within, Frame
<1>5. RowsOK
  BY <1>1 DEF RowsOK, Follow, Frame
<1>6. LengthsOK
  BY <1>1 DEF LengthsOK, LengthOK, Frame
<1> QED
  BY <1>3, <1>4, <1>5, <1>6 DEF VideoIInv

\* The arguments, and the recordings of the segments.
LEMMA Given ==
    ASSUME VideoTypes
    PROVE  /\ req.segs \in Seq(DOMAIN recs) /\ Len(req.segs) \in Nat \ {0}
           /\ req.total \in Nat /\ req.montage \in Nat
           /\ {req.calibrate, req.teacher, req.real, req.badge} \subseteq BOOLEAN
           /\ \A i \in 1 .. Len(req.segs) : IsRecording(recs[req.segs[i]])
<1>1. recs \in Library /\ req \in Arguments
  BY DEF VideoTypes
<1>2. IsRequest(req, recs) /\ \A name \in DOMAIN recs : IsRecording(recs[name])
  BY <1>1, VideoAssumption
<1>3. req.segs \in Seq(DOMAIN recs) /\ req.segs # << >>
  BY <1>2 DEF IsRequest
<1>4. Len(req.segs) \in Nat \ {0} /\ \A i \in 1 .. Len(req.segs) : req.segs[i] \in DOMAIN recs
  BY <1>3
<1> QED
  BY <1>2, <1>3, <1>4 DEF IsRequest

\* The calibration of a segment is the one given for all, if there is one.
LEMMA CalibrationIs ==
    ASSUME VideoTypes, NEW s
    PROVE  LET own == IF FixedRpy # NoRpy THEN FixedRpy ELSE SegmentRpy(recs[s])
           IN  Calibration(s) = IF own = NoRpy THEN Zero ELSE own
<1>1. CASE req.rpy # NoRpy
  BY <1>1 DEF FixedRpy, Calibration
<1>2. CASE req.rpy = NoRpy /\ Len(req.segs) = 1
  BY <1>2 DEF FixedRpy, Calibration
<1>3. CASE req.rpy = NoRpy /\ Len(req.segs) # 1
  BY <1>3 DEF FixedRpy, Calibration
<1> QED
  BY <1>1, <1>2, <1>3

\* What is before the first segment, what ends a render, and the montage.
LEMMA MainKeeps ==
    ASSUME VideoIInv, Resolve \/ CheckVideos \/ LoadModels \/ OpenWriter
    PROVE  VideoIInv'
<1>1. /\ recs' = recs /\ req' = req /\ seg' = seg /\ out' = out /\ png' = png
      /\ seg = 0 /\ out = << >> /\ pc \in {"main", "check", "load", "writer"}
      /\ pc' \in {"check", "montage", "load", "raised", "writer", "segments"}
  BY DEF VideoIInv, PlaceOK, Resolve, CheckVideos, LoadModels, OpenWriter, segVars, output
<1>2. VideoTypes'
  BY <1>1 DEF VideoIInv, VideoTypes, Resolve, CheckVideos, LoadModels, OpenWriter,
              segVars, capVars, chunkVars, output, Ended, Within
<1>3. SegmentOK' /\ StatesOK' /\ ChunkOK' /\ RowsOK' /\ PngOK'
  BY <1>1, <1>2, ElsewhereKeeps DEF Frame
<1>4. PlaceOK'
  <2>1. CASE Resolve
    <3>1. rpyCalib' = FixedRpy'
      BY <2>1, StaticKeeps DEF Resolve, FixedRpy
    <3>2. pc' = IF req.montage = 0 THEN "check" ELSE "montage"
      BY <2>1 DEF Resolve
    <3> QED
      BY <1>1, <3>1, <3>2 DEF PlaceOK, Ended, Within
  <2>2. CASE CheckVideos
    <3>1. pc = "check" /\ rpyCalib' = rpyCalib
      BY <2>2 DEF CheckVideos
    <3>2. pc' = IF \A i \in 1 .. Len(req.segs) : HasVideo(req.segs[i]) THEN "load" ELSE "raised"
      BY <2>2 DEF CheckVideos
    <3> QED
      BY <1>1, <3>1, <3>2, StaticKeeps DEF VideoIInv, PlaceOK, Ended, Within
  <2>3. CASE LoadModels
    BY <1>1, <2>3, StaticKeeps DEF VideoIInv, PlaceOK, Ended, Within, LoadModels
  <2>4. CASE OpenWriter
    BY <1>1, <2>4, StaticKeeps DEF VideoIInv, PlaceOK, Ended, Within, OpenWriter
  <2> QED
    BY <2>1, <2>2, <2>3, <2>4
<1>5. LengthsOK'
  <2>1. SUFFICES ASSUME NEW h, IsSum(h) PROVE LengthOK(h)'
    BY <1>1, StaticKeeps DEF LengthsOK
  <2>2. Len(out) = 0 /\ Smaller(req.total, h[seg]) = 0
    <3>1. req.total \in Nat /\ h[seg] = 0
      BY <1>1, <2>1, Given DEF IsSum, VideoIInv
    <3> QED
      BY <1>1, <3>1 DEF Smaller
  <2>3. (Len(out) = Smaller(req.total, h[seg]))'
    BY <1>1, <2>2
  <2> QED
    BY <1>1, <2>3 DEF LengthOK, Frame
<1> QED
  BY <1>2, <1>3, <1>4, <1>5 DEF VideoIInv

LEMMA MontageKeeps ==
    ASSUME VideoIInv, Montage
    PROVE  VideoIInv'
<1>1. /\ recs' = recs /\ req' = req /\ seg' = seg /\ out' = out
      /\ pc = "montage" /\ pc' \in {"returned", "raised"} /\ req.montage # 0
  BY DEF VideoIInv, PlaceOK, Montage, segVars
<1>2. VideoTypes'
  BY <1>1 DEF VideoIInv, VideoTypes, Montage, segVars, capVars, chunkVars, Ended
<1>3. SegmentOK' /\ StatesOK' /\ ChunkOK' /\ PlaceOK' /\ LengthsOK'
  BY <1>1 DEF SegmentOK, StatesOK, ChunkOK, PlaceOK, LengthsOK, LengthOK, Ended, Within, Frame
<1>4. RowsOK'
  BY <1>1, StaticKeeps DEF VideoIInv, RowsOK, Follow, Frame
<1>5. PngOK'
  <2>1. CASE png' = png
    BY <1>1, <2>1, StaticKeeps DEF VideoIInv, PngOK
  <2>2. CASE png' # png
    <3>1. PICK s, base, n :
             /\ s = req.segs[1] /\ n = Smaller(req.montage, recs[s].frames - 1)
             /\ base = Calibration(s)
      OBVIOUS
    <3>2. base = LET own == IF rpyCalib # NoRpy THEN rpyCalib ELSE SegmentRpy(recs[s])
                 IN  IF own = NoRpy THEN Zero ELSE own
      <4>1. rpyCalib = FixedRpy
        BY <1>1 DEF VideoIInv, PlaceOK, Ended
      <4> QED
        BY <3>1, <4>1, CalibrationIs DEF VideoIInv
    <3>3. /\ recs[s].frames > 1
          /\ png' = [image |-> n + 1,
                     student |-> [k \in 1 .. n |-> [of |-> s, pair |-> <<k, k + 1>>, rpy |-> base]]]
      BY <2>2, <3>1, <3>2 DEF Montage
    <3>4. n \in Nat
      <4>1. IsRecording(recs[s]) /\ req.montage \in Nat
        BY <3>1, Given DEF VideoIInv
      <4>2. recs[s].frames \in Nat
        BY <4>1 DEF IsRecording
      <4> QED
        BY <3>1, <3>3, <4>1, <4>2 DEF Smaller
    <3>5. png'.student = Warmed(s, png'.image, base)
      BY <3>3, <3>4 DEF Warmed
    <3> QED
      BY <1>1, <3>1, <3>5, StaticKeeps DEF PngOK
  <2> QED
    BY <2>1, <2>2
<1> QED
  BY <1>2, <1>3, <1>4, <1>5 DEF VideoIInv

LEMMA StopKeeps ==
    ASSUME VideoIInv, Raise \/ Kill
    PROVE  VideoIInv'
<1>1. /\ recs' = recs /\ req' = req /\ seg' = seg /\ out' = out /\ png' = png
      /\ pc' \in {"raised", "killed"}
  BY DEF Raise, Kill, segVars
<1>2. VideoTypes'
  BY <1>1 DEF VideoIInv, VideoTypes, Raise, Kill, segVars, capVars, chunkVars, Ended
<1>3. SegmentOK' /\ StatesOK' /\ ChunkOK' /\ RowsOK' /\ PngOK'
  BY <1>1, <1>2, ElsewhereKeeps DEF Frame
<1>4. PlaceOK' /\ LengthsOK'
  BY <1>1 DEF PlaceOK, LengthsOK, LengthOK, Ended, Within, Frame
<1> QED
  BY <1>2, <1>3, <1>4 DEF VideoIInv

LEMMA ReadableNat ==
    ASSUME VideoTypes, NEW i \in 1 .. Len(req.segs)
    PROVE  Readable(i) \in Nat
<1>1. recs[req.segs[i]].frames \in Nat
  BY Given DEF IsRecording
<1> QED
  BY <1>1 DEF Readable

\* A sum grows with the number of its terms.
LEMMA SumGrows ==
    ASSUME VideoTypes, NEW h, IsSum(h), NEW i \in 0 .. Len(req.segs)
    PROVE  h[i] \in Nat /\ h[i] <= h[Len(req.segs)]
<1>1. PICK n : n = Len(req.segs) /\ n \in Nat
  BY Given
<1>2. /\ \A k \in 0 .. n : h[k] \in Nat
      /\ \A k \in 1 .. n : h[k - 1] <= h[k]
  <2>1. \A k \in 0 .. n : h[k] \in Nat
    BY <1>1 DEF IsSum
  <2>2. ASSUME NEW k \in 1 .. n PROVE h[k - 1] <= h[k]
    <3>1. h[k] = h[k - 1] + Readable(k) /\ Readable(k) \in Nat
      BY <1>1, ReadableNat DEF IsSum
    <3>2. k - 1 \in 0 .. n
      BY <1>1
    <3> QED
      BY <2>1, <3>1, <3>2
  <2> QED
    BY <2>1, <2>2
<1> DEFINE Above == {k \in 1 .. n : h[k - 1] > h[n]}
<1>3. Above = {}
  <2>1. SUFFICES ASSUME Above # {} PROVE FALSE
    OBVIOUS
  <2>2. PICK k \in Above : \A j \in Above : j <= k
    <3>1. Above \in SUBSET (1 .. n)
      OBVIOUS
    <3> HIDE DEF Above
    <3> QED
      BY <1>1, <2>1, <3>1, LargestExists
  <2>3. k \in 1 .. n /\ k - 1 \in 0 .. n /\ k \in 0 .. n /\ n \in 0 .. n
    BY <1>1, <2>2
  <2>4. h[k] > h[n]
    BY <1>2, <2>2, <2>3
  <2>5. k # n
    BY <1>2, <2>3, <2>4
  <2>6. k + 1 \in Above
    BY <1>1, <2>3, <2>4, <2>5
  <2> QED
    BY <2>2, <2>3, <2>6
<1>4. h[i] <= h[n]
  <2>1. CASE i = n
    BY <1>1, <1>2, <2>1
  <2>2. CASE i # n
    <3>1. i + 1 \in 1 .. n /\ (i + 1) - 1 = i /\ i \in 0 .. n /\ n \in 0 .. n
      BY <1>1, <2>2
    <3>2. ~(h[i] > h[n])
      BY <1>3, <3>1
    <3> QED
      BY <1>2, <3>1, <3>2
  <2> QED
    BY <2>1, <2>2
<1> QED
  BY <1>1, <1>2, <1>4

\* There is such a sum, and it is the one that InAll takes.
LEMMA SumExists ==
    ASSUME VideoTypes
    PROVE  \E h : IsSum(h) /\ InAll = h[Len(req.segs)]
<1>1. PICK n : n = Len(req.segs) /\ n \in Nat
  BY Given
<1> DEFINE Solves(h) == h = [i \in 0 .. n |-> IF i = 0 THEN 0 ELSE h[i - 1] + Readable(i)]
           Sums(h, k) == /\ h[0] = 0 /\ \A i \in 0 .. k : h[i] \in Nat
                         /\ \A i \in 1 .. k : h[i] = h[i - 1] + Readable(i)
           Bad == {k \in 0 .. n : ~ \E h : Sums(h, k)}
<1>2. Bad = {}
  <2>1. SUFFICES ASSUME Bad # {} PROVE FALSE
    OBVIOUS
  <2>2. PICK k \in Bad : \A j \in Bad : k <= j
    <3>1. Bad \in SUBSET Nat
      OBVIOUS
    <3> HIDE DEF Bad
    <3> QED
      BY <2>1, <3>1, LeastExists
  <2>3. k # 0
    <3>1. Sums([j \in {0} |-> 0], 0)
      OBVIOUS
    <3> QED
      BY <3>1
  <2>4. k \in 1 .. n /\ k - 1 \in 0 .. n /\ k - 1 \notin Bad
    <3> HIDE DEF Sums
    <3>1. k \in 0 .. n
      BY <2>2
    <3>2. k - 1 \in 0 .. n /\ ~(k <= k - 1)
      BY <1>1, <2>3, <3>1
    <3>3. k - 1 \notin Bad
      <4> HIDE DEF Bad
      <4> QED
        BY <2>2, <3>2
    <3> QED
      BY <2>3, <3>1, <3>2, <3>3
  <2>5. PICK h : Sums(h, k - 1)
    BY <2>4
  <2> DEFINE g == [j \in 0 .. k |-> IF j = k THEN h[k - 1] + Readable(k) ELSE h[j]]
  <2>6. Readable(k) \in Nat /\ h[k - 1] \in Nat
    <3>1. k - 1 \in 0 .. k - 1
      BY <2>4
    <3> QED
      BY <1>1, <2>4, <2>5, <3>1, ReadableNat
  <2>7. Sums(g, k)
    <3>1. g[0] = 0
      BY <2>4, <2>5
    <3>2. ASSUME NEW i \in 0 .. k PROVE g[i] \in Nat
      <4>1. i # k => i \in 0 .. k - 1
        BY <2>4
      <4> QED
        BY <2>4, <2>5, <2>6, <4>1
    <3>3. ASSUME NEW i \in 1 .. k PROVE g[i] = g[i - 1] + Readable(i)
      <4>1. CASE i = k
        BY <2>4, <4>1
      <4>2. CASE i # k
        <5>1. i \in 1 .. k - 1 /\ g[i] = h[i] /\ g[i - 1] = h[i - 1]
          BY <2>4, <4>2
        <5> QED
          BY <2>5, <5>1
      <4> QED
        BY <4>1, <4>2
    <3> HIDE DEF g
    <3> QED
      BY <3>1, <3>2, <3>3
  <2> QED
    BY <2>2, <2>7
<1>3. PICK h : Sums(h, n)
  <2>1. n \in 0 .. n
    BY <1>1
  <2> QED
    BY <1>2, <2>1
<1> DEFINE g == [i \in 0 .. n |-> h[i]]
<1>4. Solves(g)
  <2>1. ASSUME NEW i \in 0 .. n, i # 0 PROVE g[i] = g[i - 1] + Readable(i)
    <3>1. i \in 1 .. n /\ i - 1 \in 0 .. n
      BY <1>1, <2>1
    <3> QED
      BY <1>3, <3>1
  <2>2. g[0] = 0
    BY <1>1, <1>3
  <2> QED
    BY <2>1, <2>2
<1> DEFINE upTo == CHOOSE f : Solves(f)
<1>5. InAll = upTo[n]
  BY <1>1 DEF InAll
<1>6. Solves(upTo)
  <2> HIDE DEF Solves
  <2> QED
    BY <1>4
<1>7. IsSum(upTo)
  <2> HIDE DEF upTo
  <2>1. upTo = [i \in 0 .. n |-> IF i = 0 THEN 0 ELSE upTo[i - 1] + Readable(i)]
    BY <1>6
  <2> HIDE DEF Solves
  <2>2. /\ upTo[0] = 0 /\ DOMAIN upTo = 0 .. n /\ upTo = [i \in 0 .. n |-> upTo[i]]
        /\ \A i \in 1 .. n : upTo[i] = upTo[i - 1] + Readable(i)
    <3>1. upTo[0] = 0
      BY <1>1, <2>1
    <3>2. ASSUME NEW i \in 1 .. n PROVE upTo[i] = upTo[i - 1] + Readable(i)
      <4>1. i \in 0 .. n /\ i # 0
        BY <1>1
      <4> QED
        BY <2>1, <4>1
    <3>3. DOMAIN upTo = 0 .. n /\ upTo = [i \in 0 .. n |-> upTo[i]]
      BY <2>1
    <3> QED
      BY <3>1, <3>2, <3>3
  <2>3. \A i \in 0 .. n : upTo[i] \in Nat
    <3> DEFINE Odd == {i \in 0 .. n : upTo[i] \notin Nat}
    <3>1. SUFFICES ASSUME Odd # {} PROVE FALSE
      OBVIOUS
    <3>2. PICK k \in Odd : \A j \in Odd : k <= j
      <4>1. Odd \in SUBSET Nat
        OBVIOUS
      <4> HIDE DEF Odd
      <4> QED
        BY <3>1, <4>1, LeastExists
    <3>3. k # 0
      BY <2>2, <3>2
    <3>4. k \in 1 .. n /\ k - 1 \in 0 .. n /\ ~(k <= k - 1)
      BY <1>1, <3>2, <3>3
    <3>5. upTo[k - 1] \in Nat
      BY <3>2, <3>4
    <3>6. Readable(k) \in Nat
      BY <1>1, <3>4, ReadableNat
    <3>7. upTo[k] = upTo[k - 1] + Readable(k)
      BY <2>2, <3>4
    <3>8. upTo[k] \in Nat
      BY <3>5, <3>6, <3>7
    <3> QED
      BY <3>2, <3>8
  <2>4. upTo \in [0 .. n -> Nat]
    BY <2>2, <2>3
  <2> QED
    BY <1>1, <2>2, <2>4 DEF IsSum
<1> QED
  BY <1>1, <1>5, <1>7

\* The loop over the segments ends with all that can be read of them, or with the clip full.
LEMMA FinishKeeps ==
    ASSUME VideoIInv, Finish
    PROVE  VideoIInv'
<1>1. /\ recs' = recs /\ req' = req /\ seg' = seg /\ out' = out /\ png' = png
      /\ pc = "segments" /\ pc' = "returned" /\ file' = "closed"
      /\ seg \in 0 .. Len(req.segs) /\ out \in Seq(Rows)
  BY DEF VideoIInv, VideoTypes, RowsOK, Finish, segVars
<1>2. VideoTypes'
  BY <1>1 DEF VideoIInv, VideoTypes, Finish, segVars, capVars, chunkVars, Ended
<1>3. SegmentOK' /\ StatesOK' /\ ChunkOK' /\ RowsOK' /\ PngOK'
  BY <1>1, <1>2, ElsewhereKeeps DEF Frame
<1>4. PlaceOK'
  BY <1>1 DEF PlaceOK, Ended, Within
<1>5. LengthsOK'
  <2>1. SUFFICES ASSUME NEW h, IsSum(h) PROVE LengthOK(h)'
    BY <1>1, StaticKeeps DEF LengthsOK
  <2>2. Len(out) = Smaller(req.total, h[seg])
    BY <1>1, <2>1 DEF VideoIInv, LengthsOK, LengthOK
  <2>3. /\ h[seg] \in Nat /\ h[Len(req.segs)] \in Nat /\ h[seg] <= h[Len(req.segs)]
        /\ req.total \in Nat /\ Len(out) \in Nat
    <3>1. Len(req.segs) \in 0 .. Len(req.segs)
      BY Given DEF VideoIInv
    <3> QED
      BY <1>1, <2>1, <3>1, SumGrows, Given DEF VideoIInv
  <2>4. seg = Len(req.segs) \/ Len(out) >= req.total
    <3>1. ~(seg < Len(req.segs)) \/ Len(out) >= req.total
      BY DEF Finish, More, Enough
    <3> QED
      BY <1>1, <3>1, Given DEF VideoIInv
  <2>5. Len(out) = Smaller(req.total, h[Len(req.segs)])
    BY <2>2, <2>3, <2>4 DEF Smaller
  <2> QED
    BY <1>1, <2>5 DEF LengthOK, Frame
<1> QED
  BY <1>2, <1>3, <1>4, <1>5 DEF VideoIInv

\* What is read of a drive for its segment.
LEMMA SignalsAre ==
    ASSUME NEW rec, IsRecording(rec)
    PROVE  /\ \A i \in 1 .. Len(rec.times) : /\ RealPath(rec.times, i) = DrivenPath(rec.times, i)
                                             /\ RealPath(rec.times, i) \in Seq(Nat)
           /\ HasDriver(rec) => DriverActive(rec) = [i \in 1 .. Len(rec.times) |-> Steering(rec, i)]
<1>1. rec.times \in Seq(Nat) /\ Increase(rec.times)
  BY DEF IsRecording, Increase
<1>2. ASSUME NEW i \in 1 .. Len(rec.times)
      PROVE  /\ RealPath(rec.times, i) = DrivenPath(rec.times, i)
             /\ RealPath(rec.times, i) \in Seq(Nat)
  <2>1. RealPath(rec.times, i) = DrivenPath(rec.times, i)
    BY <1>1, PathIsDriven
  <2>2. Samples(rec.times, i) \in Seq(Nat)
    <3>1. PICK n : n = NumAnchors /\ n \in Nat
      BY AnchorsGrow
    <3>2. ASSUME NEW k \in 1 .. n PROVE FirstAfter(rec.times, rec.times[i] + Anchors[k]) \in Nat
      <4>1. rec.times[i] + Anchors[k] \in Nat
        BY <1>1, <3>1, AnchorsGrow
      <4>2. FirstAfter(rec.times, rec.times[i] + Anchors[k]) \in 1 .. Len(rec.times) + 1
        BY <1>1, <4>1, FirstAfterIs
      <4> QED
        BY <4>2
    <3>3. Samples(rec.times, i) \in [1 .. n -> Nat]
      BY <3>1, <3>2 DEF Samples
    <3> QED
      BY <3>1, <3>3
  <2>3. RealPath(rec.times, i) \in Seq(Nat)
    BY <2>2 DEF RealPath, NoPath
  <2> QED
    BY <2>1, <2>3
<1>3. ASSUME HasDriver(rec)
      PROVE  DriverActive(rec) = [i \in 1 .. Len(rec.times) |-> Steering(rec, i)]
  <2>1. ASSUME NEW i \in 1 .. Len(rec.times)
        PROVE  (~Engaged(rec.lka, rec.times[i]) \/ Schmitt(rec.torque)[i]) <=> Steering(rec, i)
    <3>1. DriverActive(rec)[i] <=> Steering(rec, i)
      BY <1>3, BadgeIsSteering DEF HasDriver
    <3> QED
      BY <3>1 DEF DriverActive
  <2>2. ASSUME NEW i \in 1 .. Len(rec.times)
        PROVE  (~Engaged(rec.lka, rec.times[i]) \/ Schmitt(rec.torque)[i]) = Steering(rec, i)
    <3>1. Steering(rec, i) \in BOOLEAN
      BY DEF Steering
    <3> QED
      BY <2>1, <3>1
  <2> QED
    BY <2>2 DEF DriverActive
<1> QED
  BY <1>2, <1>3

\* A segment brings its own calibration, trajectory and steering.
LEMMA BeginSegmentKeeps ==
    ASSUME VideoIInv, BeginSegment
    PROVE  VideoIInv'
<1>1. /\ recs' = recs /\ req' = req /\ seg' = seg + 1 /\ out' = out /\ png' = png
      /\ cap' = cap /\ prev' = prev /\ written' = written /\ row' = row
      /\ yuv' = yuv /\ rgb' = rgb /\ file' = file /\ rpyCalib' = rpyCalib
      /\ pc = "segments" /\ pc' = "open" /\ seg < Len(req.segs) /\ ~(Len(out) >= req.total)
  BY DEF BeginSegment, More, Enough, capVars, chunkVars, output
<1>2. seg \in Nat /\ seg + 1 \in 1 .. Len(req.segs) /\ out \in Seq(Rows) /\ Len(out) \in Nat
  BY <1>1, Given DEF VideoIInv, VideoTypes, RowsOK
<1>3. PICK s, rec : s = req.segs[seg + 1] /\ rec = recs[s] /\ IsRecording(rec)
  BY <1>2, Given DEF VideoIInv
<1>4. /\ req.real \in BOOLEAN /\ req.badge \in BOOLEAN /\ req.total \in Nat
  BY Given DEF VideoIInv
<1>5. rpy' = Calibration(s)
  <2>1. rpyCalib = FixedRpy
    BY <1>1 DEF VideoIInv, PlaceOK, Ended
  <2>2. rpy' = LET own == IF rpyCalib # NoRpy THEN rpyCalib ELSE SegmentRpy(rec)
               IN  IF own = NoRpy THEN Zero ELSE own
    BY <1>3 DEF BeginSegment
  <2> QED
    BY <1>3, <2>1, <2>2, CalibrationIs DEF VideoIInv
<1>6. real' = IF req.real THEN [i \in 1 .. Len(rec.times) |-> DrivenPath(rec.times, i)] ELSE << >>
  <2>1. real' = IF req.real /\ rec.times # << >>
                THEN [i \in 1 .. Len(rec.times) |-> RealPath(rec.times, i)] ELSE << >>
    BY <1>3 DEF BeginSegment
  <2>2. [i \in 1 .. Len(rec.times) |-> RealPath(rec.times, i)]
          = [i \in 1 .. Len(rec.times) |-> DrivenPath(rec.times, i)]
    BY <1>3, SignalsAre
  <2>3. rec.times = << >> => [i \in 1 .. Len(rec.times) |-> DrivenPath(rec.times, i)] = << >>
    OBVIOUS
  <2> QED
    BY <1>4, <2>1, <2>2, <2>3
<1>7. driver' = IF req.badge /\ HasDriver(rec)
                THEN [i \in 1 .. Len(rec.times) |-> Steering(rec, i)] ELSE << >>
  BY <1>3, <1>4, SignalsAre DEF BeginSegment
<1>8. VideoTypes'
  <2>1. PICK n : n = Len(rec.times) /\ n \in Nat
    <3>1. rec.times \in Seq(Nat)
      BY <1>3 DEF IsRecording
    <3> QED
      BY <3>1
  <2>2. real' \in Seq(Seq(Nat))
    <3>1. \A i \in 1 .. n : DrivenPath(rec.times, i) \in Seq(Nat)
      BY <1>3, <2>1, SignalsAre
    <3>2. PICK paths : paths = [i \in 1 .. n |-> DrivenPath(rec.times, i)]
      OBVIOUS
    <3>3. paths \in [1 .. n -> Seq(Nat)]
      BY <3>1, <3>2
    <3>4. PICK A : A = Seq(Nat)
      OBVIOUS
    <3>5. paths \in Seq(A) /\ << >> \in Seq(A)
      BY <2>1, <3>3, <3>4
    <3> QED
      BY <1>6, <2>1, <3>2, <3>4, <3>5
  <2>3. driver' \in Seq(BOOLEAN)
    <3>1. \A i \in 1 .. n : Steering(rec, i) \in BOOLEAN
      BY DEF Steering
    <3>2. [i \in 1 .. n |-> Steering(rec, i)] \in [1 .. n -> BOOLEAN]
      BY <3>1
    <3>3. [i \in 1 .. n |-> Steering(rec, i)] \in Seq(BOOLEAN)
      BY <2>1, <3>2
    <3>4. << >> \in Seq(BOOLEAN)
      OBVIOUS
    <3>5. driver' = [i \in 1 .. n |-> Steering(rec, i)] \/ driver' = << >>
      BY <1>7, <2>1
    <3> QED
      BY <3>3, <3>4, <3>5
  <2> QED
    BY <1>1, <1>2, <2>2, <2>3 DEF VideoIInv, VideoTypes, Within
<1>9. PlaceOK'
  BY <1>1, StaticKeeps DEF VideoIInv, PlaceOK, Within, Ended
<1>10. SegmentOK'
  <2>1. (Rec = rec)' /\ (req.segs[seg] = s)'
    BY <1>1, <1>3 DEF Rec
  <2>2. Calibration(s)' = Calibration(s)
    BY <1>1, StaticKeeps
  <2>3. (rpy = Calibration(req.segs[seg]))'
    BY <1>1, <1>3, <1>5, <2>1, <2>2
  <2> QED
    BY <1>1, <1>2, <1>6, <1>7, <2>1, <2>3 DEF SegmentOK
<1>11. StatesOK' /\ ChunkOK' /\ PngOK'
  BY <1>1, StaticKeeps DEF StatesOK, ChunkOK, Frame, VideoIInv, PngOK
<1>12. RowsOK'
  <2>1. out # << >> => out[Len(out)].seg \in Nat /\ out[Len(out)].seg <= seg
    <3>1. out # << >> => out[Len(out)] \in Rows
      BY <1>2
    <3>2. \A r \in Rows : r.seg \in Nat
      BY Given DEF VideoIInv, Rows, Expected
    <3> QED
      BY <3>1, <3>2 DEF VideoIInv, RowsOK
  <2> QED
    BY <1>1, <1>2, <2>1, StaticKeeps DEF VideoIInv, RowsOK, Follow, Frame
<1>13. LengthsOK'
  <2>1. SUFFICES ASSUME NEW h, IsSum(h) PROVE LengthOK(h)'
    BY <1>1, StaticKeeps DEF LengthsOK
  <2>2. Len(out) = Smaller(req.total, h[seg])
    BY <1>1, <2>1 DEF VideoIInv, LengthsOK, LengthOK
  <2>3. h[seg] \in Nat
    <3>1. seg \in 0 .. Len(req.segs)
      BY DEF VideoIInv, VideoTypes
    <3> QED
      BY <2>1, <3>1, SumGrows DEF VideoIInv
  <2>4. Len(out) = h[seg] /\ Len(out) < req.total
    BY <1>1, <1>2, <1>4, <2>2, <2>3 DEF Smaller
  <2>5. (Len(out) = h[seg - 1] /\ Len(out) < req.total)'
    <3>1. seg' - 1 = seg
      BY <1>1, <1>2
    <3> QED
      BY <1>1, <2>4, <3>1
  <2> QED
    BY <1>1, <2>5 DEF LengthOK, Frame
<1> QED
  BY <1>8, <1>9, <1>10, <1>11, <1>12, <1>13 DEF VideoIInv

\* Where a segment is at work, and what it adds to the clip.
LEMMA FramesAtWork ==
    ASSUME VideoIInv, pc \in {"open"} \cup Frame
    PROVE  /\ seg \in 1 .. Len(req.segs) /\ seg \in Nat \ {0} /\ IsRecording(Rec)
           /\ req.total \in Nat /\ Len(out) \in Nat /\ Rec.frames \in Nat
           /\ cap \in Nat /\ written \in Nat /\ row \in Nat /\ Chunk \in Nat \ {0}
           /\ {req.calibrate, req.teacher, req.real, req.badge} \subseteq BOOLEAN
           /\ Rec.video \in {"unopenable", "there"}
           /\ \A h : IsSum(h) =>
                /\ h[seg - 1] \in Nat /\ h[seg] \in Nat
                /\ h[seg] = h[seg - 1] + Readable(seg)
           /\ Readable(seg) = IF Rec.video = "there" /\ Rec.frames > 0 THEN Rec.frames - 1 ELSE 0
<1>1. seg \in 1 .. Len(req.segs) /\ Len(req.segs) \in Nat /\ req.total \in Nat
  BY Given DEF VideoIInv, SegmentOK
<1>2. IsRecording(Rec)
  BY <1>1, Given DEF VideoIInv, Rec
<1>3. Rec.frames \in Nat /\ Rec.video \in {"missing", "unopenable", "there"}
  BY <1>2 DEF IsRecording
<1>4. Rec.video # "missing"
  <2>1. HasVideo(req.segs[seg])
    BY <1>1 DEF VideoIInv, PlaceOK, Frame, Within
  <2> QED
    BY <2>1 DEF HasVideo, Rec
<1>5. Len(out) \in Nat
  BY DEF VideoIInv, RowsOK
<1>6. ASSUME NEW h, IsSum(h)
      PROVE  h[seg - 1] \in Nat /\ h[seg] \in Nat /\ h[seg] = h[seg - 1] + Readable(seg)
  <2>1. seg - 1 \in 0 .. Len(req.segs) /\ seg \in 0 .. Len(req.segs)
    BY <1>1
  <2> QED
    BY <1>1, <1>6, <2>1 DEF IsSum
<1>7. Readable(seg) = IF Rec.video = "there" /\ Rec.frames > 0 THEN Rec.frames - 1 ELSE 0
  BY DEF Readable, Rec
<1> QED
  BY <1>1, <1>2, <1>3, <1>4, <1>5, <1>6, <1>7, Given, VideoAssumption DEF VideoIInv, VideoTypes

\* A segment whose video cannot be opened, or which has ended, adds nothing more.
LEMMA SegmentEnds ==
    ASSUME VideoIInv, pc \in {"open"} \cup Frame,
           recs' = recs, req' = req, seg' = seg, out' = out, png' = png, file' = file,
           rpyCalib' = rpyCalib, pc' = "segments", VideoTypes',
           pc = "open" => Readable(seg) = 0,
           pc \in Frame => \/ Len(out) = req.total
                           \/ written = Rec.frames - 1
    PROVE  VideoIInv'
<1>1. SegmentOK' /\ StatesOK' /\ ChunkOK' /\ RowsOK' /\ PngOK'
  BY ElsewhereKeeps DEF Frame
<1>2. PlaceOK'
  BY StaticKeeps DEF VideoIInv, PlaceOK, Frame, Within, Ended
<1>3. LengthsOK'
  <2>1. SUFFICES ASSUME NEW h, IsSum(h) PROVE LengthOK(h)'
    BY StaticKeeps DEF LengthsOK
  <2>2. /\ h[seg - 1] \in Nat /\ h[seg] \in Nat /\ h[seg] = h[seg - 1] + Readable(seg)
        /\ req.total \in Nat /\ Len(out) \in Nat /\ Rec.frames \in Nat
    BY <2>1, FramesAtWork
  <2>3. LengthOK(h)
    BY <2>1 DEF VideoIInv, LengthsOK
  <2>4. Len(out) = Smaller(req.total, h[seg])
    <3>1. CASE pc = "open"
      <4>1. Len(out) = h[seg - 1] /\ Len(out) < req.total /\ Readable(seg) = 0
        BY <2>3, <3>1 DEF LengthOK
      <4> QED
        BY <2>2, <4>1 DEF Smaller
    <3>2. CASE pc \in Frame
      <4>1. /\ Len(out) = h[seg - 1] + written /\ Len(out) <= req.total
            /\ cap \in 1 .. Rec.frames /\ Rec.video = "there"
        BY <2>3, <3>2 DEF LengthOK, VideoIInv, StatesOK
      <4>2. Readable(seg) = Rec.frames - 1
        BY <2>2, <3>2, <4>1, FramesAtWork
      <4>3. written \in Nat /\ written <= Rec.frames - 1
        <5>1. written \in Nat /\ row \in Nat
          BY <3>2, FramesAtWork
        <5>2. CASE pc = "chunk"
          BY <2>2, <4>1, <5>1, <5>2, <3>2 DEF VideoIInv, StatesOK
        <5>3. CASE pc = "rows"
          <6>1. /\ row \in 0 .. Len(rgb) /\ Len(rgb) \in Nat
                /\ cap = written + 1 - row + Len(rgb)
            BY <5>3 DEF VideoIInv, ChunkOK
          <6> QED
            BY <2>2, <4>1, <5>1, <6>1
        <5> QED
          BY <3>2, <5>2, <5>3 DEF Frame
      <4>4. Len(out) = req.total \/ written = Rec.frames - 1
        BY <3>2
      <4> QED
        BY <2>2, <4>1, <4>2, <4>3, <4>4 DEF Smaller
    <3> QED
      BY <3>1, <3>2
  <2> QED
    BY <2>4 DEF LengthOK, Frame
<1> QED
  BY <1>1, <1>2, <1>3 DEF VideoIInv

LEMMA OpenVideoKeeps ==
    ASSUME VideoIInv, OpenVideo
    PROVE  VideoIInv'
<1>1. /\ recs' = recs /\ req' = req /\ seg' = seg /\ out' = out /\ png' = png /\ file' = file
      /\ rpyCalib' = rpyCalib /\ rpy' = rpy /\ real' = real /\ driver' = driver
      /\ yuv' = yuv /\ rgb' = rgb /\ row' = row /\ pc = "open"
  BY DEF OpenVideo, segVars, chunkVars, output
<1>2. CASE Rec.video = "unopenable" \/ Rec.frames = 0
  <2>1. pc' = "segments" /\ cap' = cap /\ prev' = prev /\ written' = written
    BY <1>2 DEF OpenVideo, capVars
  <2>2. VideoTypes'
    BY <1>1, <2>1 DEF VideoIInv, VideoTypes, Within
  <2>3. Readable(seg) = 0
    BY <1>1, <1>2, FramesAtWork
  <2> QED
    BY <1>1, <2>1, <2>2, <2>3, SegmentEnds DEF Frame
<1>3. CASE ~(Rec.video = "unopenable" \/ Rec.frames = 0)
  <2>1. /\ pc' = "chunk" /\ cap' = 1 /\ prev' = 1 /\ written' = 0
        /\ student' = << >> /\ teacher' = << >>
    BY <1>3 DEF OpenVideo
  <2>2. /\ Rec.video = "there" /\ 1 \in 1 .. Rec.frames /\ seg \in 1 .. Len(req.segs)
        /\ req.total \in Nat /\ Len(out) \in Nat /\ Rec.frames \in Nat
    BY <1>1, <1>3, FramesAtWork
  <2>3. VideoTypes'
    BY <1>1, <2>1 DEF VideoIInv, VideoTypes, Within
  <2>4. PlaceOK' /\ ChunkOK' /\ PngOK'
    BY <1>1, <2>1, StaticKeeps DEF VideoIInv, PlaceOK, ChunkOK, PngOK, Within, Ended
  <2>5. Rec' = Rec
    BY <1>1 DEF Rec
  <2>6. SegmentOK'
    <3>1. (rpy = Calibration(req.segs[seg]))'
      BY <1>1, StaticKeeps DEF VideoIInv, SegmentOK
    <3> QED
      BY <1>1, <2>1, <2>5, <3>1 DEF VideoIInv, SegmentOK, Frame
  <2>7. StatesOK'
    <3>1. \A s, c : Warmed(s, 1, c) = << >>
      BY DEF Warmed
    <3>2. Len(out) < req.total
      <4>1. PICK h : IsSum(h)
        BY SumExists DEF VideoIInv
      <4> QED
        BY <1>1, <4>1 DEF VideoIInv, LengthsOK, LengthOK
    <3>3. written' + 1 = 1
      BY <2>1
    <3>4. (Warmed(req.segs[seg], written + 1, InputRpy(req.segs[seg])) = << >>)'
      BY <3>1, <3>3
    <3>5. (student = Warmed(req.segs[seg], written + 1, InputRpy(req.segs[seg])))'
      BY <2>1, <3>4
    <3>6. (teacher = IF req.teacher THEN Warmed(req.segs[seg], written + 1, InputRpy(req.segs[seg]))
                     ELSE << >>)'
      BY <2>1, <3>4
    <3>7. cap' \in 1 .. Rec'.frames /\ prev' = cap' /\ cap' = written' + 1
      BY <2>1, <2>2, <2>5
    <3> QED
      BY <1>1, <2>1, <2>2, <2>5, <3>2, <3>5, <3>6, <3>7 DEF StatesOK
  <2>8. RowsOK'
    BY <1>1, <2>1, StaticKeeps DEF VideoIInv, RowsOK, Follow, Frame
  <2>9. LengthsOK'
    <3>1. SUFFICES ASSUME NEW h, IsSum(h) PROVE LengthOK(h)'
      BY <1>1, StaticKeeps DEF LengthsOK
    <3>2. Len(out) = h[seg - 1] /\ h[seg - 1] \in Nat
      BY <1>1, <3>1, FramesAtWork DEF VideoIInv, LengthsOK, LengthOK
    <3>3. (Len(out) = h[seg - 1] + written)'
      BY <1>1, <2>1, <3>2
    <3> QED
      BY <2>1, <3>3 DEF LengthOK, Frame
  <2> QED
    BY <2>3, <2>4, <2>6, <2>7, <2>8, <2>9 DEF VideoIInv
<1> QED
  BY <1>2, <1>3

LEMMA DecodeKeeps ==
    ASSUME VideoIInv, Decode
    PROVE  VideoIInv'
<1>1. /\ recs' = recs /\ req' = req /\ seg' = seg /\ out' = out /\ png' = png /\ file' = file
      /\ rpyCalib' = rpyCalib /\ rpy' = rpy /\ real' = real /\ driver' = driver
      /\ written' = written /\ student' = student /\ teacher' = teacher
      /\ pc = "chunk" /\ req.total - Len(out) > 0
  BY DEF Decode, segVars, output, Remaining
<1>2. /\ seg \in 1 .. Len(req.segs) /\ req.total \in Nat /\ Len(out) \in Nat /\ Rec.frames \in Nat
      /\ cap \in Nat /\ written \in Nat /\ Chunk \in Nat \ {0}
      /\ cap = written + 1 /\ cap \in 1 .. Rec.frames /\ prev = cap
  BY <1>1, FramesAtWork DEF VideoIInv, StatesOK, Frame
<1>3. PICK n : n = Got
  OBVIOUS
<1>4. /\ n \in Nat /\ n <= Chunk /\ n <= Rec.frames - cap /\ Len(out) + n <= req.total
      /\ n < Chunk => n = Rec.frames - cap \/ Len(out) + n = req.total
  <2>1. PICK remaining, frames, lines, total :
           /\ remaining = total - lines /\ frames = Rec.frames - cap
           /\ lines = Len(out) /\ total = req.total
    OBVIOUS
  <2>2. /\ remaining \in Nat \ {0} /\ frames \in Nat /\ Chunk \in Nat \ {0}
        /\ lines \in Nat /\ total \in Nat
    BY <1>1, <1>2, <2>1
  <2>3. n = LET want == IF Chunk < remaining THEN Chunk ELSE remaining
            IN  IF want < frames THEN want ELSE frames
    BY <1>3, <2>1 DEF Got, Want, Remaining, Smaller
  <2>4. /\ n \in Nat /\ n <= Chunk /\ n <= frames /\ n <= remaining
        /\ n < Chunk => n = frames \/ n = remaining
    BY <2>2, <2>3
  <2>5. lines + n <= total /\ (n = remaining => lines + n = total)
    BY <2>1, <2>2, <2>4
  <2> QED
    BY <2>1, <2>4, <2>5
<1>5. CASE n = 0
  <2>1. pc' = "segments" /\ cap' = cap /\ prev' = prev /\ yuv' = yuv /\ rgb' = rgb /\ row' = row
    BY <1>3, <1>5 DEF Decode, chunkVars
  <2>2. VideoTypes'
    BY <1>1, <2>1 DEF VideoIInv, VideoTypes, Within
  <2>3. written = Rec.frames - 1
    BY <1>1, <1>2, <1>4, <1>5
  <2> QED
    BY <1>1, <2>1, <2>2, <2>3, SegmentEnds DEF Frame
<1>6. CASE n # 0
  <2>1. /\ pc' = "rows" /\ row' = 0 /\ cap' = cap + n
        /\ yuv' = [k \in 1 .. n + 1 |-> IF k = 1 THEN prev ELSE cap + k - 1]
        /\ rgb' = [k \in 1 .. n |-> cap + k]
        /\ prev' = yuv'[n + 1]
    BY <1>3, <1>6 DEF Decode
  <2>2. /\ yuv' = [k \in 1 .. n + 1 |-> cap + k - 1] /\ prev' = cap + n
        /\ yuv' \in Seq(Nat) /\ rgb' \in Seq(Nat) /\ Len(rgb') = n
    <3>1. \A k \in 1 .. n + 1 : (IF k = 1 THEN prev ELSE cap + k - 1) = cap + k - 1
      BY <1>2, <1>4
    <3>2. yuv' = [k \in 1 .. n + 1 |-> cap + k - 1]
      BY <2>1, <3>1
    <3>3. yuv' \in [1 .. n + 1 -> Nat] /\ rgb' \in [1 .. n -> Nat]
      BY <1>2, <1>4, <2>1, <3>2
    <3>4. yuv' \in Seq(Nat) /\ rgb' \in Seq(Nat) /\ Len(rgb') = n
      BY <1>4, <3>3
    <3>5. n + 1 \in 1 .. n + 1
      BY <1>4
    <3>6. prev' = cap + (n + 1) - 1
      BY <2>1, <3>2, <3>5
    <3> QED
      BY <1>2, <1>4, <3>2, <3>4, <3>6
  <2>3. VideoTypes'
    BY <1>1, <1>2, <1>4, <2>1, <2>2 DEF VideoIInv, VideoTypes, Within
  <2>4. PlaceOK' /\ PngOK'
    BY <1>1, <2>1, StaticKeeps DEF VideoIInv, PlaceOK, PngOK, Within, Ended
  <2>5. Rec' = Rec
    BY <1>1 DEF Rec
  <2>6. SegmentOK'
    <3>1. (rpy = Calibration(req.segs[seg]))'
      BY <1>1, StaticKeeps DEF VideoIInv, SegmentOK, Frame
    <3> QED
      BY <1>1, <2>1, <2>5, <3>1 DEF VideoIInv, SegmentOK, Frame
  <2>7. StatesOK'
    <3>1. PICK s : s = req.segs[seg]
      OBVIOUS
    <3>2. InputRpy(s)' = InputRpy(s) /\ (req.segs[seg] = s)'
      BY <1>1, <3>1, StaticKeeps
    <3>3. /\ Rec.video = "there" /\ student = Warmed(s, written + 1, InputRpy(s))
          /\ teacher = IF req.teacher THEN Warmed(s, written + 1, InputRpy(s)) ELSE << >>
          /\ Len(out) <= req.total
      BY <1>1, <3>1 DEF VideoIInv, StatesOK, Frame
    <3>4. cap' \in 1 .. Rec'.frames /\ prev' = cap'
      BY <1>2, <1>4, <2>1, <2>2, <2>5
    <3>5. (student = Warmed(req.segs[seg], written + 1, InputRpy(req.segs[seg])))'
      BY <1>1, <3>1, <3>2, <3>3
    <3> QED
      BY <1>1, <2>1, <2>5, <3>3, <3>4, <3>5 DEF StatesOK
  <2>8. ChunkOK'
    <3>1. PICK first : first = written + 1 /\ first = cap
      BY <1>2
    <3>2. (first = written + 1 - row)'
      BY <1>1, <1>2, <2>1, <3>1
    <3>3. (n = Len(rgb))'
      BY <2>2
    <3>4. /\ n \in 1 .. Chunk /\ row' \in 0 .. n /\ row' <= written'
          /\ yuv' = [k \in 1 .. n + 1 |-> first + k - 1] /\ rgb' = [k \in 1 .. n |-> first + k]
          /\ cap' = first + n
          /\ Len(out') - row' + n <= req'.total
          /\ n < Chunk => cap' = Rec'.frames \/ Len(out') - row' + n = req'.total
      BY <1>1, <1>2, <1>4, <1>6, <2>1, <2>2, <2>5, <3>1
    <3> QED
      BY <3>2, <3>3, <3>4 DEF ChunkOK
  <2>9. RowsOK'
    BY <1>1, <2>1, StaticKeeps DEF VideoIInv, RowsOK, Follow, Frame
  <2>10. LengthsOK'
    <3>1. SUFFICES ASSUME NEW h, IsSum(h) PROVE LengthOK(h)'
      BY <1>1, StaticKeeps DEF LengthsOK
    <3>2. Len(out) = h[seg - 1] + written
      BY <1>1, <3>1 DEF VideoIInv, LengthsOK, LengthOK, Frame
    <3> QED
      BY <1>1, <2>1, <3>2 DEF LengthOK, Frame
  <2> QED
    BY <2>3, <2>4, <2>6, <2>7, <2>8, <2>9, <2>10 DEF VideoIInv
<1> QED
  BY <1>5, <1>6

LEMMA EndStreamKeeps ==
    ASSUME VideoIInv, EndStream
    PROVE  VideoIInv'
<1>1. /\ recs' = recs /\ req' = req /\ seg' = seg /\ out' = out /\ png' = png /\ file' = file
      /\ rpyCalib' = rpyCalib /\ pc = "chunk" /\ pc' = "segments"
      /\ req.total - Len(out) = 0
  BY DEF EndStream, segVars, output, Remaining
<1>2. VideoTypes'
  BY <1>1 DEF VideoIInv, VideoTypes, Within, EndStream, segVars, capVars, chunkVars, output
<1>3. Len(out) = req.total
  BY <1>1, FramesAtWork DEF Frame
<1> QED
  BY <1>1, <1>2, <1>3, SegmentEnds DEF Frame

\* One more input warms a state up to the next frame.
LEMMA WarmedAppend ==
    ASSUME NEW s, NEW c, NEW f \in Nat \ {0}
    PROVE  Append(Warmed(s, f, c), [of |-> s, pair |-> <<f, f + 1>>, rpy |-> c]) = Warmed(s, f + 1, c)
<1> DEFINE input(k) == [of |-> s, pair |-> <<k, k + 1>>, rpy |-> c]
           before == [k \in 1 .. f - 1 |-> input(k)]
           after == [k \in 1 .. f |-> input(k)]
<1>1. before = Warmed(s, f, c) /\ after = Warmed(s, f + 1, c)
  <2>1. f + 1 - 1 = f
    OBVIOUS
  <2> QED
    BY <2>1 DEF Warmed
<1> HIDE DEF input
<1>2. PICK A : A = {input(k) : k \in 1 .. f}
  OBVIOUS
<1>3. before \in Seq(A) /\ Len(before) = f - 1 /\ input(f) \in A
  BY <1>2
<1>4. Append(before, input(f)) = after
  <2>1. PICK b, x : b = before /\ x = input(f)
    OBVIOUS
  <2>2. /\ Append(b, x) = [k \in 1 .. f |-> IF k = f THEN x ELSE b[k]]
    BY <1>3, <2>1
  <2>3. \A k \in 1 .. f : (IF k = f THEN x ELSE b[k]) = input(k)
    BY <2>1
  <2> QED
    BY <2>1, <2>2, <2>3
<1> QED
  BY <1>1, <1>4 DEF input

\* What is written is the row that is expected of the frame after the last one.
LEMMA RowIsExpected ==
    ASSUME VideoIInv, WriteRow
    PROVE  LET s == req.segs[seg]
               seen == Warmed(s, written + 2, InputRpy(s))
           IN  /\ out' = Append(out, Expected(seg, written + 2))
               /\ student' = seen /\ teacher' = IF req.teacher THEN seen ELSE << >>
<1>1. pc = "rows" /\ row < Len(rgb) /\ row' = row + 1
  BY DEF WriteRow
<1>2. /\ written \in Nat /\ row \in Nat /\ IsRecording(Rec)
      /\ {req.calibrate, req.teacher, req.real, req.badge} \subseteq BOOLEAN
  BY <1>1, FramesAtWork DEF Frame
<1>3. PICK s, c, n, f : s = req.segs[seg] /\ c = InputRpy(s) /\ n = Len(rgb) /\ f = written + 2
  OBVIOUS
<1>4. PICK first : first = written + 1 - row
  OBVIOUS
<1>5. /\ n \in Nat /\ f \in Nat
      /\ yuv = [k \in 1 .. n + 1 |-> first + k - 1] /\ rgb = [k \in 1 .. n |-> first + k]
  BY <1>1, <1>2, <1>3, <1>4 DEF VideoIInv, ChunkOK
<1>6. yuv[row'] = written + 1 /\ yuv[row' + 1] = f /\ rgb[row'] = f
  <2>1. /\ row' \in 1 .. n /\ row' \in 1 .. n + 1 /\ row' + 1 \in 1 .. n + 1
        /\ first + row' - 1 = written + 1 /\ first + (row' + 1) - 1 = f /\ first + row' = f
    BY <1>1, <1>2, <1>3, <1>4, <1>5
  <2> QED
    BY <1>5, <2>1
<1>7. rpy = Calibration(s) /\ c = IF req.calibrate THEN rpy ELSE Raw
  BY <1>1, <1>3 DEF VideoIInv, SegmentOK, Frame, InputRpy
<1>8. PICK pair : pair = [of |-> s, pair |-> <<written + 1, f>>, rpy |-> c]
  OBVIOUS
<1>9. PICK seen : seen = Warmed(s, f, c)
  OBVIOUS
<1>10. Append(Warmed(s, written + 1, c), pair) = seen
  <2>1. written + 1 \in Nat \ {0} /\ f = (written + 1) + 1
    BY <1>2, <1>3
  <2> QED
    BY <1>8, <1>9, <2>1, WarmedAppend
<1>11. /\ student' = seen /\ teacher' = IF req.teacher THEN seen ELSE << >>
  <2>1. /\ student = Warmed(s, written + 1, c)
        /\ teacher = IF req.teacher THEN Warmed(s, written + 1, c) ELSE << >>
    BY <1>1, <1>3 DEF VideoIInv, StatesOK, Frame
  <2>2. /\ student' = Append(student, pair)
        /\ teacher' = IF req.teacher THEN Append(teacher, pair) ELSE teacher
    BY <1>3, <1>6, <1>7, <1>8 DEF WriteRow
  <2> QED
    BY <1>10, <2>1, <2>2
<1>12. PICK rec : rec = Rec /\ rec = recs[s] /\ rec.times \in Seq(Nat)
  BY <1>2, <1>3 DEF Rec, IsRecording
<1>13. /\ real = IF req.real THEN [i \in 1 .. Len(rec.times) |-> DrivenPath(rec.times, i)] ELSE << >>
       /\ driver = IF req.badge /\ HasDriver(rec)
                   THEN [i \in 1 .. Len(rec.times) |-> Steering(rec, i)] ELSE << >>
  BY <1>1, <1>12 DEF VideoIInv, SegmentOK, Frame
<1>14. At(real, NoPath) = IF req.real THEN DrivenPath(rec.times, f) ELSE NoPath
  <2>1. Fidx = f
    BY <1>2, <1>3 DEF Fidx
  <2>2. f \in Nat \ {0} /\ Len(rec.times) \in Nat
    BY <1>2, <1>3, <1>12
  <2>3. CASE req.real /\ f <= Len(rec.times)
    <3>1. f \in 1 .. Len(rec.times) /\ f <= Len(real) /\ real[f] = DrivenPath(rec.times, f)
      BY <1>13, <2>2, <2>3
    <3> QED
      BY <2>1, <2>3, <3>1 DEF At
  <2>4. CASE req.real /\ ~(f <= Len(rec.times))
    <3>1. ~(f <= Len(real))
      BY <1>13, <2>2, <2>4
    <3>2. DrivenPath(rec.times, f) = NoPath
      BY <2>4 DEF DrivenPath
    <3> QED
      BY <2>1, <2>4, <3>1, <3>2 DEF At
  <2>5. CASE ~req.real
    <3>1. ~(f <= Len(real))
      BY <1>13, <2>2, <2>5
    <3> QED
      BY <2>1, <2>5, <3>1 DEF At
  <2> QED
    BY <2>3, <2>4, <2>5
<1>15. At(driver, FALSE) = (req.badge /\ Steering(rec, f))
  <2>1. Fidx = f
    BY <1>2, <1>3 DEF Fidx
  <2>2. f \in Nat \ {0} /\ Len(rec.times) \in Nat /\ Steering(rec, f) \in BOOLEAN
    BY <1>2, <1>3, <1>12 DEF Steering
  <2>3. CASE req.badge /\ HasDriver(rec) /\ f <= Len(rec.times)
    <3>1. f \in 1 .. Len(rec.times) /\ f <= Len(driver) /\ driver[f] = Steering(rec, f)
      BY <1>13, <2>2, <2>3
    <3>2. At(driver, FALSE) = Steering(rec, f)
      BY <2>1, <3>1 DEF At
    <3>3. Steering(rec, f) = (req.badge /\ Steering(rec, f))
      BY <2>2, <2>3
    <3> QED
      BY <3>2, <3>3
  <2>4. CASE ~(req.badge /\ HasDriver(rec) /\ f <= Len(rec.times))
    <3>1. ~(f <= Len(driver))
      BY <1>13, <2>2, <2>4
    <3>2. ~(req.badge /\ Steering(rec, f))
      <4>1. SUFFICES ASSUME req.badge, Steering(rec, f) PROVE FALSE
        OBVIOUS
      <4>2. f <= Len(rec.times) /\ rec.lka # << >>
        BY <4>1 DEF Steering
      <4>3. rec.times # << >>
        BY <2>2, <4>2
      <4> QED
        BY <2>4, <4>1, <4>2, <4>3 DEF HasDriver
    <3>3. At(driver, FALSE) = FALSE
      BY <2>1, <3>1 DEF At
    <3> QED
      BY <3>2, <3>3
  <2> QED
    BY <2>3, <2>4
<1>16. Panels(req.teacher, real # << >>) = Panels(req.teacher, req.real /\ rec.times # << >>)
  <2>1. real # << >> <=> req.real /\ rec.times # << >>
    <3>1. CASE req.real
      <4>1. Len(real) = Len(rec.times) /\ real \in [1 .. Len(rec.times) -> {DrivenPath(rec.times, i) : i \in 1 .. Len(rec.times)}]
        BY <1>12, <1>13, <3>1
      <4>2. real = << >> <=> Len(rec.times) = 0
        BY <1>12, <4>1
      <4> QED
        BY <1>12, <3>1, <4>2
    <3>2. CASE ~req.real
      BY <1>13, <3>2
    <3> QED
      BY <3>1, <3>2
  <2> QED
    BY <2>1 DEF Panels
<1>17. out' = Append(out,
           [seg |-> seg, image |-> rgb[row'], student |-> student', teacher |-> teacher',
            draw |-> rpy, path |-> At(real, NoPath), badge |-> At(driver, FALSE),
            panels |-> Panels(req.teacher, real # << >>)])
  BY DEF WriteRow
<1>18. out' = Append(out,
           [seg |-> seg, image |-> f, student |-> seen,
            teacher |-> IF req.teacher THEN seen ELSE << >>,
            draw |-> Calibration(s), path |-> IF req.real THEN DrivenPath(rec.times, f) ELSE NoPath,
            badge |-> req.badge /\ Steering(rec, f),
            panels |-> Panels(req.teacher, req.real /\ rec.times # << >>)])
  BY <1>6, <1>7, <1>11, <1>14, <1>15, <1>16, <1>17
<1>19. Expected(seg, f) =
           [seg |-> seg, image |-> f, student |-> seen,
            teacher |-> IF req.teacher THEN seen ELSE << >>,
            draw |-> Calibration(s), path |-> IF req.real THEN DrivenPath(rec.times, f) ELSE NoPath,
            badge |-> req.badge /\ Steering(rec, f),
            panels |-> Panels(req.teacher, req.real /\ rec.times # << >>)]
  BY <1>3, <1>9, <1>12 DEF Expected, InputRpy
<1> QED
  BY <1>3, <1>9, <1>11, <1>18, <1>19

LEMMA WriteRowKeeps ==
    ASSUME VideoIInv, WriteRow
    PROVE  VideoIInv'
<1>1. /\ recs' = recs /\ req' = req /\ seg' = seg /\ png' = png /\ file' = file
      /\ rpyCalib' = rpyCalib /\ rpy' = rpy /\ real' = real /\ driver' = driver
      /\ cap' = cap /\ prev' = prev /\ yuv' = yuv /\ rgb' = rgb
      /\ pc = "rows" /\ pc' = "rows" /\ row' = row + 1 /\ written' = written + 1 /\ row < Len(rgb)
  BY DEF WriteRow, segVars
<1>2. /\ seg \in 1 .. Len(req.segs) /\ req.total \in Nat /\ Len(out) \in Nat
      /\ cap \in Nat /\ written \in Nat /\ row \in Nat /\ seg \in Nat
  BY <1>1, FramesAtWork DEF Frame
<1>3. PICK r, f : r = Expected(seg, f) /\ f = written + 2
  OBVIOUS
<1>4. r \in Rows /\ r.seg = seg /\ r.image = f
  <2>1. f \in Nat
    BY <1>2, <1>3
  <2> QED
    BY <1>2, <1>3, <2>1 DEF Rows, Expected
<1>5. out \in Seq(Rows) /\ out' = Append(out, r)
  BY <1>3, RowIsExpected DEF VideoIInv, RowsOK
<1>6. /\ out' \in Seq(Rows) /\ Len(out') = Len(out) + 1 /\ out' # << >>
      /\ out'[Len(out) + 1] = r /\ \A k \in 1 .. Len(out) : out'[k] = out[k]
  BY <1>4, <1>5
<1>7. VideoTypes'
  BY <1>1, <1>2 DEF VideoIInv, VideoTypes, Within
<1>8. PlaceOK' /\ PngOK'
  BY <1>1, StaticKeeps DEF VideoIInv, PlaceOK, PngOK, Within, Ended
<1>9. Rec' = Rec
  BY <1>1 DEF Rec
<1>10. SegmentOK'
  <2>1. (rpy = Calibration(req.segs[seg]))'
    BY <1>1, StaticKeeps DEF VideoIInv, SegmentOK, Frame
  <2> QED
    BY <1>1, <1>9, <2>1 DEF VideoIInv, SegmentOK, Frame
<1>11. PICK n, first : n = Len(rgb) /\ first = written + 1 - row
  OBVIOUS
<1>12. /\ n \in 1 .. Chunk /\ row \in 0 .. n /\ row <= written
       /\ yuv = [k \in 1 .. n + 1 |-> first + k - 1] /\ rgb = [k \in 1 .. n |-> first + k]
       /\ cap = first + n
       /\ Len(out) - row + n <= req.total
       /\ n < Chunk => cap = Rec.frames \/ Len(out) - row + n = req.total
  BY <1>1, <1>11 DEF VideoIInv, ChunkOK
<1>13. StatesOK'
  <2>1. PICK s : s = req.segs[seg]
    OBVIOUS
  <2>2. InputRpy(s)' = InputRpy(s) /\ (req.segs[seg] = s)'
    BY <1>1, <2>1, StaticKeeps
  <2>3. PICK seen : seen = Warmed(s, written + 2, InputRpy(s))
    OBVIOUS
  <2>4. student' = seen /\ teacher' = IF req.teacher THEN seen ELSE << >>
    BY <2>1, <2>3, RowIsExpected
  <2>5. (seen = Warmed(req.segs[seg], written + 1, InputRpy(req.segs[seg])))'
    <3>1. written' + 1 = written + 2
      BY <1>1, <1>2
    <3> QED
      BY <2>2, <2>3, <3>1
  <2>6. Rec.video = "there" /\ cap \in 1 .. Rec.frames /\ prev = cap
    BY <1>1 DEF VideoIInv, StatesOK, Frame
  <2>7. Len(out') <= req'.total
    BY <1>1, <1>2, <1>6, <1>11, <1>12
  <2> QED
    BY <1>1, <1>9, <2>4, <2>5, <2>6, <2>7 DEF StatesOK
<1>14. ChunkOK'
  <2>1. (n = Len(rgb) /\ first = written + 1 - row)'
    BY <1>1, <1>2, <1>11
  <2>2. n \in Nat
    BY <1>2, <1>12, FramesAtWork
  <2>3. row' \in 0 .. n /\ row' <= written'
    BY <1>1, <1>2, <1>11, <1>12, <2>2
  <2>4. PICK lines : lines = Len(out)
    OBVIOUS
  <2>5. Len(out') - row' + n = Len(out) - row + n
    <3>1. Len(out') = lines + 1 /\ row' = row + 1 /\ lines \in Nat
      BY <1>1, <1>2, <1>6, <2>4
    <3>2. (lines + 1) - (row + 1) + n = lines - row + n
      BY <1>2, <2>2, <3>1
    <3> QED
      BY <2>4, <3>1, <3>2
  <2> QED
    BY <1>1, <1>9, <1>12, <2>1, <2>3, <2>5 DEF ChunkOK
<1>15. RowsOK'
  <2>1. Follow(out')
    <3>1. ASSUME NEW k \in 1 .. Len(out')
          PROVE  IF k > 1 /\ out'[k].seg = out'[k - 1].seg
                 THEN out'[k].image = out'[k - 1].image + 1
                 ELSE out'[k].image = 2 /\ (k > 1 => out'[k].seg > out'[k - 1].seg)
      <4>1. CASE k \in 1 .. Len(out)
        <5>1. out'[k] = out[k] /\ (k > 1 => out'[k - 1] = out[k - 1])
          <6>1. k > 1 => k - 1 \in 1 .. Len(out)
            BY <1>2, <4>1
          <6> QED
            BY <1>6, <4>1, <6>1
        <5>2. Follow(out)
          BY DEF VideoIInv, RowsOK
        <5> QED
          BY <4>1, <5>1, <5>2 DEF Follow
      <4>2. CASE k = Len(out) + 1 /\ out = << >>
        <5>1. written = 0 /\ k = 1
          BY <1>1, <4>2 DEF VideoIInv, RowsOK, Frame
        <5> QED
          BY <1>3, <1>4, <1>6, <4>2, <5>1
      <4>3. CASE k = Len(out) + 1 /\ out # << >>
        <5>1. PICK last : last = out[Len(out)]
          OBVIOUS
        <5>2. IF written = 0 THEN last.seg < seg ELSE last.seg = seg /\ last.image = written + 1
          BY <1>1, <4>3, <5>1 DEF VideoIInv, RowsOK, Frame
        <5>3. k > 1 /\ out'[k] = r /\ out'[k - 1] = last
          <6>1. k - 1 = Len(out) /\ Len(out) \in 1 .. Len(out)
            BY <1>2, <1>5, <4>3
          <6> QED
            BY <1>2, <1>6, <4>3, <5>1, <6>1
        <5>4. last.seg \in Nat
          <6>1. last \in Rows
            BY <1>2, <1>5, <4>3, <5>1
          <6> QED
            BY <6>1, Given DEF VideoIInv, Rows, Expected
        <5>5. CASE written = 0
          BY <1>2, <1>3, <1>4, <5>2, <5>3, <5>4, <5>5
        <5>6. CASE written # 0
          BY <1>2, <1>3, <1>4, <5>2, <5>3, <5>6
        <5> QED
          BY <5>5, <5>6
      <4>4. k \in 1 .. Len(out) \/ k = Len(out) + 1
        BY <1>2, <1>6
      <4> QED
        BY <4>1, <4>2, <4>3, <4>4
    <3> QED
      BY <3>1 DEF Follow
  <2>2. out'[Len(out')].seg = seg' /\ out'[Len(out')].image = written' + 1 /\ written' # 0
    BY <1>1, <1>2, <1>3, <1>4, <1>6
  <2>3. Rows' = Rows /\ Follow(out)' = Follow(out')
    BY <1>1, StaticKeeps DEF Follow
  <2> QED
    BY <1>1, <1>2, <1>6, <2>1, <2>2, <2>3 DEF RowsOK
<1>16. LengthsOK'
  <2>1. SUFFICES ASSUME NEW h, IsSum(h) PROVE LengthOK(h)'
    BY <1>1, StaticKeeps DEF LengthsOK
  <2>2. PICK before : before = h[seg - 1]
    OBVIOUS
  <2>3. Len(out') = h[seg - 1] + written'
    <3>1. Len(out) = h[seg - 1] + written
      BY <1>1, <2>1 DEF VideoIInv, LengthsOK, LengthOK, Frame
    <3>2. before \in Nat
      <4>1. seg - 1 \in 0 .. Len(req.segs)
        BY <1>2, Given DEF VideoIInv
      <4> QED
        BY <2>1, <2>2, <4>1 DEF IsSum
    <3>3. before + written + 1 = before + (written + 1)
      BY <1>2, <3>2
    <3> QED
      BY <1>1, <1>6, <2>2, <3>1, <3>3
  <2>4. (Len(out) = h[seg - 1] + written)'
    BY <1>1, <2>3
  <2> QED
    BY <1>1, <2>4 DEF LengthOK, Frame
<1> QED
  BY <1>7, <1>8, <1>10, <1>13, <1>14, <1>15, <1>16 DEF VideoIInv

LEMMA EndChunkKeeps ==
    ASSUME VideoIInv, EndChunk
    PROVE  VideoIInv'
<1>1. /\ recs' = recs /\ req' = req /\ seg' = seg /\ png' = png /\ file' = file /\ out' = out
      /\ rpyCalib' = rpyCalib /\ rpy' = rpy /\ real' = real /\ driver' = driver
      /\ cap' = cap /\ prev' = prev /\ yuv' = yuv /\ rgb' = rgb /\ row' = row
      /\ written' = written /\ student' = student /\ teacher' = teacher
      /\ pc = "rows" /\ row = Len(rgb)
      /\ pc' = IF req.total - Len(out) > 0 /\ Len(rgb) < Chunk THEN "segments" ELSE "chunk"
  BY DEF EndChunk, segVars, capVars, chunkVars, output, Remaining
<1>2. /\ seg \in 1 .. Len(req.segs) /\ req.total \in Nat /\ Len(out) \in Nat
      /\ cap \in Nat /\ written \in Nat /\ row \in Nat /\ Rec.frames \in Nat
  BY <1>1, FramesAtWork DEF Frame
<1>3. PICK n, first : n = Len(rgb) /\ first = written + 1 - row
  OBVIOUS
<1>4. /\ n = row /\ cap = first + n
      /\ n < Chunk => cap = Rec.frames \/ Len(out) - row + n = req.total
  BY <1>1, <1>3 DEF VideoIInv, ChunkOK
<1>5. cap = written + 1
  BY <1>2, <1>3, <1>4
<1>6. VideoTypes'
  BY <1>1 DEF VideoIInv, VideoTypes, Within
<1>7. CASE pc' = "segments"
  <2>1. Len(rgb) < Chunk
    BY <1>1, <1>7
  <2>2. Len(out) = req.total \/ written = Rec.frames - 1
    BY <1>2, <1>3, <1>4, <1>5, <2>1
  <2> QED
    BY <1>1, <1>6, <1>7, <2>2, SegmentEnds DEF Frame
<1>8. CASE pc' = "chunk"
  <2>1. PlaceOK' /\ PngOK' /\ ChunkOK'
    BY <1>1, <1>8, StaticKeeps DEF VideoIInv, PlaceOK, PngOK, ChunkOK, Within, Ended
  <2>2. Rec' = Rec
    BY <1>1 DEF Rec
  <2>3. SegmentOK'
    <3>1. (rpy = Calibration(req.segs[seg]))'
      BY <1>1, StaticKeeps DEF VideoIInv, SegmentOK, Frame
    <3> QED
      BY <1>1, <1>8, <2>2, <3>1 DEF VideoIInv, SegmentOK, Frame
  <2>4. StatesOK'
    <3>1. PICK s : s = req.segs[seg]
      OBVIOUS
    <3>2. InputRpy(s)' = InputRpy(s) /\ (req.segs[seg] = s)'
      BY <1>1, <3>1, StaticKeeps
    <3>3. /\ Rec.video = "there" /\ student = Warmed(s, written + 1, InputRpy(s))
          /\ teacher = IF req.teacher THEN Warmed(s, written + 1, InputRpy(s)) ELSE << >>
          /\ Len(out) <= req.total /\ cap \in 1 .. Rec.frames /\ prev = cap
      BY <1>1, <3>1 DEF VideoIInv, StatesOK, Frame
    <3>4. (student = Warmed(req.segs[seg], written + 1, InputRpy(req.segs[seg])))'
      BY <1>1, <3>1, <3>2, <3>3
    <3> QED
      BY <1>1, <1>5, <2>2, <3>3, <3>4 DEF StatesOK
  <2>5. RowsOK'
    BY <1>1, <1>8, StaticKeeps DEF VideoIInv, RowsOK, Follow, Frame
  <2>6. LengthsOK'
    <3>1. SUFFICES ASSUME NEW h, IsSum(h) PROVE LengthOK(h)'
      BY <1>1, StaticKeeps DEF LengthsOK
    <3>2. Len(out) = h[seg - 1] + written
      BY <1>1, <3>1 DEF VideoIInv, LengthsOK, LengthOK, Frame
    <3> QED
      BY <1>1, <1>8, <3>2 DEF LengthOK, Frame
  <2> QED
    BY <1>6, <2>1, <2>3, <2>4, <2>5, <2>6 DEF VideoIInv
<1> QED
  BY <1>1, <1>7, <1>8

\* The invariant is inductive, one lemma for the actions of each part of the program.
LEMMA VideoInvariant == VideoSpec => []VideoIInv
<1>1. VideoIInv /\ [VideoNext]_videoVars => VideoIInv'
  <2>1. SUFFICES ASSUME VideoIInv, [VideoNext]_videoVars PROVE VideoIInv'
    OBVIOUS
  <2>2. CASE Step
    <3>1. CASE Resolve \/ CheckVideos \/ LoadModels \/ OpenWriter
      BY <2>1, <3>1, MainKeeps
    <3>2. CASE BeginSegment
      BY <2>1, <3>2, BeginSegmentKeeps
    <3>3. CASE Finish
      BY <2>1, <3>3, FinishKeeps
    <3>4. CASE OpenVideo
      BY <2>1, <3>4, OpenVideoKeeps
    <3>5. CASE Decode
      BY <2>1, <3>5, DecodeKeeps
    <3>6. CASE EndStream
      BY <2>1, <3>6, EndStreamKeeps
    <3>7. CASE WriteRow
      BY <2>1, <3>7, WriteRowKeeps
    <3>8. CASE EndChunk
      BY <2>1, <3>8, EndChunkKeeps
    <3>9. CASE Montage
      BY <2>1, <3>9, MontageKeeps
    <3> QED
      BY <2>2, <3>1, <3>2, <3>3, <3>4, <3>5, <3>6, <3>7, <3>8, <3>9 DEF Step
  <2>3. CASE Raise \/ Kill
    BY <2>1, <2>3, StopKeeps
  <2>4. CASE UNCHANGED videoVars
    <3>1. /\ recs' = recs /\ req' = req /\ pc' = pc /\ rpyCalib' = rpyCalib /\ seg' = seg
          /\ rpy' = rpy /\ real' = real /\ driver' = driver /\ cap' = cap /\ prev' = prev
          /\ written' = written /\ student' = student /\ teacher' = teacher /\ yuv' = yuv
          /\ rgb' = rgb /\ row' = row /\ out' = out /\ file' = file /\ png' = png
      BY <2>4 DEF videoVars, segVars, capVars, chunkVars, output
    <3>2. VideoTypes' /\ PlaceOK' /\ ChunkOK' /\ PngOK'
      BY <2>1, <3>1, StaticKeeps DEF VideoIInv, VideoTypes, PlaceOK, ChunkOK, PngOK, Rec
    <3>3. Rec' = Rec
      BY <3>1 DEF Rec
    <3>4. SegmentOK' /\ StatesOK'
      BY <2>1, <3>1, <3>3, StaticKeeps DEF VideoIInv, SegmentOK, StatesOK
    <3>5. RowsOK' /\ LengthsOK'
      BY <2>1, <3>1, StaticKeeps DEF VideoIInv, RowsOK, Follow, LengthsOK, LengthOK
    <3> QED
      BY <3>2, <3>4, <3>5 DEF VideoIInv
  <2> QED
    BY <2>1, <2>2, <2>3, <2>4 DEF VideoNext
<1> QED
  BY InitInvariant, <1>1, PTL DEF VideoSpec

\* The state of a render keeps its types.
THEOREM VideoTypesAlways == VideoSpec => []VideoTypeOK
<1>1. VideoIInv => VideoTypeOK
  BY DEF VideoIInv, VideoTypes, VideoTypeOK, Within, Frame
<1> QED
  BY VideoInvariant, <1>1, PTL

\* Wherever chunks and segments end (_stream_segment, generate_prediction_video), a row
\* shows the frame that the models were given last, after all those before it in this
\* segment and no other, with this segment's calibration and this frame's trajectory and
\* badge; rows follow frame by frame; and the montage's frame is warmed up likewise.
THEOREM RowsAlignedAlways == VideoSpec => []RowsAligned
<1>1. VideoIInv => RowsAligned
  <2>1. SUFFICES ASSUME VideoIInv PROVE RowsAligned
    OBVIOUS
  <2>2. out \in Seq(Rows) /\ Follow(out) /\ PngOK
    BY <2>1 DEF VideoIInv, RowsOK
  <2>3. ASSUME NEW k \in 1 .. Len(out) PROVE out[k] = Expected(out[k].seg, out[k].image)
    <3>1. out[k] \in Rows
      BY <2>2
    <3>2. PICK i, f : out[k] = Expected(i, f)
      BY <3>1 DEF Rows
    <3>3. out[k].seg = i /\ out[k].image = f
      BY <3>2 DEF Expected
    <3> QED
      BY <3>2, <3>3
  <2> QED
    BY <2>2, <2>3 DEF RowsAligned, Follow, PngOK
<1> QED
  BY VideoInvariant, <1>1, PTL

\* The writer keeps all rows when all of them are of the size it was opened with.
LEMMA InFileIsOut ==
    ASSUME out \in Seq(Rows),
           \A k \in 1 .. Len(out) : out[k].panels = Panels(req.teacher, req.real)
    PROVE  InFile = out
<1>1. PICK n, rows : n = Len(out) /\ rows = out
  OBVIOUS
<1>2. n \in Nat /\ rows \in Seq(Rows) /\ Len(rows) = n /\ \A k \in 1 .. n : rows[k] \in Rows
  BY <1>1
<1> DEFINE First(k) == [j \in 1 .. k |-> rows[j]]
           Solves(g) == g = [k \in 0 .. n |->
                               IF k = 0 THEN << >>
                               ELSE IF rows[k].panels = Panels(req.teacher, req.real)
                                    THEN Append(g[k - 1], rows[k]) ELSE g[k - 1]]
           firsts == [k \in 0 .. n |-> First(k)]
           kept == CHOOSE g : Solves(g)
<1>3. ASSUME NEW k \in 1 .. n PROVE First(k) = Append(First(k - 1), rows[k])
  <2>1. k - 1 \in Nat /\ First(k - 1) \in Seq(Rows) /\ Len(First(k - 1)) = k - 1
    BY <1>2
  <2>2. /\ Append(First(k - 1), rows[k]) \in Seq(Rows)
        /\ Len(Append(First(k - 1), rows[k])) = k
        /\ \A j \in 1 .. k - 1 : Append(First(k - 1), rows[k])[j] = rows[j]
        /\ Append(First(k - 1), rows[k])[k] = rows[k]
    BY <1>2, <2>1
  <2>3. First(k) \in Seq(Rows) /\ Len(First(k)) = k /\ \A j \in 1 .. k : First(k)[j] = rows[j]
    BY <1>2
  <2>4. PICK a, b : a = First(k) /\ b = Append(First(k - 1), rows[k])
    OBVIOUS
  <2>5. a \in Seq(Rows) /\ b \in Seq(Rows) /\ Len(a) = Len(b) /\ Len(a) = k
    BY <2>2, <2>3, <2>4
  <2>6. ASSUME NEW j \in 1 .. Len(a) PROVE a[j] = b[j]
    <3>1. j = k \/ j \in 1 .. k - 1
      BY <1>2, <2>5
    <3> QED
      BY <2>2, <2>3, <2>4, <2>5, <3>1
  <2> HIDE DEF First
  <2>7. a = b
    BY <2>5, <2>6, SeqEqual
  <2> QED
    BY <2>4, <2>7
<1>4. Solves(firsts)
  <2>1. First(0) = << >>
    OBVIOUS
  <2>2. ASSUME NEW k \in 0 .. n
        PROVE  firsts[k] = IF k = 0 THEN << >>
                           ELSE IF rows[k].panels = Panels(req.teacher, req.real)
                                THEN Append(firsts[k - 1], rows[k]) ELSE firsts[k - 1]
    <3> HIDE DEF First
    <3>1. CASE k = 0
      BY <2>1, <3>1
    <3>2. CASE k # 0
      <4>1. k \in 1 .. n /\ k - 1 \in 0 .. n
        BY <1>2, <3>2
      <4>2. firsts[k] = Append(firsts[k - 1], rows[k])
        BY <1>3, <4>1
      <4>3. rows[k].panels = Panels(req.teacher, req.real)
        BY <1>1, <4>1
      <4> QED
        BY <3>2, <4>2, <4>3
    <3> QED
      BY <3>1, <3>2
  <2>3. DOMAIN firsts = 0 .. n
    OBVIOUS
  <2> HIDE DEF firsts
  <2>4. firsts = [k \in 0 .. n |-> firsts[k]]
    BY DEF firsts
  <2> QED
    BY <2>2, <2>4
<1>5. InFile = kept[n]
  BY <1>1 DEF InFile
<1>6. kept = [k \in 0 .. n |->
                IF k = 0 THEN << >>
                ELSE IF rows[k].panels = Panels(req.teacher, req.real)
                     THEN Append(kept[k - 1], rows[k]) ELSE kept[k - 1]]
  <2>1. Solves(kept)
    <3> HIDE DEF Solves
    <3> QED
      BY <1>4
  <2> HIDE DEF kept
  <2> QED
    BY <2>1
<1> HIDE DEF kept, Solves, firsts
<1>7. kept[0] = << >> /\ \A k \in 1 .. n : kept[k] = Append(kept[k - 1], rows[k])
  <2>1. kept[0] = << >>
    BY <1>2, <1>6
  <2>2. ASSUME NEW k \in 1 .. n PROVE kept[k] = Append(kept[k - 1], rows[k])
    <3>1. k \in 0 .. n /\ k # 0
      BY <1>2
    <3>2. rows[k].panels = Panels(req.teacher, req.real)
      BY <1>1
    <3> QED
      BY <1>6, <3>1, <3>2
  <2> QED
    BY <2>1, <2>2
<1> DEFINE Other == {k \in 0 .. n : kept[k] # First(k)}
<1>8. Other = {}
  <2>1. SUFFICES ASSUME Other # {} PROVE FALSE
    OBVIOUS
  <2>2. PICK k \in Other : \A j \in Other : k <= j
    <3>1. Other \in SUBSET Nat
      OBVIOUS
    <3> HIDE DEF Other
    <3> QED
      BY <2>1, <3>1, LeastExists
  <2>3. k # 0
    <3>1. First(0) = << >>
      OBVIOUS
    <3> HIDE DEF First
    <3> QED
      BY <1>7, <2>2, <3>1
  <2> HIDE DEF First
  <2>4. k \in 1 .. n /\ k - 1 \in 0 .. n /\ ~(k <= k - 1)
    BY <1>2, <2>2, <2>3
  <2>5. kept[k - 1] = First(k - 1)
    BY <2>2, <2>4
  <2> QED
    BY <1>3, <1>7, <2>2, <2>4, <2>5
<1>9. kept[n] = First(n)
  <2>1. n \in 0 .. n
    BY <1>2
  <2> HIDE DEF First
  <2> QED
    BY <1>8, <2>1
<1>10. First(n) = rows
  BY <1>2
<1> QED
  BY <1>1, <1>5, <1>9, <1>10

\* A render that returns has closed its file and written as many rows as were asked for,
\* or as the segments that can be read have (generate_prediction_video); and all of them
\* are in the file, if every segment has the poses that a panel was asked of.
THEOREM FullLengthAlways == VideoSpec => []FullLength
<1>1. VideoIInv => FullLength
  <2>1. SUFFICES ASSUME VideoIInv, pc = "returned", req.montage = 0
                 PROVE  /\ file = "closed" /\ Len(out) = Smaller(req.total, InAll)
                        /\ (req.real => \A i \in 1 .. Len(req.segs) : recs[req.segs[i]].times # << >>)
                              => InFile = out
    BY DEF FullLength
  <2>2. file = "closed" /\ Len(out) = Smaller(req.total, InAll)
    <3>1. PICK h : IsSum(h) /\ InAll = h[Len(req.segs)]
      BY <2>1, SumExists DEF VideoIInv
    <3> QED
      BY <2>1, <3>1 DEF VideoIInv, LengthsOK, LengthOK
  <2>3. ASSUME req.real => \A i \in 1 .. Len(req.segs) : recs[req.segs[i]].times # << >>
        PROVE  InFile = out
    <3>1. out \in Seq(Rows)
      BY <2>1 DEF VideoIInv, RowsOK
    <3>2. ASSUME NEW k \in 1 .. Len(out)
          PROVE  out[k].panels = Panels(req.teacher, req.real)
      <4>1. out[k] \in Rows
        BY <3>1
      <4>2. PICK i \in 1 .. Len(req.segs), f \in Nat : out[k] = Expected(i, f)
        BY <4>1 DEF Rows
      <4>3. out[k].panels = Panels(req.teacher, req.real /\ recs[req.segs[i]].times # << >>)
        BY <4>2 DEF Expected
      <4>4. (req.real /\ recs[req.segs[i]].times # << >>) <=> req.real
        BY <2>3, <4>2
      <4> QED
        BY <4>3, <4>4 DEF Panels
    <3> QED
      BY <3>1, <3>2, InFileIsOut
  <2> QED
    BY <2>2, <2>3
<1> QED
  BY VideoInvariant, <1>1, PTL
=============================================================================
