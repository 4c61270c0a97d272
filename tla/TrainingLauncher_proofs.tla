---------------------- MODULE TrainingLauncher_proofs -----------------------
(***************************************************************************)
(* The training launcher, its script and its trainer implement the pod     *)
(* fleet: each step is one of PodFleet or leaves the pods alone.           *)
(*                                                                         *)
(* The second part is about the run: launcher, script and trainer agree on *)
(* which of them is at work, the train log is only ever that of this run's *)
(* trainer, and the files on the volume descend from each other.           *)
(***************************************************************************)
EXTENDS TrainingLauncher, PodFleet_proofs

\* On the pod, only the script that stops its own pod touches one.
LEMMA PodKeepsItself ==
    ASSUME PodStep \/ PodChoice
    PROVE  UNCHANGED fleetVars \/ Vanish(granted)
<1>1. CASE ScriptStarts \/ Setup \/ StartTrainer \/ Watch
  BY <1>1 DEF ScriptStarts, Setup, StartTrainer, Watch
<1>2. CASE TrainerRuns \/ TrainerSaves \/ TrainerLogs \/ PodChoice
  BY <1>2 DEF TrainerRuns, TrainerSaves, TrainerLogs, PodChoice, TrainerCheckpoints,
              TrainerFails, TrainerExits
<1>3. CASE ConvertOnnx \/ ConvertDlc \/ Mark \/ AutoStop
  BY <1>3 DEF ConvertOnnx, ConvertDlc, Mark, AutoStop
<1> QED
  BY <1>1, <1>2, <1>3 DEF PodStep

\* A step of the launcher at work keeps its pod, leaves it or gives it back.
LEMMA LauncherKeepsOrEnds ==
    ASSUME LauncherStep \/ StopWatching
    PROVE  UNCHANGED fleetVars \/ Leave \/ GiveBack
<1>1. CASE UploadOnly \/ RemoveLogs \/ Upload \/ Launch
  BY <1>1 DEF UploadOnly, RemoveLogs, Upload, Launch, LeavePod
<1>2. CASE Poll \/ Find \/ DownloadPth
  BY <1>2 DEF Poll, Find, DownloadPth
<1>3. CASE \/ DownloadConversion("onnx", onnx, "dlc")
           \/ DownloadConversion("dlc", dlc, "terminate")
  BY <1>3 DEF DownloadConversion
<1>4. CASE TerminatePod \/ StopWatching
  BY <1>4 DEF TerminatePod, StopWatching, LeavePod
<1> QED
  BY <1>1, <1>2, <1>3, <1>4 DEF LauncherStep

\* Each step is one of the fleet's.
LEMMA StepRefines == ASSUME [Next]_vars PROVE [FleetNext]_fleetVars
<1>1. ASSUME NEW mode \in Modes, NEW wait \in BOOLEAN, NEW stop \in BOOLEAN,
             Invoke(mode, wait, stop)
      PROVE  FleetNext
  BY <1>1 DEF Invoke, FleetNext
<1>2. CASE Boot
  BY <1>2 DEF Boot, FleetNext
<1>3. CASE LauncherStep \/ StopWatching
  BY <1>3, LauncherKeepsOrEnds DEF FleetNext
<1>4. ASSUME Vanish(granted) PROVE FleetNext
  <2>1. granted \in Pods
    BY <1>4 DEF Vanish
  <2> QED
    BY <1>4, <2>1 DEF FleetNext
<1>5. CASE PodStep \/ PodChoice
  BY <1>4, <1>5, PodKeepsItself
<1>6. CASE LosePod
  BY <1>4, <1>6 DEF LosePod
<1>7. CASE UNCHANGED vars
  BY <1>7 DEF vars
<1> QED
  BY <1>1, <1>2, <1>3, <1>5, <1>6, <1>7 DEF Next

\* The launcher implements the pod fleet.
THEOREM ImplementsFleet == Spec => FleetSpec
<1>1. Init => FleetInit
  BY DEF Init
<1> QED
  BY <1>1, StepRefines, PTL DEF Spec, FleetSpec

\* Over all its runs and modes, with SSH failing, pods that vanish or stop themselves
\* and interrupts, a pod that runs is in the launcher's hands or on record
\* (runpod_lib.py:279-280).
THEOREM LauncherForgetsNoPod == Spec => []Accounted
BY ImplementsFleet, NoPodForgotten, PTL
----------------------------------------------------------------------------
(* The run. *)

\* What the run is checked under: the removal of an earlier run's launch log does not
\* fail unnoticed.
Removed == "logs" \notin SshMayFail

Before == {"boot", "logs", "upload", "launch"}
Collecting == {"find", "pth", "onnx", "dlc", "terminate"}

\* The part of TypeOK that is not about the pods.
Types ==
    /\ lpc \in {"idle", "poll"} \cup Before \cup Collecting
    /\ run \in Versions /\ args \in [mode : Modes, wait : BOOLEAN, stop : BOOLEAN]
    /\ kind \in {"FINAL", "CKPT", "NONE"}
    /\ local \in [{"pth", "onnx", "dlc"} -> Versions \cup {Torn}]
    /\ saved \subseteq {"pth", "onnx", "dlc"}
    /\ script \in {"off", "starting", "setup", "train", "watch", "onnx", "dlc", "mark", "stop"}
    /\ trainer \in {"off", "starting", "running", "saved", "exiting", "hung"}
    /\ log \in [of : Versions, done : BOOLEAN, converted : SUBSET {"onnx", "dlc"}]
    /\ tlog \in Versions
    /\ {pth, ckpt, onnx, dlc} \subseteq Versions

\* The script works only once it was launched, the trainer only while the script
\* watches it; a launcher that waits has told its script not to stop the pod.
OneScript ==
    /\ lpc \in Before => script = "off"
    /\ trainer # "off" => script = "watch"
    /\ lpc # "idle" \/ script # "off" => run # 0
    /\ lpc \in {"poll"} \cup Collecting => args.wait
    /\ script = "stop" => ~args.wait

\* The train log the script watches says nothing before this run's trainer does, and
\* that has saved the model by then.
TrainLog ==
    /\ script = "train" \/ trainer \in {"starting", "running", "saved", "hung"} => tlog = 0
    /\ trainer \in {"saved", "exiting"} => pth = run

\* No file is newer than the run or than its source, no local one newer than the source on
\* the volume.
Lineage ==
    /\ pth <= run /\ onnx <= pth /\ dlc <= onnx
    /\ local.pth <= pth /\ local.onnx <= onnx /\ local.dlc <= onnx

\* A conversion that the log calls done is of what is its source still: none before that is
\* written for the last time.
Converted ==
    /\ "onnx" \in log.converted => onnx = pth /\ script \notin {"setup", "train", "watch", "onnx"}
    /\ "dlc" \in log.converted => dlc = onnx /\ script \notin {"setup", "train", "watch", "onnx", "dlc"}

\* The launch log does not say that the script is finished before it is.
LaunchLog ==
    lpc \in {"upload", "launch"} \/ script \notin {"off", "stop"} => ~log.done

\* What was saved is what the volume holds.
Collected ==
    lpc \in Collecting =>
        /\ "pth" \in saved => local.pth = pth
        /\ "onnx" \in saved => local.onnx = onnx
        /\ "dlc" \in saved => local.dlc = dlc

\* Nothing is saved before its turn comes.
NothingYet ==
    /\ lpc \in Before \cup {"poll", "find", "pth"} => saved = {}
    /\ lpc = "onnx" => saved \subseteq {"pth"}
    /\ lpc = "dlc" => saved \subseteq {"pth", "onnx"}

IInv == /\ Types /\ OneScript /\ TrainLog /\ Lineage /\ Converted /\ NothingYet
        /\ Removed => LaunchLog /\ WatchedToTheEnd /\ Collected

----------------------------------------------------------------------------
(* Every step keeps IInv. *)

\* The script and the trainer.
LEMMA PodKeepsIInv == ASSUME IInv, PodStep \/ PodChoice PROVE IInv'
<1> USE DEF IInv, Types, OneScript, TrainLog, Lineage, Converted, NothingYet, LaunchLog, WatchedToTheEnd, Collected,
            Versions, launcherVars, files, Before, Collecting, Torn
<1>1. CASE ScriptStarts
  <2>1. log' = [of |-> run, done |-> FALSE, converted |-> {}]
    BY <1>1 DEF ScriptStarts, NoLog
  <2>2. /\ log' \in [of : Versions, done : BOOLEAN, converted : SUBSET {"onnx", "dlc"}]
        /\ log'.converted = {} /\ ~ log'.done
    BY <2>1
  <2> QED
    BY <1>1, <2>2 DEF ScriptStarts
<1>2. CASE Setup
  BY <1>2, LauncherAssumption DEF Setup
<1>3. CASE StartTrainer \/ TrainerRuns
  BY <1>3, LauncherAssumption DEF StartTrainer, TrainerRuns
<1>4. CASE TrainerCheckpoints
  BY <1>4 DEF TrainerCheckpoints
<1>5. CASE TrainerSaves
  BY <1>5 DEF TrainerSaves
<1>6. CASE TrainerLogs \/ TrainerExits \/ TrainerFails
  BY <1>6 DEF TrainerLogs, TrainerExits, TrainerFails
<1>7. CASE Watch
  BY <1>7 DEF Watch
<1>8. CASE ConvertOnnx
  <2>1. script = "onnx" /\ script' = "dlc" /\ trainer = "off"
    BY <1>8 DEF ConvertOnnx
  <2>2. UNCHANGED <<lpc, run, args, kind, local, saved, trainer, tlog, pth, ckpt, dlc>>
    BY <1>8 DEF ConvertOnnx
  <2>3. /\ log' \in [of : Versions, done : BOOLEAN, converted : SUBSET {"onnx", "dlc"}]
        /\ log'.done = log.done /\ onnx' \in {onnx, pth}
        /\ log'.converted = {} \/ (onnx' = pth /\ log'.converted = {"onnx"})
    <3>1. PICK of, done : log = [of |-> of, done |-> done, converted |-> {}]
                          /\ of \in Versions /\ done \in BOOLEAN
      BY <2>1
    <3>2. onnx' \in {onnx, pth} /\ (log' = log \/ (onnx' = pth /\ Announce("onnx")))
      <4>1. CASE UNCHANGED <<onnx, log>>
        BY <4>1
      <4>2. CASE onnx' = pth /\ (Announce("onnx") \/ UNCHANGED log)
        BY <4>2, Zenon
      <4> QED
        BY <1>8, <4>1, <4>2 DEF ConvertOnnx
    <3>3. Announce("onnx") => log' = [of |-> of, done |-> done, converted |-> {"onnx"}]
      BY ONLY <3>1 DEF Announce
    <3> HIDE DEF Versions
    <3> QED
      BY ONLY <3>1, <3>2, <3>3
  <2> QED
    BY <2>1, <2>2, <2>3
<1>9. CASE ConvertDlc
  <2>1. script = "dlc" /\ script' = "mark" /\ trainer = "off"
    BY <1>9 DEF ConvertDlc
  <2>2. UNCHANGED <<lpc, run, args, kind, local, saved, trainer, tlog, pth, ckpt, onnx>>
    BY <1>9 DEF ConvertDlc
  <2>3. /\ log' \in [of : Versions, done : BOOLEAN, converted : SUBSET {"onnx", "dlc"}]
        /\ log'.done = log.done /\ dlc' \in {0, onnx, dlc}
        /\ "onnx" \in log'.converted => "onnx" \in log.converted
        /\ "dlc" \in log'.converted => dlc' = onnx
    <3>1. "dlc" \notin log.converted
      BY <2>1
    <3>2. CASE UNCHANGED <<dlc, log>>
      BY <3>1, <3>2
    <3>3. CASE /\ dlc' \in {0, onnx}
               /\ IF dlc' # 0 THEN Announce("dlc") ELSE UNCHANGED log
      BY <3>1, <3>3 DEF Announce
    <3> QED
      BY <1>9, <3>2, <3>3 DEF ConvertDlc
  <2>4. run # 0
    BY <2>1
  <2> QED
    BY <2>1, <2>2, <2>3, <2>4, LauncherAssumption
<1>10. CASE Mark
  <2>1. /\ log' \in [of : Versions, done : BOOLEAN, converted : SUBSET {"onnx", "dlc"}]
        /\ log'.converted = log.converted
    BY <1>10 DEF Mark
  <2>2. script' \in {"stop", "off"} /\ (script' = "stop" => ~args.wait)
    BY <1>10 DEF Mark
  <2>3. UNCHANGED <<lpc, run, args, kind, local, saved, trainer, tlog, pth, ckpt, onnx, dlc>>
    BY <1>10 DEF Mark
  <2>4. script = "mark" /\ trainer = "off"
    BY <1>10 DEF Mark
  <2> QED
    BY <2>1, <2>2, <2>3, <2>4
<1>11. CASE AutoStop
  BY <1>11 DEF AutoStop
<1> QED
  BY <1>1, <1>2, <1>3, <1>4, <1>5, <1>6, <1>7, <1>8, <1>9, <1>10, <1>11
  DEF PodStep, PodChoice

\* The launcher, up to where it starts the script.
LEMMA LaunchKeepsIInv ==
    ASSUME IInv, UploadOnly \/ RemoveLogs \/ Upload \/ Launch
    PROVE  IInv'
<1> USE DEF IInv, Types, OneScript, TrainLog, Lineage, Converted, NothingYet, LaunchLog, WatchedToTheEnd, Collected,
            podVars, files, Before, Collecting
<1>1. CASE UploadOnly \/ Upload
  BY <1>1 DEF UploadOnly, Upload, LeavePod
<1>2. CASE RemoveLogs
  <2>1. script = "off" /\ trainer = "off" /\ lpc = "logs" /\ lpc' = "upload"
    BY <1>2 DEF RemoveLogs
  <2>2. UNCHANGED <<run, args, kind, local, saved, script, trainer, pth, ckpt, onnx, dlc>>
    BY <1>2 DEF RemoveLogs
  <2>3. /\ log' \in [of : Versions, done : BOOLEAN, converted : SUBSET {"onnx", "dlc"}]
        /\ tlog' \in Versions /\ log'.converted \in {log.converted, {}}
    <3>1. CASE log' = NoLog /\ tlog' = 0
      BY <3>1, LauncherAssumption DEF NoLog, Versions
    <3>2. CASE UNCHANGED <<log, tlog>>
      BY <3>2
    <3> QED
      BY <1>2, <3>1, <3>2 DEF RemoveLogs
  <2>4. Removed => ~log'.done
    BY <1>2 DEF RemoveLogs, SshFails, Removed, NoLog
  <2> QED
    BY <2>1, <2>2, <2>3, <2>4 DEF Versions
<1>3. CASE Launch
  BY <1>3 DEF Launch, LeavePod
<1> QED
  BY <1>1, <1>2, <1>3

\* What a download may do to the files here and to the list of those saved.
Fetched(f, version) ==
    /\ local' \in [{"pth", "onnx", "dlc"} -> Versions \cup {Torn}]
    /\ \A g \in {"pth", "onnx", "dlc"} \ {f} : local'[g] = local[g] /\ (g \in saved' <=> g \in saved)
    /\ local'[f] \in {local[f], version, Torn}
    /\ saved' \subseteq {"pth", "onnx", "dlc"}
    /\ f \in saved' => local'[f] = version \/ (local'[f] = local[f] /\ f \in saved)

LEMMA FetchedOnce ==
    ASSUME Types, NEW f \in {"pth", "onnx", "dlc"}, NEW version \in Versions, Download(f, version),
           f \notin saved
    PROVE  Fetched(f, version)
<1>1. local \in [{"pth", "onnx", "dlc"} -> Versions \cup {Torn}] /\ saved \subseteq {"pth", "onnx", "dlc"}
  BY DEF Types
<1>2. CASE local' = [local EXCEPT ![f] = version] /\ saved' = saved \cup {f}
  <2>1. local'[f] = version /\ \A g \in {"pth", "onnx", "dlc"} \ {f} : local'[g] = local[g]
    BY ONLY <1>1, <1>2, f \in {"pth", "onnx", "dlc"}
  <2>2. local' \in [{"pth", "onnx", "dlc"} -> Versions \cup {Torn}]
    BY <1>1, <1>2
  <2>3. /\ saved' \subseteq {"pth", "onnx", "dlc"}
        /\ \A g \in {"pth", "onnx", "dlc"} \ {f} : g \in saved' <=> g \in saved
    BY ONLY <1>1, <1>2, f \in {"pth", "onnx", "dlc"}
  <2> QED
    BY <2>1, <2>2, <2>3, Zenon DEF Fetched
<1>3. CASE local' = [local EXCEPT ![f] = Torn] /\ UNCHANGED saved
  BY <1>1, <1>3 DEF Fetched
<1> QED
  BY <1>2, <1>3 DEF Download

\* A launcher that waits.
LEMMA WaitKeepsIInv ==
    ASSUME IInv, \/ Poll \/ StopWatching \/ Find \/ DownloadPth
                 \/ DownloadConversion("onnx", onnx, "dlc")
                 \/ DownloadConversion("dlc", dlc, "terminate")
                 \/ TerminatePod
    PROVE  IInv'
<1> USE DEF IInv, Types, OneScript, TrainLog, Lineage, Converted, NothingYet, LaunchLog, WatchedToTheEnd, Collected,
            Versions, podVars, files, Before, Collecting, Torn
<1>1. CASE Poll
  BY <1>1 DEF Poll
<1>2. CASE StopWatching
  BY <1>2 DEF StopWatching, LeavePod
<1>3. CASE Find
  BY <1>3 DEF Find, BestModel
<1>4. CASE DownloadPth
  <2>1. Fetched("pth", pth)
    <3>1. CASE Download("pth", pth)
      BY <1>4, <3>1, FetchedOnce DEF DownloadPth
    <3>2. CASE UNCHANGED <<local, saved>>
      BY <3>2 DEF Fetched
    <3> QED
      BY <1>4, <3>1, <3>2 DEF DownloadPth
  <2> QED
    BY <1>4, <2>1 DEF DownloadPth, Fetched
<1>5. CASE DownloadConversion("onnx", onnx, "dlc")
  <2>1. Fetched("onnx", onnx)
    <3>1. CASE Download("onnx", onnx)
      BY <1>5, <3>1, FetchedOnce DEF DownloadConversion
    <3>2. CASE UNCHANGED <<local, saved>>
      BY <3>2 DEF Fetched
    <3> QED
      BY <1>5, <3>1, <3>2 DEF DownloadConversion
  <2> QED
    BY <1>5, <2>1 DEF DownloadConversion, Fetched
<1>6. CASE DownloadConversion("dlc", dlc, "terminate")
  <2>1. Fetched("dlc", dlc)
    <3>1. CASE Download("dlc", dlc)
      BY <1>6, <3>1, FetchedOnce DEF DownloadConversion
    <3>2. CASE UNCHANGED <<local, saved>>
      BY <3>2 DEF Fetched
    <3> QED
      BY <1>6, <3>1, <3>2 DEF DownloadConversion
  <2> QED
    BY <1>6, <2>1 DEF DownloadConversion, Fetched
<1>7. CASE TerminatePod
  BY <1>7 DEF TerminatePod
<1> QED
  BY <1>1, <1>2, <1>3, <1>4, <1>5, <1>6, <1>7

LEMMA NextKeepsIInv == IInv /\ [Next]_vars => IInv'
<1> SUFFICES ASSUME IInv, [Next]_vars PROVE IInv'
  OBVIOUS
<1>1. ASSUME NEW mode \in Modes, NEW wait \in BOOLEAN, NEW stop \in BOOLEAN,
             Invoke(mode, wait, stop)
      PROVE  IInv'
  BY <1>1, LauncherAssumption
  DEF Invoke, IInv, Types, OneScript, TrainLog, Lineage, Converted, NothingYet, LaunchLog, WatchedToTheEnd,
      Collected, Versions, podVars, files, Before, Collecting, Torn
<1>2. CASE Boot
  BY <1>2 DEF Boot, IInv, Types, OneScript, TrainLog, Lineage, Converted, NothingYet, LaunchLog, WatchedToTheEnd,
      Collected, podVars, files, Before, Collecting
<1>3. CASE LauncherStep \/ StopWatching
  BY <1>3, LaunchKeepsIInv, WaitKeepsIInv DEF LauncherStep
<1>4. CASE PodStep \/ PodChoice
  BY <1>4, PodKeepsIInv
<1>5. CASE LosePod
  BY <1>5 DEF LosePod, IInv, Types, OneScript, TrainLog, Lineage, Converted, NothingYet, LaunchLog,
      WatchedToTheEnd, Collected, launcherVars, files, Before, Collecting
<1>6. CASE UNCHANGED vars
  BY <1>6 DEF vars, launcherVars, podVars, files, IInv, Types, OneScript, TrainLog, Lineage, Converted, NothingYet,
      LaunchLog, WatchedToTheEnd, Collected
<1> QED
  BY <1>1, <1>2, <1>3, <1>4, <1>5, <1>6 DEF Next

\* Launcher, script, trainer and files keep in step over all runs.
THEOREM Invariance == Spec => []IInv
<1>1. Init => IInv
  BY LauncherAssumption
  DEF Init, IInv, Types, OneScript, TrainLog, Lineage, Converted, NothingYet, LaunchLog, WatchedToTheEnd, Collected,
      Versions, Before, Collecting, Modes, NoLog
<1> QED
  BY <1>1, NextKeepsIInv, PTL DEF Spec

\* The launcher, the script and the trainer stay within their types, the pods with them.
THEOREM TypeCorrect == Spec => []TypeOK
<1>1. FleetTypeOK /\ IInv => TypeOK
  BY DEF IInv, Types, TypeOK, Before, Collecting
<1> QED
  BY <1>1, Invariance, ImplementsFleet, FleetTypeCorrect, PTL

\* With the stale log removed, the poll loop is not left, the model not downloaded and the
\* pod not terminated before the script is over, conversions included, whatever else fails
\* (launch_runpod_training.py:691-692).
THEOREM WaitsForTheScript == ASSUME Removed PROVE Spec => []WatchedToTheEnd
<1>1. IInv => WatchedToTheEnd
  BY DEF IInv
<1> QED
  BY <1>1, Invariance, PTL

\* What a launcher has saved fits together, over all runs of one name: no conversion is newer than
\* its source, and one that the log calls done is of the very files saved with it.  An older one
\* is left by a conversion that failed (launch_runpod_training.py:403-410, 733-742).
THEOREM DownloadsFit == ASSUME Removed PROVE Spec => []ConversionsFit
<1>1. IInv => ConversionsFit
  BY DEF IInv, ConversionsFit, Collected, Converted, Lineage, Types, Versions, Torn, Collecting
<1> QED
  BY <1>1, Invariance, PTL

\* However old the train log is that the script finds, and whether or not its removal
\* failed, a trainer is only killed with the model of its own run on the volume
\* (launch_runpod_training.py:347-349).
THEOREM TrainerIsKilledOnceSaved == Spec => KilledOnceSaved
<1>1. ASSUME IInv, [Next]_vars, script = "watch", script' = "onnx", trainer # "off"
      PROVE  pth = run
  <2>1. Watch
    BY <1>1
    DEF Next, Invoke, Boot, LauncherStep, UploadOnly, RemoveLogs, Upload, Launch, Poll, Find,
        DownloadPth, DownloadConversion, TerminatePod, StopWatching, PodStep, ScriptStarts,
        Setup, StartTrainer, TrainerRuns, TrainerSaves, TrainerLogs, ConvertOnnx, ConvertDlc,
        Mark, AutoStop, PodChoice, TrainerCheckpoints, TrainerFails, TrainerExits, LosePod,
        podVars, vars
  <2> QED
    BY <1>1, <2>1 DEF Watch, IInv, Types, TrainLog
<1>2. IInv /\ [Next]_vars => [script = "watch" /\ script' = "onnx" /\ trainer # "off" => pth = run]_vars
  BY <1>1
<1> QED
  BY <1>2, Invariance, PTL DEF Spec, KilledOnceSaved
=============================================================================
