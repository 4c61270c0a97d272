-------------------------- MODULE TrainingLauncher --------------------------
(***************************************************************************)
(* launch_runpod_training.py: a launcher on the user's computer that gets  *)
(* a pod, starts the provisioning script on it, and with --wait polls over *)
(* SSH until the run is over, downloads the model and its conversions and  *)
(* terminates the pod.  The network volume outlives the pods: what a run   *)
(* finds there may be the work of an earlier run of the same name.         *)
(*                                                                         *)
(* Abstractions.  A file is the number of the run whose training it stems  *)
(* from, 0 when there is none.  The steps 1 to 9b of the script are one    *)
(* stage here; DatasetVolume has them in detail.  SSH commands may fail at   *)
(* the stages in SshMayFail.  The user starts a run when the last one is   *)
(* over, and always under the same name (--date-it has a default).  A      *)
(* conversion that fails leaves a file of one run or none, never a part.   *)
(***************************************************************************)
EXTENDS PodFleet, Integers

CONSTANTS Runs,         \* bound on the invocations
          SshMayFail,   \* stages of the launcher at which SSH may fail
          MayHang,      \* whether the trainer may wait for a dead loader for ever
          MayLosePod    \* whether a pod may vanish under way

ASSUME LauncherAssumption ==
    Runs \in Nat \ {0} /\ MayHang \in BOOLEAN /\ MayLosePod \in BOOLEAN

VARIABLES
  lpc, run, args,   \* the launcher: where it is, which run this is, its arguments
  kind,             \* the model file it found: FINAL, CKPT or NONE
  local, saved,     \* ./trained_models; the files it has printed "saved" of
  script, trainer,  \* the script and train.py on the pod
  log, tlog,        \* launch log: whose it is, whether it says that the pipeline is finished and
                    \* which conversions are done; run that train log finished for
  pth, ckpt, onnx, dlc

launcherVars == <<lpc, run, args, kind, local, saved>>
files == <<pth, ckpt, onnx, dlc>>
podVars == <<script, trainer, log, tlog, files>>
vars == <<fleetVars, launcherVars, podVars>>

NoLog == [of |-> 0, done |-> FALSE, converted |-> {}]
Torn == -1
Modes == {"train", "convert", "gtonly", "notrain"}

Init == /\ FleetInit
        /\ lpc = "idle" /\ run = 0 /\ args = [mode |-> "train", wait |-> FALSE, stop |-> FALSE]
        /\ kind = "NONE" /\ local = [pth |-> 0, onnx |-> 0, dlc |-> 0] /\ saved = {}
        /\ script = "off" /\ trainer = "off" /\ log = NoLog /\ tlog = 0
        /\ pth = 0 /\ ckpt = 0 /\ onnx = 0 /\ dlc = 0

SshFails == lpc \in SshMayFail

----------------------------------------------------------------------------
(* The provisioning script on the pod (steps 10 to 12 in detail). *)

\* The detached shell opens the log and runs the script.
ScriptStarts == /\ script = "starting"
                /\ script' = "setup"
                /\ log' = [NoLog EXCEPT !.of = run]
                /\ UNCHANGED <<fleetVars, launcherVars, trainer, tlog, files>>

\* The stale train log goes; setup and ground truth; then what the mode asks for.
Setup == /\ script = "setup"
         /\ tlog' = 0
         /\ script' = CASE args.mode = "train" -> "train"
                        [] args.mode = "convert" -> "onnx"
                        [] OTHER -> "mark"
         /\ UNCHANGED <<fleetVars, launcherVars, trainer, log, files>>

\* train.py is started in the background; its shell truncates the log when it runs.
StartTrainer == /\ script = "train"
                /\ script' = "watch"
                /\ trainer' = "starting"
                /\ UNCHANGED <<fleetVars, launcherVars, log, tlog, files>>

TrainerRuns == /\ trainer = "starting"
               /\ trainer' = "running"
               /\ tlog' = 0
               /\ UNCHANGED <<fleetVars, launcherVars, script, log, files>>

TrainerCheckpoints == /\ trainer = "running"
                      /\ ckpt' = run
                      /\ UNCHANGED <<fleetVars, launcherVars, script, trainer, log, tlog, pth, onnx, dlc>>

\* The model is saved, then "training_finished" is logged.
TrainerSaves == /\ trainer = "running"
                /\ pth' = run
                /\ trainer' = "saved"
                /\ UNCHANGED <<fleetVars, launcherVars, script, log, tlog, ckpt, onnx, dlc>>

TrainerLogs == /\ trainer = "saved"
               /\ tlog' = run
               /\ trainer' = "exiting"
               /\ UNCHANGED <<fleetVars, launcherVars, script, log, files>>

\* It exits -- or does not: its loaders' processes are joined and never end.
TrainerExits == /\ trainer = "exiting"
                /\ trainer' = "off"
                /\ UNCHANGED <<fleetVars, launcherVars, script, log, tlog, files>>

\* It runs out of memory, loses wandb, cannot read its data; or it waits for
\* batches of a loader that has died.
TrainerFails == /\ trainer \in {"running", "saved"}
                /\ \/ trainer' = "off"
                   \/ MayHang /\ trainer = "running" /\ trainer' = "hung"
                /\ UNCHANGED <<fleetVars, launcherVars, script, log, tlog, files>>

\* A mutant: the script waits for the process to exit.
WatchForExit == /\ script = "watch"
                /\ trainer = "off"
                /\ script' = "onnx"
                /\ trainer' = "off"
                /\ UNCHANGED <<fleetVars, launcherVars, log, tlog, files>>

\* A mutant: it waits for the model instead of the log.
WatchForModel == /\ script = "watch"
                 /\ trainer = "off" \/ pth # 0
                 /\ script' = "onnx"
                 /\ trainer' = "off"
                 /\ UNCHANGED <<fleetVars, launcherVars, log, tlog, files>>

\* The script waits until train.py has exited or has logged that it is finished;
\* then train.py is killed.
Watch == /\ script = "watch"
         /\ trainer = "off" \/ tlog # 0
         /\ script' = "onnx"
         /\ trainer' = "off"
         /\ UNCHANGED <<fleetVars, launcherVars, log, tlog, files>>

\* A file that a conversion has made is announced in the log.
Announce(f) == log' = [log EXCEPT !.converted = @ \cup {f}]

\* The .pth, whichever run it is of, is converted, and the result compared with it before it is
\* announced.  On a failure the script goes on, with the .onnx that was there or the new one.
ConvertOnnx == /\ script = "onnx"
               /\ script' = "dlc"
               /\ \/ UNCHANGED <<onnx, log>>
                  \/ pth # 0 /\ onnx' = pth /\ (Announce("onnx") \/ UNCHANGED log)
               /\ UNCHANGED <<fleetVars, launcherVars, trainer, tlog, pth, ckpt, dlc>>

\* A mutant: the old .dlc stays while the converter runs.
ConvertDlcOverOld == /\ script = "dlc"
                     /\ script' = "mark"
                     /\ \/ UNCHANGED <<dlc, log>>
                        \/ /\ onnx # 0 /\ dlc' \in {dlc, onnx}
                           /\ IF dlc' # 0 THEN Announce("dlc") ELSE UNCHANGED log
                     /\ UNCHANGED <<fleetVars, launcherVars, trainer, tlog, pth, ckpt, onnx>>

\* With an .onnx, whichever run it is of, and a converter the old .dlc goes, a new one may
\* come of it, and one that is there is announced; without a converter (no SDK, no
\* interpreter) everything stays.
ConvertDlc == /\ script = "dlc"
              /\ script' = "mark"
              /\ \/ UNCHANGED <<dlc, log>>
                 \/ /\ onnx # 0 /\ dlc' \in {0, onnx}
                    /\ IF dlc' # 0 THEN Announce("dlc") ELSE UNCHANGED log
              /\ UNCHANGED <<fleetVars, launcherVars, trainer, tlog, pth, ckpt, onnx>>

\* PIPELINE FINISHED
Mark == /\ script = "mark"
        /\ log' = [log EXCEPT !.done = TRUE]
        /\ script' = IF args.stop /\ ~args.wait THEN "stop" ELSE "off"
        /\ UNCHANGED <<fleetVars, launcherVars, trainer, tlog, files>>

\* --auto-stop: the pod asks the service to stop it.
AutoStop == /\ script = "stop"
            /\ script' = "off"
            /\ Vanish(granted) \/ UNCHANGED fleetVars
            /\ UNCHANGED <<launcherVars, trainer, log, tlog, files>>

PodStep == \/ ScriptStarts \/ Setup \/ StartTrainer \/ TrainerRuns \/ TrainerSaves
           \/ TrainerLogs \/ Watch \/ ConvertOnnx \/ ConvertDlc \/ Mark \/ AutoStop

PodChoice == TrainerCheckpoints \/ TrainerFails \/ TrainerExits

\* The host is reclaimed or breaks down: the processes are gone, the volume is not.
LosePod == /\ MayLosePod
           /\ lpc \in {"poll", "idle"} /\ script # "off"
           /\ Vanish(granted)
           /\ script' = "off" /\ trainer' = "off"
           /\ UNCHANGED <<launcherVars, log, tlog, files>>

----------------------------------------------------------------------------
(* The launcher. *)

Invoke(mode, wait, stop) ==
    /\ lpc = "idle" /\ script = "off" /\ run < Runs
    /\ BeginBoot
    /\ run' = run + 1
    /\ args' = [mode |-> mode, wait |-> wait, stop |-> stop]
    /\ kind' = "NONE" /\ saved' = {}
    /\ lpc' = "boot"
    /\ UNCHANGED <<local, podVars>>

Boot == /\ lpc = "boot"
        /\ FleetStep
        /\ lpc' = CASE bpc' = "booted" -> "logs"
                    [] bpc' \in {"died", "interrupted"} -> "idle"
                    [] OTHER -> "boot"
        /\ UNCHANGED <<run, args, kind, local, saved, podVars>>

\* The launcher ends with the pod running.
LeavePod == lpc' = "idle" /\ Leave

\* --no-train: only the script is uploaded, for the user to run it.
UploadOnly == /\ lpc = "logs" /\ args.mode = "notrain"
              /\ LeavePod
              /\ UNCHANGED <<run, args, kind, local, saved, podVars>>

\* start_remote: the logs of an earlier run are removed; a failure goes unnoticed.
RemoveLogs == /\ lpc = "logs" /\ args.mode # "notrain"
              /\ lpc' = "upload"
              /\ \/ log' = NoLog /\ tlog' = 0
                 \/ SshFails /\ UNCHANGED <<log, tlog>>
              /\ UNCHANGED <<fleetVars, run, args, kind, local, saved, script, trainer, files>>

\* Local sources and the script are uploaded.  die() when that fails, or when the
\* arguments turn out to lack the SDK's address.
Upload == /\ lpc = "upload"
          /\ \/ lpc' = "launch" /\ UNCHANGED fleetVars
             \/ SshFails /\ LeavePod
          /\ UNCHANGED <<run, args, kind, local, saved, podVars>>

\* The script is started, detached; whether that worked is not looked at.
Launch == /\ lpc = "launch"
          /\ \/ script' = "starting"
             \/ SshFails /\ UNCHANGED script
          /\ IF args.wait THEN lpc' = "poll" /\ UNCHANGED fleetVars
                          ELSE LeavePod
          /\ UNCHANGED <<run, args, kind, local, saved, trainer, log, tlog, files>>

\* A mutant: only the process list is looked at, for the trainer.
PollSeesTrainer == /\ lpc = "poll"
                   /\ pods[granted] = "up"
                   /\ log.done \/ trainer = "off"
                   /\ lpc' = "find"
                   /\ UNCHANGED <<fleetVars, run, args, kind, local, saved, podVars>>

\* The poll loop is left when the log says so or the script is not running.
Poll == /\ lpc = "poll"
        /\ pods[granted] = "up"
        /\ log.done \/ script = "off"
        /\ lpc' = "find"
        /\ UNCHANGED <<fleetVars, run, args, kind, local, saved, podVars>>

\* "Ctrl+C stops watching but NOT the pod."
StopWatching == /\ lpc = "poll"
                /\ LeavePod
                /\ UNCHANGED <<run, args, kind, local, saved, podVars>>

\* "prefer the final model, else the newest checkpoint"
BestModel == IF pth # 0 THEN "FINAL" ELSE IF ckpt # 0 THEN "CKPT" ELSE "NONE"

Find == /\ lpc = "find"
        /\ kind' \in {BestModel} \cup (IF SshFails THEN {"NONE"} ELSE {})
        /\ lpc' = "pth"
        /\ UNCHANGED <<fleetVars, run, args, local, saved, podVars>>

\* download_from_pod truncates the local file before it asks for the remote one.
Download(f, version) ==
    \/ local' = [local EXCEPT ![f] = version] /\ saved' = saved \cup {f}
    \/ SshFails /\ local' = [local EXCEPT ![f] = Torn] /\ UNCHANGED saved

\* A checkpoint goes to a file of its own name; only the final model matters here.
DownloadPth == /\ lpc = "pth"
               /\ IF kind = "FINAL" THEN Download("pth", pth) ELSE UNCHANGED <<local, saved>>
               /\ lpc' = "onnx"
               /\ UNCHANGED <<fleetVars, run, args, kind, podVars>>

\* The conversions are looked for under the name of the model that was found.
DownloadConversion(f, version, next) ==
    /\ lpc = f
    /\ \/ kind # "CKPT" /\ version # 0 /\ Download(f, version)
       \/ (kind = "CKPT" \/ version = 0 \/ SshFails) /\ UNCHANGED <<local, saved>>
    /\ lpc' = next
    /\ UNCHANGED <<fleetVars, run, args, kind, podVars>>

\* The pod is terminated, and its processes with it, whatever became of the files.
TerminatePod == /\ lpc = "terminate"
                /\ GiveBack
                /\ IF granted \in undead' THEN UNCHANGED <<script, trainer>>
                                          ELSE script' = "off" /\ trainer' = "off"
                /\ lpc' = "idle"
                /\ UNCHANGED <<run, args, kind, local, saved, log, tlog, files>>

LauncherStep == \/ UploadOnly \/ RemoveLogs \/ Upload \/ Launch \/ Poll \/ Find \/ DownloadPth
                \/ DownloadConversion("onnx", onnx, "dlc")
                \/ DownloadConversion("dlc", dlc, "terminate")
                \/ TerminatePod

Next == \/ \E mode \in Modes, wait, stop \in BOOLEAN : Invoke(mode, wait, stop)
        \/ Boot \/ LauncherStep \/ StopWatching
        \/ PodStep \/ PodChoice \/ LosePod

Spec == Init /\ [][Next]_vars

\* The launcher and the script go on, and the trainer gets through its epochs or
\* fails.  Nothing makes it exit once it has saved its model.
Fairness == WF_vars(LauncherStep) /\ WF_vars(PodStep)
FairSpec == Spec /\ Fairness

----------------------------------------------------------------------------

Versions == 0 .. Runs

TypeOK ==
    /\ FleetTypeOK
    /\ lpc \in {"idle", "boot", "logs", "upload", "launch", "poll", "find",
                "pth", "onnx", "dlc", "terminate"}
    /\ run \in Versions /\ args \in [mode : Modes, wait : BOOLEAN, stop : BOOLEAN]
    /\ kind \in {"FINAL", "CKPT", "NONE"}
    /\ local \in [{"pth", "onnx", "dlc"} -> Versions \cup {Torn}]
    /\ saved \subseteq {"pth", "onnx", "dlc"}
    /\ script \in {"off", "starting", "setup", "train", "watch", "onnx", "dlc", "mark", "stop"}
    /\ trainer \in {"off", "starting", "running", "saved", "exiting", "hung"}
    /\ log \in [of : Versions, done : BOOLEAN, converted : SUBSET {"onnx", "dlc"}]
    /\ tlog \in Versions
    /\ {pth, ckpt, onnx, dlc} \subseteq Versions

\* "'PIPELINE FINISHED' is logged only after train AND conversion complete, so we never
\* grab the .pth / terminate before .onnx/.dlc exist" (launch_runpod_training.py:691-692):
\* from the end of the poll loop to the pod's termination the script is not at work.
WatchedToTheEnd ==
    lpc \in {"find", "pth", "onnx", "dlc", "terminate"} => script = "off"

\* "force-exit once it logs training_finished (the model is already saved by that
\* point)" (launch_runpod_training.py:347-349): a trainer is only killed with the model
\* of its own run on the volume, however old the train log is that the script found.
KilledOnceSaved ==
    [][script = "watch" /\ script' = "onnx" /\ trainer # "off" => pth = run]_vars

\* What a launcher leaves in ./trained_models once it has printed "saved" of a file: no
\* conversion is newer than what was saved of its sources, and a conversion that was saved and
\* that the log calls done is of the very model, and of the very .onnx, that were saved with
\* it.  One that the log does not call done may be of an earlier run of the same name, .onnx
\* and .dlc alike: the old file is found, saved and printed beside the new .pth all the same
\* (launch_runpod_training.py:403-410, 733-742).
ConversionsFit ==
    lpc = "terminate" =>
        /\ "pth" \in saved => local.onnx <= local.pth /\ local.dlc <= local.pth
        /\ "onnx" \in saved => local.dlc <= local.onnx
        /\ "onnx" \in log.converted /\ {"pth", "onnx"} \subseteq saved => local.onnx = local.pth
        /\ "dlc" \in log.converted /\ {"onnx", "dlc"} \subseteq saved => local.dlc = local.onnx
        /\ log.converted = {"onnx", "dlc"} /\ {"pth", "dlc"} \subseteq saved => local.dlc = local.pth

\* A launcher that waits for a run is done with it in the end, although train.py may
\* never exit (launch_runpod_training.py:345-346): unless train.py is stuck before its
\* model is saved, or the pod is lost, which the poll loop does not notice.
WaitEnds == (lpc = "poll") ~> (lpc = "idle" \/ trainer = "hung" \/ granted \notin Running)

\* "keep running until training finishes, download the model" (--wait,
\* launch_runpod_training.py:816-817): what is downloaded as the final model is the
\* model this run has trained.
FinalIsOfThisRun ==
    lpc = "terminate" /\ args.mode = "train" /\ kind = "FINAL" => pth = run
============================================================================
