------------------------- MODULE TestVideoLauncher -------------------------
(***************************************************************************)
(* launch_runpod_test_video.py: a launcher that starts a render script on  *)
(* a pod, follows its log over SSH, downloads the video and terminates the *)
(* pod.  The log, the list of forced segments and the videos are on the    *)
(* network volume: a run finds there what earlier runs have left.          *)
(*                                                                         *)
(* Abstractions.  A run is a number, and a file is the number of the run   *)
(* it stems from (0: none).  Of the log there is the first line, the line  *)
(* that ends the run and the line with the path.  A video has one of two   *)
(* paths: with the teacher beside the student, or plain, which is also the *)
(* path the launcher falls back to.  The scripts of two runs on one pod    *)
(* append to the same log.                                                 *)
(***************************************************************************)
EXTENDS PodFleet, Integers, Sequences

CONSTANTS Runs,        \* bound on the invocations
          SshMayFail,  \* stages of the launcher at which SSH may fail
          SlowStart,   \* whether the launcher's next command may overtake the script
          ReuseBusy    \* whether a pod is reused while its old script is at work

ASSUME TestVideoAssumption ==
    Runs \in Nat \ {0} /\ SlowStart \in BOOLEAN /\ ReuseBusy \in BOOLEAN

RunIds == 1 .. Runs
Versions == 0 .. Runs
Outputs == {"compare", "plain"}
Listing == [output |-> "list", force |-> FALSE, keep |-> FALSE]
Requests == [output : Outputs, force : BOOLEAN, keep : BOOLEAN] \cup {Listing}

VARIABLES
  lpc, run, args,        \* the launcher: where it is, its run, its arguments
  nextLine, marker, path, \* wait_download_terminate: tail position, what it has seen
  local,                 \* the local video
  script, segments,      \* per run: where its script is, and whose forced list it took
  log, forced, video     \* on the volume

scriptVars == <<script, segments, log, video>>
watchVars == <<nextLine, marker, path>>
launcherVars == <<lpc, run, args, watchVars, local>>
vars == <<fleetVars, launcherVars, scriptVars, forced>>

Torn == -1
Line(r, what) == [run |-> r, what |-> what]

Init == /\ FleetInit
        /\ lpc = "idle" /\ run = 0 /\ local = 0
        /\ args = [r \in RunIds |-> Listing]
        /\ nextLine = 1 /\ marker = FALSE /\ path = "none"
        /\ script = [r \in RunIds |-> "off"]
        /\ segments = [r \in RunIds |-> 0]
        /\ log = << >> /\ forced = 0
        /\ video = [o \in Outputs |-> 0]

SshFails == lpc \in SshMayFail
OnPod == {r \in RunIds : script[r] # "off"}
Asked == args[run]

----------------------------------------------------------------------------
(* The script on the pod. *)

\* The detached shell truncates the log and runs the script, which picks its segments.
ScriptStarts(r) ==
    /\ script[r] = "starting"
    /\ log' = <<Line(r, "start")>>
    /\ segments' = [segments EXCEPT ![r] = forced]
    /\ script' = [script EXCEPT ![r] = "render"]
    /\ UNCHANGED <<fleetVars, launcherVars, forced, video>>

\* A mutant: the marker is printed whatever the renderer returned.
RenderAlwaysMarks(r) ==
    /\ script[r] = "render"
    /\ video' \in {[video EXCEPT ![args[r].output] = r], video}
    /\ script' = [script EXCEPT ![r] = "mark"]
    /\ UNCHANGED log
    /\ UNCHANGED <<fleetVars, launcherVars, forced, segments>>

\* The renderer is done, or the run fails: for want of a model, of segments, of
\* memory.  What it has written of a video by then stays.
Render(r) ==
    /\ script[r] = "render"
    /\ \/ /\ video' = [video EXCEPT ![args[r].output] = r]
          /\ script' = [script EXCEPT ![r] = "mark"]
          /\ UNCHANGED log
       \/ /\ video' \in {video, [video EXCEPT ![args[r].output] = Torn]}
          /\ script' = [script EXCEPT ![r] = "off"]
          /\ log' = Append(log, Line(r, "error"))
    /\ UNCHANGED <<fleetVars, launcherVars, forced, segments>>

\* TEST VIDEO FINISHED, then OUTPUT_PATH=: two lines, one after the other.
MarkFinished(r) ==
    /\ script[r] = "mark"
    /\ log' = Append(log, Line(r, "finished"))
    /\ script' = [script EXCEPT ![r] = "path"]
    /\ UNCHANGED <<fleetVars, launcherVars, forced, segments, video>>

PrintPath(r) ==
    /\ script[r] = "path"
    /\ log' = Append(log, Line(r, args[r].output))
    /\ script' = [script EXCEPT ![r] = "off"]
    /\ UNCHANGED <<fleetVars, launcherVars, forced, segments, video>>

ScriptStep(r) == ScriptStarts(r) \/ Render(r) \/ MarkFinished(r) \/ PrintPath(r)

----------------------------------------------------------------------------
(* The launcher. *)

\* Nothing is known of the run yet.
Begin(request) ==
    /\ lpc = "idle" /\ run < Runs
    /\ run' = run + 1
    /\ args' = [args EXCEPT ![run'] = request]
    /\ nextLine' = 1 /\ marker' = FALSE /\ path' = "none"
    /\ UNCHANGED <<local, scriptVars, forced>>

\* On a fresh pod.
Invoke(request) ==
    /\ OnPod = {}
    /\ BeginBoot
    /\ Begin(request)
    /\ lpc' = "boot"

\* --list-segments asks two questions and is done with the pod.
Start == IF Asked.output = "list" THEN "terminate" ELSE "sync"

\* --reuse-pod: on the pod that a run before left, whose script may still be at work.
Reuse(request) ==
    /\ ReuseBusy \/ OnPod = {}
    /\ TakeUp
    /\ Begin(request)
    /\ lpc' = Start'

Boot == /\ lpc = "boot"
        /\ FleetStep
        /\ lpc' = CASE bpc' = "booted" -> Start
                    [] bpc' \in {"died", "interrupted"} -> "idle"
                    [] OTHER -> "boot"
        /\ UNCHANGED <<run, args, watchVars, local, scriptVars, forced>>

\* The launcher ends and leaves the pod running: as it says, or by die().
LeavePod == lpc' = "idle" /\ Leave

\* Local sources are uploaded.
Sync == /\ lpc = "sync"
        /\ \/ lpc' = "forced" /\ UNCHANGED fleetVars
           \/ SshFails /\ LeavePod
        /\ UNCHANGED <<run, args, watchVars, local, scriptVars, forced>>

\* The list of forced segments is uploaded, or a stale one removed; that the removal
\* failed is not looked at.
SetForced == /\ lpc = "forced"
             /\ \/ /\ forced' = IF Asked.force THEN run ELSE 0
                   /\ lpc' = "launch"
                   /\ UNCHANGED fleetVars
                \/ /\ SshFails /\ ~Asked.force
                   /\ lpc' = "launch"
                   /\ UNCHANGED <<fleetVars, forced>>
                \/ /\ SshFails /\ Asked.force
                   /\ LeavePod
                   /\ UNCHANGED forced
             /\ UNCHANGED <<run, args, watchVars, local, scriptVars>>

\* The script is started, detached; whether that worked is not looked at.
Launch == /\ lpc = "launch"
          /\ \/ script' = [script EXCEPT ![run] = "starting"]
             \/ SshFails /\ UNCHANGED script
          /\ lpc' = "tail"
          /\ UNCHANGED <<fleetVars, run, args, watchVars, local, segments, log,
                         forced, video>>

\* A mutant: the count includes the line to read next.
ReadLinesSkipsOne ==
    LET new == SubSeq(log, nextLine, Len(log))
        paths == {i \in 1 .. Len(new) : new[i].what \in Outputs}
    IN /\ nextLine' = nextLine + Len(new) + 1
       /\ marker' = (marker \/ \E i \in 1 .. Len(new) : new[i].what = "finished")
       /\ path' = IF paths = {} THEN path
                  ELSE new[CHOOSE i \in paths : \A j \in paths : j <= i].what

\* tail_lines_from, and what the lines say: the last path counts.
ReadLines ==
    LET new == SubSeq(log, nextLine, Len(log))
        paths == {i \in 1 .. Len(new) : new[i].what \in Outputs}
    IN /\ nextLine' = nextLine + Len(new)
       /\ marker' = (marker \/ \E i \in 1 .. Len(new) : new[i].what = "finished")
       /\ path' = IF paths = {} THEN path
                  ELSE new[CHOOSE i \in paths : \A j \in paths : j <= i].what

\* The next SSH connection finds the log truncated, unless the volume is slow.
Overtakes == SlowStart \/ script[run] # "starting"

\* One round of the poll: the new lines, then a question.
PollLog == /\ lpc = "tail" /\ Overtakes
           /\ ReadLines
           /\ lpc' = "check"
           /\ UNCHANGED <<fleetVars, run, args, local, scriptVars, forced>>

\* A mutant: only the marker ends the poll.
CheckMarkerOnly == /\ lpc = "check"
                   /\ lpc' = IF \E i \in 1 .. Len(log) : log[i].what = "finished"
                             THEN "flush" ELSE "tail"
                   /\ UNCHANGED <<fleetVars, run, args, watchVars, local, scriptVars, forced>>

\* DONE: the marker is in the log or no script runs.
Check == /\ lpc = "check"
         /\ lpc' = IF (\E i \in 1 .. Len(log) : log[i].what = "finished") \/ OnPod = {}
                   THEN "flush" ELSE "tail"
         /\ UNCHANGED <<fleetVars, run, args, watchVars, local, scriptVars, forced>>

\* The last lines; without a marker among them the run failed, and the pod stays.
Flush == /\ lpc = "flush"
         /\ ReadLines
         /\ IF marker' THEN lpc' = "verify" /\ UNCHANGED fleetVars ELSE LeavePod
         /\ UNCHANGED <<run, args, local, scriptVars, forced>>

\* The path that was printed, or else the one of a plain video.
Remote == IF path = "none" THEN "plain" ELSE path

\* Nothing there, or no answer: the pod stays.
Verify == /\ lpc = "verify"
          /\ \/ video[Remote] # 0 /\ lpc' = "download" /\ UNCHANGED fleetVars
             \/ (video[Remote] = 0 \/ SshFails) /\ LeavePod
          /\ UNCHANGED <<run, args, watchVars, local, scriptVars, forced>>

\* A mutant: a failed download is reported, and the pod is terminated all the same.
DownloadIgnoresFailure ==
    /\ lpc = "download"
    /\ local' \in {video[Remote]} \cup (IF SshFails THEN {Torn} ELSE {})
    /\ IF Asked.keep THEN LeavePod ELSE lpc' = "terminate" /\ UNCHANGED fleetVars
    /\ UNCHANGED <<run, args, watchVars, scriptVars, forced>>

\* A failed download leaves a torn file, and the pod.
Download == /\ lpc = "download"
            /\ \/ /\ local' = video[Remote]
                  /\ IF Asked.keep THEN LeavePod
                                   ELSE lpc' = "terminate" /\ UNCHANGED fleetVars
               \/ SshFails /\ local' = Torn /\ LeavePod
            /\ UNCHANGED <<run, args, watchVars, scriptVars, forced>>

TerminatePod == /\ lpc = "terminate"
                /\ GiveBack
                /\ IF granted \in undead' THEN UNCHANGED script
                                          ELSE script' = [r \in RunIds |-> "off"]
                /\ lpc' = "idle"
                /\ UNCHANGED <<run, args, watchVars, local, segments, log, forced, video>>

\* Ctrl+C: "Pod is still running -- terminate it in the console to stop billing."
StopWatching == /\ lpc \notin {"idle", "boot"}
                /\ LeavePod
                /\ UNCHANGED <<run, args, watchVars, local, scriptVars, forced>>

LauncherStep == \/ Sync \/ SetForced \/ Launch \/ PollLog \/ Check \/ Flush \/ Verify
                \/ Download \/ TerminatePod

Next == \/ \E request \in Requests : Invoke(request) \/ Reuse(request)
        \/ Boot \/ LauncherStep \/ StopWatching
        \/ \E r \in RunIds : ScriptStep(r)

Spec == Init /\ [][Next]_vars

\* The launcher, booting or at work, and the scripts go on; no pod need come up.
Fairness == WF_vars(Boot) /\ WF_vars(LauncherStep) /\ \A r \in RunIds : WF_vars(ScriptStep(r))
FairSpec == Spec /\ Fairness

----------------------------------------------------------------------------

TypeOK ==
    /\ FleetTypeOK
    /\ lpc \in {"idle", "boot", "sync", "forced", "launch", "tail", "check", "flush",
                "verify", "download", "terminate"}
    /\ run \in Versions
    /\ args \in [RunIds -> Requests]
    /\ nextLine \in Nat \ {0} /\ marker \in BOOLEAN /\ path \in Outputs \cup {"none"}
    /\ local \in Versions \cup {Torn}
    /\ script \in [RunIds -> {"off", "starting", "render", "mark", "path"}]
    /\ segments \in [RunIds -> Versions] /\ forced \in Versions
    /\ log \in Seq([run : RunIds, what : {"start", "error", "finished"} \cup Outputs])
    /\ video \in [Outputs -> Versions \cup {Torn}]

\* When the launcher has read a path, the complete video of its own run is there,
\* however the poll interleaves with the script and whatever earlier runs left; of the
\* segments that were asked for: "The launcher deletes it when not forcing, so a stale one
\* from a previous run on this persistent volume can't silently hijack the segment choice"
\* (launch_runpod_test_video.py:124-126).
ReportedVideoIsFresh ==
    lpc \in {"verify", "download", "terminate"} /\ path # "none" =>
        /\ path = Asked.output /\ video[path] = run
        /\ segments[run] = IF Asked.force THEN run ELSE 0

\* A run whose script has printed the marker is never given up as failed: no line falls
\* between two looks at the log, however the script prints them.
SuccessIsNoticed ==
    [][lpc = "flush" /\ lpc' = "idle" /\ nextLine' # nextLine =>
           \A i \in 1 .. Len(log) : log[i] # Line(run, "finished")]_vars

\* "On failure, keep the pod alive so the user can SSH in and inspect"
\* (launch_runpod_test_video.py:419): a pod is terminated only when the file on
\* it, and all of it, has arrived.
TerminatedWithFile ==
    lpc = "terminate" /\ Asked.output # "list" => local = video[Remote] /\ local # 0

\* An invocation ends, whatever the service answers, however many hosts are stuck and
\* wherever SSH fails: no retry and no poll goes round for ever.
InvocationEnds == (lpc # "idle") ~> (lpc = "idle")

============================================================================
