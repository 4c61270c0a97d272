------------------------------ MODULE PodFleet ------------------------------
(***************************************************************************)
(* runpod_lib.py: how a launcher gets hold of a rented machine (a pod) and *)
(* gives it back.  boot_pod_with_retries creates a pod on the first kind   *)
(* of GPU that has capacity, waits for its SSH port for a limited time,    *)
(* and scraps it for a fresh one when the host is stuck.                   *)
(*                                                                         *)
(* The RunPod service is external: a request for a pod is granted, refused *)
(* for want of capacity or refused for another reason; a pod that was      *)
(* granted comes up or stays stuck; a call to terminate it may fail.  A    *)
(* pod costs money from the moment it is granted until it is terminated.   *)
(* The user may interrupt the launcher while it boots a pod.               *)
(***************************************************************************)
EXTENDS Naturals, FiniteSets

CONSTANTS NumGpus,      \* length of the list of GPU types to try
          BootRetries,  \* --boot-retries
          MaxPods       \* bound on the pods that are ever granted

ASSUME FleetAssumption ==
    NumGpus \in Nat \ {0} /\ BootRetries \in Nat \ {0} /\ MaxPods \in Nat

Pods == 1 .. MaxPods

VARIABLES
  pods,      \* the service's side: what has become of each pod
  granted,   \* how many were granted; the last one is the launcher's
  bpc,       \* where boot_pod_with_retries is
  attempt,   \* its loop variable
  gpu,       \* the GPU type that create_pod_with_gpu_fallback tries
  undead,    \* pods whose termination failed: the user is told to delete them
  lost,      \* pods that an interrupt left behind
  left       \* pods that a launcher left running, as it told the user

fleetVars == <<pods, granted, bpc, attempt, gpu, undead, lost, left>>

Running == {p \in Pods : pods[p] \in {"booting", "up"}}

FleetInit == /\ pods = [p \in Pods |-> "none"]
             /\ granted = 0
             /\ bpc = "idle"
             /\ attempt = 1
             /\ gpu = 1
             /\ undead = {}
             /\ lost = {} /\ left = {}

NoPod == bpc \in {"idle", "died", "interrupted"}

\* The launcher calls boot_pod_with_retries.
BeginBoot == /\ NoPod
             /\ granted + BootRetries <= MaxPods
             /\ bpc' = "create"
             /\ attempt' = 1
             /\ gpu' = 1
             /\ UNCHANGED <<pods, granted, undead, lost, left>>

----------------------------------------------------------------------------
(* create_pod_with_gpu_fallback *)

\* A mutant: the list of types is started over.
UnavailableWraps == /\ bpc = "create"
                    /\ gpu' = (gpu % NumGpus) + 1
                    /\ UNCHANGED <<bpc, pods, granted, attempt, undead, lost, left>>

\* No capacity for this type: try the next one, or die without a pod.
Unavailable == /\ bpc = "create"
               /\ IF gpu < NumGpus THEN gpu' = gpu + 1 /\ UNCHANGED bpc
                                   ELSE bpc' = "died" /\ UNCHANGED gpu
               /\ UNCHANGED <<pods, granted, attempt, undead, lost, left>>

\* Any other error is fatal.
Refused == /\ bpc = "create"
           /\ bpc' = "died"
           /\ UNCHANGED <<pods, granted, attempt, gpu, undead, lost, left>>

\* The service grants a pod; its answer is on the way.
Granted == /\ bpc = "create"
           /\ granted' = granted + 1
           /\ pods' = [pods EXCEPT ![granted'] = "booting"]
           /\ bpc' = "reply"
           /\ UNCHANGED <<attempt, gpu, undead, lost, left>>

----------------------------------------------------------------------------
(* boot_pod_with_retries *)

\* The launcher has the pod's id and waits for SSH.
Reply == /\ bpc = "reply"
         /\ bpc' = "wait"
         /\ UNCHANGED <<pods, granted, attempt, gpu, undead, lost, left>>

\* The pod exposes SSH.
ComesUp(p) == /\ pods[p] = "booting"
              /\ pods' = [pods EXCEPT ![p] = "up"]
              /\ UNCHANGED <<granted, bpc, attempt, gpu, undead, lost, left>>

Connected == /\ bpc = "wait"
             /\ pods[granted] = "up"
             /\ bpc' = "booted"
             /\ UNCHANGED <<pods, granted, attempt, gpu, undead, lost, left>>

\* wait_for_ssh gives up, even if the pod comes up just now.
TimedOut == /\ bpc = "wait"
            /\ bpc' = "scrap"
            /\ UNCHANGED <<pods, granted, attempt, gpu, undead, lost, left>>

\* terminate_pod_quiet: a failure is printed, and that is all.
Terminate(p) ==
    \/ pods' = [pods EXCEPT ![p] = "gone"] /\ UNCHANGED undead
    \/ undead' = undead \cup {p} /\ UNCHANGED pods

\* A mutant: a fresh host is tried while the stuck one keeps running.
ScrapForgets == /\ bpc = "scrap"
                /\ IF attempt < BootRetries
                   THEN bpc' = "create" /\ attempt' = attempt + 1 /\ gpu' = 1
                   ELSE bpc' = "died" /\ UNCHANGED <<attempt, gpu>>
                /\ UNCHANGED <<pods, granted, undead, lost, left>>

\* The stuck pod is scrapped; on with a fresh host, or give up.
Scrap == /\ bpc = "scrap"
         /\ Terminate(granted)
         /\ IF attempt < BootRetries
            THEN bpc' = "create" /\ attempt' = attempt + 1 /\ gpu' = 1
            ELSE bpc' = "died" /\ UNCHANGED <<attempt, gpu>>
         /\ UNCHANGED <<granted, lost, left>>

\* Ctrl+C ends the launcher, whatever it was waiting for.  Only while it waits for
\* SSH is there a handler, which terminates the pod first.
Interrupt == /\ \/ /\ bpc \in {"create", "reply", "scrap", "cleanup"}
                   /\ bpc' = "interrupted"
                   /\ lost' = IF bpc = "create" THEN lost ELSE lost \cup {granted}
                \/ /\ bpc = "wait"
                   /\ bpc' = "cleanup"
                   /\ UNCHANGED lost
             /\ UNCHANGED <<pods, granted, attempt, gpu, undead, left>>

Cleanup == /\ bpc = "cleanup"
           /\ Terminate(granted)
           /\ bpc' = "interrupted"
           /\ UNCHANGED <<granted, attempt, gpu, lost, left>>

BootStep == \/ Unavailable \/ Refused \/ Granted \/ Reply \/ Connected
            \/ TimedOut \/ Scrap \/ Cleanup

FleetStep == BootStep \/ Interrupt \/ \E p \in Pods : ComesUp(p)

----------------------------------------------------------------------------
(* What the launchers do with a pod that has come up, and with one that they *)
(* had before.                                                               *)

\* It is given back when the launcher is done with it.
GiveBack == /\ bpc = "booted"
            /\ Terminate(granted)
            /\ bpc' = "idle"
            /\ UNCHANGED <<granted, attempt, gpu, lost, left>>

\* The launcher ends and the pod goes on: "Pod is still running".
Leave == /\ bpc = "booted"
         /\ bpc' = "idle"
         /\ left' = left \cup {granted}
         /\ UNCHANGED <<pods, granted, attempt, gpu, undead, lost>>

\* --reuse-pod, with the pod that was left last.
TakeUp == /\ NoPod
          /\ granted \in left /\ pods[granted] = "up"
          /\ bpc' = "booted"
          /\ left' = left \ {granted}
          /\ UNCHANGED <<pods, granted, attempt, gpu, undead, lost>>

\* A pod is reclaimed by the service.
Vanish(p) == /\ p \in Pods /\ pods[p] = "up"
             /\ pods' = [pods EXCEPT ![p] = "gone"]
             /\ UNCHANGED <<granted, bpc, attempt, gpu, undead, lost, left>>

FleetNext == \/ BeginBoot \/ FleetStep \/ GiveBack \/ Leave \/ TakeUp
             \/ \E p \in Pods : Vanish(p)

FleetSpec == FleetInit /\ [][FleetNext]_fleetVars

----------------------------------------------------------------------------

FleetTypeOK ==
    /\ pods \in [Pods -> {"none", "booting", "up", "gone"}]
    /\ granted \in 0 .. MaxPods
    /\ bpc \in {"idle", "create", "reply", "wait", "scrap", "cleanup",
                "booted", "died", "interrupted"}
    /\ attempt \in 1 .. BootRetries
    /\ gpu \in 1 .. NumGpus
    /\ undead \subseteq Pods /\ lost \subseteq Pods /\ left \subseteq Pods

\* "Terminates any pod that fails to boot so we don't get billed" (runpod_lib.py:279-280):
\* a pod that runs is the one in the launcher's hands, or one the user was told of, its
\* termination having failed or the launcher having left it, or one that an interrupt
\* left behind.  No retry, timeout, refusal or reuse leaves another one behind.
Held == bpc \in {"reply", "wait", "scrap", "cleanup", "booted"}
Accounted ==
    Running \subseteq undead \cup lost \cup left \cup (IF Held THEN {granted} ELSE {})
============================================================================
