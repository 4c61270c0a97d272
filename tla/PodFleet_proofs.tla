-------------------------- MODULE PodFleet_proofs --------------------------
(***************************************************************************)
(* Proofs about PodFleet: for every number of GPU types, retries and pods  *)
(* a launcher that boots pods and gives them back loses track of none.     *)
(*                                                                         *)
(* Accounted is not inductive by itself: that the pod in hand has a number *)
(* within bounds, and that the retries left fit into the bound on the      *)
(* pods, is what Budget adds.                                              *)
(***************************************************************************)
EXTENDS PodFleet, TLAPS

\* While a pod is being asked for, the attempts left still fit under the bound; a pod
\* in hand was granted.
Budget ==
    /\ bpc = "create" => granted + BootRetries + 1 <= MaxPods + attempt
    /\ bpc \in {"reply", "wait", "scrap"} => granted + BootRetries <= MaxPods + attempt
    /\ Held => granted # 0

FleetIInv == FleetTypeOK /\ Accounted /\ Budget

----------------------------------------------------------------------------

\* Terminating the pod in hand takes it off the running ones, or puts it on record:
\* what is left running is the others (runpod_lib.py:315-319).
LEMMA TerminateAccounts ==
    ASSUME FleetIInv, Held, Terminate(granted), lost' = lost, left' = left,
           granted' = granted
    PROVE  /\ Running' \subseteq undead' \cup lost' \cup left'
           /\ pods' \in [Pods -> {"none", "booting", "up", "gone"}]
           /\ undead' \subseteq Pods
<1>1. granted \in Pods
  BY DEF FleetIInv, FleetTypeOK, Budget, Pods
<1>2. Running \subseteq undead \cup lost \cup left \cup {granted}
  BY DEF FleetIInv, Accounted
<1>3. CASE pods' = [pods EXCEPT ![granted] = "gone"] /\ UNCHANGED undead
  <2>1. Running' \subseteq Running \ {granted}
    BY <1>1, <1>3 DEF Running, FleetIInv, FleetTypeOK
  <2> QED
    BY <1>1, <1>2, <1>3, <2>1 DEF FleetIInv, FleetTypeOK
<1>4. CASE undead' = undead \cup {granted} /\ UNCHANGED pods
  <2>1. Running' = Running
    BY <1>4 DEF Running
  <2> QED
    BY <1>1, <1>2, <1>4, <2>1 DEF FleetIInv, FleetTypeOK
<1> QED
  BY <1>3, <1>4 DEF Terminate

\* The initial state: no pod runs.
LEMMA InitIInv == FleetInit => FleetIInv
<1> SUFFICES ASSUME FleetInit PROVE FleetIInv
  OBVIOUS
<1> USE FleetAssumption DEF FleetInit
<1>1. FleetTypeOK
  BY DEF FleetTypeOK
<1>2. Accounted
  BY DEF Accounted, Running, Held
<1>3. Budget
  BY DEF Budget, Held
<1> QED
  BY <1>1, <1>2, <1>3 DEF FleetIInv

\* Every step keeps the three parts of the invariant.
LEMMA NextIInv == FleetIInv /\ [FleetNext]_fleetVars => FleetIInv'
<1> SUFFICES ASSUME FleetIInv, [FleetNext]_fleetVars PROVE FleetIInv'
  OBVIOUS
<1> USE FleetAssumption
<1>1. CASE BeginBoot
  <2>1. Running' = Running /\ ~Held /\ ~Held'
    BY <1>1 DEF BeginBoot, NoPod, Running, Held
  <2>2. FleetTypeOK' /\ Budget'
    BY <1>1 DEF BeginBoot, FleetIInv, FleetTypeOK, Budget, Held
  <2> QED
    BY <1>1, <2>1, <2>2 DEF BeginBoot, FleetIInv, Accounted
<1>2. CASE Unavailable \/ Refused
  <2>1. Running' = Running /\ ~Held /\ ~Held'
    BY <1>2 DEF Unavailable, Refused, Running, Held
  <2>2. FleetTypeOK' /\ Budget'
    BY <1>2 DEF Unavailable, Refused, FleetIInv, FleetTypeOK, Budget, Held
  <2> QED
    BY <1>2, <2>1, <2>2 DEF Unavailable, Refused, FleetIInv, Accounted
<1>3. CASE Granted
  <2>1. granted' = granted + 1 /\ granted' \in Pods
    BY <1>3 DEF Granted, FleetIInv, FleetTypeOK, Budget, Pods
  <2>2. Running' \subseteq Running \cup {granted'}
    BY <1>3, <2>1 DEF Granted, Running, FleetIInv, FleetTypeOK
  <2>3. ~Held /\ Held'
    BY <1>3 DEF Granted, Held
  <2>4. FleetTypeOK' /\ Budget'
    BY <1>3, <2>1 DEF Granted, FleetIInv, FleetTypeOK, Budget, Held, Pods
  <2> QED
    BY <1>3, <2>2, <2>3, <2>4 DEF Granted, FleetIInv, Accounted
<1>4. CASE Reply \/ Connected \/ TimedOut
  <2>1. Running' = Running /\ Held /\ Held'
    BY <1>4 DEF Reply, Connected, TimedOut, Running, Held
  <2>2. FleetTypeOK' /\ Budget'
    BY <1>4 DEF Reply, Connected, TimedOut, FleetIInv, FleetTypeOK, Budget, Held
  <2> QED
    BY <1>4, <2>1, <2>2 DEF Reply, Connected, TimedOut, FleetIInv, Accounted
<1>5. CASE Scrap
  <2>1. Held /\ ~Held'
    BY <1>5 DEF Scrap, Held
  <2>2. /\ Running' \subseteq undead' \cup lost' \cup left'
        /\ pods' \in [Pods -> {"none", "booting", "up", "gone"}]
        /\ undead' \subseteq Pods
    BY <1>5, <2>1, TerminateAccounts DEF Scrap
  <2>3. FleetTypeOK'
    BY <1>5, <2>2 DEF Scrap, FleetIInv, FleetTypeOK
  <2>4. Budget'
    BY <1>5 DEF Scrap, FleetIInv, FleetTypeOK, Budget, Held
  <2> QED
    BY <2>1, <2>2, <2>3, <2>4 DEF FleetIInv, Accounted
<1>6. CASE Cleanup \/ GiveBack
  <2>1. Held /\ ~Held'
    BY <1>6 DEF Cleanup, GiveBack, Held
  <2>2. /\ Running' \subseteq undead' \cup lost' \cup left'
        /\ pods' \in [Pods -> {"none", "booting", "up", "gone"}]
        /\ undead' \subseteq Pods
    BY <1>6, <2>1, TerminateAccounts DEF Cleanup, GiveBack
  <2>3. FleetTypeOK'
    BY <1>6, <2>2 DEF Cleanup, GiveBack, FleetIInv, FleetTypeOK
  <2>4. Budget'
    BY <1>6, <2>1 DEF Cleanup, GiveBack, Budget
  <2> QED
    BY <2>1, <2>2, <2>3, <2>4 DEF FleetIInv, Accounted
<1>7. CASE Interrupt
  <2>1. Running' = Running
    BY <1>7 DEF Interrupt, Running
  <2>2. Held => granted \in Pods
    BY DEF FleetIInv, FleetTypeOK, Budget, Pods
  <2>3. lost' \subseteq Pods
    BY <1>7, <2>2 DEF Interrupt, FleetIInv, FleetTypeOK, Held
  <2>4. FleetTypeOK'
    BY <1>7, <2>3 DEF Interrupt, FleetIInv, FleetTypeOK
  <2>5. Budget'
    BY <1>7 DEF Interrupt, FleetIInv, FleetTypeOK, Budget, Held
  <2>6. Accounted'
    BY <1>7, <2>1 DEF Interrupt, FleetIInv, Accounted, Held
  <2> QED
    BY <2>4, <2>5, <2>6 DEF FleetIInv
<1>8. ASSUME NEW p \in Pods, ComesUp(p) PROVE FleetIInv'
  <2>1. Running' = Running
    BY <1>8 DEF ComesUp, Running, FleetIInv, FleetTypeOK
  <2>2. FleetTypeOK' /\ Budget' /\ Held' = Held
    BY <1>8 DEF ComesUp, FleetIInv, FleetTypeOK, Budget, Held
  <2> QED
    BY <1>8, <2>1, <2>2 DEF ComesUp, FleetIInv, Accounted
<1>9. CASE Leave
  <2>1. Running' = Running /\ Held /\ ~Held' /\ granted \in Pods
    BY <1>9 DEF Leave, Running, Held, FleetIInv, FleetTypeOK, Budget, Pods
  <2>2. FleetTypeOK' /\ Budget'
    BY <1>9, <2>1 DEF Leave, FleetIInv, FleetTypeOK, Budget, Held
  <2> QED
    BY <1>9, <2>1, <2>2 DEF Leave, FleetIInv, Accounted
<1>10. CASE TakeUp
  <2>1. Running' = Running /\ ~Held /\ Held' /\ granted \in Pods
    BY <1>10 DEF TakeUp, NoPod, Running, Held, FleetIInv, FleetTypeOK
  <2>2. FleetTypeOK' /\ Budget'
    BY <1>10, <2>1 DEF TakeUp, FleetIInv, FleetTypeOK, Budget, Held, Pods
  <2> QED
    BY <1>10, <2>1, <2>2 DEF TakeUp, FleetIInv, Accounted
<1>11. ASSUME NEW p \in Pods, Vanish(p) PROVE FleetIInv'
  <2>1. Running' \subseteq Running
    BY <1>11 DEF Vanish, Running, FleetIInv, FleetTypeOK
  <2>2. FleetTypeOK' /\ Budget' /\ Held' = Held
    BY <1>11 DEF Vanish, FleetIInv, FleetTypeOK, Budget, Held
  <2> QED
    BY <1>11, <2>1, <2>2 DEF Vanish, FleetIInv, Accounted
<1>12. CASE UNCHANGED fleetVars
  BY <1>12 DEF fleetVars, FleetIInv, FleetTypeOK, Accounted, Budget, Running, Held
<1> QED
  BY <1>1, <1>2, <1>3, <1>4, <1>5, <1>6, <1>7, <1>8, <1>9,
     <1>10, <1>11, <1>12
  DEF FleetNext, FleetStep, BootStep

\* The inductive invariant holds throughout.
THEOREM FleetInvariance == FleetSpec => []FleetIInv
<1> QED
  BY InitIInv, NextIInv, PTL DEF FleetSpec

\* Every variable stays in its type; no more pods are asked for than the bound allows.
THEOREM FleetTypeCorrect == FleetSpec => []FleetTypeOK
<1>1. FleetIInv => FleetTypeOK
  BY DEF FleetIInv
<1> QED
  BY <1>1, FleetInvariance, PTL

\* A pod that runs is in the launcher's hands or on record, whatever the service
\* grants, however many hosts are stuck and whenever the user interrupts.
THEOREM NoPodForgotten == FleetSpec => []Accounted
<1>1. FleetIInv => Accounted
  BY DEF FleetIInv
<1> QED
  BY <1>1, FleetInvariance, PTL
============================================================================
