---------------------------- MODULE EpochStream ----------------------------
(***************************************************************************)
(* What a loader promises whoever iterates over it: the e-th iteration     *)
(* yields the batches 1, 2, ..., NumBatches[e] of the e-th pass over the   *)
(* data, in order, each once, and then ends.  BatchLoader (the object the  *)
(* background process iterates over) and BackgroundGenerator (the object   *)
(* the trainer iterates over) both implement it; TrainLoop is written      *)
(* against it.                                                             *)
(***************************************************************************)
EXTENDS Naturals

CONSTANTS Passes,      \* bound on the passes
          NumBatches   \* NumBatches[p]: batches of pass p

VARIABLES epoch,   \* the current iteration
          seen,    \* batches it has yielded
          item     \* the last token yielded: a batch, or the end of the pass

vars == <<epoch, seen, item>>

Batches(p) == IF p \in 1 .. Passes THEN NumBatches[p] ELSE 0

Init == epoch = 1 /\ seen = 0 /\ item = [pass |-> 1, idx |-> 1]

Deliver == /\ seen < Batches(epoch)
           /\ seen' = seen + 1
           /\ item' = [pass |-> epoch, idx |-> seen + 1]
           /\ UNCHANGED epoch

EndPass == /\ seen = Batches(epoch)
           /\ epoch' = epoch + 1
           /\ seen' = 0
           /\ item' = [pass |-> epoch, idx |-> seen + 1]

Next == Deliver \/ EndPass

Spec == Init /\ [][Next]_vars
============================================================================
