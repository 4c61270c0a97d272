---------------------------- MODULE BatchLoader ----------------------------
(***************************************************************************)
(* train/dataloader.py, class BatchDataLoader, over the worker pool: the   *)
(* generator that collects one sample of every worker into a batch, so     *)
(* that row w of every batch comes from worker w and consecutive batches   *)
(* continue the same segments.                                             *)
(*                                                                         *)
(* The background process iterates over it pass after pass: a pass begins  *)
(* with BeginPass, a full batch is taken with TakeBatch, and the pass ends *)
(* with EndPass, early when a worker would fill a row twice.               *)
(***************************************************************************)
EXTENDS WorkerPool

VARIABLES phase,     \* idle, resume, collect, full (suspended at yield), over, raised
          batch,     \* the rows collected so far: worker -> sample
          pass,      \* the pass under way, counted from 1
          count,     \* batches of this pass that were collected
          yielded    \* the last batch or end of pass handed to the background process

batchVars == <<poolVars, phase, batch, pass, count, yielded>>

BatchInit == /\ PoolInit
             /\ phase = "idle"
             /\ batch = << >>
             /\ pass = 1
             /\ count = 0
             /\ yielded = [pass |-> 1, idx |-> 1]

\* A mutant: the rows of an incomplete batch survive the pass.
BeginPassKeepsRows == /\ phase = "idle"
                      /\ pass <= Passes
                      /\ IF pass = 1 THEN FirstIteration /\ phase' = "collect"
                                     ELSE SendResume /\ phase' = "resume"
                      /\ count' = 0
                      /\ UNCHANGED <<batch, pass, yielded>>

\* for d in self.loader: DataLoader.__iter__ creates the iterator, or resets the
\* persistent one.
BeginPass == /\ phase = "idle"
             /\ pass <= Passes
             /\ IF pass = 1 THEN FirstIteration /\ phase' = "collect"
                            ELSE SendResume /\ phase' = "resume"
             /\ batch' = << >>
             /\ count' = 0
             /\ UNCHANGED <<pass, yielded>>

Restart == /\ phase = "resume"
           /\ DrainAndPrime
           /\ phase' = "collect"
           /\ UNCHANGED <<batch, pass, count, yielded>>

\* torch.stack needs rows of one shape.
Collatable(rows) ==
    \A w, u \in Workers : Cardinality(GtRows(rows[w])) = Cardinality(GtRows(rows[u]))

\* A sample arrives.  A second one of the same worker ends the pass (the others
\* have none left); the row that completes the batch makes the generator yield.
Accept(d) ==
    LET rows == [w \in DOMAIN batch \cup {d.worker} |->
                    IF w = d.worker THEN d ELSE batch[w]]
    IN \/ /\ d.worker \in DOMAIN batch
          /\ phase' = "over"
          /\ UNCHANGED <<batch, count>>
       \/ /\ d.worker \notin DOMAIN batch
          /\ batch' = rows
          /\ IF DOMAIN rows # Workers THEN UNCHANGED <<phase, count>>
             ELSE IF Collatable(rows) THEN phase' = "full" /\ count' = count + 1
             ELSE phase' = "raised" /\ UNCHANGED count

Collect == /\ phase = "collect"
           /\ Return
           /\ IF Result = Failure THEN phase' = "raised" /\ UNCHANGED <<batch, count>>
                                  ELSE Accept(Result)
           /\ UNCHANGED <<pass, yielded>>

Receive == /\ phase = "collect"
           /\ Store \/ MarkStopped
           /\ UNCHANGED <<phase, batch, pass, count, yielded>>

\* A mutant: the last, incomplete batch counts.
LoopEndsYieldsPartial == /\ phase = "collect"
                         /\ Exhausted
                         /\ phase' = "over"
                         /\ count' = IF batch = << >> THEN count ELSE count + 1
                         /\ UNCHANGED <<poolVars, batch, pass, yielded>>

\* A mutant: the generator waits for the rows that are missing.
LoopEndsWaitsForRows == /\ phase = "collect"
                        /\ Exhausted /\ batch = << >>
                        /\ phase' = "over"
                        /\ UNCHANGED <<poolVars, batch, pass, count, yielded>>

\* The loop over the samples ends; an incomplete batch is forgotten.
LoopEnds == /\ phase = "collect"
            /\ Exhausted
            /\ phase' = "over"
            /\ UNCHANGED <<poolVars, batch, pass, count, yielded>>

\* The background process has the batch and asks for the next one.
TakeBatch == /\ phase = "full"
             /\ yielded' = [pass |-> pass, idx |-> count]
             /\ batch' = << >>
             /\ phase' = "collect"
             /\ UNCHANGED <<poolVars, pass, count>>

EndPass == /\ phase = "over"
           /\ yielded' = [pass |-> pass, idx |-> count + 1]
           /\ pass' = pass + 1
           /\ count' = 0
           /\ phase' = "idle"
           /\ UNCHANGED <<poolVars, batch>>

WorkerRuns(w) == /\ WorkerStep(w)
                 /\ UNCHANGED <<phase, batch, pass, count, yielded>>

Loader == BeginPass \/ Restart \/ Collect \/ Receive \/ LoopEnds \/ TakeBatch \/ EndPass

BatchNext == Loader \/ \E w \in Workers : WorkerRuns(w)

BatchSpec == BatchInit /\ [][BatchNext]_batchVars

\* The scheduler runs the loader's process and every worker.
Fairness == WF_batchVars(Loader) /\ \A w \in Workers : WF_batchVars(WorkerRuns(w))
FairSpec == BatchSpec /\ Fairness

----------------------------------------------------------------------------

BatchTypeOK ==
    /\ PoolTypeOK
    /\ phase \in {"idle", "resume", "collect", "full", "over", "raised"}
    /\ DOMAIN batch \subseteq Workers /\ \A w \in DOMAIN batch : batch[w] \in Samples
    /\ pass \in 1 .. Passes + 1 /\ count \in Nat

\* Row w of the n-th batch of a pass is the n-th sample of worker w in that pass,
\* although workers run ahead, answer in any order and stop at different times,
\* and results of the pass before may still be on their way when it begins.
BatchIsRowwise ==
    phase = "full" => \A w \in Workers : batch[w] = Nth(w, Order[pass], count)

\* The rows of a batch come from different segments, and every worker has
\* shuffled its own copy of the list as often as the others.
RowsAreDistinctSegments ==
    phase = "full" =>
        /\ \A w, u \in Workers : w # u => batch[w].seg # batch[u].seg
        /\ \A w, u \in Workers : shuffles[w] = shuffles[u]

\* The samples a batch is built of are the samples of a pass: each pass is a
\* stream of the batches that the slowest worker allows, then it ends.
Stream == INSTANCE EpochStream
          WITH epoch <- pass, seen <- IF phase = "full" THEN count - 1 ELSE count,
               item <- yielded, NumBatches <- [p \in 1 .. Passes |-> FullBatches(Order[p])]
StreamSpec == Stream!Spec

\* Every pass ends or raises.
PassesEnd == <>(pass > Passes \/ phase = "raised")

============================================================================
