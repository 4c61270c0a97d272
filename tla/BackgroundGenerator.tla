------------------------ MODULE BackgroundGenerator ------------------------
(***************************************************************************)
(* train/dataloader.py, class BackgroundGenerator: a process of its own    *)
(* iterates over a BatchDataLoader for ever, pass after pass, and hands    *)
(* the batches to the training process through a bounded queue; a None     *)
(* closes every pass.  The training process iterates over the object once  *)
(* per epoch and stops at the None.                                        *)
(*                                                                         *)
(* Abstractions.  A batch is the pass and the position it was produced at; *)
(* the None of pass p is the token after its last batch.  The code puts    *)
(* neither on the wire: the trainer's own counters are epoch and seen, and *)
(* it never reads the token's fields except to tell a None from a batch.   *)
(* The queue's feeder thread and pipe are one FIFO of bounded length.      *)
(***************************************************************************)
EXTENDS Naturals, Sequences

CONSTANTS Capacity,    \* bound of torch.multiprocessing.Queue
          Passes,      \* bound on the producer's passes (the code has none)
          Epochs,      \* how often the trainer iterates
          NumBatches   \* NumBatches[p]: batches the wrapped loader yields in pass p

ASSUME CapacityAssumption == Capacity \in Nat \ {0}
ASSUME PassesAssumption == Passes \in Nat /\ Epochs \in 1 .. Passes
ASSUME NumBatchesAssumption == NumBatches \in [1 .. Passes -> Nat]

VARIABLES queue,    \* the queue's content
          ppc,      \* where the producer is in run()
          next,     \* the token the producer hands over next
          cpc,      \* where the trainer is: idle, in queue.get(), using a batch
          epoch,    \* the trainer's epoch, counted from 1
          seen,     \* batches it received in this epoch
          item      \* the last token it received

producerVars == <<ppc, next>>
consumerVars == <<cpc, epoch, seen, item>>
vars == <<queue, producerVars, consumerVars>>

Token == [pass : 1 .. Passes + 1, idx : Nat \ {0}]
First == [pass |-> 1, idx |-> 1]
Batches(p) == IF p \in 1 .. Passes THEN NumBatches[p] ELSE 0
IsNone(t) == t.idx > Batches(t.pass)

\* The token after t in the producer's stream: the next batch of the pass, its
\* None, or the first token of the next pass.
Succ(t) == IF IsNone(t) THEN [pass |-> t.pass + 1, idx |-> 1]
                        ELSE [pass |-> t.pass, idx |-> t.idx + 1]

Init == /\ queue = << >>
        /\ ppc = "fetch"
        /\ next = First
        /\ cpc = "idle"
        /\ epoch = 1
        /\ seen = 0
        /\ item = First

----------------------------------------------------------------------------
(* The producer process. *)

\* The for statement asks the loader for its next batch and gets one.
Fetch == /\ ppc = "fetch"
         /\ next.pass <= Passes
         /\ ~IsNone(next)
         /\ ppc' = "poll"
         /\ UNCHANGED <<queue, next, consumerVars>>

\* The loader's pass is over: the for statement ends.
EndPass == /\ ppc = "fetch"
           /\ next.pass <= Passes
           /\ IsNone(next)
           /\ ppc' = "none"
           /\ UNCHANGED <<queue, next, consumerVars>>

\* Mutants of the polling loop: room for one more than the bound; the test inverted.
PollOffByOne == /\ ppc = "poll"
                /\ Len(queue) <= Capacity
                /\ ppc' = "put"
                /\ UNCHANGED <<queue, next, consumerVars>>

PollInverted == /\ ppc = "poll"
                /\ Len(queue) >= Capacity
                /\ ppc' = "put"
                /\ UNCHANGED <<queue, next, consumerVars>>

\* while self.queue.full(): sleep -- left once the queue has room.
Poll == /\ ppc = "poll"
        /\ Len(queue) < Capacity
        /\ ppc' = "put"
        /\ UNCHANGED <<queue, next, consumerVars>>

\* A mutant: a batch is put twice.
PutTwice == /\ ppc \in {"put", "none"}
            /\ Len(queue) < Capacity
            /\ queue' = Append(queue, next)
            /\ \/ next' = Succ(next) /\ ppc' = "fetch"
               \/ UNCHANGED <<next, ppc>>
            /\ UNCHANGED consumerVars

\* queue.put blocks while the queue is full; both puts of run() are this one.
Put == /\ ppc \in {"put", "none"}
       /\ Len(queue) < Capacity
       /\ queue' = Append(queue, next)
       /\ next' = Succ(next)
       /\ ppc' = "fetch"
       /\ UNCHANGED consumerVars

\* The wrapped loader raises (a worker could not read a frame, a ground truth is
\* short): run() is left and the process ends.  What is in the queue stays.
Raise == /\ ppc = "fetch"
         /\ ppc' = "dead"
         /\ UNCHANGED <<queue, next, consumerVars>>

----------------------------------------------------------------------------
(* The training process. *)

\* for batch in loader: __iter__ calls queue.get().
StartEpoch == /\ cpc = "idle"
              /\ epoch <= Epochs
              /\ cpc' = "get"
              /\ UNCHANGED <<queue, producerVars, epoch, seen, item>>

GetBatch == /\ cpc = "get"
            /\ queue # << >>
            /\ ~IsNone(Head(queue))
            /\ item' = Head(queue)
            /\ queue' = Tail(queue)
            /\ seen' = seen + 1
            /\ cpc' = "use"
            /\ UNCHANGED <<producerVars, epoch>>

\* A mutant: an epoch without batches is not counted.
GetNoneSkipsEmpty == /\ cpc = "get"
                     /\ queue # << >>
                     /\ IsNone(Head(queue))
                     /\ item' = Head(queue)
                     /\ queue' = Tail(queue)
                     /\ epoch' = IF seen = 0 THEN epoch ELSE epoch + 1
                     /\ seen' = 0
                     /\ cpc' = "idle"
                     /\ UNCHANGED producerVars

GetNone == /\ cpc = "get"
           /\ queue # << >>
           /\ IsNone(Head(queue))
           /\ item' = Head(queue)
           /\ queue' = Tail(queue)
           /\ epoch' = epoch + 1
           /\ seen' = 0
           /\ cpc' = "idle"
           /\ UNCHANGED producerVars

\* The body of the loop is done with the batch; yield returns, queue.get() again.
Resume == /\ cpc = "use"
          /\ cpc' = "get"
          /\ UNCHANGED <<queue, producerVars, epoch, seen, item>>

\* A batch travels as handles of shared memory that the producer process serves.
\* Once it is gone, rebuilding the batch fails with ConnectionRefusedError; the
\* handler calls self.shutdown(), which does not exist, and the trainer dies.
GetFails == /\ cpc = "get"
            /\ ppc = "dead"
            /\ queue # << >>
            /\ ~IsNone(Head(queue))
            /\ queue' = Tail(queue)
            /\ cpc' = "crashed"
            /\ UNCHANGED <<producerVars, epoch, seen, item>>

Producer == Fetch \/ EndPass \/ Poll \/ Put
Consumer == StartEpoch \/ GetBatch \/ GetNone \/ Resume

Next == Producer \/ Consumer \/ Raise \/ GetFails

\* Both processes are scheduled by the operating system; nothing obliges the
\* loader to raise.
Fairness == WF_vars(Producer) /\ WF_vars(Consumer)

Spec == Init /\ [][Next]_vars
FairSpec == Spec /\ Fairness

----------------------------------------------------------------------------

TypeOK == /\ queue \in Seq(Token)
          /\ Len(queue) <= Capacity
          /\ ppc \in {"fetch", "poll", "put", "none", "dead"}
          /\ next \in Token
          /\ cpc \in {"idle", "get", "use", "crashed"}
          /\ epoch \in 1 .. Passes + 1
          /\ seen \in Nat
          /\ item \in Token

\* The batch the trainer works on in its e-th epoch is the batch at the same
\* position of the producer's e-th pass, although the queue carries neither
\* number and the producer runs ahead into later passes.
EpochAligned ==
    cpc = "use" => item = [pass |-> epoch, idx |-> seen]

\* An epoch ends only after every batch of the pass: the None of an earlier pass
\* is never taken for the end of this one.
EpochComplete ==
    [][epoch' # epoch => /\ epoch' = epoch + 1
                         /\ seen = Batches(epoch)]_vars

\* "Do not start (blocking) insertion into a full queue" (dataloader.py:433-434):
\* when the producer reaches queue.put with a batch, the put does not block.
PutDoesNotBlock == ppc = "put" => Len(queue) < Capacity

\* A trainer that waits in queue.get() is served, as long as the producer lives:
\* neither a full queue nor an empty one stops the pair.
GetReturns == (cpc = "get") ~> (cpc # "get" \/ ppc = "dead")

\* The object the trainer iterates over is an epoch stream, like the loader the
\* producer iterates over: the process and the queue between them change nothing
\* but the time at which batches are made.
Stream == INSTANCE EpochStream
StreamSpec == Stream!Spec

\* The inductive invariant: the queue, with the token in the producer's hands behind
\* it, is a stretch of the producer's stream without a gap, and it starts with the
\* token that the trainer's counters expect.
Upcoming(k) == IF k <= Len(queue) THEN queue[k] ELSE next
WellFormed(t) == t.idx <= Batches(t.pass) + 1

Contiguous == \A k \in 1 .. Len(queue) : Upcoming(k + 1) = Succ(Upcoming(k))
ExpectedFirst == cpc # "crashed" => Upcoming(1) = [pass |-> epoch, idx |-> seen + 1]
TokensWellFormed ==
    /\ \A k \in 1 .. Len(queue) : WellFormed(queue[k]) /\ queue[k].pass <= Passes
    /\ WellFormed(next)
ProducerHolds ==
    /\ ppc \in {"poll", "put"} => next.pass <= Passes /\ ~IsNone(next)
    /\ ppc = "none" => next.pass <= Passes /\ IsNone(next)

IInv == /\ TypeOK
        /\ Contiguous
        /\ ExpectedFirst
        /\ TokensWellFormed
        /\ ProducerHolds
        /\ PutDoesNotBlock
        /\ EpochAligned
============================================================================
