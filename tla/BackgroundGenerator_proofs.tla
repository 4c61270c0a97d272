--------------------- MODULE BackgroundGenerator_proofs ---------------------
(***************************************************************************)
(* Proofs about BackgroundGenerator, for every capacity of the queue,      *)
(* every number of passes and epochs, and every number of batches in each  *)
(* pass.                                                                   *)
(***************************************************************************)
EXTENDS BackgroundGenerator, TLAPS

USE CapacityAssumption, PassesAssumption, NumBatchesAssumption

\* The number of batches of a pass is a number, past the bound as well.
LEMMA BatchesNat == \A p \in Nat : Batches(p) \in Nat
  BY DEF Batches

\* The successor of a well-formed token of the producer's passes is a token, and is
\* well formed.
LEMMA SuccWellFormed ==
    ASSUME NEW t \in Token, WellFormed(t), t.pass <= Passes
    PROVE  Succ(t) \in Token /\ WellFormed(Succ(t))
  <1>1. t.pass \in 1 .. Passes /\ t.idx \in Nat \ {0}
    BY DEF Token
  <1>2. Batches(t.pass) \in Nat /\ Batches(t.pass + 1) \in Nat
    <2>1. t.pass \in Nat /\ t.pass + 1 \in Nat
      BY <1>1
    <2>2. QED
      BY <2>1, BatchesNat
  <1>3. CASE IsNone(t)
    BY <1>1, <1>2, <1>3 DEF Succ, Token, WellFormed
  <1>4. CASE ~IsNone(t)
    BY <1>1, <1>2, <1>4 DEF Succ, Token, WellFormed, IsNone
  <1>5. QED
    BY <1>3, <1>4

\* Taking the head off the queue moves every upcoming token one place forward, and
\* leaves a stretch of the stream.
LEMMA TakeHead ==
    ASSUME IInv, queue # << >>, queue' = Tail(queue), UNCHANGED next
    PROVE  /\ Head(queue) = Upcoming(1) /\ Head(queue) \in Token
           /\ WellFormed(Head(queue)) /\ Head(queue).pass <= Passes
           /\ Upcoming(1)' = Succ(Head(queue))
           /\ queue' \in Seq(Token) /\ Len(queue') < Capacity
           /\ Contiguous' /\ TokensWellFormed'
  <1> USE DEF IInv, TypeOK
  <1>1. /\ Len(queue) \in Nat \ {0}
        /\ queue' \in Seq(Token)
        /\ Len(queue') = Len(queue) - 1
        /\ \A k \in 1 .. Len(queue) - 1 : queue'[k] = queue[k + 1]
        /\ Head(queue) = queue[1]
        /\ Head(queue) \in Token
    OBVIOUS
  <1>2. \A k \in 1 .. Len(queue) : Upcoming(k)' = Upcoming(k + 1)
    BY <1>1 DEF Upcoming
  <1>3. Upcoming(1)' = Succ(Head(queue))
    <2>1. Upcoming(1) = Head(queue)
      BY <1>1 DEF Upcoming
    <2>2. Upcoming(1)' = Upcoming(2) /\ Upcoming(2) = Succ(Upcoming(1))
      BY <1>1, <1>2 DEF Contiguous
    <2>3. QED
      BY <2>1, <2>2
  <1>4. Contiguous'
    <2>1. SUFFICES ASSUME NEW k \in 1 .. Len(queue) - 1
                   PROVE  Upcoming(k + 1)' = Succ(Upcoming(k)')
      BY <1>1 DEF Contiguous, Succ, IsNone, Batches
    <2>2. Upcoming(k + 1)' = Upcoming(k + 2) /\ Upcoming(k)' = Upcoming(k + 1)
      BY <1>1, <1>2
    <2>3. Upcoming(k + 2) = Succ(Upcoming(k + 1))
      BY <1>1 DEF Contiguous
    <2>4. QED
      BY <2>2, <2>3
  <1>5. TokensWellFormed'
    BY <1>1 DEF TokensWellFormed, WellFormed, Batches
  <1>6. QED
    BY <1>1, <1>3, <1>4, <1>5 DEF TokensWellFormed, Upcoming

LEMMA InitIInv == Init => IInv
  <1>1. First \in Token
    BY DEF First, Token
  <1>2. WellFormed(First)
    BY BatchesNat DEF First, WellFormed
  <1>3. QED
    BY <1>1, <1>2
    DEF Init, IInv, TypeOK, Contiguous, ExpectedFirst, TokensWellFormed, ProducerHolds,
        PutDoesNotBlock, EpochAligned, Upcoming, First

\* One step per action: the producer's, then the trainer's.
LEMMA NextIInv == IInv /\ [Next]_vars => IInv'
  <1> SUFFICES ASSUME IInv, [Next]_vars PROVE IInv'
    OBVIOUS
  <1> USE DEF IInv, TypeOK, Contiguous, ExpectedFirst, TokensWellFormed, ProducerHolds,
              PutDoesNotBlock, EpochAligned, Upcoming, consumerVars, producerVars
  <1>1. CASE Fetch
    BY <1>1 DEF Fetch
  <1>2. CASE EndPass
    BY <1>2 DEF EndPass
  <1>3. CASE Poll
    BY <1>3 DEF Poll
  <1>4. CASE Put
    BY <1>4, SuccWellFormed DEF Put
  <1>5. CASE Raise
    BY <1>5 DEF Raise
  <1>6. CASE StartEpoch
    BY <1>6 DEF StartEpoch
  <1>7. CASE GetBatch
    <2>1. Head(queue) = [pass |-> epoch, idx |-> seen + 1]
      BY <1>7, TakeHead DEF GetBatch
    <2>2. Succ(Head(queue)) = [pass |-> epoch, idx |-> seen + 2]
      BY <1>7, <2>1 DEF GetBatch, Succ
    <2>3. QED
      BY <1>7, <2>1, <2>2, TakeHead DEF GetBatch
  <1>8. CASE GetNone
    <2>1. Head(queue) = [pass |-> epoch, idx |-> seen + 1]
      BY <1>8, TakeHead DEF GetNone
    <2>2. Succ(Head(queue)) = [pass |-> epoch + 1, idx |-> 1]
      BY <1>8, <2>1 DEF GetNone, Succ
    <2>3. epoch' \in 1 .. Passes + 1
      BY <1>8, <2>1, TakeHead DEF GetNone
    <2>4. TypeOK'
      BY <1>8, <2>1, <2>3, TakeHead DEF GetNone
    <2>5. ExpectedFirst'
      BY <1>8, <2>1, <2>2, TakeHead DEF GetNone
    <2>6. ProducerHolds' /\ PutDoesNotBlock' /\ EpochAligned'
      BY <1>8, TakeHead DEF GetNone
    <2>7. QED
      BY <1>8, <2>4, <2>5, <2>6, TakeHead DEF GetNone
  <1>9. CASE Resume
    BY <1>9 DEF Resume
  <1>10. CASE GetFails
    BY <1>10, TakeHead DEF GetFails
  <1>11. CASE UNCHANGED vars
    BY <1>11 DEF vars
  <1>12. QED
    BY <1>1, <1>2, <1>3, <1>4, <1>5, <1>6, <1>7, <1>8, <1>9, <1>10, <1>11
    DEF Next, Producer, Consumer

\* The inductive invariant holds in every reachable state.
THEOREM Invariance == Spec => []IInv
  BY InitIInv, NextIInv, PTL DEF Spec

\* The queue never exceeds its bound and everything in it is a batch or a None.
THEOREM TypeCorrect == Spec => []TypeOK
  <1>1. IInv => TypeOK
    BY DEF IInv
  <1>2. QED
    BY <1>1, Invariance, PTL

\* The batch the trainer uses in epoch e is the one at the same position of pass e of
\* the producer, for every queue bound and every list of pass lengths.
THEOREM Alignment == Spec => []EpochAligned
  <1>1. IInv => EpochAligned
    BY DEF IInv
  <1>2. QED
    BY <1>1, Invariance, PTL

\* The producer never enters a put of a batch that would block.
THEOREM NoBlockingPut == Spec => []PutDoesNotBlock
  <1>1. IInv => PutDoesNotBlock
    BY DEF IInv
  <1>2. QED
    BY <1>1, Invariance, PTL

----------------------------------------------------------------------------

\* What a step does to the trainer's counters: the step of an epoch stream, or nothing.
LEMMA StreamStep == IInv /\ [Next]_vars => [Stream!Next]_(Stream!vars)
  <1> SUFFICES ASSUME IInv, [Next]_vars PROVE [Stream!Next]_(Stream!vars)
    OBVIOUS
  <1> USE DEF Stream!vars, Stream!Next, consumerVars, producerVars
  <1>1. /\ epoch \in Nat /\ seen \in Nat /\ Batches(epoch) \in Nat
        /\ Stream!Batches(epoch) = Batches(epoch)
    BY BatchesNat DEF IInv, TypeOK, Batches, Stream!Batches
  <1>2. CASE GetBatch
    <2>1. Head(queue) = [pass |-> epoch, idx |-> seen + 1]
      BY <1>2, TakeHead DEF GetBatch, IInv, ExpectedFirst
    <2>2. seen < Batches(epoch)
      BY <1>1, <1>2, <2>1 DEF GetBatch, IsNone
    <2>3. Stream!Deliver
      BY <1>1, <1>2, <2>1, <2>2 DEF GetBatch, Stream!Deliver
    <2>4. QED
      BY <2>3
  <1>3. CASE GetNone
    <2>1. Head(queue) = [pass |-> epoch, idx |-> seen + 1] /\ WellFormed(Head(queue))
      BY <1>3, TakeHead DEF GetNone, IInv, ExpectedFirst
    <2>2. seen = Batches(epoch)
      BY <1>1, <1>3, <2>1 DEF GetNone, IsNone, WellFormed
    <2>3. Stream!EndPass
      BY <1>1, <1>3, <2>1, <2>2 DEF GetNone, Stream!EndPass
    <2>4. QED
      BY <2>3
  <1>4. CASE Producer \/ Raise
    BY <1>4 DEF Producer, Fetch, EndPass, Poll, Put, Raise
  <1>5. CASE StartEpoch \/ Resume \/ GetFails
    BY <1>5 DEF StartEpoch, Resume, GetFails
  <1>6. CASE UNCHANGED vars
    BY <1>6 DEF vars
  <1>7. QED
    BY <1>2, <1>3, <1>4, <1>5, <1>6 DEF Next, Consumer

\* The background generator implements the epoch stream, whatever the interleaving of
\* the two processes and wherever the producer dies.
THEOREM ImplementsStream == Spec => StreamSpec
  <1>1. Init => Stream!Init
    BY DEF Init, Stream!Init, First
  <1>2. QED
    BY <1>1, StreamStep, Invariance, PTL DEF Spec, StreamSpec, Stream!Spec

\* Every epoch ends with all the batches of its pass.
THEOREM Completeness == Spec => EpochComplete
  <1>1. IInv /\ [Next]_vars =>
            [epoch' # epoch => epoch' = epoch + 1 /\ seen = Batches(epoch)]_vars
    <2>1. SUFFICES ASSUME IInv, [Next]_vars, epoch' # epoch
                   PROVE  epoch' = epoch + 1 /\ seen = Batches(epoch)
      OBVIOUS
    <2>2. [Stream!Next]_(Stream!vars)
      BY <2>1, StreamStep
    <2>3. Stream!Batches(epoch) = Batches(epoch)
      BY DEF Batches, Stream!Batches
    <2>4. QED
      BY <2>1, <2>2, <2>3 DEF Stream!vars, Stream!Next, Stream!Deliver, Stream!EndPass
  <1>2. QED
    BY <1>1, Invariance, PTL DEF Spec, EpochComplete
============================================================================
