---------------------------- MODULE AsyncGenerator ----------------------------
(***************************************************************************)
(* A function mapped over a stream by worker threads                       *)
(* (common/tools/lib/async_generator.py, pollable_queue.py): a master      *)
(* thread feeds the workers and collects their results, in one of two      *)
(* modes; the caller's generator takes what the master puts out.           *)
(*                                                                         *)
(* Abstractions.  The N inputs, their cookies and their results are the    *)
(* numbers 1 .. N.  A message is late whenever the model says so: the      *)
(* latency statistics are left out.  Room is what a pipe takes before      *)
(* poll() no longer calls it writable; a write that follows a poll         *)
(* succeeds all the same (a pipe has a page at least, F_SETPIPE_SZ rounds  *)
(* up).  A caller who stops iterating early is left out.                   *)
(***************************************************************************)
EXTENDS Integers, SequencesExt

CONSTANTS N, Workers, Room,
          InSize,           \* in_q_size, as full() sees it
          MaxOutstanding,
          Resends,          \* bound on the resends of messages that are not lost
          Crashes           \* bound on the calls of the function that raise

ASSUME AsyncAssumption ==
    /\ N \in Nat /\ Resends \in Nat /\ Crashes \in Nat
    /\ Room \in Nat \ {0} /\ InSize \in Nat \ {0} /\ MaxOutstanding \in Nat \ {0}
    /\ IsFiniteSet(Workers) /\ Workers # {}

EndSentinel == 0

VARIABLES
  reliable,         \* the mode
  rooted,           \* whether an OrderedDict has the attribute __root, as in Python 2
  inQ, workQ, outQ, \* the three queues
  wpc, hold,        \* the workers, and the message each has
  mpc, evts,        \* the master, and what its last poll reported
  next, sent,       \* the next input; the messages sent and not answered, oldest first
  received, nextOut,    \* results not put out yet; reliable: the next one to put out
  sentinels, toSend, owed,  \* sentinels received, and still to send; num_outstanding
  out, done,        \* what the caller has got, and whether its loop has ended
  resends, crashes

mode == <<reliable, rooted>>
queues == <<inQ, workQ, outQ>>
pool == <<wpc, hold, crashes>>
stream == <<next, sent, resends>>
results == <<received, nextOut>>
cleanup == <<sentinels, toSend, owed>>
caller == <<out, done>>
vars == <<mode, queues, pool, mpc, evts, stream, results, cleanup, caller>>

Writable(q) == Len(q) < Room
InputsRemain == next <= N

Init == /\ reliable \in BOOLEAN /\ rooted \in BOOLEAN
        /\ inQ = <<>> /\ workQ = <<>> /\ outQ = <<>>
        /\ wpc = [w \in Workers |-> "get"] /\ hold = [w \in Workers |-> EndSentinel]
        /\ mpc = "loop" /\ evts = {} /\ next = 1 /\ sent = <<>>
        /\ received = <<>> /\ nextOut = 1
        /\ sentinels = 0 /\ toSend = 0 /\ owed = 0
        /\ out = <<>> /\ done = FALSE /\ resends = 0 /\ crashes = 0

----------------------------------------------------------------------------
(* Workers: _async_streamer_async_inner over _sync_inner_generator. *)

Work(w, from, to) == wpc[w] = from /\ wpc' = [wpc EXCEPT ![w] = to]

Get(w) == /\ inQ # <<>> /\ inQ' = Tail(inQ)
          /\ Work(w, "get", IF Head(inQ) = EndSentinel THEN "put" ELSE "call")
          /\ hold' = [hold EXCEPT ![w] = Head(inQ)]
          /\ UNCHANGED <<mode, workQ, outQ, mpc, evts, stream, results, cleanup, caller, crashes>>

Call(w) == /\ Work(w, "call", "put")
           /\ UNCHANGED <<mode, queues, hold, crashes, mpc, evts, stream, results, cleanup, caller>>

\* The function raises: the thread ends, with a sentinel.  The one function that is to be
\* run in the other mode catches what it raises (framereader.py:478-482).
Raise(w) == /\ reliable /\ crashes < Crashes /\ crashes' = crashes + 1
            /\ Work(w, "call", "put") /\ hold' = [hold EXCEPT ![w] = EndSentinel]
            /\ UNCHANGED <<mode, queues, mpc, evts, stream, results, cleanup, caller>>

\* PollableQueue.put, by several producers: poll, and then append and write.
PollPut(w) == /\ Writable(workQ) /\ Work(w, "put", "write")
              /\ UNCHANGED <<mode, queues, hold, crashes, mpc, evts, stream, results, cleanup, caller>>

Put(w) == /\ workQ' = Append(workQ, hold[w])
          /\ Work(w, "write", IF hold[w] = EndSentinel THEN "ended" ELSE "get")
          /\ UNCHANGED <<mode, inQ, outQ, hold, crashes, mpc, evts, stream, results, cleanup, caller>>

WorkerStep(w) == Get(w) \/ Call(w) \/ Raise(w) \/ PollPut(w) \/ Put(w)

----------------------------------------------------------------------------
(* The master's loop: _generate_results, _generate_results_unreliable. *)

AllEnded == sentinels = Cardinality(Workers)
CanSendNew == InputsRemain /\ (reliable => Len(sent) < MaxOutstanding /\ Len(received) < MaxOutstanding)

\* A mutant: nothing is ever sent again.
NeverLate == FALSE

\* No copy of a message is left anywhere.
IsLost(i) == /\ i \notin ToSet(inQ) \cup ToSet(workQ)
             /\ \A w \in Workers : hold[w] = i => wpc[w] = "get"
Late == sent # <<>> /\ (resends < Resends \/ IsLost(Head(sent)))

\* What a pass of the loop finds to do.  The other mode looks at the queues, and polls
\* only if they show nothing.
Events ==
    IF reliable
    THEN    (IF nextOut \in ToSet(received) /\ Writable(outQ) THEN {"out"} ELSE {})
       \cup (IF workQ # <<>> THEN {"work"}
             ELSE IF Writable(inQ) /\ (CanSendNew \/ Late) THEN {"in"} ELSE {})
    ELSE    (IF received # <<>> THEN {"out"} ELSE {})
       \cup (IF workQ # <<>> THEN {"work"} ELSE {})
       \cup (IF InputsRemain /\ Len(inQ) < InSize THEN {"in"} ELSE {})

Looping == ~AllEnded /\ (InputsRemain \/ (IF reliable THEN sent ELSE received) # <<>>)

Poll == /\ mpc = "loop" /\ evts = {} /\ Looping
        /\ Events # {} /\ evts' = Events
        /\ UNCHANGED <<mode, queues, pool, mpc, stream, results, cleanup, caller>>

\* What a sequence holds of S, in its order: SelectSeq, as a function that proofs expand.
OnlyOf(s, S) ==
    LET kept[k \in 0 .. Len(s)] ==
            IF k = 0 THEN <<>>
            ELSE IF s[k] \in S THEN Append(kept[k - 1], s[k]) ELSE kept[k - 1]
    IN  kept[Len(s)]
Without(s, x) == OnlyOf(s, (0 .. N) \ {x})
SentinelsIn(q) == Cardinality({k \in DOMAIN q : q[k] = EndSentinel})

\* A mutant: whatever came first, in both modes.
PutFirst == /\ mpc = "loop" /\ "out" \in evts /\ Writable(outQ)
            /\ outQ' = Append(outQ, Head(received)) /\ received' = Tail(received)
            /\ nextOut' = nextOut + 1 /\ evts' = evts \ {"out"}
            /\ UNCHANGED <<mode, inQ, workQ, pool, mpc, stream, cleanup, caller>>

\* In order, or in the order the results came.
PutOut == /\ mpc = "loop" /\ "out" \in evts /\ Writable(outQ)
          /\ LET r == IF reliable THEN nextOut ELSE Head(received)
             IN  outQ' = Append(outQ, r) /\ received' = Without(received, r)
          /\ nextOut' = nextOut + 1 /\ evts' = evts \ {"out"}
          /\ UNCHANGED <<mode, inQ, workQ, pool, mpc, stream, cleanup, caller>>

\* Everything that is there; a result that was awaited no more is dropped.
Receive ==
    /\ mpc = "loop" /\ "work" \in evts /\ "out" \notin evts
    /\ IF reliable
       THEN /\ received' = received \o SetToSeq(ToSet(sent) \cap ToSet(workQ))
            /\ sent' = OnlyOf(sent, ToSet(sent) \ ToSet(workQ))
            /\ UNCHANGED owed
       ELSE LET answers == Without(workQ, EndSentinel)
            IN  /\ received' = received \o answers /\ owed' = owed - Len(answers)
                /\ UNCHANGED sent
    /\ sentinels' = sentinels + SentinelsIn(workQ)
    /\ workQ' = <<>> /\ evts' = evts \ {"work"}
    /\ UNCHANGED <<mode, inQ, outQ, pool, mpc, next, resends, nextOut, toSend, caller>>

Feed == /\ mpc = "loop" /\ evts = {"in"} /\ evts' = {}
        /\ UNCHANGED <<mode, workQ, outQ, pool, results, sentinels, toSend, caller>>

\* _find_next_resend looks for the oldest message, after a first one has been sent, at
\* the root of an OrderedDict: in Python 3 there is none (AttributeError), and the master
\* thread ends, without a sentinel for the caller.
FindNextResend == mpc' = IF reliable /\ sent = <<>> /\ ~rooted THEN "failed" ELSE mpc

\* put_nowait after the poll; the other mode's put waits until the pipe is writable.
Send == /\ Feed /\ CanSendNew /\ Writable(inQ)
        /\ inQ' = Append(inQ, next) /\ next' = next + 1
        /\ IF reliable THEN sent' = Append(sent, next) /\ UNCHANGED owed
                       ELSE owed' = owed + 1 /\ UNCHANGED sent
        /\ FindNextResend /\ UNCHANGED resends

Resend == /\ Feed /\ ~CanSendNew
          /\ inQ' = Append(inQ, Head(sent)) /\ sent' = Append(Tail(sent), Head(sent))
          /\ resends' = resends + (IF IsLost(Head(sent)) THEN 0 ELSE 1)
          /\ UNCHANGED <<next, owed, mpc>>

\* The loop is over: the results left in order, then the clean-up.
Leave == /\ mpc = "loop" /\ evts = {} /\ ~Looping
         /\ mpc' = "rest"
         /\ UNCHANGED <<mode, queues, pool, evts, stream, results, cleanup, caller>>

PutRest == /\ mpc = "rest"
           /\ IF reliable /\ nextOut \in ToSet(received)
              THEN /\ Writable(outQ) /\ outQ' = Append(outQ, nextOut)
                   /\ received' = Without(received, nextOut) /\ nextOut' = nextOut + 1
                   /\ UNCHANGED <<mpc, toSend>>
              ELSE /\ mpc' = "clean" /\ toSend' = Cardinality(Workers) - sentinels
                   /\ received' = <<>> /\ UNCHANGED <<outQ, nextOut>>
           /\ UNCHANGED <<mode, inQ, workQ, pool, evts, stream, sentinels, owed, caller>>

----------------------------------------------------------------------------
(* _do_cleanup, and what follows it. *)

\* received holds remaining_outputs now.
CleanGet == /\ mpc = "clean" /\ ~AllEnded /\ workQ # <<>> /\ workQ' = Tail(workQ)
            /\ IF Head(workQ) = EndSentinel
               THEN sentinels' = sentinels + 1 /\ UNCHANGED <<received, owed>>
               ELSE received' = Append(received, Head(workQ)) /\ owed' = owed - 1 /\ UNCHANGED sentinels
            /\ UNCHANGED <<mode, inQ, outQ, pool, mpc, evts, stream, nextOut, toSend, caller>>

CleanPut == /\ mpc = "clean" /\ ~AllEnded /\ toSend > 0 /\ Writable(inQ)
            /\ inQ' = Append(inQ, EndSentinel) /\ toSend' = toSend - 1
            /\ UNCHANGED <<mode, workQ, outQ, pool, mpc, evts, stream, results, sentinels, owed, caller>>

\* Ten seconds without an event, while a worker is still at a message that was sent
\* again: the assertion fails and the thread ends, without a sentinel for the caller.
GiveUp == /\ mpc = "clean" /\ ~AllEnded /\ owed <= 0
          /\ workQ = <<>> /\ (toSend = 0 \/ ~Writable(inQ))
          /\ \E w \in Workers : wpc[w] = "call"
          /\ \A w \in Workers : wpc[w] \in {"call", "ended"} \/ (wpc[w] = "get" /\ inQ = <<>>)
          /\ mpc' = "failed"
          /\ UNCHANGED <<mode, queues, pool, evts, stream, results, cleanup, caller>>

\* A mutant: remaining_outputs is ignored in both modes.
CleanedIgnores == /\ mpc = "clean" /\ AllEnded /\ mpc' = "last" /\ received' = <<>>
                  /\ UNCHANGED <<mode, queues, pool, evts, stream, nextOut, cleanup, caller>>

\* The reliable mode ignores what _do_cleanup returns.
Cleaned == /\ mpc = "clean" /\ AllEnded
           /\ mpc' = (IF workQ = <<>> THEN "last" ELSE "failed")
           /\ received' = (IF reliable THEN <<>> ELSE received)
           /\ UNCHANGED <<mode, queues, pool, evts, stream, nextOut, cleanup, caller>>

PutLast == /\ mpc = "last" /\ Writable(outQ)
           /\ IF received # <<>>
              THEN outQ' = Append(outQ, Head(received)) /\ received' = Tail(received) /\ UNCHANGED mpc
              ELSE outQ' = Append(outQ, EndSentinel) /\ mpc' = "ended" /\ UNCHANGED received
           /\ UNCHANGED <<mode, inQ, workQ, pool, evts, stream, nextOut, cleanup, caller>>

MasterStep == \/ Poll \/ PutOut \/ Receive \/ Send \/ Resend \/ Leave \/ PutRest
              \/ CleanGet \/ CleanPut \/ Cleaned \/ PutLast

----------------------------------------------------------------------------
(* The caller's loop: wrapper of _async_generator. *)

Yield == /\ outQ # <<>> /\ ~done
         /\ outQ' = <<>> /\ out' = out \o Without(outQ, EndSentinel)
         /\ done' = (EndSentinel \in ToSet(outQ))
         /\ UNCHANGED <<mode, inQ, workQ, pool, mpc, evts, stream, results, cleanup>>

Next == MasterStep \/ GiveUp \/ Yield \/ \E w \in Workers : WorkerStep(w)

\* Threads that can run do; nobody is bound to raise or to give up.
Fairness == /\ WF_vars(MasterStep) /\ WF_vars(Yield)
            /\ \A w \in Workers : WF_vars(WorkerStep(w))

Spec == Init /\ [][Next]_vars
FairSpec == Spec /\ Fairness

----------------------------------------------------------------------------
(* Properties. *)

TypeOK ==
    /\ reliable \in BOOLEAN /\ rooted \in BOOLEAN /\ done \in BOOLEAN
    /\ inQ \in Seq(0 .. N) /\ workQ \in Seq(0 .. N) /\ outQ \in Seq(0 .. N)
    /\ \A w \in Workers : hold[w] \in 0 .. N
    /\ evts \subseteq {"out", "work", "in"}
    /\ next \in 1 .. N + 1 /\ sent \in Seq(1 .. N) /\ received \in Seq(1 .. N)
    /\ sentinels \in 0 .. Cardinality(Workers) /\ toSend \in 0 .. Cardinality(Workers)

\* Resends, late answers and duplicates or not: the reliable mode yields the results in
\* the order of the inputs, and neither mode yields one twice.
YieldsInOrder == /\ reliable => \A i \in DOMAIN out : out[i] = i
                 /\ IsInjective(out)

\* When the caller's loop ends by itself every input has its result, unless every worker
\* thread has died of an exception: then the results stop short and nobody is told.
EndMeansAll == done => \/ ToSet(out) = 1 .. N
                       \/ crashes = Cardinality(Workers) /\ reliable

\* In Python 3 the reliable mode does nothing, for any input at all.
Doomed == reliable /\ ~rooted /\ N > 0

\* No thread waits for ever: the caller's loop ends, unless the master gave up (GiveUp).
\* But where the mode cannot work the master dies with the first message it sends
\* (async_generator.py:55, 189), and the caller waits for ever and gets nothing.
Ends == /\ ~Doomed => <>(done \/ mpc = "failed")
        /\ Doomed => <>[](mpc = "failed" /\ out = <<>> /\ ~done)
=============================================================================
