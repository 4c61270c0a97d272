----------------------------- MODULE WorkerPool -----------------------------
(***************************************************************************)
(* torch.utils.data.DataLoader as train.py configures it for a             *)
(* CommaDataset (batch_size=None, num_workers workers, prefetch_factor,    *)
(* persistent_workers): worker processes that run CommaDataset.__iter__,   *)
(* and the iterator in the loader's process that hands out tasks round     *)
(* robin and returns the samples in task order.  The iterator and the      *)
(* worker loop are PyTorch 1.10's, modelled from how the repository uses   *)
(* them; the generator a worker runs is the repository's.                  *)
(*                                                                         *)
(* A result is returned by the step Return; the module that composes the   *)
(* pool with its caller conjoins what the caller does with Result.         *)
(***************************************************************************)
EXTENDS CommaDataset, Sequences

CONSTANTS Prefetch,      \* prefetch_factor: tasks per worker handed out ahead
          MayFail        \* whether a video may turn out to be unreadable

ASSUME PoolAssumption == Prefetch \in Nat \ {0} /\ MayFail \in BOOLEAN

VARIABLES
  \* in each worker process
  shuffles,   \* how often its copy of the dataset was shuffled
  cursor,     \* the position its generator reads next; Fresh, or Finished
  stopped,    \* its generator has ended, and the loader was told
  taskQ,      \* the task queue the loader feeds it through
  \* between them
  dataQ,      \* the queue of results, shared by all the workers
  \* in the loader's process
  tasks,      \* tasks handed out and not returned: idx -> worker and result
  sendIdx, rcvdIdx,   \* the next task to hand out, and to return
  active,     \* workers not known to have stopped
  cycle       \* the worker whose turn is next

workerVars == <<shuffles, cursor, stopped>>
loaderVars == <<tasks, sendIdx, rcvdIdx, active, cycle>>
poolVars == <<workerVars, taskQ, dataQ, loaderVars>>

Fresh == <<-1, 0>>
Finished == <<-1, 1>>
Pending == [note |-> "pending"]
Stop == [note |-> "stop"]
Failure == [note |-> "failure"]
ResumeIteration == -1

Samples == [seg : Segments, seq : Nat, finished : BOOLEAN, worker : Workers]

PoolInit ==
    /\ shuffles = [w \in Workers |-> 0]
    /\ cursor = [w \in Workers |-> Fresh]
    /\ stopped = [w \in Workers |-> FALSE]
    /\ taskQ = [w \in Workers |-> << >>]
    /\ dataQ = << >>
    /\ tasks = << >>
    /\ sendIdx = 0
    /\ rcvdIdx = 0
    /\ active = {}
    /\ cycle = 0

----------------------------------------------------------------------------
(* A worker process. *)

\* A mutant: only the first worker shuffles (for the others the order is fixed).
ShufflesInFirstWorker(w) == IF cursor[w] = Fresh /\ w = 0 THEN shuffles[w] + 1 ELSE shuffles[w]

\* How often the dataset of worker w is shuffled once its generator has stepped.
ShufflesAfter(w) == IF cursor[w] = Fresh THEN shuffles[w] + 1 ELSE shuffles[w]

\* What next() on the generator of worker w may do: a result, and where it leaves
\* the generator.  Its first step shuffles the worker's copy of the list; then the
\* loops go on from the cursor.  A frame that cannot be read raises, and a
\* generator that raised has ended.
GeneratorStep(w) ==
    LET k    == ShufflesAfter(w)
        from == IF cursor[w] = Fresh THEN <<0, 0>> ELSE cursor[w]
        rest == IF cursor[w] = Finished THEN {}
                ELSE {p \in Positions(w, Order[k]) : ~Precedes(p, from)}
        here == CHOOSE p \in rest : \A q \in rest : p = q \/ Precedes(p, q)
        outcome(result, at) == [result |-> result, cursor |-> at, shuffles |-> k]
    IN IF rest = {}
       THEN {outcome(Stop, Finished)}
       ELSE {outcome(Sample(w, Order[k], here), <<here[1], here[2] + 1>>)}
            \cup (IF MayFail THEN {outcome(Failure, Finished)} ELSE {})

\* The worker takes a task and answers with a sample, a failure, or the notice
\* that its generator has ended.
Fetch(w) ==
    /\ taskQ[w] # << >> /\ Head(taskQ[w]) # ResumeIteration
    /\ ~stopped[w]
    /\ taskQ' = [taskQ EXCEPT ![w] = Tail(@)]
    /\ \E step \in GeneratorStep(w) :
          /\ shuffles' = [shuffles EXCEPT ![w] = step.shuffles]
          /\ cursor' = [cursor EXCEPT ![w] = step.cursor]
          /\ stopped' = [stopped EXCEPT ![w] = step.result = Stop]
          /\ dataQ' = Append(dataQ, [idx |-> Head(taskQ[w]), data |-> step.result,
                                     worker |-> w])
    /\ UNCHANGED loaderVars

\* After its notice a worker drops the tasks it still finds.
DropTask(w) ==
    /\ taskQ[w] # << >> /\ Head(taskQ[w]) # ResumeIteration
    /\ stopped[w]
    /\ taskQ' = [taskQ EXCEPT ![w] = Tail(@)]
    /\ UNCHANGED <<workerVars, dataQ, loaderVars>>

\* A new iteration: the worker answers the resume message and takes a new
\* generator from its dataset, which keeps the list the old one shuffled.
RestartGenerator(w) ==
    /\ taskQ[w] # << >> /\ Head(taskQ[w]) = ResumeIteration
    /\ taskQ' = [taskQ EXCEPT ![w] = Tail(@)]
    /\ cursor' = [cursor EXCEPT ![w] = Fresh]
    /\ stopped' = [stopped EXCEPT ![w] = FALSE]
    /\ dataQ' = Append(dataQ, [idx |-> ResumeIteration, data |-> Pending, worker |-> w])
    /\ UNCHANGED <<shuffles, loaderVars>>

WorkerStep(w) == Fetch(w) \/ DropTask(w) \/ RestartGenerator(w)

----------------------------------------------------------------------------
(* The iterator in the loader's process. *)

\* The prime loop of a new iteration: Prefetch tasks to each worker in turn.
Prime(queues) ==
    /\ tasks' = [i \in 0 .. Prefetch * NumWorkers - 1 |->
                    [worker |-> i % NumWorkers, data |-> Pending]]
    /\ taskQ' = [w \in Workers |->
                    queues[w] \o [j \in 1 .. Prefetch |-> (j - 1) * NumWorkers + w]]
    /\ sendIdx' = Prefetch * NumWorkers
    /\ rcvdIdx' = 0
    /\ active' = Workers
    /\ cycle' = 0

\* The first iteration starts the workers and primes them.
FirstIteration == Prime(taskQ) /\ UNCHANGED <<workerVars, dataQ>>

\* A further iteration first sends every worker a resume message behind the tasks
\* it still has.
SendResume ==
    /\ taskQ' = [w \in Workers |-> Append(taskQ[w], ResumeIteration)]
    /\ UNCHANGED <<workerVars, dataQ, loaderVars>>

\* Then it drops all the results it receives until every worker has answered; the
\* workers have nothing to do by then.
DrainAndPrime ==
    /\ \A w \in Workers : \E i \in 1 .. Len(dataQ) :
           dataQ[i].worker = w /\ dataQ[i].idx = ResumeIteration
    /\ dataQ' = << >>
    /\ Prime(taskQ)
    /\ UNCHANGED workerVars

\* The next task to return: tasks of stopped workers without a result are skipped.
Live(i) == tasks[i].data # Pending \/ tasks[i].worker \in active
LiveTasks == {i \in DOMAIN tasks : Live(i)}
FrontTask == Min(LiveTasks)

\* _try_put_index: one more task for the next active worker, if there is one.
TryPut(pending, alive) ==
    LET turn(j) == (cycle + j) % NumWorkers
        hops == {j \in 0 .. NumWorkers - 1 : turn(j) \in alive}
        w == turn(Min(hops))
    IN IF hops = {}
       THEN tasks' = pending /\ UNCHANGED <<taskQ, sendIdx, cycle>>
       ELSE /\ tasks' = [i \in DOMAIN pending \cup {sendIdx} |->
                            IF i = sendIdx THEN [worker |-> w, data |-> Pending] ELSE pending[i]]
            /\ taskQ' = [taskQ EXCEPT ![w] = Append(@, sendIdx)]
            /\ sendIdx' = sendIdx + 1
            /\ cycle' = (w + 1) % NumWorkers

\* Remove the front task, and what was skipped to get there.
Beyond(i) == [j \in {t \in DOMAIN tasks : t > i} |-> tasks[j]]

FrontReady == LiveTasks # {} /\ tasks[FrontTask].data # Pending
Waiting == LiveTasks # {} /\ tasks[FrontTask].data = Pending /\ dataQ # << >>
Arriving == Waiting /\ Head(dataQ).data # Stop /\ Head(dataQ).idx = FrontTask

\* The result of the front task, which was there already or arrives just now.
Result == IF FrontReady THEN tasks[FrontTask].data ELSE Head(dataQ).data

\* _next_data returns the result and hands out a task in its place.
Return ==
    /\ FrontReady \/ Arriving
    /\ dataQ' = IF FrontReady THEN dataQ ELSE Tail(dataQ)
    /\ rcvdIdx' = FrontTask + 1
    /\ TryPut(Beyond(FrontTask), active)
    /\ UNCHANGED <<workerVars, active>>

\* A result that arrives out of turn is kept.
Store ==
    /\ Waiting /\ ~Arriving /\ Head(dataQ).data # Stop
    /\ tasks' = [Beyond(FrontTask - 1) EXCEPT ![Head(dataQ).idx].data = Head(dataQ).data]
    /\ rcvdIdx' = FrontTask
    /\ dataQ' = Tail(dataQ)
    /\ UNCHANGED <<workerVars, taskQ, sendIdx, active, cycle>>

\* A worker's notice: it gets no more tasks, another one gets one in its place.
MarkStopped ==
    /\ Waiting /\ Head(dataQ).data = Stop
    /\ active' = active \ {Head(dataQ).worker}
    /\ rcvdIdx' = FrontTask
    /\ dataQ' = Tail(dataQ)
    /\ TryPut(Beyond(FrontTask - 1), active')
    /\ UNCHANGED workerVars

\* StopIteration: no task is left that could still return.
Exhausted == LiveTasks = {}

----------------------------------------------------------------------------

Task == [worker : Workers, data : Samples \cup {Pending, Failure}]
Message == [idx : Nat \cup {ResumeIteration}, worker : Workers,
            data : Samples \cup {Pending, Failure, Stop}]

PoolTypeOK ==
    /\ shuffles \in [Workers -> 0 .. Passes]
    /\ cursor \in [Workers -> {Fresh, Finished} \cup (Nat \X Nat)]
    /\ stopped \in [Workers -> BOOLEAN]
    /\ taskQ \in [Workers -> Seq(Nat \cup {ResumeIteration})]
    /\ dataQ \in Seq(Message)
    /\ sendIdx \in Nat /\ rcvdIdx \in Nat
    /\ DOMAIN tasks \subseteq rcvdIdx .. sendIdx - 1
    /\ \A i \in DOMAIN tasks : tasks[i] \in Task
    /\ active \subseteq Workers /\ cycle \in Workers
============================================================================
