------------------------- MODULE ParamsStore_proofs -------------------------
(***************************************************************************)
(* Proofs about ParamsStore: what its run checks of two processes and two  *)
(* keys holds of any number of them, and of any number of directories,     *)
(* operations, kills and power failures.                                   *)
(*                                                                         *)
(* The argument has four parts.  Exclusive: whoever is between taking the  *)
(* lock and returning holds it, and clear_all is alone.  Copying: so what  *)
(* a transaction took from the store is still what the store holds when it *)
(* switches the link, but for the keys it deletes or could not read, and   *)
(* the directory it made is nobody else's.                                 *)
(* Durable: what has returned is on the disk behind the link as it is and, *)
(* but for Loose, behind the link that a power failure brings back.        *)
(* Reading: a reader that has resolved the link finds there nothing that   *)
(* the store has not been since; a snapshot holds the lock, and is the     *)
(* store without the keys it has not read.                                 *)
(***************************************************************************)
EXTENDS ParamsStore, TLAPS

Locked == {"rename", "syncdir", "copy", "switch", "synclink", "remove", "read"}

Exclusive == /\ \A p \in Procs : holder = p <=> pc[p] \in Locked
             /\ \A p, q \in Procs : pc[p] = "wipe" /\ pc[q] # "idle" => p = q

\* What the store is to be after p's transaction.
Intended(p) == Without(Visible, Dropped(p))

Copying(p) ==
    /\ pc[p] = "syncdir" => link \in dirs
    /\ pc[p] \in {"copy", "switch"} => mem[p].vals = Intended(p)
    /\ pc[p] = "switch" => /\ mem[p].new \in dirs /\ mem[p].new \notin {link, synced}
                           /\ mem[p].old = link
                           /\ \A q \in Procs : pc[q] = "open" => mem[q].at # mem[p].new
    /\ pc[p] \in {"synclink", "remove"} => /\ mem[p].new = link /\ link \in dirs
                                           /\ mem[p].old # link
                                           /\ \A k \in Dropped(p) : mem[p].vals[k] = None
    /\ pc[p] \in {"switch", "synclink", "remove"} =>
          file[mem[p].new] = mem[p].vals /\ disk[mem[p].new] = mem[p].vals
    /\ pc[p] = "remove" => synced = link

\* The keys that are settled are on the disk in directory d.
On(d) == \A k \in settled : d # 0 /\ file[d][k] = Visible[k] /\ disk[d][k] = Visible[k]

Durable == On(link) /\ (Loose \/ On(synced))

\* What a store has been since p began to read.
Was(p, store) == \A k \in Keys : store[k] = None \/ \E s \in seen[p] : s[k] = store[k]

Reading(p) ==
    /\ pc[p] \notin {"idle", "read"} => got[p] = Empty
    /\ pc[p] \in {"resolve", "open"} => Visible \in seen[p]
    /\ pc[p] = "open" /\ mem[p].at \in dirs => Was(p, file[mem[p].at])
    /\ pc[p] = "read" => Visible \in seen[p] /\ got[p] = Without(Visible, task[p].del)

Returned(p) ==
    pc[p] = "idle" => IF task[p].key = None
                      THEN \/ got[p] = Empty
                           \/ \E store \in seen[p] : /\ got[p] = Without(store, task[p].del)
                                                     /\ task[p].del # {} => faults # 0
                      ELSE LET k == task[p].key
                           IN got[p][k] = None \/ \E store \in seen[p] : store[k] = got[p][k]

\* Who puts or gets has a key, a snapshot is of all of them.
Asked(p) == /\ pc[p] \in {"lock", "rename", "syncdir", "resolve", "open"} => task[p].key \in Keys
            /\ pc[p] \in {"snapshot", "read"} => task[p].key = None

Own(p) == Asked(p) /\ Copying(p) /\ Reading(p) /\ Returned(p)

IInv == TypeOK /\ Exclusive /\ Durable /\ \A p \in Procs : Own(p)

USE ParamsAssumption

----------------------------------------------------------------------------
(* Types. *)

Steps == {"idle", "lock", "rename", "syncdir", "enter", "copy", "switch", "synclink",
          "remove", "wipe", "resolve", "open", "snapshot", "read"}
Tasks == [key : Keys \cup {None}, val : Vals \cup {None}, del : SUBSET Keys, block : BOOLEAN]
Mems == [vals : Stores, unread : SUBSET Keys, new : 0 .. Dirs, old : 0 .. Dirs, at : 0 .. Dirs]

\* Stores and what is made of them: empty, with a key put, without some keys.
LEMMA StoresMade ==
  /\ Empty \in Stores /\ NoMem \in Mems /\ NoTask \in Tasks
  /\ \A s \in Stores : /\ \A k \in Keys, v \in Vals \cup {None} : [s EXCEPT ![k] = v] \in Stores
                       /\ \A gone : Without(s, gone) \in Stores
BY DEF Empty, Stores, NoMem, Mems, NoTask, Tasks, Without

\* The store that is visible is a store.
LEMMA VisibleIsAStore == ASSUME TypeOK PROVE Visible \in Stores
BY StoresMade DEF TypeOK, Visible

\* A process that goes on is where it is said to be, and everyone else where they were.
LEMMA Going ==
  ASSUME TypeOK, NEW p \in Procs, NEW step, GoTo(p, step)
  PROVE  /\ pc'[p] = step /\ \A q \in Procs : q # p => pc'[q] = pc[q]
         /\ step \in Steps => pc' \in [Procs -> Steps]
BY DEF TypeOK, GoTo, Steps

\* A process that returns leaves everyone else alone, and the lock free.
LEMMA Ending ==
  ASSUME TypeOK, Exclusive, NEW p \in Procs, End(p)
  PROVE  /\ pc'[p] = "idle" /\ mem'[p] = NoMem
         /\ \A q \in Procs : q # p => pc'[q] = pc[q] /\ mem'[q] = mem[q]
         /\ pc' \in [Procs -> Steps] /\ mem' \in [Procs -> Mems]
         /\ holder' \in Procs \cup {None} /\ lock' = lock /\ Exclusive'
<1>1. pc'[p] = "idle" /\ \A q \in Procs : q # p => pc'[q] = pc[q]
  BY Going DEF End
<1>2. pc' \in [Procs -> Steps]
  BY Going DEF End, Steps
<1>3. /\ mem'[p] = NoMem /\ \A q \in Procs : q # p => mem'[q] = mem[q]
      /\ mem' \in [Procs -> Mems]
  BY StoresMade DEF End, TypeOK, Mems
<1>4. holder' \in Procs \cup {None} /\ lock' = lock
  BY DEF End, TypeOK
<1>5. Exclusive'
  <2>1. \A q \in Procs : holder' = q <=> pc'[q] \in Locked
    BY <1>1 DEF End, Exclusive, Locked, TypeOK
  <2>2. \A q, r \in Procs : pc'[q] = "wipe" /\ pc'[r] # "idle" => q = r
    BY <1>1 DEF Exclusive
  <2> QED
    BY <2>1, <2>2 DEF Exclusive
<1> QED
  BY <1>1, <1>2, <1>3, <1>4, <1>5

\* A process that takes the lock and goes on to a step of Locked.
LEMMA Acquiring ==
  ASSUME TypeOK, Exclusive, NEW p \in Procs, pc[p] # "wipe", Acquire(p),
         NEW step \in Locked, GoTo(p, step), pc[p] # "idle"
  PROVE  /\ holder' \in Procs \cup {None} /\ lock' \in BOOLEAN /\ pc' \in [Procs -> Steps]
         /\ Exclusive'
<1>1. pc'[p] = step /\ \A q \in Procs : q # p => pc'[q] = pc[q]
  BY Going
<1>2. pc' \in [Procs -> Steps]
  BY Going DEF Locked, Steps
<1>3. Exclusive'
  BY <1>1 DEF Acquire, Exclusive, Locked, TypeOK
<1> QED
  BY <1>2, <1>3 DEF Acquire

\* A step of one process that touches neither the files nor the links nor anyone else
\* leaves the store and what is true of the others as it is.
LEMMA OthersKeep ==
  ASSUME IInv, NEW p \in Procs, UNCHANGED <<links, files, settled>>,
         \A q \in Procs : q # p => /\ pc'[q] = pc[q] /\ task'[q] = task[q] /\ mem'[q] = mem[q]
                                   /\ got'[q] = got[q] /\ seen'[q] = seen[q],
         pc'[p] = "open" => mem'[p].at = link, pc'[p] # "synclink", faults # 0 => faults' # 0
  PROVE  Visible' = Visible /\ Durable' /\ \A q \in Procs : q # p => Own(q)'
<1>1. /\ link' = link /\ synced' = synced /\ dirs' = dirs /\ file' = file /\ disk' = disk
      /\ Visible' = Visible
  BY DEF links, files, Visible
<1>2. Durable'
  BY <1>1 DEF IInv, Durable, On, Loose
<1>3. ASSUME NEW q \in Procs, q # p PROVE Own(q)'
  <2>1. Asked(q)' /\ Copying(q)'
    BY <1>1, <1>3 DEF IInv, Asked, Own, Copying, Intended, Dropped, Without
  <2>2. Reading(q)'
    BY <1>1, <1>3 DEF IInv, Own, Reading, Was, Without
  <2>3. Returned(q)'
    BY <1>3 DEF IInv, Own, Returned
  <2> QED
    BY <2>1, <2>2, <2>3 DEF Own
<1> QED
  BY <1>1, <1>2, <1>3

\* What is true of everyone is, when nothing changes but who has a Params.
LEMMA AllKeep ==
  ASSUME IInv, UNCHANGED <<link, synced, dirs, file, disk, pc, task, mem, got, seen, faults>>
  PROVE  \A q \in Procs : Own(q)'
<1> SUFFICES ASSUME NEW q \in Procs PROVE Own(q)'
  OBVIOUS
<1>1. Own(q) /\ Visible' = Visible
  BY DEF IInv, Visible
<1>2. Asked(q)' /\ Copying(q)'
  BY <1>1 DEF Own, Asked, Copying, Intended, Dropped, Without
<1>3. Reading(q)'
  BY <1>1 DEF Own, Reading, Was, Without
<1>4. Returned(q)'
  BY <1>1 DEF Own, Returned, Without
<1> QED
  BY <1>2, <1>3, <1>4 DEF Own

----------------------------------------------------------------------------
(* The steps. *)

\* The beginning of an operation.
LEMMA StartKeeps ==
  ASSUME IInv, NEW p \in Procs, NEW step, NEW t \in Tasks, Start(p, step, t),
         step \in {"idle", "lock", "enter", "resolve", "snapshot", "wipe"},
         step = "wipe" => \A q \in Procs : pc[q] = "idle",
         step \in {"lock", "resolve"} => t.key # None, step \in {"idle", "snapshot"} => t = NoTask,
         ready' \in SUBSET Procs
  PROVE  IInv' /\ Visible' = Visible
<1>1. TypeOK /\ Exclusive /\ Own(p) /\ Visible \in Stores
  BY VisibleIsAStore DEF IInv
<1>2. /\ pc[p] = "idle" /\ pc'[p] = step /\ task'[p] = t /\ got'[p] = Empty
      /\ seen'[p] = IF step = "resolve" THEN {Visible} ELSE {}
      /\ \A q \in Procs : q # p => /\ pc'[q] = pc[q] /\ task'[q] = task[q]
                                   /\ got'[q] = got[q] /\ seen'[q] = seen[q]
      /\ UNCHANGED <<links, files, settled, lock, holder, dirs, link, synced, file, disk, mem, faults>>
  BY <1>1, Going DEF Start, TypeOK, locks, links, files
<1>3. Visible' = Visible /\ Durable' /\ \A q \in Procs : q # p => Own(q)'
  BY <1>1, <1>2, OthersKeep
<1>4. TypeOK'
  <2>1. pc' \in [Procs -> Steps] /\ ops' \in Nat
    BY <1>1, Going DEF Start, Steps, TypeOK
  <2>2. /\ task' \in [Procs -> Tasks] /\ got' \in [Procs -> Stores]
        /\ seen' \in [Procs -> SUBSET Stores]
    BY <1>1, StoresMade DEF Start, TypeOK, Tasks
  <2> QED
    BY <1>1, <1>2, <2>1, <2>2 DEF TypeOK, Steps, Tasks
<1>5. Exclusive'
  <2>1. \A q \in Procs : holder' = q <=> pc'[q] \in Locked
    BY <1>1, <1>2 DEF Exclusive, Locked
  <2>2. \A q, r \in Procs : pc'[q] = "wipe" /\ pc'[r] # "idle" => q = r
    BY <1>1, <1>2 DEF Exclusive, Start
  <2> QED
    BY <2>1, <2>2 DEF Exclusive
<1>6. Own(p)'
  <2>1. Asked(p)' /\ Copying(p)'
    BY <1>2 DEF Asked, Copying, Tasks, NoTask
  <2>2. Reading(p)'
    BY <1>2, <1>3 DEF Reading, NoTask
  <2>3. Returned(p)'
    BY <1>2 DEF Returned, NoTask
  <2> QED
    BY <2>1, <2>2, <2>3 DEF Own
<1> QED
  BY <1>3, <1>4, <1>5, <1>6 DEF IInv

\* Whatever a process begins.
LEMMA BeginKeeps ==
  ASSUME IInv, NEW p \in Procs, Begin(p)
  PROVE  IInv' /\ Visible' = Visible
<1>1. TypeOK /\ NoTask \in Tasks /\ ready \subseteq Procs
  BY StoresMade DEF IInv, TypeOK
<1>2. CASE Open(p)
  <2>1. ready' \in SUBSET Procs
    BY <1>1, <1>2 DEF Open
  <2>2. CASE link \notin dirs
    <3>1. Start(p, "enter", NoTask)
      BY <1>2, <2>2 DEF Open
    <3> QED
      BY <1>1, <2>1, <3>1, StartKeeps
  <2>3. CASE link \in dirs
    <3>1. UNCHANGED <<locks, links, files, pc, task, mem, results, settled, counts>>
      BY <1>2, <2>3 DEF Open
    <3>2. Visible' = Visible /\ TypeOK' /\ Exclusive' /\ Durable'
      BY <2>1, <3>1 DEF IInv, TypeOK, Exclusive, Durable, On, Loose, Visible, locks, links, files,
                        results, counts
    <3>3. \A q \in Procs : Own(q)'
      BY <3>1, AllKeep DEF links, files, results, counts
    <3> QED
      BY <3>2, <3>3 DEF IInv
  <2> QED
    BY <2>2, <2>3
<1>3. CASE BeginPut(p)
  <2>1. PICK k \in Keys, v \in Vals : Start(p, "lock", [NoTask EXCEPT !.key = k, !.val = v])
    BY <1>3 DEF BeginPut
  <2> DEFINE t == [NoTask EXCEPT !.key = k, !.val = v]
  <2>2. t \in Tasks /\ t.key # None /\ Start(p, "lock", t)
    BY <1>1, <2>1 DEF Tasks, NoTask
  <2>3. ready' \in SUBSET Procs
    BY <1>1, <1>3 DEF BeginPut
  <2> HIDE DEF t
  <2> QED
    BY <2>2, <2>3, StartKeeps
<1>4. CASE BeginDelete(p)
  <2>1. PICK gone \in Deletions : Start(p, "enter", [NoTask EXCEPT !.del = gone])
    BY <1>4 DEF BeginDelete
  <2>2. [NoTask EXCEPT !.del = gone] \in Tasks
    BY <1>1 DEF Tasks, Deletions
  <2>3. ready' \in SUBSET Procs
    BY <1>1, <1>4 DEF BeginDelete
  <2> QED
    BY <2>1, <2>2, <2>3, StartKeeps
<1>5. CASE BeginGet(p)
  <2>1. PICK k \in Keys, b \in BOOLEAN :
          Start(p, "resolve", [NoTask EXCEPT !.key = k, !.block = b])
    BY <1>5 DEF BeginGet
  <2> DEFINE t == [NoTask EXCEPT !.key = k, !.block = b]
  <2>2. t \in Tasks /\ t.key # None /\ Start(p, "resolve", t)
    BY <1>1, <2>1 DEF Tasks, NoTask
  <2>3. ready' \in SUBSET Procs
    BY <1>1, <1>5 DEF BeginGet
  <2> HIDE DEF t
  <2> QED
    BY <2>2, <2>3, StartKeeps
<1>6. CASE BeginSnapshot(p)
  <2>1. PICK step \in {"snapshot", "idle"} : Start(p, step, NoTask)
    BY <1>6 DEF BeginSnapshot
  <2>2. ready' \in SUBSET Procs
    BY <1>1, <1>6 DEF BeginSnapshot
  <2>3. CASE step = "snapshot"
    BY <1>1, <2>1, <2>2, <2>3, StartKeeps
  <2>4. CASE step = "idle"
    BY <1>1, <2>1, <2>2, <2>4, StartKeeps
  <2> QED
    BY <2>3, <2>4
<1>7. CASE BeginClearAll(p)
  <2>1. /\ Start(p, "wipe", NoTask) /\ ready' \in SUBSET Procs
        /\ \A q \in Procs : pc[q] = "idle"
    BY <1>1, <1>7 DEF BeginClearAll
  <2> QED
    BY <1>1, <2>1, StartKeeps
<1> QED
  BY <1>2, <1>3, <1>4, <1>5, <1>6, <1>7 DEF Begin

\* A writer takes the lock, and a transaction takes every key with it.
LEMMA LockingKeeps ==
  ASSUME IInv, NEW p \in Procs, LockPut(p) \/ Enter(p) \/ LockSnapshot(p)
  PROVE  IInv' /\ Visible' = Visible
<1>1. TypeOK /\ Exclusive /\ Own(p) /\ Visible \in Stores
  BY VisibleIsAStore DEF IInv
<1>2. PICK step \in {"rename", "copy", "read"} :
        /\ Acquire(p) /\ GoTo(p, step) /\ pc[p] \in {"lock", "enter", "snapshot"}
        /\ step = "rename" <=> pc[p] = "lock"
        /\ step = "copy" <=> pc[p] = "enter"
  BY DEF LockPut, Enter, LockSnapshot
<1>3. /\ UNCHANGED <<links, files, settled, link, synced, dirs, file, disk, ready, got, ops>>
      /\ step = "rename" => UNCHANGED <<task, mem, seen>>
      /\ step = "copy" => /\ \E unread \in SUBSET Keys :
                               mem' = [mem EXCEPT ![p].vals = Without(Visible, task[p].del \cup unread),
                                                  ![p].unread = unread]
                          /\ UNCHANGED <<task, seen>>
      /\ step = "read" => /\ task' = [task EXCEPT ![p].del = Keys]
                          /\ seen' = [seen EXCEPT ![p] = {Visible}] /\ UNCHANGED mem
  <2>1. Unreadable \subseteq SUBSET Keys
    BY DEF Unreadable
  <2> QED
    BY <1>2, <2>1 DEF LockPut, Enter, LockSnapshot, links, files, results, counts
<1>f. faults' \in Nat /\ (faults # 0 => faults' # 0)
  <2>1. faults \in Nat /\ faults' \in {faults, faults + 1}
    BY <1>1 DEF LockPut, Enter, LockSnapshot, counts, TypeOK
  <2> QED
    BY <2>1
<1>4. pc'[p] = step /\ \A q \in Procs : q # p => pc'[q] = pc[q]
  BY <1>1, <1>2, Going
<1>5. /\ holder' \in Procs \cup {None} /\ lock' \in BOOLEAN /\ pc' \in [Procs -> Steps]
      /\ Exclusive'
  BY <1>1, <1>2, Acquiring DEF Locked
<1>6. Visible' = Visible /\ Durable' /\ \A q \in Procs : q # p => Own(q)'
  BY <1>1, <1>2, <1>3, <1>4, <1>f, OthersKeep DEF TypeOK
<1>7. TypeOK'
  <2>1. /\ task' \in [Procs -> Tasks] /\ mem' \in [Procs -> Mems]
        /\ seen' \in [Procs -> SUBSET Stores]
    <3>1. /\ task \in [Procs -> Tasks] /\ mem \in [Procs -> Mems] /\ seen \in [Procs -> SUBSET Stores]
          /\ \A gone : Without(Visible, gone) \in Stores
      BY <1>1, StoresMade DEF TypeOK, Tasks, Mems
    <3>2. CASE step = "rename"
      BY <1>3, <3>1, <3>2
    <3>3. CASE step = "copy"
      <4>1. PICK unread \in SUBSET Keys :
              mem' = [mem EXCEPT ![p].vals = Without(Visible, task[p].del \cup unread),
                                 ![p].unread = unread]
        BY <1>3, <3>3
      <4>2. Without(Visible, task[p].del \cup unread) \in Stores
        BY <3>1
      <4>3. mem' \in [Procs -> Mems]
        BY <3>1, <4>1, <4>2 DEF Mems
      <4> QED
        BY <1>3, <3>1, <3>3, <4>3
    <3>4. CASE step = "read"
      BY <1>1, <1>3, <3>1, <3>4 DEF Tasks
    <3> QED
      BY <3>2, <3>3, <3>4
  <2> QED
    BY <1>1, <1>3, <1>5, <1>f, <2>1 DEF TypeOK, Steps, Tasks, Mems
<1>8. Own(p)'
  <2>1. CASE step = "rename"
    BY <1>1, <1>2, <1>3, <1>4, <2>1 DEF Own, Asked, Copying, Reading, Returned
  <2>2. CASE step = "copy"
    <3>1. mem'[p].vals = Without(Visible, task[p].del \cup mem'[p].unread)
      <4>1. PICK unread \in SUBSET Keys :
              mem' = [mem EXCEPT ![p].vals = Without(Visible, task[p].del \cup unread),
                                 ![p].unread = unread]
        BY <1>3, <2>2
      <4> QED
        BY <1>1, <4>1 DEF TypeOK
    <3>2. mem'[p].vals = Intended(p)'
      BY <1>3, <1>6, <2>2, <3>1 DEF Intended, Dropped
    <3> QED
      BY <1>1, <1>2, <1>3, <1>4, <2>2, <3>2 DEF Own, Asked, Copying, Reading, Returned
  <2>3. CASE step = "read"
    <3>1. task'[p].del = Keys /\ task'[p].key = task[p].key /\ seen'[p] = {Visible}
      BY <1>1, <1>3, <2>3 DEF TypeOK
    <3>2. got'[p] = Without(Visible', task'[p].del)
      BY <1>1, <1>2, <1>3, <1>4, <2>3, <3>1 DEF Own, Reading, Without, Empty
    <3>3. task'[p].key = None
      BY <1>1, <1>2, <1>4, <2>3, <3>1 DEF Own, Asked
    <3> QED
      BY <1>4, <1>6, <2>3, <3>1, <3>2, <3>3 DEF Own, Asked, Copying, Reading, Returned
  <2> QED
    BY <2>1, <2>2, <2>3
<1> QED
  BY <1>5, <1>6, <1>7, <1>8 DEF IInv

\* Readers without the lock: the link is followed, the file opened.
LEMMA GettingKeeps ==
  ASSUME IInv, NEW p \in Procs, Resolve(p) \/ OpenFile(p)
  PROVE  IInv' /\ Visible' = Visible
<1>1. /\ TypeOK /\ Exclusive /\ Own(p) /\ Visible \in Stores
      /\ mem \in [Procs -> Mems] /\ got \in [Procs -> Stores]
  BY VisibleIsAStore DEF IInv, TypeOK, Mems
<1>2. CASE Resolve(p)
  <2>1. /\ pc[p] = "resolve" /\ pc'[p] = "open" /\ \A q \in Procs : q # p => pc'[q] = pc[q]
        /\ mem' = [mem EXCEPT ![p].at = link]
        /\ UNCHANGED <<links, files, settled, lock, holder, link, synced, dirs, file, disk, task, ready,
                       got, seen, ops, faults>>
    BY <1>1, <1>2, Going DEF Resolve, locks, links, files, results, counts
  <2>2. /\ mem' \in [Procs -> Mems] /\ mem'[p].at = link
        /\ \A q \in Procs : q # p => mem'[q] = mem[q]
    <3>1. link \in 0 .. Dirs
      BY <1>1 DEF TypeOK
    <3> QED
      BY <1>1, <2>1, <3>1 DEF Mems
  <2>3. Visible' = Visible /\ Durable' /\ \A q \in Procs : q # p => Own(q)'
    BY <1>1, <2>1, <2>2, OthersKeep
  <2>4. TypeOK'
    BY <1>1, <1>2, <2>1, <2>2, Going DEF Resolve, TypeOK, Mems, Steps
  <2>5. Exclusive'
    BY <1>1, <2>1 DEF Exclusive, Locked
  <2>6. Asked(p)' /\ Copying(p)' /\ Returned(p)'
    BY <1>1, <2>1 DEF Own, Asked, Copying, Returned
  <2>7. Reading(p)'
    BY <1>1, <2>1, <2>2, <2>3 DEF Own, Reading, Was, Visible
  <2> QED
    BY <2>3, <2>4, <2>5, <2>6, <2>7 DEF IInv, Own
<1>3. CASE OpenFile(p)
  <2> DEFINE key == task[p].key
             found == IF mem[p].at \in dirs THEN file[mem[p].at][key] ELSE None
  <2>1. /\ pc[p] = "open" /\ got' = [got EXCEPT ![p][key] = found]
        /\ UNCHANGED <<links, files, settled, link, synced, dirs, file, disk, task, ready, seen, ops, faults>>
    BY <1>3 DEF OpenFile, links, files, counts
  <2>2. /\ pc' \in [Procs -> Steps] /\ mem' \in [Procs -> Mems] /\ pc'[p] \in {"resolve", "idle"}
        /\ pc'[p] = "resolve" => found = None
        /\ \A q \in Procs : q # p => pc'[q] = pc[q] /\ mem'[q] = mem[q]
        /\ holder' \in Procs \cup {None} /\ lock' = lock /\ Exclusive'
    <3>1. CASE found = None /\ task[p].block
      <4>1. GoTo(p, "resolve") /\ UNCHANGED <<lock, holder, mem>>
        BY <1>3, <3>1 DEF OpenFile, locks
      <4>2. /\ pc'[p] = "resolve" /\ \A q \in Procs : q # p => pc'[q] = pc[q]
            /\ pc' \in [Procs -> Steps]
        BY <1>1, <4>1, Going DEF Steps
      <4>3. Exclusive'
        BY <1>1, <2>1, <4>1, <4>2 DEF Exclusive, Locked
      <4> QED
        BY <1>1, <3>1, <4>1, <4>2, <4>3 DEF TypeOK
    <3>2. CASE ~ (found = None /\ task[p].block)
      <4>1. End(p)
        BY <1>3, <3>2 DEF OpenFile
      <4> QED
        BY <1>1, <4>1, Ending
    <3> QED
      BY <3>1, <3>2
  <2>3. /\ key \in Keys /\ found \in Vals \cup {None}
        /\ found = None \/ \E store \in seen[p] : store[key] = found
    BY <1>1, <2>1 DEF Own, Asked, Reading, Was, TypeOK, Stores
  <2>4. /\ got' \in [Procs -> Stores] /\ got'[p] = [Empty EXCEPT ![key] = found]
        /\ got'[p][key] = found /\ \A q \in Procs : q # p => got'[q] = got[q]
    BY <1>1, <2>1, <2>3, StoresMade DEF Own, Reading, Empty
  <2> HIDE DEF key, found
  <2>5. Visible' = Visible /\ Durable' /\ \A q \in Procs : q # p => Own(q)'
    BY <1>1, <2>1, <2>2, <2>4, OthersKeep
  <2>6. TypeOK'
    BY <1>1, <2>1, <2>2, <2>4 DEF TypeOK, Mems, Steps
  <2>7. Asked(p)' /\ Copying(p)'
    BY <1>1, <2>1, <2>2 DEF Own, Asked, Copying
  <2>8. Reading(p)'
    <3>1. pc'[p] = "resolve" => got'[p] = Empty
      BY <2>2, <2>4 DEF Empty
    <3> QED
      BY <1>1, <2>1, <2>2, <2>5, <3>1 DEF Own, Reading
  <2>9. Returned(p)'
    BY <1>1, <2>1, <2>2, <2>3, <2>4 DEF Returned, key
  <2> QED
    BY <2>2, <2>5, <2>6, <2>7, <2>8, <2>9 DEF IInv, Own
<1> QED
  BY <1>2, <1>3

\* A snapshot: what has been read is what the store holds, for the lock is held.
LEMMA ReadingKeeps ==
  ASSUME IInv, NEW p \in Procs, ReadKey(p)
  PROVE  IInv' /\ Visible' = Visible
<1>1. /\ TypeOK /\ Exclusive /\ Own(p) /\ Visible \in Stores
      /\ mem \in [Procs -> Mems] /\ got \in [Procs -> Stores] /\ task \in [Procs -> Tasks]
  BY VisibleIsAStore DEF IInv, TypeOK, Mems, Tasks
<1>2. PICK k \in task[p].del :
        /\ got' = [got EXCEPT ![p][k] = Visible[k]]
        /\ task' = [task EXCEPT ![p].del = @ \ {k}]
        /\ IF task[p].del = {k} THEN End(p) ELSE UNCHANGED <<pc, mem, locks>>
  BY DEF ReadKey
<1>3. /\ pc[p] = "read"
      /\ UNCHANGED <<links, files, settled, link, synced, dirs, file, disk, ready, seen, ops, faults>>
  BY DEF ReadKey, links, files, counts
<1>4. /\ k \in Keys /\ task[p].key = None /\ got[p] = Without(Visible, task[p].del)
      /\ Visible \in seen[p]
  BY <1>1, <1>2, <1>3 DEF Own, Asked, Reading, Tasks
<1>5. /\ got'[p] = [got[p] EXCEPT ![k] = Visible[k]] /\ got' \in [Procs -> Stores]
      /\ \A q \in Procs : q # p => got'[q] = got[q]
  BY <1>1, <1>2, <1>4 DEF Stores
<1>6. /\ task'[p].del = task[p].del \ {k} /\ task'[p].key = None /\ task' \in [Procs -> Tasks]
      /\ \A q \in Procs : q # p => task'[q] = task[q]
  BY <1>1, <1>2, <1>4 DEF Tasks
<1>7. got'[p] = Without(Visible, task'[p].del)
  BY <1>1, <1>4, <1>5, <1>6 DEF Without, Stores
<1>8. /\ pc' \in [Procs -> Steps] /\ mem' \in [Procs -> Mems]
      /\ pc'[p] = "read" \/ (pc'[p] = "idle" /\ task'[p].del = {})
      /\ \A q \in Procs : q # p => pc'[q] = pc[q] /\ mem'[q] = mem[q]
      /\ holder' \in Procs \cup {None} /\ lock' = lock /\ Exclusive'
  <2>1. CASE task[p].del = {k}
    <3>1. End(p) /\ task'[p].del = {}
      BY <1>2, <1>6, <2>1
    <3> QED
      BY <1>1, <3>1, Ending
  <2>2. CASE task[p].del # {k}
    BY <1>1, <1>2, <1>3, <2>2 DEF locks, Exclusive, TypeOK, Steps
  <2> QED
    BY <2>1, <2>2
<1>9. Visible' = Visible /\ Durable' /\ \A q \in Procs : q # p => Own(q)'
  BY <1>1, <1>3, <1>5, <1>6, <1>8, OthersKeep
<1>10. TypeOK'
  BY <1>1, <1>3, <1>5, <1>6, <1>8 DEF TypeOK, Mems, Tasks, Steps
<1>11. Asked(p)' /\ Copying(p)' /\ Reading(p)'
  BY <1>3, <1>4, <1>6, <1>7, <1>8, <1>9 DEF Asked, Copying, Reading
<1>12. Returned(p)'
  <2>1. task'[p].del = {} => got'[p] = Without(Visible, {}) /\ Visible \in seen'[p]
    BY <1>3, <1>4, <1>7
  <2> QED
    BY <1>6, <1>8, <2>1 DEF Returned
<1> QED
  BY <1>8, <1>9, <1>10, <1>11, <1>12 DEF IInv, Own

\* A read that fails: the snapshot is what it was so far, a get finds nothing.
LEMMA ReadFailsKeeps ==
  ASSUME IInv, NEW p \in Procs, ReadFails(p)
  PROVE  IInv' /\ Visible' = Visible
<1>1. /\ TypeOK /\ Exclusive /\ Own(p) /\ mem \in [Procs -> Mems] /\ faults \in Nat
  BY DEF IInv, TypeOK, Mems
<1>2. /\ faults' = faults + 1 /\ pc[p] \in {"read", "open"}
      /\ UNCHANGED <<links, files, settled, link, synced, dirs, file, disk, task, ready, got, seen, ops>>
  BY DEF ReadFails, links, files, results
<1>3. /\ pc' \in [Procs -> Steps] /\ mem' \in [Procs -> Mems]
      /\ pc'[p] = "idle" \/ (pc'[p] = "resolve" /\ pc[p] = "open")
      /\ \A q \in Procs : q # p => pc'[q] = pc[q] /\ mem'[q] = mem[q]
      /\ holder' \in Procs \cup {None} /\ lock' = lock /\ Exclusive'
  <2>1. CASE End(p)
    BY <1>1, <2>1, Ending
  <2>2. CASE pc[p] = "open" /\ GoTo(p, "resolve") /\ UNCHANGED <<locks, mem>>
    <3>1. /\ pc'[p] = "resolve" /\ \A q \in Procs : q # p => pc'[q] = pc[q]
          /\ pc' \in [Procs -> Steps]
      BY <1>1, <2>2, Going DEF Steps
    <3>2. Exclusive'
      BY <1>1, <2>2, <3>1 DEF Exclusive, Locked, locks
    <3> QED
      BY <1>1, <2>2, <3>1, <3>2 DEF TypeOK, locks
  <2> QED
    BY <2>1, <2>2 DEF ReadFails
<1>4. Visible' = Visible /\ Durable' /\ \A q \in Procs : q # p => Own(q)'
  <2>1. faults' # 0 /\ pc'[p] # "open" /\ pc'[p] # "synclink"
    BY <1>1, <1>2, <1>3
  <2> QED
    BY <1>2, <1>3, <2>1, OthersKeep
<1>5. TypeOK'
  BY <1>1, <1>2, <1>3 DEF TypeOK, Mems, Steps
<1>6. Asked(p)' /\ Copying(p)' /\ Reading(p)'
  BY <1>1, <1>2, <1>3, <1>4 DEF Own, Asked, Copying, Reading
<1>7. Returned(p)'
  <2>1. CASE pc[p] = "read"
    <3>1. /\ got'[p] = Without(Visible, task'[p].del) /\ Visible \in seen'[p]
          /\ task'[p].key = None /\ faults' # 0
      BY <1>1, <1>2, <2>1 DEF Own, Asked, Reading
    <3> QED
      BY <3>1 DEF Returned
  <2>2. CASE pc[p] = "open"
    <3>1. got'[p] = Empty /\ task'[p].key \in Keys /\ None \notin Keys
      BY <1>1, <1>2, <2>2 DEF Own, Asked, Reading, ParamsAssumption
    <3> QED
      BY <3>1 DEF Returned, Empty
  <2> QED
    BY <1>2, <2>1, <2>2
<1> QED
  BY <1>3, <1>4, <1>5, <1>6, <1>7 DEF IInv, Own

\* A process that dies; clear_all, which goes on to make an empty store.
LEMMA LeavingKeeps ==
  ASSUME IInv, NEW p \in Procs, Kill(p) \/ Wiped(p)
  PROVE  IInv' /\ Visible' = Visible
<1>1. /\ TypeOK /\ Exclusive /\ Own(p)
      /\ mem \in [Procs -> Mems] /\ task \in [Procs -> Tasks]
  BY DEF IInv, TypeOK, Mems, Tasks
<1>2. CASE Kill(p)
  <2>1. /\ End(p) /\ ready' \subseteq Procs /\ faults' \in Nat /\ got' = [got EXCEPT ![p] = Empty]
        /\ UNCHANGED <<links, files, settled, link, synced, dirs, file, disk, task, seen, ops>>
    BY <1>1, <1>2 DEF Kill, TypeOK, links, files
  <2>2. /\ got' \in [Procs -> Stores] /\ got'[p] = Empty
        /\ \A q \in Procs : q # p => got'[q] = got[q]
    BY <1>1, <2>1, StoresMade DEF TypeOK
  <2>3. /\ pc'[p] = "idle" /\ pc' \in [Procs -> Steps] /\ mem' \in [Procs -> Mems]
        /\ \A q \in Procs : q # p => pc'[q] = pc[q] /\ mem'[q] = mem[q]
        /\ holder' \in Procs \cup {None} /\ lock' = lock /\ Exclusive'
    BY <1>1, <2>1, Ending
  <2>4. Visible' = Visible /\ Durable' /\ \A q \in Procs : q # p => Own(q)'
    <3>1. faults' # 0
      BY <1>1, <1>2 DEF Kill, TypeOK
    <3> QED
      BY <1>1, <2>1, <2>2, <2>3, <3>1, OthersKeep
  <2>5. TypeOK'
    BY <1>1, <2>1, <2>2, <2>3 DEF TypeOK, Mems, Tasks, Steps
  <2>6. Own(p)'
    <3>1. task[p].key # None => got'[p][task[p].key] = None
      BY <1>1, <2>2 DEF Tasks, Empty
    <3> QED
      BY <2>1, <2>2, <2>3, <3>1 DEF Own, Asked, Copying, Reading, Returned
  <2> QED
    BY <2>3, <2>4, <2>5, <2>6 DEF IInv
<1>3. CASE Wiped(p)
  <2>1. /\ pc[p] = "wipe" /\ pc'[p] = "enter" /\ \A q \in Procs : q # p => pc'[q] = pc[q]
        /\ pc' \in [Procs -> Steps]
        /\ UNCHANGED <<links, files, settled, lock, holder, link, synced, dirs, file, disk, task, ready,
                       mem, got, seen, ops, faults>>
    BY <1>1, <1>3, Going DEF Wiped, Steps, locks, links, files, results, counts
  <2>2. Visible' = Visible /\ Durable' /\ \A q \in Procs : q # p => Own(q)'
    BY <1>1, <2>1, OthersKeep
  <2>3. TypeOK' /\ Exclusive'
    BY <1>1, <2>1 DEF TypeOK, Steps, Exclusive, Locked
  <2>4. Own(p)'
    BY <1>1, <2>1 DEF Own, Asked, Copying, Reading, Returned
  <2> QED
    BY <2>2, <2>3, <2>4 DEF IInv
<1> QED
  BY <1>2, <1>3

----------------------------------------------------------------------------
(* The steps that change the store. *)

\* What a step of a writer, who holds the lock, leaves true of all others: a reader must
\* still find nothing but what the store has been.
LEMMA ReadersKeep ==
  ASSUME IInv, NEW p \in Procs, pc[p] \in Locked, faults # 0 => faults' # 0,
         \A q \in Procs : q # p =>
            /\ pc'[q] = pc[q] /\ task'[q] = task[q] /\ mem'[q] = mem[q] /\ got'[q] = got[q]
            /\ seen[q] \subseteq seen'[q]
            /\ pc[q] \in {"resolve", "open"} => Visible' \in seen'[q]
            /\ pc[q] = "open" /\ mem[q].at \in dirs' =>
                 mem[q].at \in dirs /\ \A k \in Keys : \/ file'[mem[q].at][k] = file[mem[q].at][k]
                                                       \/ file'[mem[q].at][k] = Visible'[k]
  PROVE  \A q \in Procs : q # p => Own(q)'
<1> SUFFICES ASSUME NEW q \in Procs, q # p PROVE Own(q)'
  OBVIOUS
<1>1. Own(q) /\ pc[q] \notin Locked /\ pc'[q] = pc[q] /\ seen[q] \subseteq seen'[q]
  BY DEF IInv, Exclusive
<1>2. Asked(q)' /\ Copying(q)'
  BY <1>1 DEF Own, Asked, Copying, Locked
<1>3. Reading(q)'
  <2>1. pc[q] = "open" /\ mem[q].at \in dirs' => Was(q, file[mem[q].at])
    BY <1>1 DEF Own, Reading
  <2>2. pc'[q] = "open" /\ mem'[q].at \in dirs' => Was(q, file[mem[q].at])'
    BY <1>1, <2>1 DEF Was
  <2> QED
    BY <1>1, <2>2 DEF Own, Reading, Locked
<1>4. Returned(q)'
  BY <1>1 DEF Own, Returned
<1> QED
  BY <1>2, <1>3, <1>4 DEF Own

\* The store after a step that changes nothing at the link, or only what Witness records.
LEMMA Witnessed ==
  ASSUME TypeOK, Witness, Visible' \in Stores
  PROVE  /\ seen' \in [Procs -> SUBSET Stores]
         /\ \A q \in Procs : /\ seen[q] \subseteq seen'[q]
                             /\ pc[q] \in {"resolve", "open"} => Visible' \in seen'[q]
BY DEF TypeOK, Witness

\* Nobody but the holder of the lock is about to sync the link.
LEMMA LooseAlone ==
  ASSUME IInv, NEW p \in Procs, pc[p] \in Locked, \A q \in Procs : q # p => pc'[q] = pc[q],
         pc'[p] # "synclink"
  PROVE  Loose' <=> link' # synced'
BY DEF IInv, Exclusive, Locked, Loose

\* A put takes its place: the link leads to a directory, the others see the new value.
LEMMA PutRenameKeeps ==
  ASSUME IInv, NEW p \in Procs, PutRename(p)
  PROVE  /\ IInv'
         /\ Visible' = Visible \/ Visible' = [Visible EXCEPT ![task[p].key] = task[p].val]
<1>1. /\ TypeOK /\ Exclusive /\ Own(p) /\ Visible \in Stores /\ pc[p] = "rename"
      /\ task[p].key \in Keys /\ task[p].val \in Vals \cup {None}
  BY VisibleIsAStore DEF IInv, PutRename, Own, Asked, TypeOK
<1>2. /\ UNCHANGED <<link, synced, task, ready, got, ops, faults>>
      /\ Witness
  BY DEF PutRename, links, counts
<1>3. CASE link \notin dirs
  <2>1. End(p) /\ UNCHANGED <<dirs, file, disk, settled>>
    BY <1>3 DEF PutRename, files
  <2>2. Visible' = Visible
    BY <1>2, <2>1 DEF Visible
  <2>3. /\ pc'[p] = "idle" /\ pc' \in [Procs -> Steps] /\ mem' \in [Procs -> Mems]
        /\ \A q \in Procs : q # p => pc'[q] = pc[q] /\ mem'[q] = mem[q]
        /\ holder' \in Procs \cup {None} /\ lock' = lock /\ Exclusive'
    BY <1>1, <2>1, Ending
  <2>4. /\ seen' \in [Procs -> SUBSET Stores]
        /\ \A q \in Procs : /\ seen[q] \subseteq seen'[q]
                            /\ pc[q] \in {"resolve", "open"} => Visible' \in seen'[q]
    BY <1>1, <1>2, <2>2, Witnessed
  <2>5. \A q \in Procs : q # p => Own(q)'
    BY <1>1, <1>2, <2>1, <2>3, <2>4, ReadersKeep DEF Locked
  <2>6. Durable'
    <3>1. Loose => Loose'
      BY <1>1, <1>2, <2>3 DEF Loose
    <3> QED
      BY <1>2, <2>1, <2>2, <3>1 DEF IInv, Durable, On
  <2>7. TypeOK'
    BY <1>1, <1>2, <2>1, <2>3, <2>4 DEF TypeOK, Steps, Mems
  <2>8. Own(p)'
    <3>1. got'[p] = Empty /\ task' = task
      BY <1>1, <1>2 DEF Own, Reading
    <3> QED
      BY <1>1, <2>3, <3>1 DEF Own, Asked, Copying, Reading, Returned, Empty
  <2> QED
    BY <2>2, <2>3, <2>5, <2>6, <2>7, <2>8 DEF IInv
<1>4. CASE link \in dirs
  <2>1. /\ file' = [file EXCEPT ![link][task[p].key] = task[p].val]
        /\ settled' = settled \ {task[p].key} /\ GoTo(p, "syncdir")
        /\ UNCHANGED <<dirs, disk, mem, lock, holder>>
    BY <1>4 DEF PutRename, locks
  <2>2. /\ link \in 1 .. Dirs /\ file[link] = Visible
        /\ file' \in [1 .. Dirs -> Stores]
        /\ file'[link] = [Visible EXCEPT ![task[p].key] = task[p].val]
        /\ \A d \in 1 .. Dirs : d # link => file'[d] = file[d]
    <3>1. link \in 1 .. Dirs /\ file[link] = Visible /\ file \in [1 .. Dirs -> Stores]
      BY <1>1, <1>4 DEF TypeOK, Visible
    <3>2. [Visible EXCEPT ![task[p].key] = task[p].val] \in Stores
      BY <1>1, StoresMade
    <3>3. file' = [file EXCEPT ![link] = [Visible EXCEPT ![task[p].key] = task[p].val]]
      BY <2>1, <3>1
    <3> QED
      BY <3>1, <3>2, <3>3
  <2>3. Visible' = [Visible EXCEPT ![task[p].key] = task[p].val] /\ Visible' \in Stores
    BY <1>1, <1>2, <1>4, <2>1, <2>2, StoresMade DEF Visible
  <2>4. /\ pc'[p] = "syncdir" /\ pc' \in [Procs -> Steps]
        /\ \A q \in Procs : q # p => pc'[q] = pc[q]
    BY <1>1, <2>1, Going DEF Steps
  <2>5. /\ seen' \in [Procs -> SUBSET Stores]
        /\ \A q \in Procs : /\ seen[q] \subseteq seen'[q]
                            /\ pc[q] \in {"resolve", "open"} => Visible' \in seen'[q]
    BY <1>1, <1>2, <2>3, Witnessed
  <2>6. \A q \in Procs : q # p => Own(q)'
    <3>1. \A d \in dirs' : d \in dirs /\ \A k \in Keys : \/ file'[d][k] = file[d][k]
                                                         \/ file'[d][k] = Visible'[k]
      BY <1>1, <2>1, <2>2, <2>3 DEF TypeOK
    <3> QED
      BY <1>1, <1>2, <2>1, <2>4, <2>5, <3>1, ReadersKeep DEF Locked
  <2>7. Durable'
    <3>1. Loose' <=> Loose
      BY <1>1, <1>2, <2>1, <2>4 DEF Loose
    <3>2. \A k \in Keys \ {task[p].key} : Visible'[k] = Visible[k]
      BY <1>1, <2>3 DEF Stores
    <3>3. ASSUME NEW d \in {link, synced}, On(d) PROVE On(d)'
      <4>1. \A k \in settled' : /\ k \in settled /\ d # 0 /\ file[d][k] = Visible[k]
                                /\ disk[d][k] = Visible[k] /\ Visible'[k] = Visible[k]
        BY <1>1, <2>1, <3>2, <3>3 DEF On, TypeOK
      <4>2. ASSUME NEW k \in settled' PROVE file'[d][k] = Visible'[k]
        <5>1. CASE d = link
          BY <2>2, <2>3, <5>1
        <5>2. CASE d # link
          <6>1. d \in 1 .. Dirs
            BY <1>1, <4>1, <4>2 DEF TypeOK
          <6> QED
            BY <2>2, <4>1, <4>2, <5>2, <6>1
        <5> QED
          BY <5>1, <5>2
      <4> QED
        BY <2>1, <4>1, <4>2 DEF On
    <3> QED
      BY <1>2, <3>1, <3>3 DEF IInv, Durable, On
  <2>8. TypeOK'
    BY <1>1, <1>2, <2>1, <2>2, <2>4, <2>5 DEF TypeOK, Steps
  <2>9. Exclusive'
    BY <1>1, <2>1, <2>4 DEF Exclusive, Locked
  <2>10. Own(p)'
    BY <1>1, <1>2, <1>4, <2>1, <2>4 DEF Own, Asked, Copying, Reading, Returned
  <2> QED
    BY <2>3, <2>6, <2>7, <2>8, <2>9, <2>10 DEF IInv
<1> QED
  BY <1>3, <1>4

\* A put returns: what the store holds is on the disk.
LEMMA PutSyncKeeps ==
  ASSUME IInv, NEW p \in Procs, PutSync(p)
  PROVE  IInv' /\ Visible' = Visible
<1>1. /\ TypeOK /\ Exclusive /\ Own(p) /\ pc[p] = "syncdir" /\ link \in dirs /\ task[p].key \in Keys
      /\ link \in 1 .. Dirs /\ file[link] = Visible /\ Visible \in Stores
  BY VisibleIsAStore DEF IInv, PutSync, Own, Asked, Copying, TypeOK, Visible
<1>2. /\ disk' = [disk EXCEPT ![link] = file[link]] /\ settled' = settled \cup {task[p].key} /\ End(p)
      /\ UNCHANGED <<link, synced, dirs, file, task, ready, got, seen, ops, faults>>
  BY DEF PutSync, links, results, counts
<1>3. Visible' = Visible
  BY <1>2 DEF Visible
<1>4. /\ pc'[p] = "idle" /\ pc' \in [Procs -> Steps] /\ mem' \in [Procs -> Mems]
      /\ \A q \in Procs : q # p => pc'[q] = pc[q] /\ mem'[q] = mem[q]
      /\ holder' \in Procs \cup {None} /\ lock' = lock /\ Exclusive'
  BY <1>1, <1>2, Ending
<1>5. \A q \in Procs : q # p => Own(q)'
  <2>1. \A q \in Procs : pc[q] \in {"resolve", "open"} => Visible' \in seen'[q]
    BY <1>2, <1>3 DEF IInv, Own, Reading
  <2> QED
    BY <1>1, <1>2, <1>3, <1>4, <2>1, ReadersKeep DEF Locked
<1>6. disk' \in [1 .. Dirs -> Stores] /\ disk'[link] = Visible
  BY <1>1, <1>2 DEF TypeOK
<1>7. Durable'
  <2>1. On(link)'
    BY <1>1, <1>2, <1>3, <1>6 DEF On
  <2>2. Loose' <=> link # synced
    BY <1>1, <1>2, <1>4, LooseAlone DEF Locked
  <2> QED
    BY <1>2, <2>1, <2>2 DEF Durable, On
<1>8. TypeOK'
  BY <1>1, <1>2, <1>4, <1>6 DEF TypeOK, Steps, Mems
<1>9. Own(p)'
  BY <1>1, <1>2, <1>4 DEF Own, Asked, Copying, Reading, Returned, Empty
<1> QED
  BY <1>3, <1>4, <1>5, <1>7, <1>8, <1>9 DEF IInv

\* The copy is a directory of nobody's, with what the store is to be.
LEMMA CopyKeeps ==
  ASSUME IInv, NEW p \in Procs, Copy(p)
  PROVE  IInv' /\ Visible' = Visible
<1>1. /\ TypeOK /\ Exclusive /\ Own(p) /\ pc[p] = "copy" /\ mem \in [Procs -> Mems]
      /\ mem[p].vals = Intended(p) /\ mem[p].vals \in Stores /\ link \in 0 .. Dirs
  BY DEF IInv, Copy, Own, Copying, TypeOK, Mems
<1>2. PICK d \in 1 .. Dirs :
        /\ d \notin dirs /\ d # link /\ d # synced
        /\ \A q \in Procs : pc[q] = "open" => mem[q].at # d
        /\ dirs' = dirs \cup {d}
        /\ file' = [file EXCEPT ![d] = mem[p].vals] /\ disk' = [disk EXCEPT ![d] = mem[p].vals]
        /\ mem' = [mem EXCEPT ![p].new = d, ![p].old = link]
  BY DEF Copy
<1>3. /\ UNCHANGED <<lock, holder, link, synced, task, ready, got, seen, settled, ops, faults>>
      /\ pc'[p] = "switch" /\ pc' \in [Procs -> Steps]
      /\ \A q \in Procs : q # p => pc'[q] = pc[q]
  BY <1>1, Going DEF Copy, locks, links, results, counts, Steps
<1>4. /\ mem' \in [Procs -> Mems] /\ mem'[p].new = d /\ mem'[p].old = link
      /\ mem'[p].vals = mem[p].vals /\ mem'[p].unread = mem[p].unread /\ \A q \in Procs : q # p => mem'[q] = mem[q]
  <2>1. d \in 0 .. Dirs
    OBVIOUS
  <2>2. mem' = [mem EXCEPT ![p] = [mem[p] EXCEPT !.new = d, !.old = link]]
    BY <1>1, <1>2 DEF Mems
  <2>3. [mem[p] EXCEPT !.new = d, !.old = link] \in Mems
    BY <1>1, <2>1 DEF Mems
  <2> QED
    BY <1>1, <2>2, <2>3 DEF Mems
<1>5. /\ file' \in [1 .. Dirs -> Stores] /\ disk' \in [1 .. Dirs -> Stores]
      /\ file'[d] = mem[p].vals /\ disk'[d] = mem[p].vals
      /\ \A e : e # d => file'[e] = file[e] /\ disk'[e] = disk[e]
  BY <1>1, <1>2 DEF TypeOK
<1>6. Visible' = Visible
  BY <1>2, <1>3, <1>5 DEF Visible
<1>7. \A q \in Procs : q # p => Own(q)'
  <2>1. \A q \in Procs : pc[q] \in {"resolve", "open"} => Visible' \in seen'[q]
    BY <1>3, <1>6 DEF IInv, Own, Reading
  <2>2. \A q \in Procs : pc[q] = "open" /\ mem[q].at \in dirs' =>
           mem[q].at \in dirs /\ file'[mem[q].at] = file[mem[q].at]
    BY <1>2, <1>5
  <2> QED
    BY <1>1, <1>3, <1>4, <2>1, <2>2, ReadersKeep DEF Locked
<1>8. Durable'
  <2>1. Loose' <=> Loose
    BY <1>1, <1>3, <1>4, LooseAlone DEF Locked, Loose, IInv, Exclusive
  <2> QED
    BY <1>2, <1>3, <1>5, <1>6, <2>1 DEF IInv, Durable, On
<1>9. TypeOK'
  BY <1>1, <1>2, <1>3, <1>4, <1>5 DEF TypeOK, Steps, Mems
<1>10. Exclusive'
  BY <1>1, <1>3 DEF Exclusive, Locked
<1>11. Own(p)'
  <2>1. Intended(p)' = Intended(p)
    BY <1>3, <1>4, <1>6 DEF Intended, Dropped
  <2>2. \A q \in Procs : pc'[q] = "open" => mem'[q].at # mem'[p].new
    BY <1>2, <1>3, <1>4
  <2> QED
    BY <1>1, <1>2, <1>3, <1>4, <1>5, <2>1, <2>2 DEF Own, Asked, Copying, Reading, Returned
<1> QED
  BY <1>6, <1>7, <1>8, <1>9, <1>10, <1>11 DEF IInv

\* The copy that could not be written goes, and nothing else.
LEMMA CopyFailsKeeps ==
  ASSUME IInv, NEW p \in Procs, CopyFails(p)
  PROVE  IInv' /\ Visible' = Visible
<1> DEFINE d == mem[p].new
<1>1. /\ TypeOK /\ Exclusive /\ Own(p) /\ pc[p] = "switch" /\ d \in dirs /\ d # link /\ d # synced
      /\ \A q \in Procs : pc[q] = "open" => mem[q].at # d
  BY DEF IInv, CopyFails, Own, Copying
<1>2. /\ dirs' = dirs \ {d} /\ file' = [file EXCEPT ![d] = Empty] /\ End(p) /\ faults' = faults + 1
      /\ UNCHANGED <<link, synced, disk, task, ready, got, seen, settled, ops>>
  BY DEF CopyFails, links, results
<1>3. /\ pc'[p] = "idle" /\ pc' \in [Procs -> Steps] /\ mem' \in [Procs -> Mems]
      /\ \A q \in Procs : q # p => pc'[q] = pc[q] /\ mem'[q] = mem[q]
      /\ holder' \in Procs \cup {None} /\ lock' = lock /\ Exclusive'
  BY <1>1, <1>2, Ending
<1>4. file' \in [1 .. Dirs -> Stores] /\ \A e : e # d => file'[e] = file[e]
  BY <1>1, <1>2, StoresMade DEF TypeOK
<1>f. faults' # 0
  BY <1>1, <1>2 DEF TypeOK
<1> HIDE DEF d
<1>5. Visible' = Visible
  BY <1>1, <1>2, <1>4 DEF Visible
<1>6. \A q \in Procs : q # p => Own(q)'
  <2>1. \A q \in Procs : pc[q] \in {"resolve", "open"} => Visible' \in seen'[q]
    BY <1>2, <1>5 DEF IInv, Own, Reading
  <2>2. \A q \in Procs : pc[q] = "open" /\ mem[q].at \in dirs' =>
           mem[q].at \in dirs /\ file'[mem[q].at] = file[mem[q].at]
    BY <1>1, <1>2, <1>4
  <2> QED
    BY <1>1, <1>2, <1>3, <1>f, <2>1, <2>2, ReadersKeep DEF Locked
<1>7. Durable'
  <2>1. Loose' <=> link # synced
    BY <1>1, <1>2, <1>3, LooseAlone DEF Locked
  <2>2. Loose => link # synced
    BY DEF Loose
  <2>3. link # synced => Loose
    BY <1>1 DEF IInv, Exclusive, Locked, Loose
  <2> QED
    BY <1>1, <1>2, <1>4, <1>5, <2>1, <2>2, <2>3 DEF IInv, Durable, On
<1>8. TypeOK'
  <2>1. dirs' \subseteq 1 .. Dirs /\ faults' \in Nat
    BY <1>1, <1>2 DEF TypeOK
  <2> QED
    BY <1>1, <1>2, <1>3, <1>4, <2>1 DEF TypeOK, Steps, Mems
<1>9. Own(p)'
  <2>1. got'[p] = Empty /\ task' = task
    BY <1>1, <1>2 DEF Own, Reading
  <2>2. task[p].key # None => task[p].key \in Keys
    BY <1>1 DEF TypeOK
  <2> QED
    BY <1>3, <2>1, <2>2 DEF Own, Asked, Copying, Reading, Returned, Empty
<1> QED
  BY <1>3, <1>5, <1>6, <1>7, <1>8, <1>9 DEF IInv

\* The link leads to the copy: the store is what the transaction made of it.
LEMMA SwitchKeeps ==
  ASSUME IInv, NEW p \in Procs, Switch(p)
  PROVE  IInv' /\ Visible' = Without(Visible, task[p].del \cup mem[p].unread)
<1> DEFINE d == mem[p].new
<1>1. /\ TypeOK /\ Exclusive /\ Own(p) /\ pc[p] = "switch" /\ d \in dirs /\ d # link /\ d # synced
      /\ mem[p].old = link /\ mem[p].vals = Intended(p) /\ Visible \in Stores
      /\ file[d] = mem[p].vals /\ disk[d] = mem[p].vals
      /\ d \in 1 .. Dirs /\ task \in [Procs -> Tasks] /\ mem \in [Procs -> Mems]
  BY VisibleIsAStore DEF IInv, Switch, Own, Copying, TypeOK, Tasks, Mems
<1>2. /\ link' = d /\ settled' = settled \ Dropped(p) /\ Witness
      /\ UNCHANGED <<lock, holder, synced, dirs, file, disk, task, ready, mem, got, ops, faults>>
      /\ pc'[p] = "synclink" /\ pc' \in [Procs -> Steps]
      /\ \A q \in Procs : q # p => pc'[q] = pc[q]
  BY <1>1, Going DEF Switch, locks, files, counts, Steps
<1> HIDE DEF d
<1>3. Visible' = Intended(p) /\ Visible' \in Stores
  BY <1>1, <1>2, StoresMade DEF Visible, Intended
<1>4. /\ seen' \in [Procs -> SUBSET Stores]
      /\ \A q \in Procs : /\ seen[q] \subseteq seen'[q]
                          /\ pc[q] \in {"resolve", "open"} => Visible' \in seen'[q]
  BY <1>1, <1>2, <1>3, Witnessed
<1>5. \A q \in Procs : q # p => Own(q)'
  BY <1>1, <1>2, <1>4, ReadersKeep DEF Locked
<1>6. Durable'
  <2>1. \A k \in settled' : k \in settled /\ k \in Keys /\ Visible'[k] = Visible[k]
    BY <1>1, <1>2, <1>3 DEF TypeOK, Intended, Without
  <2>2. On(link)'
    BY <1>1, <1>2, <1>3, <2>1 DEF On
  <2>3. CASE link = synced
    <3>1. On(synced)'
      BY <1>1, <1>2, <2>1, <2>3 DEF IInv, Durable, On
    <3> QED
      BY <1>2, <2>2, <3>1 DEF Durable
  <2>4. CASE link # synced
    <3>1. Loose'
      BY <1>1, <1>2, <2>4 DEF Loose, Exclusive, Locked
    <3> QED
      BY <1>2, <2>2, <3>1 DEF Durable
  <2> QED
    BY <2>3, <2>4
<1>7. TypeOK'
  <2>1. link' \in 0 .. Dirs /\ settled' \subseteq Keys
    BY <1>1, <1>2 DEF TypeOK
  <2> QED
    BY <1>1, <1>2, <1>4, <2>1 DEF TypeOK, Steps
<1>8. Exclusive'
  BY <1>1, <1>2 DEF Exclusive, Locked
<1>9. Own(p)'
  <2>1. \A k \in Dropped(p) : mem[p].vals[k] = None
    BY <1>1 DEF Tasks, Mems, Intended, Dropped, Without
  <2>2. Copying(p)'
    BY <1>1, <1>2, <2>1 DEF Copying, Dropped, d
  <2> QED
    BY <1>1, <1>2, <2>2 DEF Own, Asked, Reading, Returned
<1> QED
  BY <1>3, <1>5, <1>6, <1>7, <1>8, <1>9 DEF IInv, Intended, Dropped

\* The link is on the disk, the old directory still there.
LEMMA SyncLinkKeeps ==
  ASSUME IInv, NEW p \in Procs, SyncLink(p)
  PROVE  IInv' /\ Visible' = Visible
<1>1. /\ TypeOK /\ Exclusive /\ Own(p) /\ Copying(p) /\ pc[p] = "synclink"
  BY DEF IInv, SyncLink, Own
<1>2. /\ synced' = link
      /\ UNCHANGED <<lock, holder, link, dirs, file, disk, task, ready, mem, got, seen, settled, ops,
                     faults>>
      /\ pc'[p] = "remove" /\ pc' \in [Procs -> Steps]
      /\ \A q \in Procs : q # p => pc'[q] = pc[q]
  BY <1>1, Going DEF SyncLink, locks, files, results, counts, Steps
<1>3. Visible' = Visible
  BY <1>2 DEF Visible
<1>4. \A q \in Procs : q # p => Own(q)'
  <2>1. \A q \in Procs : pc[q] \in {"resolve", "open"} => Visible' \in seen'[q]
    BY <1>2, <1>3 DEF IInv, Own, Reading
  <2> QED
    BY <1>1, <1>2, <2>1, ReadersKeep DEF Locked
<1>5. Durable'
  BY <1>2, <1>3 DEF IInv, Durable, On
<1>6. TypeOK'
  BY <1>1, <1>2 DEF TypeOK, Steps
<1>7. Exclusive'
  BY <1>1, <1>2 DEF Exclusive, Locked
<1>8. Own(p)'
  BY <1>1, <1>2 DEF Own, Asked, Copying, Dropped, Reading, Returned
<1> QED
  BY <1>3, <1>4, <1>5, <1>6, <1>7, <1>8 DEF IInv

\* The old directory is behind no link any more; the transaction returns.
LEMMA RemoveOldKeeps ==
  ASSUME IInv, NEW p \in Procs, RemoveOld(p)
  PROVE  IInv' /\ Visible' = Visible
<1> DEFINE d == mem[p].old
<1>1. /\ TypeOK /\ Exclusive /\ Own(p) /\ pc[p] = "remove" /\ d # link /\ synced = link
      /\ link \in dirs /\ link \in 1 .. Dirs /\ file[link] = mem[p].vals /\ disk[link] = mem[p].vals
      /\ Visible = mem[p].vals /\ Dropped(p) \subseteq Keys
      /\ \A k \in Dropped(p) : mem[p].vals[k] = None
  BY DEF IInv, RemoveOld, Own, Copying, TypeOK, Dropped, Visible
<1>2. /\ dirs' = dirs \ {d} /\ file' = [e \in 1 .. Dirs |-> IF e = d THEN Empty ELSE file[e]]
      /\ settled' = settled \cup Dropped(p) /\ End(p)
      /\ UNCHANGED <<link, synced, disk, task, ready, got, seen, ops, faults>>
  BY DEF RemoveOld, links, results, counts
<1>3. /\ pc'[p] = "idle" /\ pc' \in [Procs -> Steps] /\ mem' \in [Procs -> Mems]
      /\ \A q \in Procs : q # p => pc'[q] = pc[q] /\ mem'[q] = mem[q]
      /\ holder' \in Procs \cup {None} /\ lock' = lock /\ Exclusive'
  BY <1>1, <1>2, Ending
<1>4. /\ file' \in [1 .. Dirs -> Stores] /\ dirs' \subseteq 1 .. Dirs
      /\ \A e \in 1 .. Dirs : e # d => file'[e] = file[e]
  BY <1>1, <1>2, StoresMade DEF TypeOK
<1> HIDE DEF d
<1>5. Visible' = Visible
  BY <1>1, <1>2, <1>4 DEF Visible
<1>6. \A q \in Procs : q # p => Own(q)'
  <2>1. \A q \in Procs : pc[q] \in {"resolve", "open"} => Visible' \in seen'[q]
    BY <1>2, <1>5 DEF IInv, Own, Reading
  <2>2. \A e \in dirs' : e \in dirs /\ file'[e] = file[e]
    BY <1>2, <1>4
  <2> QED
    BY <1>1, <1>2, <1>3, <2>1, <2>2, ReadersKeep DEF Locked
<1>7. Durable'
  BY <1>1, <1>2, <1>4, <1>5 DEF IInv, Durable, On
<1>8. TypeOK'
  <2>1. settled' \subseteq Keys
    BY <1>1, <1>2 DEF TypeOK, Tasks
  <2> QED
    BY <1>1, <1>2, <1>3, <1>4, <2>1 DEF TypeOK, Steps, Mems
<1>9. Own(p)'
  <2>1. got'[p] = Empty /\ task' = task
    BY <1>1, <1>2 DEF Own, Reading
  <2>2. task[p].key # None => task[p].key \in Keys
    BY <1>1 DEF TypeOK
  <2> QED
    BY <1>3, <2>1, <2>2 DEF Own, Asked, Copying, Reading, Returned, Empty
<1> QED
  BY <1>3, <1>5, <1>6, <1>7, <1>8, <1>9 DEF IInv

\* clear_all is alone; whatever it removes, nothing counts as settled.
LEMMA WipeKeeps ==
  ASSUME IInv, NEW p \in Procs, Wipe(p)
  PROVE  IInv'
<1>1. /\ TypeOK /\ Exclusive /\ Own(p) /\ pc[p] = "wipe" /\ Visible \in Stores
      /\ \A q \in Procs : q # p => pc[q] = "idle"
  BY VisibleIsAStore DEF IInv, Wipe, Exclusive
<1>2. settled' = {} /\ Witness /\ UNCHANGED <<holder, synced, disk, pc, task, ready, mem, got, ops, faults>>
  BY DEF Wipe, counts
<1>3. /\ lock' \in BOOLEAN /\ link' \in 0 .. Dirs /\ dirs' \subseteq 1 .. Dirs
      /\ file' \in [1 .. Dirs -> Stores]
  <2>1. CASE \E d \in dirs, k \in Keys : /\ file' = [file EXCEPT ![d][k] = None]
                                         /\ UNCHANGED <<lock, link, dirs>>
    <3>1. PICK d \in dirs, k \in Keys : /\ file' = [file EXCEPT ![d][k] = None]
                                        /\ UNCHANGED <<lock, link, dirs>>
      BY <2>1
    <3>2. d \in 1 .. Dirs /\ file \in [1 .. Dirs -> Stores]
      BY <1>1 DEF TypeOK
    <3>3. [file[d] EXCEPT ![k] = None] \in Stores
      BY <3>2, StoresMade
    <3>4. file' = [file EXCEPT ![d] = [file[d] EXCEPT ![k] = None]]
      BY <3>1, <3>2
    <3>5. file' \in [1 .. Dirs -> Stores]
      BY <3>2, <3>3, <3>4
    <3> QED
      BY <1>1, <3>1, <3>5 DEF TypeOK
  <2>2. CASE \E d \in dirs : dirs' = dirs \ {d} /\ UNCHANGED <<lock, link, file>>
    BY <1>1, <2>2 DEF TypeOK
  <2>3. CASE link' = 0 /\ UNCHANGED <<lock, dirs, file>>
    BY <1>1, <2>3 DEF TypeOK
  <2>4. CASE lock' = FALSE /\ UNCHANGED <<link, dirs, file>>
    BY <1>1, <2>4 DEF TypeOK
  <2> QED
    BY <2>1, <2>2, <2>3, <2>4 DEF Wipe
<1>4. Visible' \in Stores
  BY <1>3, StoresMade DEF Visible
<1>5. /\ seen' \in [Procs -> SUBSET Stores]
      /\ \A q \in Procs : seen[q] \subseteq seen'[q]
  BY <1>1, <1>2, <1>4, Witnessed
<1>6. TypeOK' /\ Exclusive'
  BY <1>1, <1>2, <1>3, <1>5 DEF TypeOK, Exclusive
<1>7. Durable'
  BY <1>2 DEF Durable, On
<1>8. ASSUME NEW q \in Procs PROVE Own(q)'
  <2>1. /\ pc'[q] \in {"idle", "wipe"} /\ pc'[q] = pc[q] /\ Own(q) /\ seen[q] \subseteq seen'[q]
        /\ task' = task /\ got' = got /\ faults' = faults
    BY <1>1, <1>2, <1>5 DEF IInv
  <2> QED
    BY <2>1 DEF Own, Asked, Copying, Reading, Returned
<1> QED
  BY <1>6, <1>7, <1>8 DEF IInv

\* After a power failure nobody is at work; what comes back is what the disk has behind
\* one of the two links, and there all that was settled is.
LEMMA PowerFailsKeeps ==
  ASSUME IInv, PowerFails
  PROVE  IInv'
<1>1. TypeOK
  BY DEF IInv
<1>2. /\ pc' = [p \in Procs |-> "idle"] /\ holder' = None /\ ready' = {} /\ faults' = faults + 1
      /\ got' = [p \in Procs |-> Empty] /\ mem' = [p \in Procs |-> NoMem]
      /\ settled' = (IF Loose THEN {} ELSE settled)
      /\ UNCHANGED <<lock, task, seen, ops>>
  BY DEF PowerFails
<1>3. PICK d \in {link, synced} :
        /\ link' = d /\ synced' = d
        /\ IF d = 0 THEN UNCHANGED files
           ELSE \E lost \in SUBSET Keys :
                  /\ file' = [file EXCEPT ![d] = [k \in Keys |-> IF k \in lost THEN disk[d][k] ELSE @[k]]]
                  /\ disk' = [disk EXCEPT ![d] = file'[d]] /\ dirs' = dirs \cup {d}
  BY DEF PowerFails
<1>4. d \in 0 .. Dirs
  BY <1>1 DEF TypeOK
<1>5. /\ file' \in [1 .. Dirs -> Stores] /\ disk' \in [1 .. Dirs -> Stores] /\ dirs' \subseteq 1 .. Dirs
      /\ d # 0 => /\ d \in dirs' /\ disk'[d] = file'[d]
                  /\ \A k \in Keys : file'[d][k] \in {file[d][k], disk[d][k]}
  <2>1. CASE d = 0
    BY <1>1, <1>3, <2>1 DEF files, TypeOK
  <2>2. CASE d # 0
    <3>1. d \in 1 .. Dirs
      BY <1>4, <2>2
    <3>2. PICK lost \in SUBSET Keys :
            /\ file' = [file EXCEPT ![d] = [k \in Keys |-> IF k \in lost THEN disk[d][k] ELSE @[k]]]
            /\ disk' = [disk EXCEPT ![d] = file'[d]] /\ dirs' = dirs \cup {d}
      BY <1>3, <2>2
    <3> DEFINE back == [k \in Keys |-> IF k \in lost THEN disk[d][k] ELSE file[d][k]]
    <3>3. back \in Stores /\ \A k \in Keys : back[k] \in {file[d][k], disk[d][k]}
      <4>1. file[d] \in Stores /\ disk[d] \in Stores
        BY <1>1, <3>1 DEF TypeOK
      <4> QED
        BY <4>1 DEF Stores
    <3>4. file' = [file EXCEPT ![d] = back]
      BY <3>2
    <3> HIDE DEF back
    <3>5. file' \in [1 .. Dirs -> Stores] /\ file'[d] = back
      BY <1>1, <3>1, <3>3, <3>4 DEF TypeOK
    <3>6. disk' \in [1 .. Dirs -> Stores] /\ disk'[d] = back
      BY <1>1, <3>1, <3>2, <3>3, <3>5 DEF TypeOK
    <3> QED
      BY <1>1, <3>1, <3>2, <3>3, <3>5, <3>6 DEF TypeOK
  <2> QED
    BY <2>1, <2>2
<1>6. TypeOK'
  <2>1. /\ pc' \in [Procs -> Steps] /\ got' \in [Procs -> Stores] /\ mem' \in [Procs -> Mems]
    BY <1>2, StoresMade DEF Steps
  <2>2. settled' \subseteq Keys /\ faults' \in Nat
    BY <1>1, <1>2 DEF TypeOK
  <2> QED
    BY <1>1, <1>2, <1>3, <1>4, <1>5, <2>1, <2>2 DEF TypeOK, Steps, Mems
<1>7. Exclusive'
  BY <1>2 DEF Exclusive, Locked, ParamsAssumption
<1>8. Durable'
  <2>1. ASSUME NEW k \in settled'
        PROVE  d # 0 /\ file'[d][k] = Visible'[k] /\ disk'[d][k] = Visible'[k]
    <3>1. ~ Loose /\ k \in settled /\ k \in Keys
      BY <1>1, <1>2, <2>1 DEF TypeOK
    <3>2. d # 0 /\ file[d][k] = disk[d][k]
      BY <3>1 DEF IInv, Durable, On
    <3>3. d \in dirs' /\ disk'[d] = file'[d]
      BY <1>5, <3>2
    <3> QED
      BY <1>3, <3>2, <3>3 DEF Visible
  <2> QED
    BY <1>3, <2>1 DEF Durable, On
<1>9. ASSUME NEW p \in Procs PROVE Own(p)'
  <2>1. task[p].key # None => task[p].key \in Keys
    BY <1>1 DEF TypeOK
  <2> QED
    BY <1>2, <2>1 DEF Own, Asked, Copying, Reading, Returned, Empty
<1> QED
  BY <1>6, <1>7, <1>8, <1>9 DEF IInv

----------------------------------------------------------------------------

\* An empty store, nobody at work.
LEMMA InitIInv == Init => IInv
<1> SUFFICES ASSUME Init PROVE IInv
  OBVIOUS
<1>1. TypeOK
  <2>1. /\ pc \in [Procs -> Steps] /\ task \in [Procs -> Tasks] /\ mem \in [Procs -> Mems]
        /\ file \in [1 .. Dirs -> Stores] /\ got \in [Procs -> Stores]
    BY StoresMade DEF Init, Steps
  <2> QED
    <3>1. 0 \in 0 .. Dirs
      BY DEF ParamsAssumption
    <3>2. /\ lock \in BOOLEAN /\ holder \in Procs \cup {None} /\ link \in 0 .. Dirs
          /\ synced \in 0 .. Dirs /\ dirs \subseteq 1 .. Dirs /\ ready \subseteq Procs
          /\ settled \subseteq Keys /\ ops \in Nat /\ faults \in Nat
      BY <3>1 DEF Init
    <3>3. seen \in [Procs -> SUBSET Stores] /\ disk = file
      BY DEF Init
    <3> QED
      BY <2>1, <3>2, <3>3 DEF TypeOK, Steps, Tasks, Mems
<1>2. Exclusive
  BY DEF Init, Exclusive, Locked, ParamsAssumption
<1>3. Durable
  BY DEF Init, Durable, On
<1>4. \A p \in Procs : Own(p)
  BY DEF Init, Own, Asked, Copying, Reading, Returned, NoTask
<1> QED
  BY <1>1, <1>2, <1>3, <1>4 DEF IInv

\* What a step may do to the store: UpdatesAreWhole of one step.
Whole == Visible' # Visible =>
            \/ \E p \in Procs : LET t == task[p] IN
                 \/ pc[p] = "rename" /\ Visible' = [Visible EXCEPT ![t.key] = t.val]
                 \/ pc[p] = "switch" /\ Visible' = Without(Visible, t.del \cup mem[p].unread)
                 \/ pc[p] = "wipe"
            \/ PowerFails

\* Every step keeps the invariant and changes the store as it may.
LEMMA StepKeeps == IInv /\ [Next]_vars => IInv' /\ Whole
<1> SUFFICES ASSUME IInv, [Next]_vars PROVE IInv' /\ Whole
  OBVIOUS
<1>1. ASSUME NEW p \in Procs, Begin(p) PROVE IInv' /\ Whole
  BY <1>1, BeginKeeps DEF Whole
<1>2. ASSUME NEW p \in Procs, Write(p) PROVE IInv' /\ Whole
  <2>1. CASE LockPut(p) \/ Enter(p)
    BY <2>1, LockingKeeps DEF Whole
  <2>2. CASE PutRename(p)
    <3>1. pc[p] = "rename"
      BY <2>2 DEF PutRename
    <3> QED
      BY <2>2, <3>1, PutRenameKeeps DEF Whole
  <2>3. CASE PutSync(p)
    BY <2>3, PutSyncKeeps DEF Whole
  <2>4. CASE Copy(p)
    BY <2>4, CopyKeeps DEF Whole
  <2>5. CASE Switch(p)
    <3>1. pc[p] = "switch"
      BY <2>5 DEF Switch
    <3> QED
      BY <2>5, <3>1, SwitchKeeps DEF Whole
  <2>6. CASE SyncLink(p)
    BY <2>6, SyncLinkKeeps DEF Whole
  <2>7. CASE RemoveOld(p)
    BY <2>7, RemoveOldKeeps DEF Whole
  <2>8. CASE Wipe(p)
    <3>1. pc[p] = "wipe"
      BY <2>8 DEF Wipe
    <3> QED
      BY <2>8, <3>1, WipeKeeps DEF Whole
  <2>9. CASE Wiped(p)
    BY <2>9, LeavingKeeps DEF Whole
  <2> QED
    BY <1>2, <2>1, <2>2, <2>3, <2>4, <2>5, <2>6, <2>7, <2>8, <2>9 DEF Write
<1>3. ASSUME NEW p \in Procs, Read(p) PROVE IInv' /\ Whole
  <2>1. CASE Resolve(p) \/ OpenFile(p)
    BY <2>1, GettingKeeps DEF Whole
  <2>2. CASE LockSnapshot(p)
    BY <2>2, LockingKeeps DEF Whole
  <2>3. CASE ReadKey(p)
    BY <2>3, ReadingKeeps DEF Whole
  <2> QED
    BY <1>3, <2>1, <2>2, <2>3 DEF Read
<1>4. ASSUME NEW p \in Procs, CopyFails(p) \/ ReadFails(p) \/ Kill(p) PROVE IInv' /\ Whole
  BY <1>4, CopyFailsKeeps, ReadFailsKeeps, LeavingKeeps DEF Whole
<1>5. CASE PowerFails
  BY <1>5, PowerFailsKeeps DEF Whole
<1>6. CASE UNCHANGED vars
  <2>1. UNCHANGED <<lock, holder, link, synced, dirs, file, disk, pc, task, ready, mem, got, seen,
                    settled, ops, faults>>
    BY <1>6 DEF vars, locks, links, files, results, counts
  <2>2. Visible' = Visible /\ TypeOK' /\ Exclusive' /\ Durable'
    BY <2>1 DEF IInv, TypeOK, Exclusive, Durable, On, Loose, Visible
  <2>3. \A p \in Procs : Own(p)'
    BY <2>1, AllKeep
  <2> QED
    BY <2>2, <2>3 DEF IInv, Whole
<1> QED
  BY <1>1, <1>2, <1>3, <1>4, <1>5, <1>6 DEF Next

\* The invariant holds, whoever is killed and whenever the power fails.
THEOREM Invariance == Spec => []IInv
BY InitIInv, StepKeeps, PTL DEF Spec

\* Every variable keeps its type.
THEOREM TypeCorrect == Spec => []TypeOK
<1>1. IInv => TypeOK
  BY DEF IInv
<1> QED
  BY <1>1, Invariance, PTL

\* A put or a transaction that has returned survives a power failure, but for Loose
\* (params.py:380-384).
THEOREM UpdatesAreDurable == Spec => []ReturnedIsDurable
<1>1. IInv => ReturnedIsDurable
  BY DEF IInv, Durable, On, ReturnedIsDurable
<1> QED
  BY <1>1, Invariance, PTL

\* What a get or a snapshot returns the store had while it ran, of which an error may have
\* left out keys (params.py:157-200, 297-303).
THEOREM ReadersSeeTheStore == Spec => []ReadsAreCurrent
<1>1. IInv => ReadsAreCurrent
  BY DEF IInv, Own, Returned, ReadsAreCurrent
<1> QED
  BY <1>1, Invariance, PTL

\* No update of one process loses that of another, whoever dies, but for the keys that a
\* transaction could not read (params.py:166-172, 202-295).
THEOREM NoUpdateIsLost == Spec => UpdatesAreWhole
<1>1. Whole => (Visible' # Visible =>
         \/ \E p \in Procs : LET t == task[p] IN
              \/ pc[p] = "rename" /\ Visible' = [Visible EXCEPT ![t.key] = t.val]
              \/ pc[p] = "switch" /\ Visible' = Without(Visible, t.del \cup mem[p].unread)
              \/ pc[p] = "wipe"
         \/ PowerFails)
  BY DEF Whole
<1> QED
  BY <1>1, Invariance, StepKeeps, PTL DEF Spec, UpdatesAreWhole

=============================================================================
