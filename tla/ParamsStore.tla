----------------------------- MODULE ParamsStore -----------------------------
(***************************************************************************)
(* The parameter store (common/params.py): a directory with a writer lock, *)
(* in which `d' is a symbolic link to the directory that holds one file    *)
(* per key.  Processes put a key in place, run transactions that copy      *)
(* every key to a new directory and switch the link, take snapshots under  *)
(* the lock, and get single keys without it.  A process may be killed at   *)
(* any step and the power may fail at any step.                            *)
(*                                                                         *)
(* Abstractions.  Encoding, permissions and umask are left out, and so are *)
(* the temporary files of put, which no reader can see.  What is written   *)
(* and not yet synced survives a power failure or does not.  clear_all     *)
(* takes no lock to remove the store; it runs here while no other process  *)
(* uses it (nothing in the repository calls it).  A put whose temporary    *)
(* file cannot be written, and a lock file that cannot be opened, raise    *)
(* before anything has changed, and are left out.                          *)
(***************************************************************************)
EXTENDS Naturals, FiniteSets

CONSTANTS Procs, Keys,
          Temporary,    \* the keys that manager_start or panda_disconnect clears
          Vals, None,
          Dirs,         \* bound on the directories that exist at a time
          Ops,          \* bound on the operations
          Faults        \* bound on kills, errors of reads and writes, and power failures

ASSUME ParamsAssumption ==
    /\ Temporary \subseteq Keys /\ None \notin Vals \cup Procs \cup Keys
    /\ Dirs \in Nat /\ Ops \in Nat /\ Faults \in Nat

VARIABLES
  lock, holder,     \* whether .lock exists, the process that has it
  link, synced,     \* the directory `d' leads to (0: none), and after a power failure
  dirs, file, disk, \* the directories, their files, and their files on the disk
  pc, task, ready,  \* where a process is, with what, and whether it has a Params
  mem,              \* a transaction's values, the keys it could not read, its directory
                    \* and the one it replaces;
                    \* the directory a reader is at
  got, seen,        \* what a reader returned, and what the store was meanwhile
  settled,          \* the keys whose last update has returned
  ops, faults

locks == <<lock, holder>>
links == <<link, synced>>
files == <<dirs, file, disk>>
results == <<got, seen>>
counts == <<ops, faults>>
vars == <<locks, links, files, pc, task, ready, mem, results, settled, counts>>

Empty == [k \in Keys |-> None]
NoMem == [vals |-> Empty, unread |-> {}, new |-> 0, old |-> 0, at |-> 0]
NoTask == [key |-> None, val |-> None, del |-> {}, block |-> FALSE]

\* What the store holds, for someone who opens d/<key> now.
Visible == IF link \in dirs THEN file[link] ELSE Empty

\* A store without some keys.
Without(store, gone) == [k \in Keys |-> IF k \in gone THEN None ELSE store[k]]

\* _read_values_locked swallows every error but ENOENT: the loop over the files ends, and
\* the caller gets the keys read so far.  What it may leave unread:
Unreadable == IF faults < Faults THEN SUBSET {k \in Keys : Visible[k] # None} ELSE {{}}

\* The keys a transaction takes away: those it deletes, and those it could not read.
Dropped(p) == task[p].del \cup mem[p].unread

Init == /\ lock = FALSE /\ holder = None /\ link = 0 /\ synced = 0
        /\ dirs = {} /\ file = [d \in 1 .. Dirs |-> Empty] /\ disk = file
        /\ pc = [p \in Procs |-> "idle"] /\ task = [p \in Procs |-> NoTask]
        /\ ready = {} /\ settled = {} /\ ops = 0 /\ faults = 0
        /\ mem = [p \in Procs |-> NoMem]
        /\ got = [p \in Procs |-> Empty] /\ seen = [p \in Procs |-> {}]

GoTo(p, step) == pc' = [pc EXCEPT ![p] = step]

\* A process is through with what it did; the lock it may have is free.
End(p) == /\ GoTo(p, "idle") /\ mem' = [mem EXCEPT ![p] = NoMem]
          /\ holder' = (IF holder = p THEN None ELSE holder) /\ UNCHANGED lock

\* What the store has been while a get is under way, after a step that changes it.
Witness == seen' = [p \in Procs |-> IF pc[p] \in {"resolve", "open"} THEN seen[p] \cup {Visible'}
                                         ELSE seen[p]]

----------------------------------------------------------------------------
(* The operations begin. *)

Start(p, step, t) ==
    /\ pc[p] = "idle" /\ ops < Ops
    /\ \A q \in Procs : pc[q] # "wipe"
    /\ ops' = ops + 1
    /\ GoTo(p, step) /\ task' = [task EXCEPT ![p] = t]
    /\ got' = [got EXCEPT ![p] = Empty]
    /\ seen' = [seen EXCEPT ![p] = IF step = "resolve" THEN {Visible} ELSE {}]
    /\ UNCHANGED <<locks, links, files, mem, settled, faults>>

\* Params(): an empty transaction if `d' leads nowhere yet.
Open(p) == /\ p \notin ready /\ ready' = ready \cup {p}
           /\ IF link \notin dirs THEN Start(p, "enter", NoTask)
              ELSE UNCHANGED <<locks, links, files, pc, task, mem, results, settled, counts>>

BeginPut(p) == /\ p \in ready /\ UNCHANGED ready
               /\ \E k \in Keys, v \in Vals : Start(p, "lock", [NoTask EXCEPT !.key = k, !.val = v])

\* What goes together: a key that is deleted, or the keys of one TxType.
Deletions == {{k} : k \in Keys} \cup {Temporary}

\* delete(key); manager_start() and panda_disconnect().
BeginDelete(p) == /\ p \in ready /\ UNCHANGED ready
                  /\ \E gone \in Deletions :
                       Start(p, "enter", [NoTask EXCEPT !.del = gone])

BeginGet(p) == /\ p \in ready /\ UNCHANGED ready
               /\ \E k \in Keys, b \in BOOLEAN : Start(p, "resolve", [NoTask EXCEPT !.key = k, !.block = b])

\* DBReader: without a lock file there is nothing to read.
BeginSnapshot(p) == /\ p \in ready /\ UNCHANGED ready
                    /\ Start(p, IF lock THEN "snapshot" ELSE "idle", NoTask)

BeginClearAll(p) == /\ p \in ready /\ UNCHANGED ready
                    /\ \A q \in Procs : pc[q] = "idle"
                    /\ Start(p, "wipe", NoTask)

----------------------------------------------------------------------------
(* Writers. *)

\* flock on .lock, created if need be.
Acquire(p) == /\ holder = None /\ holder' = p /\ lock' = TRUE

LockPut(p) == /\ pc[p] = "lock" /\ Acquire(p) /\ GoTo(p, "rename")
              /\ UNCHANGED <<links, files, task, ready, mem, results, settled, counts>>

\* The file, written and synced aside, takes the place of d/<key>; without `d' that fails.
PutRename(p) ==
    /\ pc[p] = "rename"
    /\ IF link \notin dirs
       THEN /\ End(p) /\ UNCHANGED <<files, settled>>
       ELSE /\ file' = [file EXCEPT ![link][task[p].key] = task[p].val]
            /\ settled' = settled \ {task[p].key}
            /\ GoTo(p, "syncdir") /\ UNCHANGED <<dirs, disk, mem, locks>>
    /\ UNCHANGED <<links, task, ready, got, counts>>
    /\ Witness

\* A mutant: the directory is not synced.
PutNoSync(p) == /\ pc[p] = "syncdir" /\ settled' = settled \cup {task[p].key} /\ End(p)
                /\ UNCHANGED <<links, files, task, ready, results, counts>>

\* fsync of the directory, and the lock is released.
PutSync(p) == /\ pc[p] = "syncdir"
              /\ disk' = [disk EXCEPT ![link] = file[link]]
              /\ settled' = settled \cup {task[p].key}
              /\ End(p)
              /\ UNCHANGED <<links, dirs, file, task, ready, results, counts>>

\* A mutant: the keys are read before the lock is taken.
EnterUnlocked(p) ==
    /\ pc[p] = "enter"
    /\ IF mem[p] = NoMem
       THEN /\ UNCHANGED <<pc, locks>>
            /\ mem' = [mem EXCEPT ![p].vals = Without(Visible, task[p].del), ![p].at = 1]
       ELSE Acquire(p) /\ GoTo(p, "copy") /\ UNCHANGED mem
    /\ UNCHANGED <<links, files, task, ready, results, settled, counts>>

\* DBWriter.__enter__: the lock, then every key it can read; txn.delete of the keys asked.
Enter(p) == /\ pc[p] = "enter" /\ Acquire(p) /\ GoTo(p, "copy")
            /\ \E unread \in Unreadable :
                 /\ mem' = [mem EXCEPT ![p].vals = Without(Visible, task[p].del \cup unread),
                                       ![p].unread = unread]
                 /\ faults' = IF unread = {} THEN faults ELSE faults + 1
            /\ UNCHANGED <<links, files, task, ready, results, settled, ops>>

\* A directory with a name nobody uses, with every key left, all of it synced.
Copy(p) ==
    /\ pc[p] = "copy"
    /\ LET free == {d \in 1 .. Dirs : /\ d \notin dirs \cup {link, synced}
                                      /\ \A q \in Procs : pc[q] = "open" => mem[q].at # d}
           d == CHOOSE f \in free : TRUE
       IN
         /\ free # {} /\ dirs' = dirs \cup {d}
         /\ file' = [file EXCEPT ![d] = mem[p].vals] /\ disk' = [disk EXCEPT ![d] = mem[p].vals]
         /\ mem' = [mem EXCEPT ![p].new = d, ![p].old = link]
    /\ GoTo(p, "switch")
    /\ UNCHANGED <<locks, links, task, ready, results, settled, counts>>

\* A write fails (no space): the copy is removed and the transaction raises.
CopyFails(p) == /\ pc[p] = "switch" /\ faults < Faults /\ faults' = faults + 1
                /\ dirs' = dirs \ {mem[p].new} /\ file' = [file EXCEPT ![mem[p].new] = Empty]
                /\ End(p)
                /\ UNCHANGED <<links, disk, task, ready, results, settled, ops>>

Switch(p) == /\ pc[p] = "switch"
             /\ link' = mem[p].new /\ GoTo(p, "synclink")
             /\ settled' = settled \ Dropped(p)
             /\ UNCHANGED <<locks, synced, files, task, ready, mem, got, counts>>
             /\ Witness

SyncLink(p) == /\ pc[p] = "synclink"
               /\ synced' = link /\ GoTo(p, "remove")
               /\ UNCHANGED <<locks, link, files, task, ready, mem, results, settled, counts>>

\* The old directory goes, and the lock is released.
RemoveOld(p) == /\ pc[p] = "remove"
                /\ dirs' = dirs \ {mem[p].old}
                /\ file' = [d \in 1 .. Dirs |-> IF d = mem[p].old THEN Empty ELSE file[d]]
                /\ settled' = settled \cup Dropped(p)
                /\ End(p)
                /\ UNCHANGED <<links, disk, task, ready, results, counts>>

\* clear_all: rmtree, in the order the directory lists its entries; then an empty transaction.
Wipe(p) ==
    /\ pc[p] = "wipe"
    /\ \/ \E d \in dirs, k \in Keys :
            /\ file[d][k] # None /\ file' = [file EXCEPT ![d][k] = None]
            /\ UNCHANGED <<lock, link, dirs>>
       \/ \E d \in dirs : /\ file[d] = Empty /\ dirs' = dirs \ {d} /\ UNCHANGED <<lock, link, file>>
       \/ link # 0 /\ link' = 0 /\ UNCHANGED <<lock, dirs, file>>
       \/ lock /\ lock' = FALSE /\ UNCHANGED <<link, dirs, file>>
    /\ settled' = {}
    /\ UNCHANGED <<holder, synced, disk, pc, task, ready, mem, got, counts>>
    /\ Witness

Wiped(p) == /\ pc[p] = "wipe" /\ dirs = {} /\ link = 0 /\ ~lock
            /\ GoTo(p, "enter")
            /\ UNCHANGED <<locks, links, files, task, ready, mem, results, settled, counts>>

----------------------------------------------------------------------------
(* Readers. *)

\* get: the kernel follows the link, then opens the file in that directory.
Resolve(p) == /\ pc[p] = "resolve"
              /\ mem' = [mem EXCEPT ![p].at = link] /\ GoTo(p, "open")
              /\ UNCHANGED <<locks, links, files, task, ready, results, settled, counts>>

\* A mutant: a blocking get keeps the directory it found at first.
OpenFileAgain(p) ==
    /\ pc[p] = "open"
    /\ LET d == mem[p].at
           found == IF d \in dirs THEN file[d][task[p].key] ELSE None
       IN  /\ got' = [got EXCEPT ![p][task[p].key] = found]
           /\ IF found = None /\ task[p].block THEN UNCHANGED <<pc, locks, mem>> ELSE End(p)
    /\ UNCHANGED <<links, files, task, ready, seen, settled, counts>>

\* A mutant: a snapshot without the lock.
SnapshotUnlocked(p) == /\ pc[p] = "snapshot" /\ GoTo(p, "read") /\ UNCHANGED locks
                       /\ task' = [task EXCEPT ![p].del = Keys]
                       /\ seen' = [seen EXCEPT ![p] = {Visible}]
                       /\ UNCHANGED <<links, files, ready, mem, got, settled, counts>>

\* A blocking get polls until there is a file.
OpenFile(p) ==
    /\ pc[p] = "open"
    /\ LET d == mem[p].at
           found == IF d \in dirs THEN file[d][task[p].key] ELSE None
       IN  /\ got' = [got EXCEPT ![p][task[p].key] = found]
           /\ IF found = None /\ task[p].block THEN GoTo(p, "resolve") /\ UNCHANGED <<locks, mem>>
              ELSE End(p)
    /\ UNCHANGED <<links, files, task, ready, seen, settled, counts>>

LockSnapshot(p) == /\ pc[p] = "snapshot" /\ Acquire(p) /\ GoTo(p, "read")
                   /\ task' = [task EXCEPT ![p].del = Keys]
                   /\ seen' = [seen EXCEPT ![p] = {Visible}]
                   /\ UNCHANGED <<links, files, ready, mem, got, settled, counts>>

\* One file after another, in any order.
ReadKey(p) == /\ pc[p] = "read"
              /\ \E k \in task[p].del :
                   /\ got' = [got EXCEPT ![p][k] = Visible[k]]
                   /\ task' = [task EXCEPT ![p].del = @ \ {k}]
                   /\ IF task[p].del = {k} THEN End(p)
                      ELSE UNCHANGED <<pc, mem, locks>>
              /\ UNCHANGED <<links, files, ready, seen, settled, counts>>

\* A file cannot be read: a snapshot is what was read before, a get finds nothing.
ReadFails(p) == /\ faults < Faults /\ faults' = faults + 1
                /\ \/ pc[p] = "read" /\ End(p)
                   \/ pc[p] = "open" /\ ~task[p].block /\ End(p)
                   \/ pc[p] = "open" /\ task[p].block /\ GoTo(p, "resolve") /\ UNCHANGED <<locks, mem>>
                /\ UNCHANGED <<links, files, task, ready, results, settled, ops>>

----------------------------------------------------------------------------
(* Faults. *)

\* A process dies: the kernel frees its lock, its files stay.
Kill(p) == /\ pc[p] # "idle" /\ faults < Faults /\ faults' = faults + 1
           /\ End(p) /\ ready' = ready \ {p}
           /\ got' = [got EXCEPT ![p] = Empty]
           /\ UNCHANGED <<links, files, task, seen, settled, ops>>

\* A writer died after it switched the link and before it synced it: the store a power
\* failure brings back is none that the process now at work knows of.
Loose == link # synced /\ \A p \in Procs : ~(pc[p] = "synclink" /\ mem[p].old = synced)

\* settled keeps the keys whose value must be there again.
PowerFails ==
    /\ faults < Faults /\ faults' = faults + 1
    /\ pc' = [p \in Procs |-> "idle"] /\ holder' = None /\ ready' = {}
    /\ got' = [p \in Procs |-> Empty] /\ mem' = [p \in Procs |-> NoMem]
    /\ \E d \in {link, synced} :
         /\ link' = d /\ synced' = d
         /\ IF d = 0 THEN UNCHANGED files
            ELSE \E lost \in SUBSET Keys :
                   /\ file' = [file EXCEPT ![d] = [k \in Keys |-> IF k \in lost THEN disk[d][k] ELSE @[k]]]
                   /\ disk' = [disk EXCEPT ![d] = file'[d]] /\ dirs' = dirs \cup {d}
    /\ settled' = (IF Loose THEN {} ELSE settled)
    /\ UNCHANGED <<lock, task, seen, ops>>

Begin(p) == \/ Open(p) \/ BeginPut(p) \/ BeginDelete(p) \/ BeginGet(p)
            \/ BeginSnapshot(p) \/ BeginClearAll(p)

Write(p) == \/ LockPut(p) \/ PutRename(p) \/ PutSync(p)
            \/ Enter(p) \/ Copy(p) \/ Switch(p) \/ SyncLink(p) \/ RemoveOld(p)
            \/ Wipe(p) \/ Wiped(p)

Read(p) == Resolve(p) \/ OpenFile(p) \/ LockSnapshot(p) \/ ReadKey(p)

Next == \/ \E p \in Procs : Begin(p) \/ Write(p) \/ Read(p) \/ CopyFails(p)
                              \/ ReadFails(p) \/ Kill(p)
        \/ PowerFails

\* A process that is not killed goes on with what it has begun.
Fairness == \A p \in Procs : WF_vars(Write(p) \/ Read(p))

Spec == Init /\ [][Next]_vars
FairSpec == Spec /\ Fairness

----------------------------------------------------------------------------
(* Properties. *)

Stores == [Keys -> Vals \cup {None}]

TypeOK ==
    /\ lock \in BOOLEAN /\ holder \in Procs \cup {None}
    /\ link \in 0 .. Dirs /\ synced \in 0 .. Dirs /\ dirs \subseteq 1 .. Dirs
    /\ file \in [1 .. Dirs -> Stores] /\ disk \in [1 .. Dirs -> Stores]
    /\ pc \in [Procs -> {"idle", "lock", "rename", "syncdir", "enter", "copy", "switch", "synclink",
                         "remove", "wipe", "resolve", "open", "snapshot", "read"}]
    /\ task \in [Procs -> [key : Keys \cup {None}, val : Vals \cup {None}, del : SUBSET Keys,
                           block : BOOLEAN]]
    /\ mem \in [Procs -> [vals : Stores, unread : SUBSET Keys, new : 0 .. Dirs, old : 0 .. Dirs, at : 0 .. Dirs]]
    /\ got \in [Procs -> Stores] /\ seen \in [Procs -> SUBSET Stores]
    /\ ready \subseteq Procs /\ settled \subseteq Keys /\ ops \in Nat /\ faults \in Nat

\* A change that anyone can see is one key put, or exactly the keys a transaction deletes
\* or could not read, even after kills: a transaction that works on a copy of the store,
\* taken earlier, loses no put of another process.  But it writes back only what it read
\* (params.py:166-172, 255): a key whose file gave an error is gone from the store.  Only
\* clear_all and a power failure do more.
UpdatesAreWhole ==
    [][Visible' # Visible =>
         \/ \E p \in Procs : LET t == task[p] IN
              \/ pc[p] = "rename" /\ Visible' = [Visible EXCEPT ![t.key] = t.val]
              \/ pc[p] = "switch" /\ Visible' = Without(Visible, t.del \cup mem[p].unread)
              \/ pc[p] = "wipe"
         \/ PowerFails]_vars

\* "Blocks until the param is written to disk" (put): an update that has returned
\* survives a power failure at any moment, whatever other writers are in the middle of.
\* The exception is Loose: the next put syncs the new directory and not the link to it.
ReturnedIsDurable ==
    Loose \/ \A k \in settled, d \in {link, synced} :
                d # 0 /\ file[d][k] = Visible[k] /\ disk[d][k] = Visible[k]

\* What get returns is a value the key had while it ran, also when the link was switched
\* and the directory removed under it; it may also find no file (see the README).  A
\* snapshot of several keys is one state of the store; of which it has, after an error, only
\* the keys read before (params.py:166-172), those the task has no more to read.
ReadsAreCurrent ==
    \A p \in Procs : pc[p] = "idle" =>
       IF task[p].key = None
       THEN \/ got[p] = Empty
            \/ \E store \in seen[p] : /\ got[p] = Without(store, task[p].del)
                                      /\ task[p].del # {} => faults # 0
       ELSE LET k == task[p].key
            IN got[p][k] = None \/ \E store \in seen[p] : store[k] = got[p][k]

\* Everything returns, whoever is killed holding the lock; a blocking get does unless
\* its key is absent time and again.
OpsEnd == \A p \in Procs :
            []<>(pc[p] = "idle" \/ (task[p].block /\ Visible[task[p].key] = None))
=============================================================================
