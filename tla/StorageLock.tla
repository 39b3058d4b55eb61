---------------------------- MODULE StorageLock ----------------------------
(***************************************************************************)
(* CompositeLocker over InMemoryLocker and FileLocker                      *)
(* (internal/storage/locker_composite.go, locker_inmemory.go,              *)
(* locker_file.go), for one key: the lock of a session or of a task's log, *)
(* taken by the goroutines of several processes.  Within a process they    *)
(* queue at a semaphore, kept in a table with a count of its users; between *)
(* processes they create a lock file.  A holder touches the file again and *)
(* again; one that has not been touched for staleAfter is taken for that   *)
(* of a dead process, and removed.                                         *)
(*                                                                         *)
(* Time is left out: a file that nobody keeps touching may go stale at any *)
(* moment.  A file is identified with the call that created it, and so is  *)
(* an entry of the table, because each call creates at most one of each.   *)
(***************************************************************************)
EXTENDS Integers, FiniteSets

CONSTANTS
  Processes,
  Calls,          \* the LockSession or LockTask calls for the key
  ProcessOf,      \* the process that makes each call
  Crashable,      \* the processes that may die
  Stallable,      \* those that may stand still for longer than staleAfter
  CtxMayExpire,   \* TRUE iff the contexts of the calls may end
  FsMayFail,      \* TRUE iff file operations may return errors
  None

ASSUME CallsAssumption == IsFiniteSet(Calls) /\ None \notin Calls
ASSUME ProcessAssumption == /\ ProcessOf \in [Calls -> Processes]
                            /\ Crashable \subseteq Processes

VARIABLES
  pc,             \* where each call is
  table,          \* InMemoryLocker.locks[key] of each process, or None
  entry,          \* the entry each call has got from the table, or None
  sem,            \* is the semaphore of the entry taken?
  refCount,       \* refCount of the entry
  file,           \* the lock file: who created it, or None
  stale           \* is its modification time older than staleAfter?

memory == <<table, entry, sem, refCount>>
disk   == <<file, stale>>
vars   == <<pc, memory, disk>>

Goto(c, at) == pc' = [pc EXCEPT ![c] = at]
At(c, here) == pc[c] = here

Init == /\ pc = [c \in Calls |-> "idle"]
        /\ table = [p \in Processes |-> None]
        /\ entry = [c \in Calls |-> None]
        /\ sem = [e \in Calls |-> FALSE]
        /\ refCount = [e \in Calls |-> 0]
        /\ file = None /\ stale = FALSE

-----------------------------------------------------------------------------
(* InMemoryLocker. *)

\* Mutant: the entry is looked up and left to whoever comes first.
MutantOwnEntry(c) == c

\* The entry acquireEntry finds, or makes.
Entry(c) == IF table[ProcessOf[c]] = None THEN c ELSE table[ProcessOf[c]]

AcquireEntry(c) ==
  /\ At(c, "idle")
  /\ table' = [table EXCEPT ![ProcessOf[c]] = Entry(c)]
  /\ entry' = [entry EXCEPT ![c] = Entry(c)]
  /\ refCount' = [refCount EXCEPT ![Entry(c)] = @ + 1]
  /\ Goto(c, "queued")
  /\ UNCHANGED <<sem, disk>>

TakeSem(c) ==
  /\ At(c, "queued") /\ ~sem[entry[c]]
  /\ sem' = [sem EXCEPT ![entry[c]] = TRUE]
  /\ Goto(c, "opening")
  /\ UNCHANGED <<table, entry, refCount, disk>>

QueueCtxDone(c) ==
  /\ CtxMayExpire /\ At(c, "queued")
  /\ Goto(c, "releasing")
  /\ UNCHANGED <<memory, disk>>

\* The primary unlock, first half.
FreeSem(c) ==
  /\ At(c, "freeing")
  /\ sem' = [sem EXCEPT ![entry[c]] = FALSE]
  /\ Goto(c, "releasing")
  /\ UNCHANGED <<table, entry, refCount, disk>>

\* Mutant: an entry that others wait for is deleted.
MutantUnusedIfFree(e) == ~sem[e]

\* May releaseEntry delete the entry, whose count it has just decremented?
Unused(e) == refCount[e] - 1 <= 0 /\ ~sem[e]

ReleaseEntry(c) ==
  LET p == ProcessOf[c]
      e == table[p]
  IN /\ At(c, "releasing")
     /\ IF e = None
        THEN UNCHANGED <<table, refCount>>
        ELSE /\ refCount' = [refCount EXCEPT ![e] = @ - 1]
             /\ table' = IF Unused(e) THEN [table EXCEPT ![p] = None] ELSE table
     /\ entry' = [entry EXCEPT ![c] = None]
     /\ Goto(c, "done")
     /\ UNCHANGED <<sem, disk>>

-----------------------------------------------------------------------------
(* FileLocker. *)

\* O_CREATE|O_EXCL
Create(c) ==
  /\ At(c, "opening") /\ file = None
  /\ file' = c /\ stale' = FALSE
  /\ Goto(c, "created")
  /\ UNCHANGED memory

Exists(c) ==
  /\ At(c, "opening") /\ file # None
  /\ Goto(c, "stating")
  /\ UNCHANGED <<memory, disk>>

\* os.Remove(path): whichever file is there.
Removed == file' = None /\ stale' = FALSE

\* The file is written and touched, and its heartbeat starts.
Write(c) ==
  /\ At(c, "created")
  /\ stale' = FALSE
  /\ Goto(c, "holding")
  /\ UNCHANGED <<memory, file>>

WriteFails(c) ==
  /\ FsMayFail /\ At(c, "created")
  /\ Removed
  /\ Goto(c, "freeing")
  /\ UNCHANGED memory

\* os.Chtimes(path, now, now)
Heartbeat(c) ==
  /\ At(c, "holding")
  /\ stale' = FALSE
  /\ UNCHANGED <<pc, memory, file>>

\* Mutant: a lock file is reclaimed although its holder touches it.
MutantAlwaysStale == file # None

\* Mutant: no lock file is ever reclaimed.
MutantNeverStale == FALSE

\* isStaleLock of what os.Stat has found
IsStale == file # None /\ stale

\* tryReclaimStaleLock, up to its decision: it removes the file, or there is
\* none any more, or the call has to wait.
Stat(c) ==
  /\ At(c, "stating")
  /\ \/ IsStale /\ Goto(c, "removing")
     \/ file = None /\ Goto(c, "opening")
     \/ file # None /\ ~IsStale /\ Goto(c, "polling")
  /\ UNCHANGED <<memory, disk>>

Reclaim(c) ==
  /\ At(c, "removing")
  /\ Removed
  /\ Goto(c, "opening")
  /\ UNCHANGED memory

\* After pollInterval.
Poll(c) ==
  /\ At(c, "polling")
  /\ Goto(c, "opening")
  /\ UNCHANGED <<memory, disk>>

\* The secondary lock has failed, and the composite gives up the primary.
FileLockFails(c) ==
  /\ \/ CtxMayExpire /\ At(c, "polling")
     \/ FsMayFail /\ pc[c] \in {"opening", "stating", "removing"}
  /\ Goto(c, "freeing")
  /\ UNCHANGED <<memory, disk>>

\* The holder unlocks, and its heartbeat stops ...
Unlock(c) ==
  /\ At(c, "holding")
  /\ Goto(c, "unlinking")
  /\ UNCHANGED <<memory, disk>>

\* Mutant: the file is left for others to reclaim.
MutantLeaveFile == UNCHANGED disk

Unlinked == Removed

\* ... the file is removed, if that does not fail, and then the primary lock
\* is given up anyway.
Unlink(c) ==
  /\ At(c, "unlinking")
  /\ Unlinked \/ (FsMayFail /\ UNCHANGED disk)
  /\ Goto(c, "freeing")
  /\ UNCHANGED memory

-----------------------------------------------------------------------------
(* The environment. *)

\* Does c touch the file in time?
KeepsFresh(c) == /\ pc[c] \in {"created", "holding", "unlinking"}
                 /\ ProcessOf[c] \notin Stallable

\* staleAfter passes.
GoStale ==
  /\ file # None /\ ~stale
  /\ \A c \in Calls : ~KeepsFresh(c)
  /\ stale' = TRUE
  /\ UNCHANGED <<pc, memory, file>>

Crash(p) ==
  /\ p \in Crashable
  /\ \E c \in Calls : ProcessOf[c] = p /\ pc[c] \notin {"idle", "done", "dead"}
  /\ pc' = [c \in Calls |-> IF ProcessOf[c] = p THEN "dead" ELSE pc[c]]
  /\ table' = [table EXCEPT ![p] = None]
  /\ entry' = [c \in Calls |-> IF ProcessOf[c] = p THEN None ELSE entry[c]]
  /\ UNCHANGED <<sem, refCount, disk>>

MemoryStep(c) == AcquireEntry(c) \/ TakeSem(c) \/ QueueCtxDone(c) \/ FreeSem(c) \/ ReleaseEntry(c)
FileStep(c)   == \/ Create(c) \/ Exists(c) \/ Write(c) \/ WriteFails(c) \/ Stat(c) \/ Reclaim(c)
                 \/ Poll(c) \/ FileLockFails(c) \/ Unlock(c) \/ Unlink(c)

Next == \/ \E c \in Calls : MemoryStep(c) \/ FileStep(c) \/ Heartbeat(c)
        \/ GoStale
        \/ \E p \in Processes : Crash(p)

SafeSpec == Init /\ [][Next]_vars

\* Goroutines are scheduled, those that hold the lock give it back, and time
\* passes.
Spec == /\ SafeSpec
        /\ \A c \in Calls : /\ WF_vars(pc[c] # "idle" /\ MemoryStep(c))
                            /\ WF_vars(FileStep(c))
        /\ WF_vars(GoStale)

-----------------------------------------------------------------------------
(* Properties. *)

\* Every variable has its type.
TypeOK ==
  /\ pc \in [Calls -> {"idle", "queued", "opening", "created", "holding", "stating", "removing",
                       "polling", "unlinking", "freeing", "releasing", "done", "dead"}]
  /\ table \in [Processes -> Calls \cup {None}]
  /\ entry \in [Calls -> Calls \cup {None}]
  /\ sem \in [Calls -> BOOLEAN]
  /\ refCount \in [Calls -> Nat]
  /\ file \in Calls \cup {None}
  /\ stale \in BOOLEAN

\* The calls that have passed the semaphore of their process, up to its release.
Passed == {"opening", "created", "holding", "stating", "removing", "polling", "unlinking", "freeing"}

UsesEntry(c) == pc[c] \in Passed \cup {"queued", "releasing"}

Users(e) == {c \in Calls : entry[c] = e /\ UsesEntry(c)}

\* With the types: whoever uses an entry finds the same one in the table, its
\* count is that of its users, and it is removed with the last of them: so no
\* two goroutines of a process queue at different semaphores, and the table does
\* not grow.
EntriesShared ==
  /\ TypeOK
  /\ \A c \in Calls : UsesEntry(c) => entry[c] # None /\ table[ProcessOf[c]] = entry[c]
  /\ \A p \in Processes : table[p] # None => /\ refCount[table[p]] = Cardinality(Users(table[p]))
                                             /\ refCount[table[p]] > 0

NoTwoPassed == \A c, d \in Calls :
  pc[c] \in Passed /\ pc[d] \in Passed /\ ProcessOf[c] = ProcessOf[d] => c = d

SemaphoreBack == \A p \in Processes :
  table[p] # None /\ sem[table[p]] => \E c \in Calls : pc[c] \in Passed /\ entry[c] = table[p]

\* At most one goroutine of a process is past its semaphore, whatever happens
\* to files and to other processes; and it is given back by each, also by one
\* that did not get the lock file, so that the others of the process can go on.
OnePerProcess == NoTwoPassed /\ SemaphoreBack

\* At most one call holds the lock, in all processes.
OneHolder == \A c, d \in Calls : At(c, "holding") /\ At(d, "holding") => c = d

\* The lock file is that of a call that has the lock or is about to, or of one
\* whose process has died.
FileHasOwner == file # None => pc[file] \in {"created", "holding", "unlinking", "dead"}

\* The lock as its users see it.
PlaceAt == [idle |-> "out", holding |-> "in", dead |-> "dead",
            queued |-> "waiting", opening |-> "waiting", stating |-> "waiting",
            removing |-> "waiting", polling |-> "waiting", created |-> "waiting",
            unlinking |-> "left", freeing |-> "left", releasing |-> "left", done |-> "left"]

places == [c \in Calls |-> PlaceAt[pc[c]]]

Lock == INSTANCE Mutex WITH place <- places

\* It implements Mutex, with its progress: every call is let in or gives up,
\* also after the holder's process has died.
ImplementsMutex == Lock!Spec
=============================================================================
