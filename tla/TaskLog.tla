------------------------------ MODULE TaskLog ------------------------------
(***************************************************************************)
(* FileTaskStore (internal/storage/task_store.go): the log of one task, a  *)
(* file with a line for each record.  AppendLog writes under the task's    *)
(* lock, for which Mutex stands (StorageLock.tla implements it); readers   *)
(* take no lock and page through the file while it grows.                  *)
(*                                                                         *)
(* A line is two cells, its head and its tail with the newline, because a  *)
(* reader may see, and a crash or a failed write may leave, only part of   *)
(* it.  An offset counts cells.  Each record is appended by one call,      *)
(* named like the record.                                                  *)
(***************************************************************************)
EXTENDS Integers, Sequences, FiniteSets

CONSTANTS
  Records,        \* the records to append, and the AppendLog calls
  EventOf,        \* the event id of each record
  Readers,        \* the ReplayTaskLog calls
  PageSize,
  FsMayFail,      \* TRUE iff writes may fail, and leave part of a line
  MayCrash,       \* TRUE iff a process may die in the middle of a write
  CtxMayExpire    \* TRUE iff the contexts of the calls may end

ASSUME PageAssumption == PageSize \in Nat \ {0}

\* There are finitely many calls (for counting those that fail).
ASSUME RecordsAssumption == IsFiniteSet(Records)

VARIABLES
  file,           \* the cells of the file
  place,          \* where each call is with the lock, see Mutex
  appending,      \* where each call is with its append
  offsetOf,       \* the offset each call has found, and returns
  reader          \* where each reader is, and what it has

vars == <<file, place, appending, offsetOf, reader>>

Lock == INSTANCE Mutex WITH Calls <- Records

Idle == [at |-> "idle", offset |-> 0, next |-> 0, batch |-> <<>>, replayed |-> <<>>]

Init == /\ file = <<>>
        /\ Lock!Init
        /\ appending = [r \in Records |-> "locking"]
        /\ offsetOf = [r \in Records |-> 0]
        /\ reader = [d \in Readers |-> Idle]

-----------------------------------------------------------------------------
(* AppendLog. *)

AppendAt(r, at) == appending' = [appending EXCEPT ![r] = at]
Write(cell) == file' = Append(file, cell)

LockTask(r) == Lock!Ask(r) /\ UNCHANGED <<file, appending, offsetOf, reader>>

\* Mutant: the task is not locked.
MutantNoLock(r) == Lock!Goes(r, "waiting", "in")

Locked(r) == Lock!Enter(r)

\* The lock is granted, and the file is opened; or its context ends.
Open(r) ==
  /\ \/ Locked(r) /\ AppendAt(r, "seeking")
     \/ CtxMayExpire /\ Lock!GiveUp(r) /\ AppendAt(r, "failed")
  /\ UNCHANGED <<file, offsetOf, reader>>

Seek(r) ==
  /\ appending[r] = "seeking"
  /\ offsetOf' = [offsetOf EXCEPT ![r] = Len(file)]
  /\ AppendAt(r, "writing")
  /\ UNCHANGED <<file, place, reader>>

WriteHead(r) ==
  /\ appending[r] = "writing"
  /\ Write(<<r, "head">>)
  /\ AppendAt(r, "torn")
  /\ UNCHANGED <<place, offsetOf, reader>>

WriteTail(r) ==
  /\ appending[r] = "torn"
  /\ Write(<<r, "tail">>)
  /\ AppendAt(r, "written")
  /\ UNCHANGED <<place, offsetOf, reader>>

\* The write or the sync fails; what is written stays.
Fail(r) ==
  /\ FsMayFail /\ appending[r] \in {"seeking", "writing", "torn", "written"}
  /\ AppendAt(r, "failed")
  /\ Lock!Leave(r)
  /\ UNCHANGED <<file, offsetOf, reader>>

\* AppendLog returns the offset, and has unlocked.
Acknowledge(r) ==
  /\ appending[r] = "written"
  /\ AppendAt(r, "acknowledged")
  /\ Lock!Leave(r)
  /\ UNCHANGED <<file, offsetOf, reader>>

\* The process of the call dies.
Crash(r) ==
  /\ MayCrash /\ place[r] = "in"
  /\ AppendAt(r, "failed")
  /\ Lock!Die({r})
  /\ UNCHANGED <<file, offsetOf, reader>>

-----------------------------------------------------------------------------
(* ReadLogFrom, and ReplayTaskLog around it. *)

\* A line begins after cell n and ends with cell m.
Line(n, m) == /\ m \in n + 1 .. Len(file)
              /\ file[m][2] = "tail"
              /\ \A i \in n + 1 .. m - 1 : file[i][2] = "head"

\* It can be decoded, to the record of its cells.
Decodes(n, m) == m = n + 2 /\ file[n + 1][1] = file[m][1]

Read(d, fields) == reader' = [reader EXCEPT ![d] = fields]

Start(d) ==
  /\ reader[d].at = "idle"
  /\ Read(d, [reader[d] EXCEPT !.at = "page"])
  /\ UNCHANGED <<file, place, appending, offsetOf>>

\* os.Stat: is there anything after the offset?
Page(d) ==
  LET s == reader[d]
  IN /\ s.at = "page"
     /\ IF s.offset >= Len(file)
        THEN Read(d, [s EXCEPT !.at = "batch", !.next = Len(file), !.batch = <<>>])
        ELSE Read(d, [s EXCEPT !.at = "lines", !.next = s.offset, !.batch = <<>>])
     /\ UNCHANGED <<file, place, appending, offsetOf>>

ReadLine(d) ==
  LET s == reader[d]
  IN /\ s.at = "lines" /\ Len(s.batch) < PageSize
     /\ \E m \in DOMAIN file :
          /\ Line(s.next, m)
          /\ Read(d, [s EXCEPT !.next = m,
                               !.batch = IF Decodes(s.next, m) THEN Append(@, file[m][1]) ELSE @])
     /\ UNCHANGED <<file, place, appending, offsetOf>>

\* Mutant: a line without its end is skipped.
MutantSkipPartial(n) == Len(file)

\* Where to go on after a line without its end.
Pinned(n) == n

PageEnds(d) ==
  LET s == reader[d]
  IN /\ s.at = "lines"
     /\ \/ /\ Len(s.batch) = PageSize
           /\ Read(d, [s EXCEPT !.at = "batch"])
        \/ /\ Len(s.batch) < PageSize /\ \A m \in DOMAIN file : ~Line(s.next, m)
           /\ Read(d, [s EXCEPT !.at = "batch", !.next = Pinned(@)])
     /\ UNCHANGED <<file, place, appending, offsetOf>>

\* Mutant: records are told apart by their position only.
MutantKeepAll(log, batch) == log \o batch

Events(log) == {EventOf[log[i]] : i \in DOMAIN log}

\* The batch without the events that have been seen.
WithNew(log, batch) ==
  LET add[i \in 0 .. Len(batch)] ==
        IF i = 0 THEN log
        ELSE IF EventOf[batch[i]] \in Events(add[i - 1]) THEN add[i - 1]
        ELSE Append(add[i - 1], batch[i])
  IN add[Len(batch)]

\* Mutant: the page that brought nothing is read again.
MutantGoOn(s) == s.next >= s.offset

\* Mutant: a full page is taken for the last one.
MutantStopEarly(s) == s.next > s.offset /\ Len(s.batch) < PageSize

More(s) == s.next > s.offset

TakeBatch(d) ==
  LET s == reader[d]
  IN /\ s.at = "batch"
     /\ Read(d, [s EXCEPT !.at = IF More(s) THEN "page" ELSE "done",
                          !.offset = IF More(s) THEN s.next ELSE s.offset,
                          !.batch = <<>>,
                          !.replayed = WithNew(@, s.batch)])
     /\ UNCHANGED <<file, place, appending, offsetOf>>

\* The reader's context ends, and the replay returns nothing.
ReadExpires(d) ==
  /\ CtxMayExpire /\ reader[d].at = "lines"
  /\ Read(d, [Idle EXCEPT !.at = "failed"])
  /\ UNCHANGED <<file, place, appending, offsetOf>>

-----------------------------------------------------------------------------
AppendStep(r) == Open(r) \/ Seek(r) \/ WriteHead(r) \/ WriteTail(r) \/ Fail(r) \/ Acknowledge(r)
ReadStep(d)   == Page(d) \/ ReadLine(d) \/ PageEnds(d) \/ TakeBatch(d) \/ ReadExpires(d)

Next == \/ \E r \in Records : LockTask(r) \/ AppendStep(r) \/ Crash(r)
        \/ \E d \in Readers : Start(d) \/ ReadStep(d)

SafeSpec == Init /\ [][Next]_vars

\* The goroutines that append and read are scheduled.
Spec == SafeSpec /\ (\A r \in Records : WF_vars(AppendStep(r))) /\ (\A d \in Readers : WF_vars(ReadStep(d)))

-----------------------------------------------------------------------------
(* Properties. *)

\* Every variable has its type.
TypeOK ==
  /\ file \in Seq(Records \X {"head", "tail"})
  /\ place \in [Records -> Lock!Places]
  /\ appending \in [Records -> {"locking", "seeking", "writing", "torn", "written",
                                "acknowledged", "failed"}]
  /\ offsetOf \in [Records -> 0 .. Len(file)]
  /\ reader \in [Readers -> [at : {"idle", "page", "lines", "batch", "done", "failed"},
                             offset : Nat, next : Nat,
                             batch : Seq(Records), replayed : Seq(Records)]]

\* The record's line ends with cell m and can be read.
EndsAt(r, m) == /\ m - 1 \in DOMAIN file
                /\ file[m] = <<r, "tail">> /\ file[m - 1] = <<r, "head">>
                /\ m = 2 \/ file[m - 2][2] = "tail"

Readable(r) == \E m \in DOMAIN file : EndsAt(r, m)

Acknowledged == {r \in Records : appending[r] = "acknowledged"}

\* The offset that AppendLog returns is where the line begins, in spite of
\* O_APPEND: the end of the file that it looked up is still the end.
OffsetsTrue == \A r \in Acknowledged : file[offsetOf[r] + 1] = <<r, "head">>

\* An acknowledged record can be read.
AckedReadable == \A r \in Acknowledged : Readable(r)

\* Each append that fails halfway costs at most one acknowledged record.
LossBounded == Cardinality({r \in Acknowledged : ~Readable(r)})
                 <= Cardinality({r \in Records : appending[r] = "failed"})

\* What a reader has read is what there is to read up to where it is, in the
\* order of the file, however its pages, the writers and torn lines fall; of
\* records with one event id, the first.  (And the variables have their types.)
ReplayExact == \A d \in Readers :
  LET s == reader[d]
      log == WithNew(s.replayed, s.batch)
      before == {r \in Records : \E m \in 1 .. s.next : m \in DOMAIN file /\ EndsAt(r, m)}
      first == {r \in before : \E m \in DOMAIN file :
                  /\ EndsAt(r, m)
                  /\ \A q \in before, k \in 1 .. m - 1 : EndsAt(q, k) => EventOf[q] # EventOf[r]}
      posn(r) == CHOOSE m \in DOMAIN file : EndsAt(r, m)
  IN /\ TypeOK
     /\ s.at # "failed" =>
       /\ {log[i] : i \in DOMAIN log} = first
       /\ \A i, j \in DOMAIN log : i < j => posn(log[i]) < posn(log[j])

\* A replay returns what could be read when it started, in spite of its paging:
\* the record or, before it, one with the same event id.
ReplayComplete == \A d \in Readers, r \in Records :
  [](reader[d].at = "idle" /\ Readable(r) =>
       [](reader[d].at = "done" => EventOf[r] \in Events(reader[d].replayed)))

\* A replay ends: it does not run around behind the last complete line.
ReplayEnds == \A d \in Readers : (reader[d].at = "page") ~> (reader[d].at \in {"done", "failed"})
=============================================================================
