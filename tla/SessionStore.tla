---------------------------- MODULE SessionStore ----------------------------
(***************************************************************************)
(* One session on disk (internal/session/store_eventlog.go): a file of     *)
(* events, one line each, a snapshot that spares replaying all of them,    *)
(* and perhaps the legacy file the session was kept in before.  Processes  *)
(* that have the session open save it: under the session's lock a save     *)
(* replays the files, appends what has changed since, line by line, and    *)
(* last the whole session, and refreshes the snapshot now and then.  Loads *)
(* and removals take no lock.                                              *)
(*                                                                         *)
(* A process may die, and a write may fail, at any point.  An append that  *)
(* does not come to its end leaves nothing, a part of the line, or the     *)
(* line without its newline, which can be read until the next line is      *)
(* written right behind it.                                                *)
(*                                                                         *)
(* A session is its mode, its messages and the rest (plan, skill, title).  *)
(* Every change of one of them is numbered, and its number is its value.   *)
(* Event ids are random, so an id never comes twice; the test for one that *)
(* does is left out.                                                       *)
(***************************************************************************)
EXTENDS Integers, Sequences, SequencesExt, FiniteSets

CONSTANTS
  Processes,       \* the processes that may open the session
  SnapshotEveryN,  \* the snapshot is refreshed after so many events at the latest
  MaxChanges,      \* bound: changes to the session
  MaxSaves,        \* bound: saves
  MaxFaults,       \* bound: processes that die and writes that fail
  MaxRemovals,     \* bound: removals of the session
  None             \* no session, no snapshot, no line that can be read

ASSUME SessionAssumption == None \notin Processes /\ SnapshotEveryN \in Nat

Sessions == [mode : Nat, msgs : Seq(Nat), rest : Nat]

\* What is to be appended, the lines when they have a number, and the snapshots.
Drafts == [kind : {"full"}, data : Sessions] \cup [kind : {"mode"}, data : Nat]
          \cup [kind : {"append", "replace"}, data : Seq(Nat)]

Events == [seq : Nat \ {0}, kind : {"full"}, data : Sessions]
          \cup [seq : Nat \ {0}, kind : {"mode"}, data : Nat]
          \cup [seq : Nat \ {0}, kind : {"append", "replace"}, data : Seq(Nat)]

Snapshots == [seq : Nat, session : Sessions]

ASSUME NoneAssumption == None \notin Sessions \cup Events \cup Snapshots

VARIABLES
  lines,      \* the lines of events.jsonl, None for one that cannot be read
  ended,      \* whether the last one has its newline
  snap,       \* snapshot.json
  legacy,     \* the session in the legacy file
  holder,     \* the process that has the session's lock
  proc,       \* what each process is doing, and the session it has in memory
  removal,    \* how far a removal has come
  changes, saves, faults, removals,   \* how many there have been
  promised,   \* the last session of which it was promised that it is kept
  attempted,  \* the sessions whose save has begun since
  skewed      \* a change is written without what it is based on

disk   == <<lines, ended, snap, legacy>>
counts == <<changes, saves, faults, removals>>
ghosts == <<promised, attempted, skewed>>
vars   == <<disk, holder, proc, removal, counts, ghosts>>

\* New, and ensureSessionState.
Fresh == [mode |-> 0, msgs |-> <<>>, rest |-> 0]

\* What a legacy file may hold.
Old == [mode |-> 0, msgs |-> <<0>>, rest |-> 0]

Closed == [at |-> "closed", session |-> None, seen |-> None, base |-> None,
           seq |-> 0, drafts |-> <<>>, atRisk |-> FALSE]

Init == /\ lines = <<>> /\ ended = TRUE /\ snap = None
        /\ legacy \in {None, Old}
        /\ holder = None
        /\ proc = [p \in Processes |-> Closed]
        /\ removal = "none"
        /\ changes = 0 /\ saves = 0 /\ faults = 0 /\ removals = 0
        /\ promised = legacy /\ attempted = {} /\ skewed = FALSE

-----------------------------------------------------------------------------
(* Events and their replay. *)

Base(session) == IF session = None THEN Fresh ELSE session

ApplyEvent(session, event) ==
  CASE event.kind = "full"    -> event.data
    [] event.kind = "mode"    -> [Base(session) EXCEPT !.mode = event.data]
    [] event.kind = "append"  -> [Base(session) EXCEPT !.msgs = @ \o event.data]
    [] event.kind = "replace" -> [Base(session) EXCEPT !.msgs = event.data]

\* The sequence number the snapshot has come to.
CoveredBy(s) == IF s = None THEN 0 ELSE s.seq

\* The lines that are replayed on top of the snapshot.
Replayed(file, s) == {i \in DOMAIN file : file[i] # None /\ file[i].seq > CoveredBy(s)}

\* Their sequence numbers grow, or else the session cannot be loaded.
InOrder(file, s) == \A i, j \in Replayed(file, s) : i < j => file[i].seq < file[j].seq

LastSeq(file, s) ==
  LET live == Replayed(file, s)
  IN IF live = {} THEN CoveredBy(s)
     ELSE file[CHOOSE i \in live : \A j \in live : j <= i].seq

Replay(file, s) ==
  FoldLeft(LAMBDA session, line : IF line = None \/ line.seq <= CoveredBy(s) THEN session
                                  ELSE ApplyEvent(session, line),
           IF s = None THEN None ELSE s.session,
           file)

\* Mutant: messages that are not only added are added all the same.
MutantAlwaysAppend(before, after) ==
  IF before = after THEN <<>>
  ELSE << [kind |-> "append", data |-> SubSeq(after, Len(before) + 1, Len(after))] >>

\* The event that brings the messages from one timeline to the other, if any.
TurnDrafts(before, after) ==
  IF before = after THEN <<>>
  ELSE IF IsPrefix(before, after)
       THEN << [kind |-> "append", data |-> SubSeq(after, Len(before) + 1, Len(after))] >>
       ELSE << [kind |-> "replace", data |-> after] >>

Full(session) == << [kind |-> "full", data |-> session] >>

\* Mutant: the whole session is appended only if it is new.
MutantChangesOnly(previous, current) ==
  IF previous = None THEN Full(current)
  ELSE (IF previous.mode = current.mode THEN <<>> ELSE << [kind |-> "mode", data |-> current.mode] >>)
       \o TurnDrafts(previous.msgs, current.msgs)

\* What a save appends.
SaveDrafts(previous, current) ==
  (IF previous = None THEN Full(current)
   ELSE (IF previous.mode = current.mode THEN <<>> ELSE << [kind |-> "mode", data |-> current.mode] >>)
        \o TurnDrafts(previous.msgs, current.msgs))
  \o Full(current)

-----------------------------------------------------------------------------
(* Where the session is: the new layout goes before the legacy file. *)

HasEvents == lines # <<>> \/ snap # None

Stored == IF HasEvents THEN Replay(lines, snap) ELSE legacy

-----------------------------------------------------------------------------
(* A process opens the session, and changes it. *)

\* A new one, whose id nobody else has.
New(p) ==
  /\ proc[p].at = "closed" /\ saves = 0 /\ legacy = None
  /\ \A q \in Processes : proc[q].at = "closed"
  /\ proc' = [proc EXCEPT ![p] = [Closed EXCEPT !.at = "open", !.session = Fresh]]
  /\ UNCHANGED <<disk, holder, removal, counts, ghosts>>

\* Load looks where the session is and reads the snapshot or the legacy file.
Load(p) ==
  /\ proc[p].at = "closed"
  /\ \/ /\ HasEvents
        /\ proc' = [proc EXCEPT ![p] = [@ EXCEPT !.at = "loading", !.seen = snap]]
     \/ /\ ~HasEvents /\ legacy # None
        /\ proc' = [proc EXCEPT ![p] = [@ EXCEPT !.at = "open", !.session = legacy]]
  /\ UNCHANGED <<disk, holder, removal, counts, ghosts>>

\* Then it reads the events.
FinishLoad(p) ==
  LET loaded == Replay(lines, proc[p].seen)
  IN /\ proc[p].at = "loading" /\ InOrder(lines, proc[p].seen)
     /\ proc' = [proc EXCEPT ![p] =
          IF loaded = None THEN Closed ELSE [Closed EXCEPT !.at = "open", !.session = loaded]]
     /\ UNCHANGED <<disk, holder, removal, counts, ghosts>>

Changed(session, n) ==
  {[session EXCEPT !.mode = n], [session EXCEPT !.rest = n],
   [session EXCEPT !.msgs = Append(@, n)],
   [session EXCEPT !.msgs = <<n>>]}         \* they are compacted

Change(p) ==
  /\ proc[p].at = "open" /\ changes < MaxChanges
  /\ \E s \in Changed(proc[p].session, changes + 1) : proc' = [proc EXCEPT ![p].session = s]
  /\ changes' = changes + 1
  /\ UNCHANGED <<disk, holder, removal, saves, faults, removals, ghosts>>

-----------------------------------------------------------------------------
(* Save. *)

\* Mutant: the session is not locked.
MutantNoLock(p) == proc[p].at = "open"

LockFree(p) == proc[p].at = "open" /\ holder = None

\* The lock is taken, and the snapshot read.
Save(p) ==
  /\ LockFree(p) /\ saves < MaxSaves
  /\ holder' = p
  /\ saves' = saves + 1
  /\ proc' = [proc EXCEPT ![p] = [@ EXCEPT !.at = "reading", !.seen = snap]]
  /\ UNCHANGED <<disk, removal, changes, faults, removals, ghosts>>

\* What there is to compare with; if the replay gives nothing, the legacy file.
Previous(p) ==
  LET replayed == Replay(lines, proc[p].seen)
  IN IF replayed = None THEN legacy ELSE replayed

\* The events are read, and it is settled what to append.  If they are not in
\* order the save fails; NumbersGrow says that they are.
ReadEvents(p) ==
  LET drafts == SaveDrafts(Previous(p), proc[p].session)
  IN /\ proc[p].at = "reading" /\ InOrder(lines, proc[p].seen)
     /\ proc' = [proc EXCEPT ![p] =
          [@ EXCEPT !.at = "appending", !.base = Previous(p),
                    !.seq = LastSeq(lines, proc[p].seen), !.drafts = drafts,
                    !.atRisk = proc[p].atRisk \/ (~ended /\ Len(drafts) = 1)]]
     /\ attempted' = attempted \cup {proc[p].session}
     /\ UNCHANGED <<disk, holder, removal, counts, promised, skewed>>

\* The event of the next draft.
NextEvent(p) ==
  [seq |-> proc[p].seq + 1, kind |-> Head(proc[p].drafts).kind, data |-> Head(proc[p].drafts).data]

\* A line behind one that has its newline, or glued to one that has not.
Glued(line) == IF ended THEN Append(lines, line) ELSE [lines EXCEPT ![Len(lines)] = None]

\* A change is written over something else than what it was made from: over
\* messages that are gone, or over nothing, before the legacy session.  A whole
\* session that can be read puts that right.
Skews(p, line) ==
  LET under == Replay(IF ended THEN lines ELSE Glued(None), snap)
      readable == ended /\ line # None
  IN IF readable /\ line.kind = "full" THEN FALSE
     ELSE \/ skewed
          \/ under = None /\ proc[p].base # None
          \/ readable /\ line.kind = "append" /\ Base(under).msgs # Base(proc[p].base).msgs

AppendLine(p) ==
  /\ proc[p].at = "appending" /\ proc[p].drafts # <<>>
  /\ lines' = Glued(NextEvent(p)) /\ ended' = TRUE
  /\ skewed' = Skews(p, NextEvent(p))
  /\ proc' = [proc EXCEPT ![p] =
       [@ EXCEPT !.seq = proc[p].seq + 1, !.drafts = Tail(proc[p].drafts),
                 !.base = ApplyEvent(proc[p].base, Head(proc[p].drafts))]]
  /\ UNCHANGED <<snap, legacy, holder, removal, counts, promised, attempted>>

\* shouldRefreshSnapshot; the interval may have passed or not.
MustRefresh(p) == proc[p].seen = None \/ proc[p].seq - CoveredBy(proc[p].seen) >= SnapshotEveryN

SnapshotOf(p) == [seq |-> proc[p].seq, session |-> proc[p].session]

WriteSnapshot(p) ==
  /\ proc[p].at = "appending" /\ proc[p].drafts = <<>>
  /\ snap' = SnapshotOf(p)
  /\ proc' = [proc EXCEPT ![p] = [@ EXCEPT !.at = "saved", !.atRisk = FALSE]]
  /\ skewed' = FALSE
  /\ UNCHANGED <<lines, ended, legacy, holder, removal, counts, promised, attempted>>

KeepSnapshot(p) ==
  /\ proc[p].at = "appending" /\ proc[p].drafts = <<>> /\ ~MustRefresh(p)
  /\ proc' = [proc EXCEPT ![p].at = "saved"]
  /\ UNCHANGED <<disk, holder, removal, counts, ghosts>>

Opened(p) == [Closed EXCEPT !.at = "open", !.session = proc[p].session]

\* Save returns nil, and has unlocked.
Return(p) ==
  /\ proc[p].at = "saved"
  /\ proc' = [proc EXCEPT ![p] = Opened(p)]
  /\ holder' = None
  /\ IF proc[p].atRisk THEN UNCHANGED <<promised, attempted>>
     ELSE promised' = proc[p].session /\ attempted' = {}
  /\ UNCHANGED <<disk, removal, counts, skewed>>

-----------------------------------------------------------------------------
(* Faults. *)

\* The process dies, or a write of it has failed and Save returns the error.
Stops(p) == /\ faults' = faults + 1
            /\ \/ proc' = [proc EXCEPT ![p] = Closed]
               \/ proc' = [proc EXCEPT ![p] = Opened(p)] /\ holder = p
            /\ holder' = IF holder = p THEN None ELSE holder

\* In the middle of an append: part of the line is left, or all but its end.
StopInLine(p) ==
  /\ proc[p].at = "appending" /\ proc[p].drafts # <<>> /\ faults < MaxFaults
  /\ Stops(p)
  /\ \E line \in {None, NextEvent(p)} :
       /\ lines' = Glued(line)
       /\ ended' = FALSE
       /\ skewed' = (skewed \/ Skews(p, line))
  /\ UNCHANGED <<snap, legacy, removal, changes, saves, removals, promised, attempted>>

\* Anywhere else.
StopBetween(p) ==
  /\ proc[p].at # "closed" /\ faults < MaxFaults
  /\ Stops(p)
  /\ UNCHANGED <<disk, removal, changes, saves, removals, ghosts>>

-----------------------------------------------------------------------------
(* DeleteInWorkspace, and the clean-up of sessions without messages, which   *)
(* lists first and deletes afterwards.  Nobody locks.                        *)

ChooseToDelete ==
  /\ removal = "none" /\ removals < MaxRemovals /\ Stored # None
  /\ removal' = "chosen" /\ removals' = removals + 1
  /\ UNCHANGED <<disk, holder, proc, changes, saves, faults, ghosts>>

\* One of the files goes; whoever is saving can promise nothing.
RemoveFile ==
  /\ removal = "chosen"
  /\ promised' = None /\ skewed' = TRUE
  /\ attempted' = {proc[p].session : p \in {q \in Processes : proc[q].at \in {"appending", "saved"}}}
  /\ proc' = [p \in Processes |-> IF holder = p THEN [proc[p] EXCEPT !.atRisk = TRUE] ELSE proc[p]]
  /\ UNCHANGED <<legacy, holder, removal, counts>>

RemoveEvents   == RemoveFile /\ lines # <<>> /\ lines' = <<>> /\ ended' = TRUE /\ UNCHANGED snap
RemoveSnapshot == RemoveFile /\ snap # None /\ snap' = None /\ UNCHANGED <<lines, ended>>

RemoveDir ==
  /\ removal = "chosen" /\ ~HasEvents
  /\ removal' = "legacy"
  /\ UNCHANGED <<disk, holder, proc, counts, ghosts>>

RemoveLegacy ==
  /\ removal = "legacy"
  /\ removal' = "none"
  /\ legacy' = None
  /\ IF HasEvents THEN UNCHANGED ghosts
     ELSE promised' = None /\ UNCHANGED <<attempted, skewed>>
  /\ UNCHANGED <<lines, ended, snap, holder, proc, counts>>

-----------------------------------------------------------------------------
Step(p) == \/ New(p) \/ Load(p) \/ FinishLoad(p) \/ Change(p)
           \/ Save(p) \/ ReadEvents(p) \/ AppendLine(p)
           \/ WriteSnapshot(p) \/ KeepSnapshot(p) \/ Return(p)
           \/ StopInLine(p) \/ StopBetween(p)

Next == \/ \E p \in Processes : Step(p)
        \/ ChooseToDelete \/ RemoveEvents \/ RemoveSnapshot
        \/ RemoveDir \/ RemoveLegacy

Spec == Init /\ [][Next]_vars

-----------------------------------------------------------------------------
(* Properties. *)

Doing == [at : {"closed", "loading", "open", "reading", "appending", "saved"},
          session : Sessions \cup {None}, seen : Snapshots \cup {None},
          base : Sessions \cup {None}, seq : Nat, drafts : Seq(Drafts), atRisk : BOOLEAN]

\* Every variable has its type.
TypeOK ==
  /\ lines \in Seq(Events \cup {None}) /\ ended \in BOOLEAN
  /\ snap \in Snapshots \cup {None} /\ legacy \in {None, Old}
  /\ holder \in Processes \cup {None}
  /\ proc \in [Processes -> Doing]
  /\ removal \in {"none", "chosen", "legacy"}
  /\ {changes, saves, faults, removals} \subseteq Nat
  /\ promised \in Sessions \cup {None} /\ attempted \subseteq Sessions /\ skewed \in BOOLEAN

\* The sequence numbers of the events grow, whatever was torn, lost or
\* removed, so that the session can be replayed; and the save that holds the
\* lock goes on behind the last one.
NumbersGrow ==
  /\ InOrder(lines, snap)
  /\ \A p \in Processes : proc[p].at = "appending" =>
       \A i \in DOMAIN lines : lines[i] # None => lines[i].seq <= proc[p].seq

Fields == {"mode", "msgs", "rest"}

\* Field by field the session is one of these.
From(session, others) == \A f \in Fields : session[f] \in {s[f] : s \in others}

\* What is stored is, field by field, the last session whose save has returned
\* or one whose save has begun since, unless skewed.  (A save that had only
\* the whole session to append, behind a torn line, is not counted.)
\* And every variable has its type.
Recovered ==
  /\ TypeOK
  /\ skewed \/ IF Stored = None THEN promised = None
               ELSE From(Stored, (attempted \cup {promised}) \ {None})

\* A load that reads the snapshot, and the events when others may have saved
\* in between, returns what is stored by then.
LoadsStored == [][\A p \in Processes :
  /\ proc[p].at = "loading" /\ proc'[p].at = "open"
  /\ removals = 0 /\ \A i \in DOMAIN lines : lines[i] # None
  => proc'[p].session = Stored]_vars
=============================================================================
