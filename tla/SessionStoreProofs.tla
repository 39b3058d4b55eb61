------------------------- MODULE SessionStoreProofs -------------------------
(***************************************************************************)
(* Proofs about SessionStore, for any number of processes, changes, saves, *)
(* faults and removals.  The sequence numbers of the events grow, so that  *)
(* no replay ever meets one out of order: the save that holds the lock has *)
(* seen the highest number, and nobody else writes before it returns;      *)
(* removals only take lines away.  What is stored is the last session kept *)
(* or one whose save has begun since: the drafts of a save lead from what  *)
(* it has read to its session, line by line, and the last line is the whole *)
(* session.  And a load that reads its snapshot and the events apart returns *)
(* what is stored: a snapshot is made of a session that is also a line, and *)
(* from that line on an older snapshot leads to the same.                  *)
(*                                                                         *)
(* A replay is a fold over the lines; After(file, s, k) is what the first k *)
(* of them lead to, and what holds of it is shown by induction on k, as a  *)
(* set of numbers that has 0 and every successor.                          *)
(***************************************************************************)
EXTENDS SessionStore, TLAPS, NaturalsInduction, WellFoundedInduction, SequenceTheorems

Stages == {"closed", "loading", "open", "reading", "appending", "saved"}
Holding == {"reading", "appending", "saved"}

\* What a process does is a record of these fields.
Parts == {"at", "session", "seen", "base", "seq", "drafts", "atRisk"}
Record(r) == r = [f \in Parts |-> r[f]]

LinesTyped ==
  /\ \E S : lines \in Seq(S)
  /\ \A i \in DOMAIN lines : lines[i] # None => lines[i].seq \in Nat

Ordered == \A i, j \in DOMAIN lines :
  lines[i] # None /\ lines[j] # None /\ i < j => lines[i].seq < lines[j].seq

\* No line has a higher number.
UpTo(n) == \A i \in DOMAIN lines : lines[i] # None => lines[i].seq <= n

ProcOK(p) ==
  /\ Record(proc[p])
  /\ proc[p].at \in Holding => holder = p
  /\ proc[p].at = "reading" => CoveredBy(proc[p].seen) \in Nat
  /\ proc[p].at \in {"appending", "saved"} => proc[p].seq \in Nat
  /\ proc[p].at = "appending" => UpTo(proc[p].seq)

StoreInv ==
  /\ LinesTyped /\ Ordered
  /\ CoveredBy(snap) \in Nat
  /\ proc = [p \in Processes |-> proc[p]]
  /\ \A p \in Processes : ProcOK(p)

LessThan == {pair \in Nat \X Nat : pair[1] < pair[2]}

\* A set of positions of a sequence has a last one.
LEMMA Greatest ==
  ASSUME NEW n \in Nat, NEW S \in SUBSET (1 .. n), S # {}
  PROVE  \E i \in S : \A j \in S : j <= i
<1> DEFINE T == {m \in Nat : n - m \in S}
<1>1. PICK k \in S : TRUE
  OBVIOUS
<1>2. n - k \in T
  BY <1>1
<1>3. IsWellFoundedOn(LessThan, Nat)
  BY NatLessThanWellFounded DEF OpToRel, LessThan
<1>4. T \in SUBSET Nat /\ T # {}
  BY <1>2
<1>5. PICK m \in T : \A y \in T : ~(<<y, m>> \in LessThan)
  <2> HIDE DEF T
  <2> QED BY <1>3, <1>4, WFMin
<1>6. ASSUME NEW j \in S PROVE j <= n - m
  <2>1. n - j \in T
    OBVIOUS
  <2>2. <<n - j, m>> \notin LessThan
    BY <1>5, <2>1
  <2>3. QED BY <2>1, <2>2, <1>5 DEF LessThan
<1>7. QED BY <1>5, <1>6

\* Numbers in order have the greatest last, so the save goes on behind all.
LEMMA LastSeqBounds ==
  ASSUME LinesTyped, NEW s, CoveredBy(s) \in Nat, InOrder(lines, s)
  PROVE  LastSeq(lines, s) \in Nat /\ UpTo(LastSeq(lines, s))
<1> DEFINE live == Replayed(lines, s)
<1>1. \A i \in DOMAIN lines : lines[i] # None /\ i \notin live => lines[i].seq <= CoveredBy(s)
  BY DEF Replayed, LinesTyped
<1>2. CASE live = {}
  <2>1. LastSeq(lines, s) = CoveredBy(s)
    BY <1>2 DEF LastSeq
  <2>2. QED BY <1>1, <1>2, <2>1 DEF UpTo
<1>3. CASE live # {}
  <2>1. DOMAIN lines = 1 .. Len(lines) /\ Len(lines) \in Nat
    BY DEF LinesTyped
  <2>2. live \in SUBSET (1 .. Len(lines))
    BY <2>1 DEF Replayed
  <2> DEFINE last == CHOOSE i \in live : \A j \in live : j <= i
  <2>3. last \in live /\ \A j \in live : j <= last
    <3> HIDE DEF live
    <3>1. \E i \in live : \A j \in live : j <= i
      BY <1>3, <2>1, <2>2, Greatest
    <3>2. QED BY <3>1
  <2>4. LastSeq(lines, s) = lines[last].seq
    BY <1>3 DEF LastSeq
  <2>5. last \in DOMAIN lines /\ lines[last].seq \in Nat /\ lines[last].seq > CoveredBy(s)
    BY <2>3 DEF Replayed, LinesTyped
  <2>6. \A j \in live : j # last => lines[j].seq < lines[last].seq
    BY <2>1, <2>2, <2>3 DEF InOrder
  <2>7. ASSUME NEW j \in live PROVE lines[j].seq <= lines[last].seq
    <3>1. lines[j].seq \in Nat
      BY DEF Replayed, LinesTyped
    <3>2. CASE j = last  BY <3>2, <2>5
    <3>3. CASE j # last
      <4>1. lines[j].seq < lines[last].seq
        BY <3>3, <2>6
      <4>2. QED BY <4>1, <3>1, <2>5
    <3>4. QED BY <3>2, <3>3
  <2>8. ASSUME NEW j \in DOMAIN lines, lines[j] # None PROVE lines[j].seq <= lines[last].seq
    <3>1. CASE j \in live  BY <3>1, <2>7
    <3>2. CASE j \notin live
      <4>1. lines[j].seq <= CoveredBy(s) /\ lines[j].seq \in Nat
        BY <3>2, <2>8, <1>1 DEF LinesTyped
      <4>2. QED BY <4>1, <2>5
    <3>3. QED BY <3>1, <3>2
  <2>9. QED BY <2>4, <2>5, <2>8 DEF UpTo
<1>4. QED BY <1>2, <1>3

\* Lines in order can be replayed on any snapshot.
LEMMA OrderedInOrder ==
  ASSUME Ordered, NEW s PROVE InOrder(lines, s)
  BY DEF Ordered, InOrder, Replayed

\* A line with the next number goes behind those there are, or is lost.
LEMMA GluedInOrder ==
  ASSUME LinesTyped, Ordered, NEW n \in Nat, UpTo(n),
         NEW line, line = None \/ line.seq = n + 1, lines' = Glued(line)
  PROVE  LinesTyped' /\ Ordered' /\ UpTo(n + 1)'
<1>1. PICK S : lines \in Seq(S)
  BY DEF LinesTyped
<1>2. CASE ended
  <2>1. lines' = Append(lines, line)
    BY <1>2 DEF Glued
  <2>2. lines' \in Seq(S \cup {line})
    BY <1>1, <2>1
  <2>3. /\ DOMAIN lines = 1 .. Len(lines) /\ DOMAIN lines' = 1 .. Len(lines) + 1
        /\ Len(lines) \in Nat
        /\ \A i \in 1 .. Len(lines) : lines'[i] = lines[i]
        /\ lines'[Len(lines) + 1] = line
    BY <1>1, <2>1
  <2>4. LinesTyped'
    BY <2>2, <2>3 DEF LinesTyped
  <2>5. Ordered'
    <3> SUFFICES ASSUME NEW i \in DOMAIN lines', NEW j \in DOMAIN lines',
                        lines'[i] # None, lines'[j] # None, i < j
                 PROVE  lines'[i].seq < lines'[j].seq
      BY DEF Ordered
    <3>1. i \in 1 .. Len(lines) /\ lines'[i] = lines[i]
      BY <2>3
    <3>2. lines[i].seq <= n /\ lines[i].seq \in Nat
      BY <3>1, <2>3 DEF UpTo, LinesTyped
    <3>3. CASE j = Len(lines) + 1
      BY <3>1, <3>2, <3>3, <2>3
    <3>4. CASE j \in 1 .. Len(lines)
      BY <3>1, <3>4, <2>3 DEF Ordered
    <3>5. QED BY <2>3, <3>3, <3>4
  <2>6. UpTo(n + 1)'
    <3> SUFFICES ASSUME NEW i \in DOMAIN lines', lines'[i] # None PROVE lines'[i].seq <= n + 1
      BY DEF UpTo
    <3>1. CASE i = Len(lines) + 1  BY <3>1, <2>3
    <3>2. CASE i \in 1 .. Len(lines)
      <4>1. lines[i].seq <= n /\ lines[i].seq \in Nat /\ lines'[i] = lines[i]
        BY <3>2, <2>3 DEF UpTo, LinesTyped
      <4>2. QED BY <4>1
    <3>3. QED BY <2>3, <3>1, <3>2
  <2>7. QED BY <2>4, <2>5, <2>6
<1>3. CASE ~ended
  <2>1. lines' = [lines EXCEPT ![Len(lines)] = None]
    BY <1>3 DEF Glued
  <2>2. lines' \in Seq(S \cup {None})
    <3> DEFINE T == S \cup {None}
    <3>1. lines \in [1 .. Len(lines) -> T] /\ Len(lines) \in Nat
      BY <1>1
    <3>2. None \in T
      OBVIOUS
    <3> HIDE DEF T
    <3>3. lines' \in [1 .. Len(lines) -> T]
      BY <2>1, <3>1, <3>2
    <3>4. lines' \in Seq(T)
      BY <3>1, <3>3
    <3>5. QED BY <3>4 DEF T
  <2>3. /\ DOMAIN lines' = DOMAIN lines
        /\ \A i \in DOMAIN lines : lines'[i] = lines[i] \/ lines'[i] = None
    BY <2>1
  <2>4. \A i \in DOMAIN lines' : lines'[i] # None =>
          /\ i \in DOMAIN lines /\ lines'[i] = lines[i] /\ lines[i] # None
          /\ lines'[i].seq \in Nat /\ lines'[i].seq <= n
    BY <2>3 DEF LinesTyped, UpTo
  <2>5. LinesTyped'
    BY <2>2, <2>4 DEF LinesTyped
  <2>6. Ordered'
    BY <2>4 DEF Ordered
  <2>7. UpTo(n + 1)'
    BY <2>4 DEF UpTo
  <2>8. QED BY <2>5, <2>6, <2>7
<1>4. QED BY <1>2, <1>3

-----------------------------------------------------------------------------
(* The steps. *)

LEMMA InitInv == Init => StoreInv
<1> SUFFICES ASSUME Init PROVE StoreInv
  OBVIOUS
<1>1. LinesTyped /\ Ordered
  <2>1. lines \in Seq({}) /\ DOMAIN lines = {}
    BY DEF Init
  <2>2. QED BY <2>1 DEF LinesTyped, Ordered
<1>2. CoveredBy(snap) \in Nat
  BY DEF Init, CoveredBy
<1>3. proc = [p \in Processes |-> proc[p]]
  BY DEF Init
<1>4. ASSUME NEW p \in Processes PROVE ProcOK(p)
  <2>1. proc[p] = Closed
    BY DEF Init
  <2>2. Record(proc[p])
    BY <2>1 DEF Record, Parts, Closed
  <2>3. proc[p].at = "closed"
    BY <2>1 DEF Closed
  <2>4. QED BY <2>2, <2>3 DEF ProcOK, Holding
<1>5. QED BY <1>1, <1>2, <1>3, <1>4 DEF StoreInv

\* A step of one process: what it writes is in order, the others' savings
\* are not disturbed, and it holds the lock if it is saving afterwards.
LEMMA ProcessStep ==
  ASSUME StoreInv, NEW p \in Processes, NEW r, Record(r),
         proc' = [proc EXCEPT ![p] = r],
         LinesTyped', Ordered', CoveredBy(snap)' \in Nat,
         r.at \in Holding => holder' = p,
         holder' = holder \/ holder = None \/ holder = p,
         holder' # holder => (holder' = p \/ holder = p),
         lines' = lines \/ holder = p,
         r.at = "reading" => CoveredBy(r.seen) \in Nat,
         r.at \in {"appending", "saved"} => r.seq \in Nat,
         r.at = "appending" => UpTo(r.seq)'
  PROVE  StoreInv'
<1>1. proc' = [q \in Processes |-> proc'[q]] /\ proc'[p] = r
      /\ \A q \in Processes \ {p} : proc'[q] = proc[q]
  BY DEF StoreInv
<1>2. ASSUME NEW q \in Processes PROVE ProcOK(q)'
  <2>1. CASE q = p
    BY <2>1, <1>1 DEF ProcOK, Record, CoveredBy, UpTo
  <2>2. CASE q # p
    <3>1. proc'[q] = proc[q] /\ ProcOK(q)
      BY <2>2, <1>1 DEF StoreInv
    <3>2. proc[q].at \in Holding => holder' = q /\ lines' = lines
      BY <2>2, <3>1, SessionAssumption DEF ProcOK
    <3>3. proc[q].at = "appending" => proc[q].at \in Holding
      BY DEF Holding
    <3>4. QED BY <3>1, <3>2, <3>3 DEF ProcOK, Record, CoveredBy, UpTo
  <2>3. QED BY <2>1, <2>2
<1>3. QED BY <1>1, <1>2 DEF StoreInv

\* What the invariant says of one process and of the files.
LEMMA Facts ==
  ASSUME StoreInv, NEW p \in Processes
  PROVE  /\ LinesTyped /\ Ordered /\ CoveredBy(snap) \in Nat
         /\ Record(proc[p]) /\ proc = [q \in Processes |-> proc[q]]
         /\ proc[p].at \in Holding => holder = p
         /\ proc[p].at = "reading" => CoveredBy(proc[p].seen) \in Nat
         /\ proc[p].at \in {"appending", "saved"} => proc[p].seq \in Nat
         /\ proc[p].at = "appending" => UpTo(proc[p].seq)
  BY DEF StoreInv, ProcOK

\* The files stay as they are.
LEMMA SameFiles ==
  ASSUME StoreInv, UNCHANGED <<lines, snap>>
  PROVE  LinesTyped' /\ Ordered' /\ CoveredBy(snap)' \in Nat
  BY DEF StoreInv, LinesTyped, Ordered, CoveredBy

\* A step of a process that is not saving afterwards, and leaves the files alone.
LEMMA IdleStep ==
  ASSUME StoreInv, NEW p \in Processes, NEW r, Record(r), r.at \notin Holding,
         proc' = [proc EXCEPT ![p] = r], UNCHANGED <<lines, snap>>,
         holder' = holder \/ (holder = p /\ holder' = None)
  PROVE  StoreInv'
<1>1. LinesTyped' /\ Ordered' /\ CoveredBy(snap)' \in Nat
  BY SameFiles
<1>2. r.at \notin {"reading", "appending", "saved"}
  BY DEF Holding
<1>3. holder' # holder => holder = p
  OBVIOUS
<1>4. CASE holder' = holder
  BY <1>1, <1>2, <1>4, ProcessStep DEF Holding
<1>5. CASE holder = p /\ holder' = None
  BY <1>1, <1>2, <1>5, ProcessStep DEF Holding
<1>6. QED BY <1>4, <1>5

LEMMA IdleSteps ==
  ASSUME StoreInv, NEW p \in Processes,
         New(p) \/ Load(p) \/ FinishLoad(p) \/ Change(p) \/ Return(p)
  PROVE  StoreInv'
<1>0. Record(proc[p])
  BY Facts
<1>1. CASE New(p)
  <2> DEFINE r == [Closed EXCEPT !.at = "open", !.session = Fresh]
  <2>1. Record(r) /\ r.at \notin Holding
    BY DEF Record, Parts, Closed, Holding
  <2>2. proc' = [proc EXCEPT ![p] = r] /\ UNCHANGED <<lines, snap, holder>>
    BY <1>1 DEF New, disk
  <2> HIDE DEF r
  <2>3. QED BY <2>1, <2>2, IdleStep
<1>2. CASE Load(p)
  <2>1. UNCHANGED <<lines, snap, holder>>
    BY <1>2 DEF Load, disk
  <2>2. CASE proc' = [proc EXCEPT ![p] = [@ EXCEPT !.at = "loading", !.seen = snap]]
    <3> DEFINE r == [proc[p] EXCEPT !.at = "loading", !.seen = snap]
    <3>1. Record(r) /\ r.at \notin Holding
      BY <1>0 DEF Record, Parts, Holding
    <3>2. proc' = [proc EXCEPT ![p] = r]
      BY <2>2
    <3> HIDE DEF r
    <3>3. QED BY <2>1, <3>1, <3>2, IdleStep
  <2>3. CASE proc' = [proc EXCEPT ![p] = [@ EXCEPT !.at = "open", !.session = legacy]]
    <3> DEFINE r == [proc[p] EXCEPT !.at = "open", !.session = legacy]
    <3>1. Record(r) /\ r.at \notin Holding
      BY <1>0 DEF Record, Parts, Holding
    <3>2. proc' = [proc EXCEPT ![p] = r]
      BY <2>3
    <3> HIDE DEF r
    <3>3. QED BY <2>1, <3>1, <3>2, IdleStep
  <2>4. QED BY <1>2, <2>2, <2>3 DEF Load
<1>3. CASE FinishLoad(p)
  <2> DEFINE loaded == Replay(lines, proc[p].seen)
             r == IF loaded = None THEN Closed ELSE [Closed EXCEPT !.at = "open", !.session = loaded]
  <2>1. Record(r) /\ r.at \notin Holding
    <3> HIDE DEF loaded
    <3>1. CASE loaded = None  BY <3>1 DEF Record, Parts, Closed, Holding
    <3>2. CASE loaded # None  BY <3>2 DEF Record, Parts, Closed, Holding
    <3>3. QED BY <3>1, <3>2
  <2>2. proc' = [proc EXCEPT ![p] = r] /\ UNCHANGED <<lines, snap, holder>>
    BY <1>3 DEF FinishLoad, disk
  <2> HIDE DEF r
  <2>3. QED BY <2>1, <2>2, IdleStep
<1>4. CASE Change(p)
  <2>1. PICK s \in Changed(proc[p].session, changes + 1) : proc' = [proc EXCEPT ![p].session = s]
    BY <1>4 DEF Change
  <2> DEFINE r == [proc[p] EXCEPT !.session = s]
  <2>2. Record(r) /\ r.at \notin Holding
    BY <1>0, <1>4 DEF Record, Parts, Holding, Change
  <2>3. proc' = [proc EXCEPT ![p] = r] /\ UNCHANGED <<lines, snap, holder>>
    BY <1>4, <2>1 DEF Change, disk
  <2> HIDE DEF r
  <2>4. QED BY <2>2, <2>3, IdleStep
<1>5. CASE Return(p)
  <2> DEFINE r == Opened(p)
  <2>1. Record(r) /\ r.at \notin Holding
    BY DEF Record, Parts, Opened, Closed, Holding
  <2>2. proc' = [proc EXCEPT ![p] = r] /\ UNCHANGED <<lines, snap>> /\ holder' = None
    BY <1>5 DEF Return, disk
  <2>3. holder = p
    BY <1>5, Facts DEF Return, Holding
  <2> HIDE DEF r
  <2>4. QED BY <2>1, <2>2, <2>3, IdleStep
<1>6. QED BY <1>1, <1>2, <1>3, <1>4, <1>5

LEMMA SaveInv == ASSUME StoreInv, NEW p \in Processes, Save(p) PROVE StoreInv'
<1> DEFINE r == [proc[p] EXCEPT !.at = "reading", !.seen = snap]
<1>1. Record(r) /\ r.at = "reading" /\ r.seen = snap
  BY Facts DEF Record, Parts
<1>2. proc' = [proc EXCEPT ![p] = r] /\ UNCHANGED <<lines, snap>> /\ holder = None /\ holder' = p
  BY DEF Save, LockFree, disk
<1>3. LinesTyped' /\ Ordered' /\ CoveredBy(snap)' \in Nat
  BY <1>2, SameFiles
<1>4. CoveredBy(r.seen) \in Nat
  BY <1>1, Facts
<1> HIDE DEF r
<1>5. QED BY <1>1, <1>2, <1>3, <1>4, ProcessStep

LEMMA ReadEventsInv == ASSUME StoreInv, NEW p \in Processes, ReadEvents(p) PROVE StoreInv'
<1>1. proc[p].at = "reading" /\ InOrder(lines, proc[p].seen) /\ UNCHANGED <<lines, snap, holder>>
  BY DEF ReadEvents, disk
<1>2. PICK r : /\ proc' = [proc EXCEPT ![p] = r] /\ Record(r)
               /\ r.at = "appending" /\ r.seq = LastSeq(lines, proc[p].seen)
  <2> DEFINE drafts == SaveDrafts(Previous(p), proc[p].session)
             n == LastSeq(lines, proc[p].seen)
             prev == Previous(p)
             r == [proc[p] EXCEPT !.at = "appending", !.base = prev, !.seq = n,
                                  !.drafts = drafts, !.atRisk = proc[p].atRisk \/ (~ended /\ Len(drafts) = 1)]
  <2>1. proc' = [proc EXCEPT ![p] = r]
    BY DEF ReadEvents
  <2> HIDE DEF drafts, n, prev
  <2>2. Record(r) /\ r.at = "appending" /\ r.seq = n
    BY Facts DEF Record, Parts
  <2>3. QED BY <2>1, <2>2 DEF n
<1>3. holder = p /\ CoveredBy(proc[p].seen) \in Nat /\ LinesTyped
  BY <1>1, Facts DEF Holding
<1>4. r.seq \in Nat /\ UpTo(r.seq)
  BY <1>1, <1>2, <1>3, LastSeqBounds
<1>5. LinesTyped' /\ Ordered' /\ CoveredBy(snap)' \in Nat
  BY <1>1, SameFiles
<1>6. UpTo(r.seq)'
  BY <1>1, <1>4 DEF UpTo
<1>7. r.at # "reading"
  BY <1>2
<1>8. QED BY <1>1, <1>2, <1>3, <1>4, <1>5, <1>6, <1>7, ProcessStep

LEMMA AppendLineInv == ASSUME StoreInv, NEW p \in Processes, AppendLine(p) PROVE StoreInv'
<1>1. proc[p].at = "appending" /\ lines' = Glued(NextEvent(p)) /\ UNCHANGED <<snap, holder>>
  BY DEF AppendLine
<1>2. PICK r : /\ proc' = [proc EXCEPT ![p] = r] /\ Record(r)
               /\ r.at = "appending" /\ r.seq = proc[p].seq + 1
  <2> DEFINE next == Head(proc[p].drafts)
             r == [proc[p] EXCEPT !.seq = proc[p].seq + 1, !.drafts = Tail(proc[p].drafts),
                                !.base = ApplyEvent(proc[p].base, next)]
  <2>1. proc' = [proc EXCEPT ![p] = r]
    BY DEF AppendLine
  <2>2. Record(r) /\ r.at = "appending" /\ r.seq = proc[p].seq + 1
    <3>1. r.at = "appending" /\ r.seq = proc[p].seq + 1
      BY <1>1, Facts DEF Record, Parts
    <3>2. Record(r)
      BY Facts DEF Record, Parts
    <3>3. QED BY <3>1, <3>2
  <2>3. QED BY <2>1, <2>2
<1>3. holder = p /\ proc[p].seq \in Nat /\ UpTo(proc[p].seq) /\ LinesTyped /\ Ordered
  BY <1>1, Facts DEF Holding
<1>4. NextEvent(p).seq = proc[p].seq + 1
  BY DEF NextEvent
<1>5. PICK n \in Nat : n = proc[p].seq
  BY <1>3
<1>6. LinesTyped' /\ Ordered' /\ UpTo(n + 1)'
  BY <1>1, <1>3, <1>4, <1>5, GluedInOrder
<1>7. UpTo(r.seq)'
  BY <1>2, <1>5, <1>6 DEF UpTo
<1>8. CoveredBy(snap)' \in Nat
  BY <1>1, Facts DEF CoveredBy
<1>9. r.at # "reading" /\ r.seq \in Nat
  BY <1>2, <1>3
<1>10. QED BY <1>1, <1>2, <1>3, <1>6, <1>7, <1>8, <1>9, ProcessStep

LEMMA WriteSnapshotInv == ASSUME StoreInv, NEW p \in Processes, WriteSnapshot(p) PROVE StoreInv'
<1> DEFINE r == [proc[p] EXCEPT !.at = "saved", !.atRisk = FALSE]
<1>1. /\ proc[p].at = "appending" /\ proc' = [proc EXCEPT ![p] = r]
      /\ snap' = SnapshotOf(p) /\ UNCHANGED <<lines, holder>>
  BY DEF WriteSnapshot
<1>2. Record(r) /\ r.at = "saved" /\ r.seq = proc[p].seq
  BY Facts DEF Record, Parts
<1>3. holder = p /\ proc[p].seq \in Nat
  BY <1>1, Facts DEF Holding
<1>4. CoveredBy(snap)' \in Nat
  BY <1>1, <1>3 DEF CoveredBy, SnapshotOf
<1>5. LinesTyped' /\ Ordered'
  BY <1>1 DEF StoreInv, LinesTyped, Ordered
<1> HIDE DEF r
<1>6. r.at \notin {"reading", "appending"} /\ r.seq \in Nat
  BY <1>2, <1>3
<1>7. QED BY <1>1, <1>2, <1>3, <1>4, <1>5, <1>6, ProcessStep

LEMMA KeepSnapshotInv == ASSUME StoreInv, NEW p \in Processes, KeepSnapshot(p) PROVE StoreInv'
<1> DEFINE r == [proc[p] EXCEPT !.at = "saved"]
<1>1. /\ proc[p].at = "appending" /\ proc' = [proc EXCEPT ![p] = r]
      /\ UNCHANGED <<lines, snap, holder>>
  BY DEF KeepSnapshot, disk
<1>2. Record(r) /\ r.at = "saved" /\ r.seq = proc[p].seq
  BY Facts DEF Record, Parts
<1>3. holder = p /\ proc[p].seq \in Nat
  BY <1>1, Facts DEF Holding
<1>4. LinesTyped' /\ Ordered' /\ CoveredBy(snap)' \in Nat
  BY <1>1, SameFiles
<1> HIDE DEF r
<1>5. r.at \notin {"reading", "appending"} /\ r.seq \in Nat
  BY <1>2, <1>3
<1>6. QED BY <1>1, <1>2, <1>3, <1>4, <1>5, ProcessStep

\* Where a process is that stops.
LEMMA StopsAt ==
  ASSUME StoreInv, NEW p \in Processes, Stops(p)
  PROVE  /\ \E r : proc' = [proc EXCEPT ![p] = r] /\ Record(r) /\ r.at \notin Holding
         /\ holder' = holder \/ (holder = p /\ holder' = None)
         /\ proc[p].at = "appending" => holder' = None
<1>1. Record(Closed) /\ Closed.at \notin Holding
  BY DEF Record, Parts, Closed, Holding
<1>2. Record(Opened(p)) /\ Opened(p).at \notin Holding
  BY DEF Record, Parts, Closed, Opened, Holding
<1>3. holder' = holder \/ (holder = p /\ holder' = None)
  BY DEF Stops
<1>4. proc[p].at = "appending" => holder' = None
  BY Facts DEF Stops, Holding
<1>5. QED BY <1>1, <1>2, <1>3, <1>4 DEF Stops

LEMMA StopInLineInv == ASSUME StoreInv, NEW p \in Processes, StopInLine(p) PROVE StoreInv'
<1>1. proc[p].at = "appending" /\ UNCHANGED snap
  BY DEF StopInLine
<1>2. PICK r : proc' = [proc EXCEPT ![p] = r] /\ Record(r) /\ r.at \notin Holding
  BY StopsAt DEF StopInLine
<1>3. holder' = holder \/ (holder = p /\ holder' = None)
  BY StopsAt DEF StopInLine
<1>4. PICK line \in {None, NextEvent(p)} : lines' = Glued(line)
  BY DEF StopInLine
<1>5. holder = p /\ proc[p].seq \in Nat /\ UpTo(proc[p].seq) /\ LinesTyped /\ Ordered
  BY <1>1, Facts DEF Holding
<1>6. line = None \/ line.seq = proc[p].seq + 1
  BY <1>4 DEF NextEvent
<1>7. PICK n \in Nat : n = proc[p].seq
  BY <1>5
<1>8. LinesTyped' /\ Ordered'
  BY <1>4, <1>5, <1>6, <1>7, GluedInOrder
<1>9. CoveredBy(snap)' \in Nat
  BY <1>1, Facts DEF CoveredBy
<1>10. r.at \notin {"reading", "appending", "saved"}
  BY <1>2 DEF Holding
<1>11. QED BY <1>2, <1>3, <1>5, <1>8, <1>9, <1>10, ProcessStep

LEMMA StopBetweenInv == ASSUME StoreInv, NEW p \in Processes, StopBetween(p) PROVE StoreInv'
<1>1. UNCHANGED <<lines, snap>>
  BY DEF StopBetween, disk
<1>2. PICK r : proc' = [proc EXCEPT ![p] = r] /\ Record(r) /\ r.at \notin Holding
  BY StopsAt DEF StopBetween
<1>3. holder' = holder \/ (holder = p /\ holder' = None)
  BY StopsAt DEF StopBetween
<1>4. QED BY <1>1, <1>2, <1>3, IdleStep

\* Removals take away, and change nothing but the risk of who is saving.
LEMMA RemovalInv ==
  ASSUME StoreInv, ChooseToDelete \/ RemoveEvents \/ RemoveSnapshot \/ RemoveDir \/ RemoveLegacy
  PROVE  StoreInv'
<1>1. holder' = holder
  BY DEF ChooseToDelete, RemoveEvents, RemoveSnapshot, RemoveFile, RemoveDir, RemoveLegacy
<1>2. /\ lines' = lines \/ lines' = <<>>
      /\ snap' = snap \/ snap' = None
      /\ proc' = proc \/ proc' = [p \in Processes |-> IF holder = p THEN [proc[p] EXCEPT !.atRisk = TRUE]
                                                     ELSE proc[p]]
  BY DEF ChooseToDelete, RemoveEvents, RemoveSnapshot, RemoveFile, RemoveDir, RemoveLegacy, disk
<1>3. CoveredBy(snap)' \in Nat
  BY <1>2, SessionAssumption DEF CoveredBy, StoreInv
<1>4. LinesTyped' /\ Ordered' /\ \A n : UpTo(n) => UpTo(n)'
  <2>1. CASE lines' = lines
    BY <2>1 DEF StoreInv, LinesTyped, Ordered, UpTo
  <2>2. CASE lines' = <<>>
    <3>1. lines' \in Seq({}) /\ DOMAIN lines' = {}
      BY <2>2
    <3>2. QED BY <3>1 DEF LinesTyped, Ordered, UpTo
  <2>3. QED BY <1>2, <2>1, <2>2
<1>5. proc' = [p \in Processes |-> proc'[p]]
  BY <1>2 DEF StoreInv
<1>6. ASSUME NEW p \in Processes PROVE ProcOK(p)'
  <2>1. ProcOK(p)
    BY DEF StoreInv
  <2>2. /\ Record(proc'[p])
        /\ proc'[p].at = proc[p].at /\ proc'[p].seen = proc[p].seen /\ proc'[p].seq = proc[p].seq
    <3>1. proc'[p] = proc[p] \/ proc'[p] = [proc[p] EXCEPT !.atRisk = TRUE]
      BY <1>2
    <3>2. QED BY <2>1, <3>1 DEF ProcOK, Record, Parts
  <2>3. PICK n : n = proc[p].seq
    OBVIOUS
  <2>4. UpTo(n) => UpTo(n)'
    BY <1>4
  <2>5. UpTo(proc[p].seq) => UpTo(proc[p].seq)'
    BY <2>2, <2>3, <2>4 DEF UpTo
  <2>6. CoveredBy(proc[p].seen)' = CoveredBy(proc[p].seen)
    BY <2>2 DEF CoveredBy
  <2>7. Record(proc[p])'
    BY <2>2 DEF Record, Parts
  <2>8. QED BY <1>1, <2>1, <2>2, <2>5, <2>6, <2>7 DEF ProcOK
<1>7. QED BY <1>3, <1>4, <1>5, <1>6 DEF StoreInv

LEMMA NextInv == StoreInv /\ [Next]_vars => StoreInv'
<1> SUFFICES ASSUME StoreInv, [Next]_vars PROVE StoreInv'
  OBVIOUS
<1>1. ASSUME NEW p \in Processes, Step(p) PROVE StoreInv'
  BY <1>1, IdleSteps, SaveInv, ReadEventsInv, AppendLineInv, WriteSnapshotInv, KeepSnapshotInv,
     StopInLineInv, StopBetweenInv DEF Step
<1>2. CASE ChooseToDelete \/ RemoveEvents \/ RemoveSnapshot \/ RemoveDir \/ RemoveLegacy
  BY <1>2, RemovalInv
<1>3. CASE UNCHANGED vars
  <2>1. UNCHANGED <<lines, snap, proc, holder>>
    BY <1>3 DEF vars, disk
  <2>2. LinesTyped' /\ Ordered' /\ CoveredBy(snap)' \in Nat
    BY <2>1, SameFiles
  <2>3. ASSUME NEW p \in Processes PROVE ProcOK(p)'
    BY <2>1 DEF StoreInv, ProcOK, Record, CoveredBy, UpTo
  <2>4. QED BY <2>1, <2>2, <2>3 DEF StoreInv
<1>4. QED BY <1>1, <1>2, <1>3 DEF Next

\* The sequence numbers of the events grow, whatever stops and is removed: no
\* replay of a session fails for an event out of order, and the save that
\* holds the lock goes on behind the last one.
THEOREM NumbersAlwaysGrow == Spec => []NumbersGrow
<1>1. StoreInv => NumbersGrow
  <2> SUFFICES ASSUME StoreInv PROVE NumbersGrow
    OBVIOUS
  <2>1. InOrder(lines, snap)
    BY OrderedInOrder DEF StoreInv
  <2>2. \A p \in Processes : proc[p].at = "appending" => UpTo(proc[p].seq)
    BY Facts
  <2>3. QED BY <2>1, <2>2 DEF NumbersGrow, UpTo
<1>2. QED BY InitInv, NextInv, <1>1, PTL DEF Spec

\* Induction, with the set of the numbers that are as claimed.
LEMMA Induct ==
  ASSUME NEW S, 0 \in S, \A n \in Nat : n \in S => n + 1 \in S
  PROVE  Nat \subseteq S
<1> DEFINE T == {m \in Nat : m \notin S}
<1>1. SUFFICES ASSUME T # {} PROVE FALSE
  OBVIOUS
<1>2. IsWellFoundedOn(LessThan, Nat)
  BY NatLessThanWellFounded DEF OpToRel, LessThan
<1>3. T \in SUBSET Nat
  OBVIOUS
<1>4. PICK m \in T : \A y \in T : ~(<<y, m>> \in LessThan)
  <2> HIDE DEF T
  <2> QED BY <1>1, <1>2, <1>3, WFMin
<1>5. m # 0 /\ m \in Nat /\ m \notin S
  OBVIOUS
<1>6. m - 1 \in Nat /\ (m - 1) + 1 = m
  BY <1>5
<1>7. <<m - 1, m>> \in LessThan
  BY <1>5, <1>6 DEF LessThan
<1>8. m - 1 \in S
  <2>1. m - 1 \notin T
    <3> HIDE DEF T
    <3> QED BY <1>4, <1>7
  <2> QED BY <2>1, <1>6
<1>9. QED BY <1>5, <1>6, <1>8

\* One line of the replay.
ReplayLine(s, session, line) ==
  IF line = None \/ line.seq <= CoveredBy(s) THEN session ELSE ApplyEvent(session, line)

\* What the replay begins with.
Start(s) == IF s = None THEN None ELSE s.session

\* The replay of the lines of a set of places, in their order.
Replays(g, file, s) ==
  g = [t \in SUBSET DOMAIN file |->
         IF t = {} THEN Start(s) ELSE ReplayLine(s, g[t \ {Max(t)}], file[Max(t)])]

LEMMA ReplayIs ==
  ASSUME NEW file, NEW s
  PROVE  Replay(file, s) = (CHOOSE g : Replays(g, file, s))[DOMAIN file]
BY DEF Replay, FoldLeft, MapThenFoldSet, Replays, Start, ReplayLine

\* Such a replay is there.
LEMMA ReplaysThere ==
  ASSUME NEW file, NEW n \in Nat, DOMAIN file = 1..n, NEW s
  PROVE  \E g : Replays(g, file, s)
<1> DEFINE Part(k, g) == g = [t \in SUBSET (1..k) |->
             IF t = {} THEN Start(s) ELSE ReplayLine(s, g[t \ {Max(t)}], file[Max(t)])]
           S == {k \in Nat : \E g : Part(k, g)}
<1>1. 0 \in S
  <2> DEFINE g == [t \in SUBSET (1..0) |-> Start(s)]
  <2>1. \A t \in SUBSET (1..0) : t = {}
    OBVIOUS
  <2>2. Part(0, g)
    BY <2>1
  <2> QED BY <2>2
<1>2. ASSUME NEW k \in Nat, k \in S PROVE k + 1 \in S
  <2>1. PICK g : Part(k, g)
    BY <1>2
  <2> DEFINE h == [t \in SUBSET (1..(k + 1)) |->
               IF t = {} THEN Start(s)
               ELSE IF k + 1 \in t THEN ReplayLine(s, g[t \ {k + 1}], file[k + 1])
               ELSE g[t]]
  <2>2. ASSUME NEW t \in SUBSET (1..(k + 1)), t # {}
        PROVE  h[t] = ReplayLine(s, h[t \ {Max(t)}], file[Max(t)])
    <3>1. Max(t) \in t /\ \A i \in t : i <= Max(t)
      <4>1. \E i \in t : \A j \in t : j <= i
        <5>1. PICK l \in Nat : l = k + 1
          BY <1>2
        <5> QED BY <2>2, <5>1, Greatest
      <4>2. \E i \in t : \A j \in t : i >= j
        BY <4>1
      <4>3. Max(t) \in t /\ \A j \in t : Max(t) >= j
        BY <4>2 DEF Max
      <4> QED BY <4>3
    <3>2. PICK m : m = Max(t)
      OBVIOUS
    <3>3. m \in t /\ m \in 1..(k + 1) /\ \A i \in t : i <= m
      BY <3>1, <3>2
    <3>4. t \ {m} \in SUBSET (1..(k + 1)) /\ t \ {m} \in SUBSET (1..k)
      BY <3>3
    <3>5. h[t \ {m}] = g[t \ {m}]
      <4>1. CASE t \ {m} = {}
        <5>1. g[{}] = Start(s)
          BY <2>1
        <5> QED BY <4>1, <5>1
      <4>2. CASE t \ {m} # {}
        <5>1. k + 1 \notin t \ {m}
          BY <3>4
        <5> QED BY <4>2, <5>1, <3>4
      <4> QED BY <4>1, <4>2
    <3>6. CASE k + 1 \in t
      <4>1. m = k + 1
        BY <3>3, <3>6
      <4>2. h[t] = ReplayLine(s, g[t \ {m}], file[m])
        BY <2>2, <3>6, <4>1
      <4> HIDE DEF h
      <4> QED BY <3>2, <3>5, <4>2
    <3>7. CASE k + 1 \notin t
      <4>1. t \in SUBSET (1..k)
        BY <3>7
      <4>2. h[t] = g[t]
        BY <2>2, <3>7
      <4>3. g[t] = ReplayLine(s, g[t \ {Max(t)}], file[Max(t)])
        BY <2>1, <2>2, <4>1
      <4> HIDE DEF h
      <4> QED BY <3>2, <3>5, <4>2, <4>3
    <3> QED BY <3>6, <3>7
  <2>3. Part(k + 1, h)
    <3>1. h = [t \in SUBSET (1..(k + 1)) |-> h[t]]
      OBVIOUS
    <3>2. h[{}] = Start(s)
      OBVIOUS
    <3> HIDE DEF h
    <3>3. \A t \in SUBSET (1..(k + 1)) :
            h[t] = IF t = {} THEN Start(s) ELSE ReplayLine(s, h[t \ {Max(t)}], file[Max(t)])
      BY <2>2, <3>2
    <3>4. h = [t \in SUBSET (1..(k + 1)) |->
             IF t = {} THEN Start(s) ELSE ReplayLine(s, h[t \ {Max(t)}], file[Max(t)])]
      BY <3>1, <3>3, Zenon
    <3> QED BY <3>4
  <2> HIDE DEF Part, h
  <2> QED BY <2>3
<1>3. n \in S
  <2> HIDE DEF S
  <2> QED BY <1>1, <1>2, Induct
<1> QED BY <1>3 DEF Replays

\* What the first k lines lead to.
After(file, s, k) == (CHOOSE g : Replays(g, file, s))[1..k]

LEMMA AfterIs ==
  ASSUME NEW file, NEW n \in Nat, DOMAIN file = 1..n, NEW s
  PROVE  /\ Replay(file, s) = After(file, s, n)
         /\ After(file, s, 0) = Start(s)
         /\ \A k \in Nat : k < n =>
              After(file, s, k + 1) = ReplayLine(s, After(file, s, k), file[k + 1])
<1>1. PICK g : g = CHOOSE h : Replays(h, file, s)
  OBVIOUS
<1>2. Replays(g, file, s)
  BY <1>1, ReplaysThere
<1>3. g = [t \in SUBSET (1..n) |->
             IF t = {} THEN Start(s) ELSE ReplayLine(s, g[t \ {Max(t)}], file[Max(t)])]
  BY <1>2 DEF Replays
<1>4. Replay(file, s) = After(file, s, n)
  BY ReplayIs DEF After
<1>5. After(file, s, 0) = Start(s)
  <2>1. 1..0 = {} /\ {} \in SUBSET (1..n)
    OBVIOUS
  <2> QED BY <1>1, <1>3, <2>1 DEF After
<1>6. ASSUME NEW k \in Nat, k < n
      PROVE  After(file, s, k + 1) = ReplayLine(s, After(file, s, k), file[k + 1])
  <2> DEFINE t == 1..(k + 1)
  <2>1. t # {} /\ t \in SUBSET (1..n) /\ k + 1 \in t /\ t \ {k + 1} = 1..k
    BY <1>6
  <2>2. Max(t) = k + 1
    <3>1. \A i \in t : k + 1 >= i
      OBVIOUS
    <3>2. \A i \in t : (\A j \in t : i >= j) => i = k + 1
      <4> SUFFICES ASSUME NEW i \in t, \A j \in t : i >= j PROVE i = k + 1
        OBVIOUS
      <4>1. i >= k + 1
        BY <2>1
      <4> QED BY <4>1
    <3> HIDE DEF t
    <3> QED BY <2>1, <3>1, <3>2 DEF Max
  <2>3. g[t] = ReplayLine(s, g[t \ {Max(t)}], file[Max(t)])
    <3> HIDE DEF t
    <3> QED BY <1>3, <2>1
  <2> QED BY <1>1, <2>1, <2>2, <2>3 DEF After
<1> QED BY <1>4, <1>5, <1>6

SameLines(A, B, l) == \A i \in 1..l : A[i] = B[i]

\* The replay of a file of n lines.
Runs(file, s, n) ==
  /\ After(file, s, 0) = Start(s)
  /\ \A k \in Nat : k < n =>
       After(file, s, k + 1) = ReplayLine(s, After(file, s, k), file[k + 1])

LEMMA AfterRuns ==
  ASSUME NEW file, NEW n \in Nat, DOMAIN file = 1..n, NEW s
  PROVE  Runs(file, s, n)
BY AfterIs DEF Runs

\* What lines lead to depends on these lines and on the snapshot alone.
LEMMA AfterSame ==
  ASSUME NEW A, NEW n \in Nat, NEW B, NEW m \in Nat, NEW s, Runs(A, s, n), Runs(B, s, m),
         NEW l \in Nat, l <= n, l <= m, SameLines(A, B, l)
  PROVE  After(A, s, l) = After(B, s, l)
<1> DEFINE S == {k \in Nat : k <= l => After(A, s, k) = After(B, s, k)}
<1>1. 0 \in S
  BY DEF Runs
<1>2. ASSUME NEW k \in Nat, k \in S PROVE k + 1 \in S
  <2> SUFFICES ASSUME k + 1 <= l PROVE After(A, s, k + 1) = After(B, s, k + 1)
    OBVIOUS
  <2>1. k < n /\ k < m /\ k + 1 \in 1..l
    OBVIOUS
  <2>2. After(A, s, k) = After(B, s, k)
    BY <1>2
  <2>3. After(A, s, k + 1) = ReplayLine(s, After(A, s, k), A[k + 1])
    BY <2>1 DEF Runs
  <2>4. After(B, s, k + 1) = ReplayLine(s, After(B, s, k), B[k + 1])
    BY <2>1 DEF Runs
  <2>5. A[k + 1] = B[k + 1]
    BY <2>1 DEF SameLines
  <2> QED BY <2>2, <2>3, <2>4, <2>5
<1>3. l \in S
  <2> HIDE DEF S
  <2> QED BY <1>1, <1>2, Induct
<1> QED BY <1>3

\* Lines that the snapshot covers, or that cannot be read, change nothing.
LEMMA AfterCovered ==
  ASSUME NEW file, NEW n \in Nat, DOMAIN file = 1..n, NEW s, NEW l \in Nat, l <= n,
         \A i \in 1..l : file[i] = None \/ file[i].seq <= CoveredBy(s)
  PROVE  After(file, s, l) = Start(s)
<1>0. Runs(file, s, n)
  BY AfterRuns
<1> DEFINE S == {k \in Nat : k <= l => After(file, s, k) = Start(s)}
<1>1. 0 \in S
  BY <1>0 DEF Runs
<1>2. ASSUME NEW k \in Nat, k \in S PROVE k + 1 \in S
  <2> SUFFICES ASSUME k + 1 <= l PROVE After(file, s, k + 1) = Start(s)
    OBVIOUS
  <2>1. k < n /\ k + 1 \in 1..l
    OBVIOUS
  <2>2. After(file, s, k) = Start(s)
    BY <1>2
  <2>3. After(file, s, k + 1) = ReplayLine(s, After(file, s, k), file[k + 1])
    BY <1>0, <2>1 DEF Runs
  <2> QED BY <2>1, <2>2, <2>3 DEF ReplayLine
<1>3. l \in S
  <2> HIDE DEF S
  <2> QED BY <1>1, <1>2, Induct
<1> QED BY <1>3

\* An event makes a session of a session, or of nothing.
LEMMA ApplyEventType ==
  ASSUME NEW session \in Sessions \cup {None}, NEW event, NEW draft \in Drafts,
         event.kind = draft.kind, event.data = draft.data
  PROVE  ApplyEvent(session, event) \in Sessions
<1>1. PICK b \in Sessions : b = Base(session)
  <2>1. Fresh \in Sessions
    <3>1. <<>> \in Seq(Nat)
      OBVIOUS
    <3> QED BY <3>1 DEF Fresh, Sessions
  <2> QED BY <2>1 DEF Base
<1>2. b \in [mode : Nat, msgs : Seq(Nat), rest : Nat]
  BY DEF Sessions
<1>3. CASE event.kind = "full"
  <2>1. event.data \in Sessions
    BY <1>3 DEF Drafts
  <2> QED BY <1>3, <2>1 DEF ApplyEvent
<1>4. CASE event.kind = "mode"
  <2>1. event.data \in Nat
    BY <1>4 DEF Drafts
  <2>2. ApplyEvent(session, event) = [b EXCEPT !.mode = event.data]
    BY <1>1, <1>4 DEF ApplyEvent
  <2> QED BY <1>2, <2>1, <2>2 DEF Sessions
<1>5. CASE event.kind = "append"
  <2>1. event.data \in Seq(Nat)
    BY <1>5 DEF Drafts
  <2>2. ApplyEvent(session, event) = [b EXCEPT !.msgs = b.msgs \o event.data]
    BY <1>1, <1>5 DEF ApplyEvent
  <2>3. b.msgs \o event.data \in Seq(Nat)
    BY <1>2, <2>1
  <2> QED BY <1>2, <2>2, <2>3 DEF Sessions
<1>6. CASE event.kind = "replace"
  <2>1. event.data \in Seq(Nat)
    BY <1>6 DEF Drafts
  <2>2. ApplyEvent(session, event) = [b EXCEPT !.msgs = event.data]
    BY <1>1, <1>6 DEF ApplyEvent
  <2> QED BY <1>2, <2>1, <2>2 DEF Sessions
<1> QED BY <1>3, <1>4, <1>5, <1>6 DEF Drafts

\* An event is a draft with a number, and not nothing.
LEMMA EventIs ==
  ASSUME NEW e \in Events
  PROVE  /\ e.seq \in Nat /\ e.seq > 0 /\ e # None
         /\ \E draft \in Drafts : draft.kind = e.kind /\ draft.data = e.data
<1>1. e.seq \in Nat /\ e.seq > 0
  BY DEF Events
<1>2. [kind |-> e.kind, data |-> e.data] \in Drafts
  <2>1. CASE e \in [seq : Nat \ {0}, kind : {"full"}, data : Sessions]
    BY <2>1 DEF Drafts
  <2>2. CASE e \in [seq : Nat \ {0}, kind : {"mode"}, data : Nat]
    BY <2>2 DEF Drafts
  <2>3. CASE e \in [seq : Nat \ {0}, kind : {"append", "replace"}, data : Seq(Nat)]
    BY <2>3 DEF Drafts
  <2> QED BY <2>1, <2>2, <2>3 DEF Events
<1> QED BY <1>1, <1>2, NoneAssumption

\* A replay gives a session or nothing.
LEMMA AfterType ==
  ASSUME NEW file \in Seq(Events \cup {None}), NEW s \in Snapshots \cup {None},
         NEW l \in Nat, l <= Len(file)
  PROVE  After(file, s, l) \in Sessions \cup {None}
<1>1. PICK n \in Nat : n = Len(file) /\ DOMAIN file = 1..n
  OBVIOUS
<1>0. Runs(file, s, n)
  BY <1>1, AfterRuns
<1> DEFINE S == {k \in Nat : k <= n => After(file, s, k) \in Sessions \cup {None}}
<1>2. 0 \in S
  <2>1. Start(s) \in Sessions \cup {None}
    BY DEF Start, Snapshots
  <2> QED BY <1>0, <2>1 DEF Runs
<1>3. ASSUME NEW k \in Nat, k \in S PROVE k + 1 \in S
  <2> SUFFICES ASSUME k + 1 <= n PROVE After(file, s, k + 1) \in Sessions \cup {None}
    OBVIOUS
  <2>1. k < n /\ k + 1 \in 1..n
    OBVIOUS
  <2>2. After(file, s, k) \in Sessions \cup {None}
    BY <1>3
  <2>3. After(file, s, k + 1) = ReplayLine(s, After(file, s, k), file[k + 1])
    BY <1>0, <2>1 DEF Runs
  <2>4. file[k + 1] \in Events \cup {None}
    BY <1>1, <2>1
  <2>5. CASE file[k + 1] = None
    BY <2>2, <2>3, <2>5 DEF ReplayLine
  <2>6. CASE file[k + 1] \in Events
    <3>1. PICK draft \in Drafts : draft.kind = file[k + 1].kind /\ draft.data = file[k + 1].data
      BY <2>6, EventIs
    <3>2. ApplyEvent(After(file, s, k), file[k + 1]) \in Sessions
      BY <2>2, <3>1, ApplyEventType
    <3> QED BY <2>2, <2>3, <3>2 DEF ReplayLine
  <2> QED BY <2>4, <2>5, <2>6
<1>4. l \in S
  <2> HIDE DEF S
  <2> QED BY <1>2, <1>3, Induct
<1> QED BY <1>1, <1>4

LEMMA ReplayType ==
  ASSUME NEW file \in Seq(Events \cup {None}), NEW s \in Snapshots \cup {None}
  PROVE  Replay(file, s) \in Sessions \cup {None}
<1>1. PICK n \in Nat : n = Len(file) /\ DOMAIN file = 1..n
  OBVIOUS
<1>2. Replay(file, s) = After(file, s, n)
  BY <1>1, AfterIs
<1> QED BY <1>1, <1>2, AfterType

\* A line that comes behind the others is replayed last.
LEMMA ReplayAppended ==
  ASSUME NEW T, NEW file \in Seq(T), NEW line, NEW s
  PROVE  LET longer == Append(file, line)
         IN  /\ Replay(longer, s) = ReplayLine(s, Replay(file, s), line)
             /\ After(longer, s, Len(file)) = Replay(file, s)
<1>1. PICK n \in Nat : n = Len(file) /\ DOMAIN file = 1..n
  OBVIOUS
<1>2. PICK longer : longer = Append(file, line)
  OBVIOUS
<1>3. PICK m \in Nat : m = n + 1
  OBVIOUS
<1>4. DOMAIN longer = 1..m /\ longer[m] = line /\ \A i \in 1..n : longer[i] = file[i]
  BY <1>1, <1>2, <1>3
<1>5. After(longer, s, n) = After(file, s, n)
  <2>1. Runs(longer, s, m) /\ Runs(file, s, n)
    BY <1>1, <1>4, AfterRuns
  <2>2. SameLines(longer, file, n)
    BY <1>4 DEF SameLines
  <2> QED BY <1>3, <2>1, <2>2, AfterSame
<1>6. Replay(file, s) = After(file, s, n)
  BY <1>1, AfterIs
<1>7. Replay(longer, s) = After(longer, s, m)
  BY <1>4, AfterIs
<1>8. After(longer, s, n + 1) = ReplayLine(s, After(longer, s, n), longer[n + 1])
  BY <1>3, <1>4, AfterIs
<1> QED BY <1>1, <1>2, <1>3, <1>4, <1>5, <1>6, <1>7, <1>8

\* A last line that is lost leaves what was before it.
LEMMA ReplayLost ==
  ASSUME NEW T, NEW file \in Seq(T), Len(file) # 0, NEW s
  PROVE  Replay([file EXCEPT ![Len(file)] = None], s) = After(file, s, Len(file) - 1)
<1>1. PICK n \in Nat : n = Len(file) /\ DOMAIN file = 1..n
  OBVIOUS
<1>2. PICK lost : lost = [file EXCEPT ![Len(file)] = None]
  OBVIOUS
<1>3. PICK k \in Nat : k + 1 = n
  <2>1. n - 1 \in Nat /\ (n - 1) + 1 = n
    BY <1>1
  <2> QED BY <2>1
<1>4. DOMAIN lost = 1..n /\ lost[n] = None /\ \A i \in 1..k : lost[i] = file[i]
  BY <1>1, <1>2, <1>3
<1>5. After(lost, s, k) = After(file, s, k)
  <2>1. Runs(lost, s, n) /\ Runs(file, s, n)
    BY <1>1, <1>4, AfterRuns
  <2>2. SameLines(lost, file, k)
    BY <1>4 DEF SameLines
  <2> QED BY <1>3, <2>1, <2>2, AfterSame
<1>6. Replay(lost, s) = After(lost, s, n)
  BY <1>4, AfterIs
<1>7. After(lost, s, k + 1) = ReplayLine(s, After(lost, s, k), lost[k + 1])
  BY <1>3, <1>4, AfterIs
<1>8. After(lost, s, n) = After(file, s, k)
  BY <1>3, <1>4, <1>5, <1>7 DEF ReplayLine
<1> QED BY <1>1, <1>2, <1>3, <1>6, <1>8

\* Drafts bring the messages, the mode and at last all of a session, from a base.
DraftsFit(drafts, base, session) ==
  /\ \A i \in DOMAIN drafts :
       /\ drafts[i].kind = "full" => drafts[i].data = session
       /\ drafts[i].kind = "mode" => drafts[i].data = session.mode
       /\ drafts[i].kind = "replace" => drafts[i].data = session.msgs
       /\ drafts[i].kind = "append" =>
            /\ base.msgs \o drafts[i].data = session.msgs
            /\ \A j \in 1..(i - 1) : drafts[j].kind = "mode"
       /\ drafts[i].kind # "full" => base # None
  /\ drafts # <<>> => drafts[Len(drafts)].kind = "full"

\* A sequence begins with its prefix.
LEMMA PrefixAdded ==
  ASSUME NEW T, NEW before \in Seq(T), NEW after \in Seq(T), IsPrefix(before, after)
  PROVE  LET more == SubSeq(after, Len(before) + 1, Len(after))
         IN  more \in Seq(T) /\ before \o more = after
<1>1. PICK n \in Nat, m \in Nat : n = Len(before) /\ m = Len(after)
  OBVIOUS
<1>2. n <= m /\ SubSeq(before, 1, n) = SubSeq(after, 1, n)
  BY <1>1 DEF IsPrefix
<1>3. \A i \in 1..n : before[i] = after[i]
  <2> SUFFICES ASSUME NEW i \in 1..n PROVE before[i] = after[i]
    OBVIOUS
  <2>1. SubSeq(before, 1, n)[i] = before[i]
    BY <1>1
  <2>2. SubSeq(after, 1, n)[i] = after[i]
    BY <1>1, <1>2
  <2> QED BY <1>2, <2>1, <2>2
<1>4. PICK more : more = SubSeq(after, n + 1, m)
  OBVIOUS
<1>5. /\ more \in Seq(T) /\ Len(more) = m - n
      /\ \A i \in 1..(m - n) : more[i] = after[n + i]
  <2>1. /\ more \in Seq(T)
        /\ Len(more) = IF n + 1 <= m THEN m - (n + 1) + 1 ELSE 0
        /\ \A i \in 1..(m - (n + 1) + 1) : more[i] = after[(n + 1) + i - 1]
    BY <1>1, <1>2, <1>4, SubSeqProperties
  <2>2. m - (n + 1) + 1 = m - n /\ (~(n + 1 <= m) => m - n = 0)
    BY <1>2
  <2>3. Len(more) = m - n
    <3>1. Len(more) = IF n + 1 <= m THEN m - (n + 1) + 1 ELSE 0
      BY <2>1
    <3> QED BY <2>2, <3>1
  <2>4. ASSUME NEW i \in 1..(m - n) PROVE more[i] = after[n + i]
    <3>1. i \in 1..(m - (n + 1) + 1)
      BY <2>2
    <3>2. more[i] = after[(n + 1) + i - 1]
      BY <2>1, <3>1
    <3>3. (n + 1) + i - 1 = n + i
      OBVIOUS
    <3> QED BY <3>2, <3>3
  <2> QED BY <2>1, <2>3, <2>4
<1>6. before \o more = after
  <2>1. before \o more \in Seq(T) /\ Len(before \o more) = m
    BY <1>1, <1>2, <1>5
  <2>2. ASSUME NEW i \in 1..m PROVE (before \o more)[i] = after[i]
    <3>0. (before \o more)[i] = IF i <= n THEN before[i] ELSE more[i - n]
      <4>1. i \in 1..(Len(before) + Len(more))
        BY <1>1, <1>2, <1>5
      <4>2. \A j \in 1..(Len(before) + Len(more)) :
              (before \o more)[j] = IF j <= Len(before) THEN before[j] ELSE more[j - Len(before)]
        BY <1>5, ConcatProperties
      <4> QED BY <1>1, <4>1, <4>2
    <3>1. CASE i <= n
      <4>1. (before \o more)[i] = before[i]
        BY <3>0, <3>1
      <4>2. i \in 1..n
        BY <3>1
      <4>3. before[i] = after[i]
        BY <1>3, <4>2
      <4> QED BY <4>1, <4>3
    <3>2. CASE i > n
      <4>1. PICK k \in 1..(m - n) : k = i - n
        BY <1>2, <3>2
      <4>2. (before \o more)[i] = more[k]
        BY <3>0, <3>2, <4>1
      <4> QED BY <1>5, <4>1, <4>2
    <3>3. i <= n \/ i > n
      OBVIOUS
    <3> QED BY <3>1, <3>2, <3>3
  <2> QED BY <1>1, <2>1, <2>2, SeqEqual
<1> QED BY <1>1, <1>4, <1>5, <1>6

LEMMA Joins ==
  ASSUME NEW a, NEW b, NEW c
  PROVE  <<a>> \o <<b>> = <<a, b>> /\ <<a, b>> \o <<c>> = <<a, b, c>>
<1> DEFINE T == {a, b, c}
<1>1. /\ <<a>> \in Seq(T) /\ <<b>> \in Seq(T) /\ <<c>> \in Seq(T)
      /\ <<a, b>> \in Seq(T) /\ <<a, b, c>> \in Seq(T)
  OBVIOUS
<1> HIDE DEF T
<1>2. <<a>> \o <<b>> = <<a, b>>
  <2>1. <<a>> \o <<b>> \in Seq(T) /\ Len(<<a>> \o <<b>>) = 2
        /\ \A i \in 1..2 : (<<a>> \o <<b>>)[i] = <<a, b>>[i]
    BY <1>1, ConcatProperties
  <2> QED BY <1>1, <2>1, SeqEqual
<1>3. <<a, b>> \o <<c>> = <<a, b, c>>
  <2>1. <<a, b>> \o <<c>> \in Seq(T) /\ Len(<<a, b>> \o <<c>>) = 3
        /\ \A i \in 1..3 : (<<a, b>> \o <<c>>)[i] = <<a, b, c>>[i]
    BY <1>1, ConcatProperties
  <2> QED BY <1>1, <2>1, SeqEqual
<1> QED BY <1>2, <1>3

\* One, two or three drafts, of which the last is the whole.
LEMMA FewDraftsFit ==
  ASSUME NEW base \in Sessions \cup {None}, NEW session \in Sessions,
         NEW full \in Drafts, full.kind = "full", full.data = session
  PROVE  /\ <<full>> \in Seq(Drafts) /\ DraftsFit(<<full>>, base, session)
         /\ <<full, full>> \in Seq(Drafts) /\ DraftsFit(<<full, full>>, base, session)
         /\ \A t \in Drafts :
              /\ base # None
              /\ \/ t.kind = "mode" /\ t.data = session.mode
                 \/ t.kind = "append" /\ base.msgs \o t.data = session.msgs
                 \/ t.kind = "replace" /\ t.data = session.msgs
              => /\ <<t, full>> \in Seq(Drafts) /\ DraftsFit(<<t, full>>, base, session)
                 /\ \A mode \in Drafts : mode.kind = "mode" /\ mode.data = session.mode =>
                      <<mode, t, full>> \in Seq(Drafts) /\ DraftsFit(<<mode, t, full>>, base, session)
<1>1. <<full>> \in Seq(Drafts) /\ <<full, full>> \in Seq(Drafts)
  OBVIOUS
<1>2. DraftsFit(<<full>>, base, session) /\ DraftsFit(<<full, full>>, base, session)
  <2>1. DraftsFit(<<full>>, base, session)
    <3>1. DOMAIN <<full>> = {1} /\ Len(<<full>>) = 1 /\ <<full>>[1] = full
      OBVIOUS
    <3> QED BY <3>1 DEF DraftsFit
  <2>2. DraftsFit(<<full, full>>, base, session)
    <3>1. /\ DOMAIN <<full, full>> = {1, 2} /\ Len(<<full, full>>) = 2
          /\ <<full, full>>[1] = full /\ <<full, full>>[2] = full
      OBVIOUS
    <3> QED BY <3>1 DEF DraftsFit
  <2> QED BY <2>1, <2>2
<1>3. ASSUME NEW t \in Drafts, base # None,
             \/ t.kind = "mode" /\ t.data = session.mode
             \/ t.kind = "append" /\ base.msgs \o t.data = session.msgs
             \/ t.kind = "replace" /\ t.data = session.msgs
      PROVE  /\ <<t, full>> \in Seq(Drafts) /\ DraftsFit(<<t, full>>, base, session)
             /\ \A mode \in Drafts : mode.kind = "mode" /\ mode.data = session.mode =>
                  <<mode, t, full>> \in Seq(Drafts) /\ DraftsFit(<<mode, t, full>>, base, session)
  <2>1. DraftsFit(<<t, full>>, base, session)
    <3>1. /\ DOMAIN <<t, full>> = {1, 2} /\ Len(<<t, full>>) = 2
          /\ <<t, full>>[1] = t /\ <<t, full>>[2] = full
          /\ 1..(1 - 1) = {}
      OBVIOUS
    <3>2. PICK all : all = <<t, full>>
      OBVIOUS
    <3> QED BY <1>3, <3>1, <3>2 DEF DraftsFit
  <2>2. ASSUME NEW mode \in Drafts, mode.kind = "mode", mode.data = session.mode
        PROVE  <<mode, t, full>> \in Seq(Drafts) /\ DraftsFit(<<mode, t, full>>, base, session)
    <3>1. PICK all : all = <<mode, t, full>>
      OBVIOUS
    <3>2. /\ DOMAIN all = {1, 2, 3} /\ Len(all) = 3 /\ all # <<>> /\ all \in Seq(Drafts)
          /\ all[1] = mode /\ all[2] = t /\ all[3] = full
      BY <3>1
    <3>3. \A j \in 1..(2 - 1) : all[j].kind = "mode"
      BY <2>2, <3>2
    <3> QED BY <1>3, <2>2, <3>1, <3>2, <3>3 DEF DraftsFit
  <2> QED BY <2>1, <2>2
<1> QED BY <1>1, <1>2, <1>3

\* What a save appends.
LEMMA SaveDraftsFit ==
  ASSUME NEW base \in Sessions \cup {None}, NEW session \in Sessions
  PROVE  LET drafts == SaveDrafts(base, session)
         IN  drafts \in Seq(Drafts) /\ drafts # <<>> /\ DraftsFit(drafts, base, session)
<1>1. PICK full : full = [kind |-> "full", data |-> session]
  OBVIOUS
<1>2. full \in Drafts /\ full.kind = "full" /\ full.data = session
  BY <1>1 DEF Drafts
<1>3. PICK drafts : drafts = SaveDrafts(base, session)
  OBVIOUS
<1>4. CASE base = None
  <2>1. drafts = <<full, full>>
    BY <1>1, <1>3, <1>4, Joins DEF SaveDrafts, Full
  <2>2. drafts \in Seq(Drafts) /\ drafts # <<>> /\ DraftsFit(drafts, base, session)
    BY <1>2, <2>1, FewDraftsFit
  <2> QED BY <1>3, <2>2
<1>5. CASE base # None
  <2>1. session.mode \in Nat /\ session.msgs \in Seq(Nat) /\ base.msgs \in Seq(Nat)
    BY <1>5 DEF Sessions
  <2>2. PICK mode : mode = [kind |-> "mode", data |-> session.mode]
    OBVIOUS
  <2>3. mode \in Drafts /\ mode.kind = "mode" /\ mode.data = session.mode
    BY <2>1, <2>2 DEF Drafts
  <2>4. PICK turn : turn = TurnDrafts(base.msgs, session.msgs)
    OBVIOUS
  <2>5. \/ turn = <<>>
        \/ \E t \in Drafts :
             /\ turn = <<t>>
             /\ \/ t.kind = "append" /\ base.msgs \o t.data = session.msgs
                \/ t.kind = "replace" /\ t.data = session.msgs
    <3>1. CASE base.msgs = session.msgs
      BY <2>4, <3>1 DEF TurnDrafts
    <3>2. CASE base.msgs # session.msgs /\ IsPrefix(base.msgs, session.msgs)
      <4>1. PICK more : more = SubSeq(session.msgs, Len(base.msgs) + 1, Len(session.msgs))
        OBVIOUS
      <4>2. more \in Seq(Nat) /\ base.msgs \o more = session.msgs
        BY <2>1, <3>2, <4>1, PrefixAdded
      <4>3. turn = << [kind |-> "append", data |-> more] >>
        BY <2>4, <3>2, <4>1 DEF TurnDrafts
      <4>4. [kind |-> "append", data |-> more] \in Drafts
        BY <4>2 DEF Drafts
      <4> QED BY <4>2, <4>3, <4>4
    <3>3. CASE base.msgs # session.msgs /\ ~IsPrefix(base.msgs, session.msgs)
      <4>1. turn = << [kind |-> "replace", data |-> session.msgs] >>
        BY <2>4, <3>3 DEF TurnDrafts
      <4>2. [kind |-> "replace", data |-> session.msgs] \in Drafts
        BY <2>1 DEF Drafts
      <4> QED BY <4>1, <4>2
    <3> QED BY <3>1, <3>2, <3>3
  <2>6. drafts = ((IF base.mode = session.mode THEN <<>> ELSE <<mode>>) \o turn) \o <<full>>
    BY <1>1, <1>3, <1>5, <2>2, <2>4 DEF SaveDrafts, Full
  <2>7. CASE turn = <<>>
    <3>1. drafts = <<full>> \/ drafts = <<mode, full>>
      <4>1. <<>> \o <<>> = <<>> /\ <<mode>> \o <<>> = <<mode>> /\ <<>> \o <<full>> = <<full>>
        OBVIOUS
      <4>2. CASE base.mode = session.mode
        BY <2>6, <2>7, <4>1, <4>2
      <4>3. CASE base.mode # session.mode
        BY <2>6, <2>7, <4>1, <4>3, Joins
      <4> QED BY <4>2, <4>3
    <3>2. drafts \in Seq(Drafts) /\ drafts # <<>> /\ DraftsFit(drafts, base, session)
      <4>1. CASE drafts = <<full>>
        BY <1>2, <4>1, FewDraftsFit
      <4>2. CASE drafts = <<mode, full>>
        BY <1>2, <1>5, <2>3, <4>2, FewDraftsFit
      <4> QED BY <3>1, <4>1, <4>2
    <3> QED BY <1>3, <3>2
  <2>8. ASSUME NEW t \in Drafts, turn = <<t>>,
               \/ t.kind = "append" /\ base.msgs \o t.data = session.msgs
               \/ t.kind = "replace" /\ t.data = session.msgs
        PROVE  drafts \in Seq(Drafts) /\ drafts # <<>> /\ DraftsFit(drafts, base, session)
    <3>1. CASE base.mode = session.mode
      <4>1. drafts = <<t, full>>
        BY <2>6, <2>8, <3>1, Joins
      <4> QED BY <1>2, <1>5, <2>8, <4>1, FewDraftsFit
    <3>2. CASE base.mode # session.mode
      <4>1. drafts = <<mode, t, full>>
        BY <2>6, <2>8, <3>2, Joins
      <4> QED BY <1>2, <1>5, <2>3, <2>8, <4>1, FewDraftsFit
    <3> QED BY <3>1, <3>2
  <2> QED BY <1>3, <2>5, <2>7, <2>8
<1> QED BY <1>4, <1>5

\* The first draft, and what is left to append behind it.
LEMMA DraftsFitTail ==
  ASSUME NEW base \in Sessions \cup {None}, NEW session \in Sessions,
         NEW drafts \in Seq(Drafts), drafts # <<>>, DraftsFit(drafts, base, session)
  PROVE  /\ Head(drafts) \in Drafts /\ Tail(drafts) \in Seq(Drafts)
         /\ ApplyEvent(base, Head(drafts)) \in Sessions
         /\ Tail(drafts) = <<>> => Head(drafts).kind = "full"
         /\ DraftsFit(Tail(drafts), ApplyEvent(base, Head(drafts)), session)
<1>1. PICK n \in Nat : n = Len(drafts)
  OBVIOUS
<1>2. PICK head : head = Head(drafts)
  OBVIOUS
<1>3. PICK rest : rest = Tail(drafts)
  OBVIOUS
<1>4. PICK next : next = ApplyEvent(base, head)
  OBVIOUS
<1>5. /\ n > 0 /\ head = drafts[1] /\ head \in Drafts
      /\ rest \in Seq(Drafts) /\ Len(rest) = n - 1 /\ DOMAIN rest = 1..(n - 1)
      /\ \A i \in 1..(n - 1) : rest[i] = drafts[i + 1]
      /\ DOMAIN drafts = 1..n
  BY <1>1, <1>2, <1>3
<1>6. next \in Sessions
  BY <1>4, <1>5, ApplyEventType
<1>7. rest = <<>> => head.kind = "full"
  BY <1>1, <1>5 DEF DraftsFit
<1>8. DraftsFit(rest, next, session)
  <2>1. ASSUME NEW i \in 1..(n - 1)
        PROVE  /\ rest[i].kind = "full" => rest[i].data = session
               /\ rest[i].kind = "mode" => rest[i].data = session.mode
               /\ rest[i].kind = "replace" => rest[i].data = session.msgs
               /\ rest[i].kind # "full" => next # None
    <3>1. i + 1 \in DOMAIN drafts /\ rest[i] = drafts[i + 1]
      BY <1>5
    <3> QED BY <1>6, <3>1, NoneAssumption DEF DraftsFit
  <2>2. ASSUME NEW i \in 1..(n - 1), rest[i].kind = "append"
        PROVE  /\ next.msgs \o rest[i].data = session.msgs
               /\ \A j \in 1..(i - 1) : rest[j].kind = "mode"
    <3>1. i + 1 \in DOMAIN drafts /\ rest[i] = drafts[i + 1] /\ drafts[i + 1].kind = "append"
      BY <1>5, <2>2
    <3>2. /\ base.msgs \o rest[i].data = session.msgs
          /\ \A j \in 1..((i + 1) - 1) : drafts[j].kind = "mode"
          /\ base # None
      BY <3>1 DEF DraftsFit
    <3>3. head.kind = "mode" /\ \A j \in 1..(i - 1) : rest[j].kind = "mode"
      BY <1>5, <3>2
    <3>4. next.msgs = base.msgs
      <4>1. next = [base EXCEPT !.mode = head.data]
        BY <1>4, <3>2, <3>3 DEF ApplyEvent, Base
      <4> QED BY <3>2, <4>1 DEF Sessions
    <3> QED BY <3>2, <3>3, <3>4
  <2>3. rest # <<>> => rest[Len(rest)].kind = "full"
    <3> SUFFICES ASSUME rest # <<>> PROVE rest[n - 1].kind = "full"
      BY <1>5
    <3>1. n - 1 \in 1..(n - 1) /\ (n - 1) + 1 = n
      BY <1>5
    <3> QED BY <1>1, <1>5, <3>1 DEF DraftsFit
  <2> QED BY <1>5, <2>1, <2>2, <2>3 DEF DraftsFit
<1> QED BY <1>2, <1>3, <1>4, <1>5, <1>6, <1>7, <1>8

FilesTyped ==
  /\ lines \in Seq(Events \cup {None}) /\ ended \in BOOLEAN
  /\ snap \in Snapshots \cup {None} /\ legacy \in {None, Old}

CountsTyped == changes \in Nat /\ saves \in Nat /\ faults \in Nat /\ removals \in Nat

GhostsTyped == promised \in Sessions \cup {None} /\ attempted \subseteq Sessions /\ skewed \in BOOLEAN

ControlTyped == holder \in Processes \cup {None} /\ removal \in {"none", "chosen", "legacy"}

\* Who has the session open has one, and who has the lock is saving.
ProcTyped(p) ==
  /\ proc[p] \in Doing
  /\ holder = p => proc[p].at \in Holding
  /\ proc[p].at \notin {"closed", "loading"} => proc[p].session \in Sessions

Typed ==
  /\ FilesTyped /\ CountsTyped /\ GhostsTyped /\ ControlTyped
  /\ proc = [p \in Processes |-> proc[p]]
  /\ \A p \in Processes : ProcTyped(p)

LEMMA TypedTypeOK == Typed => TypeOK
BY DEF Typed, TypeOK, FilesTyped, CountsTyped, GhostsTyped, ControlTyped, ProcTyped

LEMMA SomeSessions == Fresh \in Sessions /\ Old \in Sessions
<1>1. <<>> \in Seq(Nat) /\ <<0>> \in Seq(Nat)
  OBVIOUS
<1> QED BY <1>1 DEF Fresh, Old, Sessions

LEMMA ClosedTyped ==
  /\ Closed \in Doing /\ Closed.at = "closed"
  /\ \A s \in Sessions : LET r == [Closed EXCEPT !.at = "open", !.session = s]
                         IN  r \in Doing /\ r.session = s /\ r.at = "open"
<1>1. <<>> \in Seq(Drafts)
  OBVIOUS
<1>2. Closed \in Doing /\ Closed.at = "closed"
  BY <1>1 DEF Closed, Doing
<1> QED BY <1>2 DEF Doing

LEMMA InitTyped == Init => Typed
<1> SUFFICES ASSUME Init PROVE Typed
  OBVIOUS
<1>1. FilesTyped
  <2>1. <<>> \in Seq(Events \cup {None})
    OBVIOUS
  <2> QED BY <2>1 DEF Init, FilesTyped
<1>2. CountsTyped /\ ControlTyped
  BY DEF Init, CountsTyped, ControlTyped
<1>3. GhostsTyped
  BY SomeSessions DEF Init, GhostsTyped
<1>4. proc = [p \in Processes |-> proc[p]]
  BY DEF Init
<1>5. ASSUME NEW p \in Processes PROVE ProcTyped(p)
  BY ClosedTyped, SessionAssumption DEF Init, ProcTyped
<1> QED BY <1>1, <1>2, <1>3, <1>4, <1>5 DEF Typed

\* A step of one process.
LEMMA DoingStep ==
  ASSUME Typed, NEW p \in Processes, NEW r \in Doing, proc' = [proc EXCEPT ![p] = r],
         r.at \notin {"closed", "loading"} => r.session \in Sessions,
         holder' = p => r.at \in Holding, holder' \in {holder, p, None},
         FilesTyped', CountsTyped', GhostsTyped', ControlTyped'
  PROVE  Typed'
<1>1. proc' = [q \in Processes |-> proc'[q]] /\ proc'[p] = r
      /\ \A q \in Processes \ {p} : proc'[q] = proc[q]
  BY DEF Typed
<1>2. ASSUME NEW q \in Processes PROVE ProcTyped(q)'
  <2>1. CASE q = p
    BY <1>1, <2>1 DEF ProcTyped
  <2>2. CASE q # p
    BY <1>1, <2>2, SessionAssumption DEF ProcTyped, Typed
  <2> QED BY <2>1, <2>2
<1> QED BY <1>1, <1>2 DEF Typed

LEMMA SameTyped ==
  ASSUME Typed
  PROVE  /\ UNCHANGED <<lines, ended, snap, legacy>> => FilesTyped'
         /\ UNCHANGED <<changes, saves, faults, removals>> => CountsTyped'
         /\ UNCHANGED <<promised, attempted, skewed>> => GhostsTyped'
         /\ UNCHANGED <<holder, removal>> => ControlTyped'
BY DEF Typed, FilesTyped, CountsTyped, GhostsTyped, ControlTyped

LEMMA GluedTyped ==
  ASSUME Typed, NEW line \in Events \cup {None}
  PROVE  Glued(line) \in Seq(Events \cup {None})
<1> DEFINE T == Events \cup {None}
<1>1. lines \in Seq(T) /\ line \in T /\ None \in T
  BY DEF Typed, FilesTyped
<1>2. lines \in [1..Len(lines) -> T] /\ Len(lines) \in Nat
  BY <1>1
<1> HIDE DEF T
<1>3. [lines EXCEPT ![Len(lines)] = None] \in [1..Len(lines) -> T]
  BY <1>1, <1>2
<1>4. [lines EXCEPT ![Len(lines)] = None] \in Seq(T)
  BY <1>2, <1>3
<1>5. Append(lines, line) \in Seq(T)
  BY <1>1
<1> QED BY <1>4, <1>5 DEF Glued, T

\* What a process that holds the lock writes next.
LEMMA NextEventTyped ==
  ASSUME Typed, NEW p \in Processes, proc[p].drafts # <<>>
  PROVE  /\ NextEvent(p) \in Events
         /\ Head(proc[p].drafts) \in Drafts /\ Tail(proc[p].drafts) \in Seq(Drafts)
         /\ NextEvent(p).seq = proc[p].seq + 1
         /\ NextEvent(p).kind = Head(proc[p].drafts).kind
         /\ NextEvent(p).data = Head(proc[p].drafts).data
<1>1. proc[p].drafts \in Seq(Drafts) /\ proc[p].seq \in Nat
  BY DEF Typed, ProcTyped, Doing
<1>2. PICK draft \in Drafts : draft = Head(proc[p].drafts)
  BY <1>1
<1>3. Tail(proc[p].drafts) \in Seq(Drafts)
  BY <1>1
<1>4. PICK n \in Nat \ {0} : n = proc[p].seq + 1
  BY <1>1
<1>5. NextEvent(p) = [seq |-> n, kind |-> draft.kind, data |-> draft.data]
  BY <1>2, <1>4 DEF NextEvent
<1>6. [seq |-> n, kind |-> draft.kind, data |-> draft.data] \in Events
  <2>1. CASE draft \in [kind : {"full"}, data : Sessions]
    BY <2>1 DEF Events
  <2>2. CASE draft \in [kind : {"mode"}, data : Nat]
    BY <2>2 DEF Events
  <2>3. CASE draft \in [kind : {"append", "replace"}, data : Seq(Nat)]
    BY <2>3 DEF Events
  <2> QED BY <2>1, <2>2, <2>3 DEF Drafts
<1> QED BY <1>2, <1>3, <1>4, <1>5, <1>6

LEMMA ProcFacts ==
  ASSUME Typed, NEW p \in Processes
  PROVE  /\ proc[p] \in Doing
         /\ proc[p].at \in Stages
         /\ proc[p].session \in Sessions \cup {None} /\ proc[p].seen \in Snapshots \cup {None}
         /\ proc[p].base \in Sessions \cup {None} /\ proc[p].seq \in Nat
         /\ proc[p].drafts \in Seq(Drafts) /\ proc[p].atRisk \in BOOLEAN
         /\ proc[p].at \notin {"closed", "loading"} => proc[p].session \in Sessions
         /\ holder = p => proc[p].at \in Holding
BY DEF Typed, ProcTyped, Doing, Stages

\* Opened or closed, after whatever it did.
LEMMA OpenedTyped ==
  ASSUME Typed, NEW p \in Processes, proc[p].at \notin {"closed", "loading"}
  PROVE  Opened(p) \in Doing /\ Opened(p).at = "open" /\ Opened(p).session \in Sessions
         /\ Opened(p).session = proc[p].session
<1>1. proc[p].session \in Sessions
  BY ProcFacts
<1> QED BY <1>1, ClosedTyped DEF Opened

LEMMA ChangedTyped ==
  ASSUME NEW session \in Sessions, NEW n \in Nat, NEW s \in Changed(session, n)
  PROVE  s \in Sessions
<1>1. Append(session.msgs, n) \in Seq(Nat) /\ <<n>> \in Seq(Nat)
  BY DEF Sessions
<1> QED BY <1>1 DEF Changed, Sessions

LEMMA TypedOpening ==
  ASSUME Typed, NEW p \in Processes, New(p) \/ Load(p) \/ FinishLoad(p) \/ Change(p)
  PROVE  Typed'
<1>0. proc[p] \in Doing
  BY ProcFacts
<1>1. CASE New(p)
  <2>1. FilesTyped' /\ CountsTyped' /\ GhostsTyped' /\ ControlTyped'
    BY <1>1, SameTyped DEF New, disk, counts, ghosts
  <2>2. proc' = [proc EXCEPT ![p] = [Closed EXCEPT !.at = "open", !.session = Fresh]]
    BY <1>1 DEF New
  <2>3. holder' = holder /\ holder # p
    BY <1>1, ProcFacts DEF New, Holding
  <2> QED BY <2>1, <2>2, <2>3, SomeSessions, ClosedTyped, DoingStep
<1>2. CASE Load(p)
  <2>1. FilesTyped' /\ CountsTyped' /\ GhostsTyped' /\ ControlTyped'
    BY <1>2, SameTyped DEF Load, disk, counts, ghosts
  <2>4. holder' = holder /\ holder # p
    BY <1>2, ProcFacts DEF Load, Holding
  <2>2. CASE proc' = [proc EXCEPT ![p] = [@ EXCEPT !.at = "loading", !.seen = snap]]
    <3> DEFINE r == [proc[p] EXCEPT !.at = "loading", !.seen = snap]
    <3>1. r \in Doing /\ r.at = "loading"
      BY <1>0 DEF Doing, Typed, FilesTyped
    <3>2. proc' = [proc EXCEPT ![p] = r]
      BY <2>2
    <3> HIDE DEF r
    <3> QED BY <2>1, <2>4, <3>1, <3>2, DoingStep
  <2>3. CASE legacy # None /\ proc' = [proc EXCEPT ![p] = [@ EXCEPT !.at = "open", !.session = legacy]]
    <3> DEFINE r == [proc[p] EXCEPT !.at = "open", !.session = legacy]
    <3>1. legacy \in Sessions
      BY <2>3, SomeSessions DEF Typed, FilesTyped
    <3>2. r \in Doing /\ r.session \in Sessions
      BY <1>0, <3>1 DEF Doing
    <3>3. proc' = [proc EXCEPT ![p] = r]
      BY <2>3
    <3> HIDE DEF r
    <3> QED BY <2>1, <2>4, <3>2, <3>3, DoingStep
  <2> QED BY <1>2, <2>2, <2>3 DEF Load
<1>3. CASE FinishLoad(p)
  <2>1. FilesTyped' /\ CountsTyped' /\ GhostsTyped' /\ ControlTyped'
    BY <1>3, SameTyped DEF FinishLoad, disk, counts, ghosts
  <2>2. PICK loaded : loaded = Replay(lines, proc[p].seen)
    OBVIOUS
  <2>3. loaded \in Sessions \cup {None}
    BY <2>2, ProcFacts, ReplayType DEF Typed, FilesTyped
  <2>4. PICK r : r = IF loaded = None THEN Closed ELSE [Closed EXCEPT !.at = "open", !.session = loaded]
    OBVIOUS
  <2>5. proc' = [proc EXCEPT ![p] = r]
    BY <1>3, <2>2, <2>4 DEF FinishLoad
  <2>6. r \in Doing /\ (r.at = "closed" \/ r.session \in Sessions)
    BY <2>3, <2>4, ClosedTyped
  <2>7. holder' = holder /\ holder # p
    BY <1>3, ProcFacts DEF FinishLoad, Holding
  <2> QED BY <2>1, <2>5, <2>6, <2>7, DoingStep
<1>4. CASE Change(p)
  <2>1. CountsTyped'
    BY <1>4 DEF Change, CountsTyped, Typed
  <2>2. FilesTyped' /\ GhostsTyped' /\ ControlTyped'
    BY <1>4, SameTyped DEF Change, disk, ghosts
  <2>3. PICK s \in Changed(proc[p].session, changes + 1) : proc' = [proc EXCEPT ![p].session = s]
    BY <1>4 DEF Change
  <2>4. s \in Sessions
    <3>1. proc[p].session \in Sessions
      BY <1>4, ProcFacts DEF Change
    <3>2. changes + 1 \in Nat
      BY DEF Typed, CountsTyped
    <3> QED BY <3>1, <3>2, ChangedTyped
  <2> DEFINE r == [proc[p] EXCEPT !.session = s]
  <2>5. r \in Doing /\ r.session \in Sessions
    BY <1>0, <2>4 DEF Doing
  <2>6. proc' = [proc EXCEPT ![p] = r]
    BY <2>3
  <2> HIDE DEF r
  <2>7. holder' = holder /\ holder # p
    BY <1>4, ProcFacts DEF Change, Holding
  <2> QED BY <2>1, <2>2, <2>5, <2>6, <2>7, DoingStep
<1> QED BY <1>1, <1>2, <1>3, <1>4

LEMMA TypedSaving ==
  ASSUME Typed, StoreInv, NEW p \in Processes,
         Save(p) \/ ReadEvents(p) \/ AppendLine(p) \/ WriteSnapshot(p) \/ KeepSnapshot(p) \/ Return(p)
  PROVE  Typed'
<1>0. /\ proc[p] \in Doing
      /\ proc[p].at \notin {"closed", "loading"} => proc[p].session \in Sessions
  BY ProcFacts
<1>1. CASE Save(p)
  <2>1. FilesTyped' /\ GhostsTyped'
    BY <1>1, SameTyped DEF Save, disk, ghosts
  <2>2. CountsTyped' /\ ControlTyped'
    BY <1>1 DEF Save, CountsTyped, ControlTyped, Typed
  <2> DEFINE r == [proc[p] EXCEPT !.at = "reading", !.seen = snap]
  <2>3. proc' = [proc EXCEPT ![p] = r]
    BY <1>1 DEF Save
  <2>4. r \in Doing /\ r.session \in Sessions
    BY <1>0, <1>1 DEF Doing, Typed, FilesTyped, Save, LockFree
  <2>5. holder' = p /\ r.at \in Holding
    BY <1>0, <1>1 DEF Doing, Save, Holding
  <2> HIDE DEF r
  <2> QED BY <2>1, <2>2, <2>3, <2>4, <2>5, DoingStep
<1>2. CASE ReadEvents(p)
  <2>1. FilesTyped' /\ CountsTyped' /\ ControlTyped'
    BY <1>2, SameTyped DEF ReadEvents, disk, counts
  <2>2. GhostsTyped'
    BY <1>0, <1>2 DEF ReadEvents, GhostsTyped, Typed
  <2>3. PICK previous : previous = Previous(p)
    OBVIOUS
  <2>4. previous \in Sessions \cup {None}
    <3>1. Replay(lines, proc[p].seen) \in Sessions \cup {None}
      BY ProcFacts, ReplayType DEF Typed, FilesTyped
    <3>2. legacy \in Sessions \cup {None}
      BY SomeSessions DEF Typed, FilesTyped
    <3> QED BY <2>3, <3>1, <3>2 DEF Previous
  <2>5. PICK drafts : drafts = SaveDrafts(previous, proc[p].session)
    OBVIOUS
  <2>6. drafts \in Seq(Drafts)
    BY <1>0, <1>2, <2>4, <2>5, SaveDraftsFit DEF ReadEvents
  <2>7. PICK last : last = LastSeq(lines, proc[p].seen)
    OBVIOUS
  <2>8. last \in Nat
    <3>1. proc[p].at = "reading" /\ InOrder(lines, proc[p].seen)
      BY <1>2 DEF ReadEvents
    <3>2. LinesTyped /\ CoveredBy(proc[p].seen) \in Nat
      BY <3>1, Facts
    <3> QED BY <2>7, <3>1, <3>2, LastSeqBounds
  <2>9. PICK risk \in BOOLEAN : risk = (proc[p].atRisk \/ (~ended /\ Len(drafts) = 1))
    BY ProcFacts
  <2> DEFINE r == [proc[p] EXCEPT !.at = "appending", !.base = previous, !.seq = last,
                                  !.drafts = drafts, !.atRisk = risk]
  <2>10. proc' = [proc EXCEPT ![p] = r]
    BY <1>2, <2>3, <2>5, <2>7, <2>9 DEF ReadEvents
  <2>11. r \in Doing /\ r.session \in Sessions
    BY <1>0, <1>2, <2>4, <2>6, <2>8 DEF Doing, ReadEvents
  <2>12. holder' = holder /\ r.at \in Holding
    BY <1>0, <1>2 DEF Doing, ReadEvents, Holding
  <2> HIDE DEF r
  <2> QED BY <2>1, <2>2, <2>10, <2>11, <2>12, DoingStep
<1>3. CASE AppendLine(p)
  <2>1. CountsTyped' /\ ControlTyped'
    BY <1>3, SameTyped DEF AppendLine, counts
  <2>2. /\ proc[p].drafts # <<>> /\ proc[p].at = "appending"
        /\ NextEvent(p) \in Events
        /\ Head(proc[p].drafts) \in Drafts /\ Tail(proc[p].drafts) \in Seq(Drafts)
    BY <1>3, NextEventTyped DEF AppendLine
  <2>3. FilesTyped'
    <3>1. lines' \in Seq(Events \cup {None})
      BY <1>3, <2>2, GluedTyped DEF AppendLine
    <3> QED BY <1>3, <3>1 DEF AppendLine, FilesTyped, Typed
  <2>4. GhostsTyped'
    <3>1. Skews(p, NextEvent(p)) \in BOOLEAN
      BY DEF Skews, Typed, GhostsTyped
    <3> QED BY <1>3, <3>1 DEF AppendLine, GhostsTyped, Typed
  <2>5. PICK next : next = ApplyEvent(proc[p].base, Head(proc[p].drafts))
    OBVIOUS
  <2>6. next \in Sessions
    BY <2>2, <2>5, ProcFacts, ApplyEventType
  <2>7. PICK rest : rest = Tail(proc[p].drafts)
    OBVIOUS
  <2>8. PICK n \in Nat : n = proc[p].seq + 1
    BY ProcFacts
  <2> DEFINE r == [proc[p] EXCEPT !.seq = n, !.drafts = rest, !.base = next]
  <2>9. proc' = [proc EXCEPT ![p] = r]
    BY <1>3, <2>5, <2>7, <2>8 DEF AppendLine
  <2>10. r \in Doing /\ r.session \in Sessions
    BY <1>0, <2>2, <2>6, <2>7 DEF Doing
  <2>11. holder' = holder /\ r.at \in Holding
    BY <1>0, <1>3, <2>2 DEF Doing, AppendLine, Holding
  <2> HIDE DEF r
  <2> QED BY <2>1, <2>3, <2>4, <2>9, <2>10, <2>11, DoingStep
<1>4. CASE WriteSnapshot(p)
  <2>1. CountsTyped' /\ ControlTyped'
    BY <1>4, SameTyped DEF WriteSnapshot, counts
  <2>2. FilesTyped'
    <3>1. SnapshotOf(p) \in Snapshots
      BY <1>0, <1>4, ProcFacts DEF WriteSnapshot, SnapshotOf, Snapshots
    <3> QED BY <1>4, <3>1 DEF WriteSnapshot, FilesTyped, Typed
  <2>3. GhostsTyped'
    BY <1>4 DEF WriteSnapshot, GhostsTyped, Typed
  <2> DEFINE r == [proc[p] EXCEPT !.at = "saved", !.atRisk = FALSE]
  <2>4. proc' = [proc EXCEPT ![p] = r]
    BY <1>4 DEF WriteSnapshot
  <2>5. r \in Doing /\ r.session \in Sessions
    BY <1>0, <1>4 DEF Doing, WriteSnapshot
  <2>6. holder' = holder /\ r.at \in Holding
    BY <1>0, <1>4 DEF Doing, WriteSnapshot, Holding
  <2> HIDE DEF r
  <2> QED BY <2>1, <2>2, <2>3, <2>4, <2>5, <2>6, DoingStep
<1>5. CASE KeepSnapshot(p)
  <2>1. FilesTyped' /\ CountsTyped' /\ GhostsTyped' /\ ControlTyped'
    BY <1>5, SameTyped DEF KeepSnapshot, disk, counts, ghosts
  <2> DEFINE r == [proc[p] EXCEPT !.at = "saved"]
  <2>2. proc' = [proc EXCEPT ![p] = r]
    BY <1>5 DEF KeepSnapshot
  <2>3. r \in Doing /\ r.session \in Sessions
    BY <1>0, <1>5 DEF Doing, KeepSnapshot
  <2>4. holder' = holder /\ r.at \in Holding
    BY <1>0, <1>5 DEF Doing, KeepSnapshot, Holding
  <2> HIDE DEF r
  <2> QED BY <2>1, <2>2, <2>3, <2>4, DoingStep
<1>6. CASE Return(p)
  <2>1. FilesTyped' /\ CountsTyped'
    BY <1>6, SameTyped DEF Return, disk, counts
  <2>2. GhostsTyped' /\ ControlTyped'
    BY <1>0, <1>6 DEF Return, GhostsTyped, ControlTyped, Typed
  <2>3. proc' = [proc EXCEPT ![p] = Opened(p)] /\ Opened(p) \in Doing /\ Opened(p).session \in Sessions
    BY <1>6, OpenedTyped DEF Return
  <2>4. holder' = None
    BY <1>6 DEF Return
  <2> QED BY <2>1, <2>2, <2>3, <2>4, SessionAssumption, DoingStep
<1> QED BY <1>1, <1>2, <1>3, <1>4, <1>5, <1>6

LEMMA TypedStops ==
  ASSUME Typed, StoreInv, NEW p \in Processes, StopInLine(p) \/ StopBetween(p)
  PROVE  Typed'
<1>1. /\ Stops(p) /\ UNCHANGED <<removal, changes, saves, removals>>
  BY DEF StopInLine, StopBetween
<1>2. CountsTyped' /\ ControlTyped'
  BY <1>1 DEF Stops, CountsTyped, ControlTyped, Typed
<1>3. FilesTyped' /\ GhostsTyped'
  <2>1. CASE StopInLine(p)
    <3>1. PICK line \in {None, NextEvent(p)} :
            lines' = Glued(line) /\ ended' = FALSE /\ skewed' = (skewed \/ Skews(p, line))
      BY <2>1 DEF StopInLine
    <3>2. line \in Events \cup {None}
      BY <2>1, NextEventTyped DEF StopInLine
    <3>3. lines' \in Seq(Events \cup {None})
      BY <3>1, <3>2, GluedTyped
    <3> QED BY <2>1, <3>1, <3>3 DEF StopInLine, FilesTyped, GhostsTyped, Typed
  <2>2. CASE StopBetween(p)
    BY <2>2, SameTyped DEF StopBetween, disk, ghosts
  <2> QED BY <2>1, <2>2
<1>a. holder' # p /\ holder' \in {holder, None}
  BY <1>1, SessionAssumption DEF Stops
<1>4. CASE proc' = [proc EXCEPT ![p] = Closed]
  BY <1>a, <1>2, <1>3, <1>4, ClosedTyped, DoingStep
<1>5. CASE proc' = [proc EXCEPT ![p] = Opened(p)] /\ proc[p].at \notin {"closed", "loading"}
  <2>1. Opened(p) \in Doing /\ Opened(p).session \in Sessions
    BY <1>5, OpenedTyped
  <2> QED BY <1>a, <1>2, <1>3, <1>5, <2>1, DoingStep
<1> QED BY <1>1, <1>4, <1>5, ProcFacts DEF Stops, Holding

LEMMA TypedRemoval ==
  ASSUME Typed, ChooseToDelete \/ RemoveEvents \/ RemoveSnapshot \/ RemoveDir \/ RemoveLegacy
  PROVE  Typed'
<1>1. CASE ChooseToDelete
  <2>1. FilesTyped' /\ GhostsTyped'
    BY <1>1, SameTyped DEF ChooseToDelete, disk, ghosts
  <2>2. CountsTyped' /\ ControlTyped'
    BY <1>1 DEF ChooseToDelete, CountsTyped, ControlTyped, Typed
  <2>3. UNCHANGED <<proc, holder>>
    BY <1>1 DEF ChooseToDelete
  <2> QED BY <2>1, <2>2, <2>3 DEF Typed, ProcTyped
<1>2. CASE RemoveEvents \/ RemoveSnapshot
  <2>1. /\ RemoveFile
        /\ \/ lines' = <<>> /\ ended' = TRUE /\ UNCHANGED snap
           \/ snap' = None /\ UNCHANGED <<lines, ended>>
    BY <1>2 DEF RemoveEvents, RemoveSnapshot
  <2>2. CountsTyped' /\ ControlTyped'
    BY <2>1, SameTyped DEF RemoveFile, counts
  <2>3. FilesTyped'
    <3>1. <<>> \in Seq(Events \cup {None})
      OBVIOUS
    <3> QED BY <2>1, <3>1 DEF RemoveFile, FilesTyped, Typed
  <2>4. GhostsTyped'
    <3>1. \A p \in Processes : proc[p].at \in {"appending", "saved"} => proc[p].session \in Sessions
      BY ProcFacts
    <3> QED BY <2>1, <3>1 DEF RemoveFile, GhostsTyped
  <2>5. proc' = [p \in Processes |-> IF holder = p THEN [proc[p] EXCEPT !.atRisk = TRUE] ELSE proc[p]]
        /\ holder' = holder
    BY <2>1 DEF RemoveFile
  <2>6. ASSUME NEW p \in Processes PROVE ProcTyped(p)'
    <3>1. proc'[p] = proc[p] \/ proc'[p] = [proc[p] EXCEPT !.atRisk = TRUE]
      BY <2>5
    <3>2. ProcTyped(p)
      BY DEF Typed
    <3>3. CASE proc'[p] = proc[p]
      BY <2>5, <3>2, <3>3 DEF ProcTyped
    <3>4. CASE proc'[p] = [proc[p] EXCEPT !.atRisk = TRUE]
      BY <2>5, <3>2, <3>4 DEF ProcTyped, Doing
    <3> QED BY <3>1, <3>3, <3>4
  <2> QED BY <2>2, <2>3, <2>4, <2>5, <2>6 DEF Typed
<1>3. CASE RemoveDir
  <2>1. FilesTyped' /\ GhostsTyped' /\ CountsTyped'
    BY <1>3, SameTyped DEF RemoveDir, disk, ghosts, counts
  <2>2. ControlTyped'
    BY <1>3 DEF RemoveDir, ControlTyped, Typed
  <2>3. UNCHANGED <<proc, holder>>
    BY <1>3 DEF RemoveDir
  <2> QED BY <2>1, <2>2, <2>3 DEF Typed, ProcTyped
<1>4. CASE RemoveLegacy
  <2>1. CountsTyped'
    BY <1>4, SameTyped DEF RemoveLegacy, counts
  <2>2. FilesTyped' /\ GhostsTyped' /\ ControlTyped'
    BY <1>4 DEF RemoveLegacy, ghosts, FilesTyped, GhostsTyped, ControlTyped, Typed
  <2>3. UNCHANGED <<proc, holder>>
    BY <1>4 DEF RemoveLegacy
  <2> QED BY <2>1, <2>2, <2>3 DEF Typed, ProcTyped
<1> QED BY <1>1, <1>2, <1>3, <1>4

LEMMA NextTyped == StoreInv /\ Typed /\ [Next]_vars => Typed'
<1> SUFFICES ASSUME StoreInv, Typed, [Next]_vars PROVE Typed'
  OBVIOUS
<1>1. ASSUME NEW p \in Processes, Step(p) PROVE Typed'
  BY <1>1, TypedOpening, TypedSaving, TypedStops DEF Step
<1>2. CASE ChooseToDelete \/ RemoveEvents \/ RemoveSnapshot \/ RemoveDir \/ RemoveLegacy
  BY <1>2, TypedRemoval
<1>3. CASE UNCHANGED vars
  <2>1. FilesTyped' /\ CountsTyped' /\ GhostsTyped' /\ ControlTyped'
    BY <1>3, SameTyped DEF vars, disk, counts, ghosts
  <2>2. UNCHANGED <<proc, holder>>
    BY <1>3 DEF vars
  <2> QED BY <2>1, <2>2 DEF Typed, ProcTyped
<1> QED BY <1>1, <1>2, <1>3 DEF Next

-----------------------------------------------------------------------------
(* What is stored is what was promised, or attempted since. *)

\* What is replayed, and what would be if a last line without newline were lost.
Now == Replay(lines, snap)
Under == Replay(Glued(None), snap)

Since == (attempted \cup {promised}) \ {None}

Kept(session) == IF session = None THEN promised = None ELSE From(session, Since)

\* All is written but perhaps the snapshot.
Written(p) ==
  \/ proc[p].at = "saved"
  \/ proc[p].at = "appending" /\ proc[p].drafts = <<>>

SavingOK(p) ==
  /\ proc[p].at = "reading" => snap = proc[p].seen \/ (snap = None /\ promised = None)
  /\ proc[p].at = "appending" =>
       /\ CoveredBy(snap) <= proc[p].seq
       /\ proc[p].session \in attempted
       /\ proc[p].base = None => skewed \/ promised = None
       /\ DraftsFit(proc[p].drafts, proc[p].base, proc[p].session)
       /\ Len(proc[p].drafts) = 1 /\ ~ended => proc[p].atRisk
  /\ Written(p) => ended /\ (proc[p].atRisk \/ Now = proc[p].session)

KeptInv ==
  /\ ~ended => lines # <<>>
  /\ skewed \/ Kept(Stored)
  /\ ended \/ skewed \/ Under = None \/ From(Under, Since)
  /\ \A p \in Processes : SavingOK(p)

RecoverInv == StoreInv /\ Typed /\ KeptInv

LEMMA FromMore ==
  ASSUME NEW session, NEW A, NEW B, A \subseteq B, From(session, A)
  PROVE  From(session, B)
BY DEF From

LEMMA FromItself == ASSUME NEW session, NEW A, session \in A PROVE From(session, A)
BY DEF From

\* The files stay as they are.
LEMMA SameReplay ==
  ASSUME UNCHANGED <<lines, ended, snap, legacy>>
  PROVE  Now' = Now /\ Under' = Under /\ Stored' = Stored
BY DEF Now, Under, Stored, HasEvents, Glued

\* Where there are events, they are what is stored.
LEMMA StoredNow ==
  /\ lines # <<>> \/ snap # None => Stored = Now
  /\ Now # None => lines # <<>> \/ snap # None
<1>1. lines # <<>> \/ snap # None => Stored = Now
  BY DEF Stored, HasEvents, Now
<1>2. ASSUME lines = <<>>, snap = None PROVE Now = None
  <2>1. DOMAIN lines = 1..0
    BY <1>2
  <2>2. Replay(lines, snap) = After(lines, snap, 0) /\ After(lines, snap, 0) = Start(snap)
    BY <2>1, AfterIs
  <2> QED BY <1>2, <2>2 DEF Now, Start
<1> QED BY <1>1, <1>2

\* What a line that is written makes of what is replayed.
LEMMA GluedReplay ==
  ASSUME Typed, KeptInv, NEW line
  PROVE  /\ ended => /\ Glued(line) # <<>>
                     /\ Replay(Glued(line), snap) = ReplayLine(snap, Now, line)
                     /\ Under = Now
         /\ ~ended => Glued(line) # <<>> /\ Replay(Glued(line), snap) = Under
<1>1. lines \in Seq(Events \cup {None})
  BY DEF Typed, FilesTyped
<1>2. CASE ended
  <2>1. \A l : Glued(l) = Append(lines, l)
    BY <1>2 DEF Glued
  <2>2. \A l : Replay(Append(lines, l), snap) = ReplayLine(snap, Now, l)
    BY <1>1, ReplayAppended DEF Now
  <2>3. Under = Now
    BY <2>1, <2>2 DEF Under, ReplayLine
  <2>4. Append(lines, line) # <<>>
    <3>1. PICK T : T = Events \cup {None} \cup {line}
      OBVIOUS
    <3>2. lines \in Seq(T) /\ line \in T
      BY <1>1, <3>1
    <3>3. Append(lines, line)[Len(lines) + 1] = line /\ Len(Append(lines, line)) = Len(lines) + 1
          /\ Len(lines) \in Nat
      BY <3>2
    <3>4. Len(<<>>) = 0
      OBVIOUS
    <3> QED BY <3>3, <3>4
  <2> QED BY <1>2, <2>1, <2>2, <2>3, <2>4
<1>3. CASE ~ended
  <2>1. Glued(line) = [lines EXCEPT ![Len(lines)] = None] /\ Glued(None) = Glued(line)
    BY <1>3 DEF Glued
  <2>2. lines # <<>>
    BY <1>3 DEF KeptInv
  <2>3. Glued(line) # <<>>
    <3>1. DOMAIN lines # {}
      BY <1>1, <2>2
    <3>2. DOMAIN Glued(line) = DOMAIN lines
      BY <2>1
    <3> QED BY <3>1, <3>2
  <2> QED BY <1>3, <2>1, <2>3 DEF Under
<1> QED BY <1>2, <1>3

\* And if it has no newline yet.
LEMMA TornReplay ==
  ASSUME Typed, KeptInv, NEW line, lines' = Glued(line), ended' = FALSE, UNCHANGED snap
  PROVE  Under' = Under
<1>1. lines \in Seq(Events \cup {None})
  BY DEF Typed, FilesTyped
<1>2. Under' = Replay([lines' EXCEPT ![Len(lines')] = None], snap)
  BY DEF Under, Glued
<1>3. CASE ended
  <2>1. PICK longer : longer = Append(lines, line)
    OBVIOUS
  <2>2. PICK n \in Nat : n = Len(lines)
    BY <1>1
  <2>3. longer \in Seq(Events \cup {None} \cup {line}) /\ Len(longer) = n + 1
    BY <1>1, <2>1, <2>2
  <2>4. Replay([longer EXCEPT ![Len(longer)] = None], snap) = After(longer, snap, Len(longer) - 1)
    <3>1. PICK T : T = Events \cup {None} \cup {line}
      OBVIOUS
    <3>2. longer \in Seq(T) /\ Len(longer) # 0
      BY <2>2, <2>3, <3>1
    <3> QED BY <3>2, ReplayLost
  <2>5. Len(longer) - 1 = n
    BY <2>2, <2>3
  <2>6. After(longer, snap, n) = Now
    BY <1>1, <2>1, <2>2, ReplayAppended DEF Now
  <2>7. Under = Now
    BY <1>3, GluedReplay
  <2>8. lines' = longer
    BY <1>3, <2>1 DEF Glued
  <2> QED BY <1>2, <2>4, <2>5, <2>6, <2>7, <2>8
<1>4. CASE ~ended
  <2>1. lines' = [lines EXCEPT ![Len(lines)] = None] /\ Glued(None) = lines'
    BY <1>4 DEF Glued
  <2>2. PICK n \in Nat : n = Len(lines) /\ DOMAIN lines = 1..n
    BY <1>1
  <2>3. n # 0
    BY <1>1, <1>4, <2>2 DEF KeptInv
  <2>4. lines' \in [1..n -> Events \cup {None}]
    <3>1. PICK T : T = Events \cup {None}
      OBVIOUS
    <3>2. lines \in [1..n -> T] /\ None \in T
      BY <1>1, <2>2, <3>1
    <3>3. lines' \in [1..n -> T]
      BY <2>1, <3>2
    <3> QED BY <3>1, <3>3
  <2>5. Len(lines') = n /\ lines'[n] = None
    BY <2>1, <2>2, <2>3, <2>4
  <2>6. [lines' EXCEPT ![Len(lines')] = None] = lines'
    BY <2>4, <2>5
  <2> QED BY <1>2, <2>1, <2>6 DEF Under
<1> QED BY <1>3, <1>4

LEMMA InitKept == Init => KeptInv
<1> SUFFICES ASSUME Init PROVE KeptInv
  OBVIOUS
<1>1. Stored = legacy /\ ended
  BY DEF Init, Stored, HasEvents
<1>2. Kept(Stored)
  <2>1. CASE legacy = None
    BY <1>1, <2>1 DEF Init, Kept
  <2>2. CASE legacy # None
    <3>1. legacy \in Since
      BY <2>2 DEF Init, Since
    <3> QED BY <1>1, <2>2, <3>1, FromItself DEF Kept
  <2> QED BY <2>1, <2>2
<1>3. \A p \in Processes : proc[p].at = "closed"
  BY DEF Init, Closed
<1> QED BY <1>1, <1>2, <1>3 DEF KeptInv, SavingOK, Written

\* A process that does not write leaves what is stored, and adds at most what it attempts.
LEMMA QuietStep ==
  ASSUME StoreInv, Typed, KeptInv, NEW p \in Processes, NEW r, proc' = [proc EXCEPT ![p] = r],
         UNCHANGED <<lines, ended, snap, legacy, promised, skewed>>,
         attempted \subseteq attempted', SavingOK(p)'
  PROVE  KeptInv'
<1>1. Now' = Now /\ Under' = Under /\ Stored' = Stored
  BY SameReplay
<1>2. Since \subseteq Since'
  BY DEF Since
<1>3. \A x : From(x, Since) => From(x, Since')
  BY <1>2, FromMore
<1>4. \A x : Kept(x) => Kept(x)'
  BY <1>3 DEF Kept, From
<1>5. (skewed \/ Kept(Stored))'
  BY <1>1, <1>4 DEF KeptInv, Kept, From
<1>6. (ended \/ skewed \/ Under = None \/ From(Under, Since))'
  BY <1>1, <1>3 DEF KeptInv, From
<1>7. ASSUME NEW q \in Processes PROVE SavingOK(q)'
  <2>1. CASE q = p
    BY <2>1
  <2>2. CASE q # p
    <3>1. proc'[q] = proc[q]
      BY <2>2 DEF StoreInv
    <3>2. SavingOK(q)
      BY DEF KeptInv
    <3>3. UNCHANGED <<lines, ended, snap, promised, skewed>> /\ Now' = Now
      BY <1>1
    <3> QED BY <3>1, <3>2, <3>3 DEF SavingOK, Written, CoveredBy
  <2> QED BY <2>1, <2>2
<1> QED BY <1>5, <1>6, <1>7 DEF KeptInv

\* Who writes has the lock, and nobody else is saving.
LEMMA WriterStep ==
  ASSUME StoreInv, Typed, NEW p \in Processes, holder = p, NEW r, proc' = [proc EXCEPT ![p] = r],
         (~ended => lines # <<>>)', (skewed \/ Kept(Stored))',
         (ended \/ skewed \/ Under = None \/ From(Under, Since))', SavingOK(p)'
  PROVE  KeptInv'
<1>1. ASSUME NEW q \in Processes PROVE SavingOK(q)'
  <2>1. CASE q = p
    BY <2>1
  <2>2. CASE q # p
    <3>1. proc'[q] = proc[q]
      BY <2>2 DEF StoreInv
    <3>2. proc[q].at \notin Holding
      BY <2>2, Facts
    <3> QED BY <3>1, <3>2 DEF SavingOK, Written, Holding
  <2> QED BY <2>1, <2>2
<1> QED BY <1>1 DEF KeptInv

\* Who is not saving afterwards has nothing to answer for.
LEMMA IdleOK ==
  ASSUME StoreInv, NEW p \in Processes, NEW r, proc' = [proc EXCEPT ![p] = r], r.at \notin Holding
  PROVE  SavingOK(p)'
<1>1. proc'[p] = r
  BY DEF StoreInv
<1> QED BY <1>1 DEF SavingOK, Written, Holding

LEMMA KeptOpening ==
  ASSUME StoreInv, Typed, KeptInv, NEW p \in Processes,
         New(p) \/ Load(p) \/ FinishLoad(p) \/ Change(p) \/ StopBetween(p)
  PROVE  KeptInv'
<1>1. UNCHANGED <<lines, ended, snap, legacy, promised, attempted, skewed>>
  BY DEF New, Load, FinishLoad, Change, StopBetween, disk, ghosts
<1>2. \E r : proc' = [proc EXCEPT ![p] = r] /\ r.at \notin Holding
  <2>1. CASE New(p)
    <3>1. [Closed EXCEPT !.at = "open", !.session = Fresh].at \notin Holding
      BY DEF Closed, Holding
    <3> QED BY <2>1, <3>1 DEF New
  <2>2. CASE Load(p)
    <3>1. /\ [proc[p] EXCEPT !.at = "loading", !.seen = snap].at = "loading"
          /\ [proc[p] EXCEPT !.at = "open", !.session = legacy].at = "open"
      BY ProcFacts DEF Doing
    <3>2. \/ proc' = [proc EXCEPT ![p] = [proc[p] EXCEPT !.at = "loading", !.seen = snap]]
          \/ proc' = [proc EXCEPT ![p] = [proc[p] EXCEPT !.at = "open", !.session = legacy]]
      BY <2>2 DEF Load
    <3>3. {"loading", "open"} \cap Holding = {}
      BY DEF Holding
    <3> QED BY <3>1, <3>2, <3>3
  <2>3. CASE FinishLoad(p)
    <3>1. PICK loaded : loaded = Replay(lines, proc[p].seen)
      OBVIOUS
    <3>2. PICK r : r = IF loaded = None THEN Closed ELSE [Closed EXCEPT !.at = "open", !.session = loaded]
      OBVIOUS
    <3>3. proc' = [proc EXCEPT ![p] = r]
      BY <2>3, <3>1, <3>2 DEF FinishLoad
    <3>4. r.at \notin Holding
      BY <3>2 DEF Closed, Holding
    <3> QED BY <3>3, <3>4
  <2>4. CASE Change(p)
    <3>1. PICK s : proc' = [proc EXCEPT ![p].session = s]
      BY <2>4 DEF Change
    <3>2. [proc[p] EXCEPT !.session = s].at = "open"
      BY <2>4, ProcFacts DEF Change, Doing
    <3>3. proc' = [proc EXCEPT ![p] = [proc[p] EXCEPT !.session = s]]
      BY <3>1
    <3> QED BY <3>2, <3>3 DEF Holding
  <2>5. CASE StopBetween(p)
    BY <2>5, StopsAt DEF StopBetween
  <2> QED BY <2>1, <2>2, <2>3, <2>4, <2>5
<1>3. PICK r : proc' = [proc EXCEPT ![p] = r] /\ r.at \notin Holding
  BY <1>2
<1>4. SavingOK(p)'
  BY <1>3, IdleOK
<1> QED BY <1>1, <1>3, <1>4, QuietStep

LEMMA KeptSave ==
  ASSUME StoreInv, Typed, KeptInv, NEW p \in Processes, Save(p)
  PROVE  KeptInv'
<1> DEFINE r == [proc[p] EXCEPT !.at = "reading", !.seen = snap]
<1>1. UNCHANGED <<lines, ended, snap, legacy, promised, attempted, skewed>>
  BY DEF Save, disk, ghosts
<1>2. proc' = [proc EXCEPT ![p] = r]
  BY DEF Save
<1>3. r.at = "reading" /\ r.seen = snap
  BY ProcFacts DEF Doing
<1> HIDE DEF r
<1>4. proc'[p] = r
  BY <1>2 DEF StoreInv
<1>5. SavingOK(p)'
  BY <1>1, <1>3, <1>4 DEF SavingOK, Written
<1> QED BY <1>1, <1>2, <1>5, QuietStep

\* A save goes on behind its snapshot.
LEMMA LastSeqCovered ==
  ASSUME LinesTyped, NEW s, CoveredBy(s) \in Nat
  PROVE  CoveredBy(s) <= LastSeq(lines, s)
<1> DEFINE live == Replayed(lines, s)
<1>1. CASE live = {}
  BY <1>1 DEF LastSeq
<1>2. CASE live # {}
  <2>1. DOMAIN lines = 1..Len(lines) /\ Len(lines) \in Nat
    BY DEF LinesTyped
  <2>2. live \in SUBSET (1..Len(lines))
    BY <2>1 DEF Replayed
  <2> DEFINE last == CHOOSE i \in live : \A j \in live : j <= i
  <2>3. last \in live
    <3> HIDE DEF live
    <3>1. \E i \in live : \A j \in live : j <= i
      BY <1>2, <2>1, <2>2, Greatest
    <3> QED BY <3>1
  <2>4. LastSeq(lines, s) = lines[last].seq
    BY <1>2 DEF LastSeq
  <2>5. lines[last].seq \in Nat /\ lines[last].seq > CoveredBy(s)
    BY <2>3 DEF Replayed, LinesTyped
  <2> QED BY <2>4, <2>5
<1> QED BY <1>1, <1>2

LEMMA KeptReadEvents ==
  ASSUME StoreInv, Typed, KeptInv, NEW p \in Processes, ReadEvents(p)
  PROVE  KeptInv'
<1>1. /\ proc[p].at = "reading" /\ UNCHANGED <<lines, ended, snap, legacy, promised, skewed>>
      /\ attempted' = attempted \cup {proc[p].session}
  BY DEF ReadEvents, disk
<1>2. proc[p] \in Doing /\ proc[p].session \in Sessions
  BY <1>1, ProcFacts
<1>3. PICK previous : previous = Previous(p)
  OBVIOUS
<1>4. previous \in Sessions \cup {None}
  <2>1. Replay(lines, proc[p].seen) \in Sessions \cup {None}
    BY ProcFacts, ReplayType DEF Typed, FilesTyped
  <2>2. legacy \in Sessions \cup {None}
    BY SomeSessions DEF Typed, FilesTyped
  <2> QED BY <1>3, <2>1, <2>2 DEF Previous
<1>5. PICK drafts : drafts = SaveDrafts(previous, proc[p].session)
  OBVIOUS
<1>6. drafts \in Seq(Drafts) /\ drafts # <<>> /\ DraftsFit(drafts, previous, proc[p].session)
  BY <1>2, <1>4, <1>5, SaveDraftsFit
<1>7. PICK last : last = LastSeq(lines, proc[p].seen)
  OBVIOUS
<1>8. PICK risk : risk = (proc[p].atRisk \/ (~ended /\ Len(drafts) = 1))
  OBVIOUS
<1> DEFINE r == [proc[p] EXCEPT !.at = "appending", !.base = previous, !.seq = last,
                                !.drafts = drafts, !.atRisk = risk]
<1>9. proc' = [proc EXCEPT ![p] = r]
  BY <1>3, <1>5, <1>7, <1>8 DEF ReadEvents
<1>10. /\ r.at = "appending" /\ r.base = previous /\ r.seq = last /\ r.drafts = drafts
       /\ r.atRisk = risk /\ r.session = proc[p].session
  BY <1>2 DEF Doing
<1> HIDE DEF r
<1>11. proc'[p] = r
  BY <1>9 DEF StoreInv
<1>12. snap = proc[p].seen \/ (snap = None /\ promised = None)
  BY <1>1 DEF KeptInv, SavingOK
<1>13. CoveredBy(snap) <= last
  <2>1. CoveredBy(proc[p].seen) \in Nat /\ LinesTyped
    BY <1>1, Facts
  <2>2. CoveredBy(proc[p].seen) <= last
    BY <1>7, <2>1, LastSeqCovered
  <2>3. last \in Nat
    BY <1>1, <1>7, <2>1, LastSeqBounds DEF ReadEvents
  <2> QED BY <1>12, <2>2, <2>3 DEF CoveredBy
<1>14. previous = None => skewed \/ promised = None
  <2> SUFFICES ASSUME previous = None, snap = proc[p].seen, ~skewed PROVE promised = None
    BY <1>12
  <2>1. Now = None /\ legacy = None
    BY <1>3 DEF Previous, Now
  <2>2. Stored = None
    BY <2>1 DEF Stored, Now
  <2> QED BY <2>2 DEF KeptInv, Kept
<1>15. SavingOK(p)'
  <2>1. proc'[p].at = "appending" /\ proc'[p].drafts # <<>>
    BY <1>6, <1>10, <1>11
  <2>2. ~Written(p)'
    BY <2>1 DEF Written
  <2>3. (CoveredBy(snap) <= proc[p].seq)'
    BY <1>1, <1>10, <1>11, <1>13 DEF CoveredBy
  <2>4. (proc[p].session \in attempted)'
    BY <1>1, <1>10, <1>11
  <2>5. (proc[p].base = None => skewed \/ promised = None)'
    BY <1>1, <1>10, <1>11, <1>14
  <2>6. DraftsFit(proc[p].drafts, proc[p].base, proc[p].session)'
    BY <1>6, <1>10, <1>11
  <2>7. (Len(proc[p].drafts) = 1 /\ ~ended => proc[p].atRisk)'
    BY <1>1, <1>8, <1>10, <1>11
  <2> QED BY <2>1, <2>2, <2>3, <2>4, <2>5, <2>6, <2>7 DEF SavingOK
<1>16. attempted \subseteq attempted'
  BY <1>1
<1> QED BY <1>1, <1>9, <1>15, <1>16, QuietStep

\* The next event of who writes, and the session that it belongs to.
LEMMA Appending ==
  ASSUME StoreInv, Typed, KeptInv, NEW p \in Processes,
         proc[p].at = "appending", proc[p].drafts # <<>>
  PROVE  LET event == NextEvent(p)
             next == ApplyEvent(proc[p].base, Head(proc[p].drafts))
         IN  /\ holder = p /\ proc[p].session \in Sessions /\ proc[p].session \in Since
             /\ event # None /\ event.kind = Head(proc[p].drafts).kind
             /\ event.data = Head(proc[p].drafts).data
             /\ event.seq > CoveredBy(snap)
             /\ \A x \in Sessions \cup {None} :
                  ReplayLine(snap, x, event) = ApplyEvent(x, event)
                  /\ ApplyEvent(x, event) \in Sessions
             /\ event.kind = "full" => event.data = proc[p].session
             /\ event.kind = "mode" => event.data = proc[p].session.mode
             /\ event.kind = "replace" => event.data = proc[p].session.msgs
             /\ event.kind = "append" => proc[p].base.msgs \o event.data = proc[p].session.msgs
             /\ event.kind \in {"full", "mode", "replace", "append"}
             /\ event.kind # "full" => proc[p].base # None
             /\ proc[p].base = None => skewed \/ promised = None
             /\ next \in Sessions
             /\ Tail(proc[p].drafts) = <<>> => event.kind = "full"
             /\ DraftsFit(Tail(proc[p].drafts), next, proc[p].session)
<1> DEFINE event == NextEvent(p)
           drafts == proc[p].drafts
<1>1. holder = p /\ proc[p].session \in Sessions
  BY Facts, ProcFacts DEF Holding
<1>2. SavingOK(p)
  BY DEF KeptInv
<1>3. proc[p].session \in attempted /\ DraftsFit(drafts, proc[p].base, proc[p].session)
      /\ (proc[p].base = None => skewed \/ promised = None)
      /\ CoveredBy(snap) <= proc[p].seq
  BY <1>2 DEF SavingOK
<1>4. proc[p].session \in Since
  BY <1>1, <1>3, NoneAssumption DEF Since
<1>5. /\ event \in Events /\ event.seq = proc[p].seq + 1
      /\ event.kind = Head(drafts).kind /\ event.data = Head(drafts).data
      /\ Head(drafts) \in Drafts
  BY NextEventTyped
<1>6. drafts \in Seq(Drafts) /\ proc[p].base \in Sessions \cup {None} /\ proc[p].seq \in Nat
  BY ProcFacts
<1>7. event # None /\ event.seq > CoveredBy(snap)
  <2>1. CoveredBy(snap) \in Nat
    BY Facts
  <2> QED BY <1>3, <1>5, <1>6, <2>1, EventIs
<1>8. ASSUME NEW x \in Sessions \cup {None}
      PROVE  ReplayLine(snap, x, event) = ApplyEvent(x, event) /\ ApplyEvent(x, event) \in Sessions
  <2>1. ApplyEvent(x, event) \in Sessions
    <3> HIDE DEF event, drafts
    <3> QED BY <1>5, ApplyEventType
  <2>2. ReplayLine(snap, x, event) = ApplyEvent(x, event)
    <3>1. CoveredBy(snap) \in Nat /\ event.seq \in Nat
      BY <1>5, <1>6, Facts
    <3> HIDE DEF event
    <3>2. ~(event.seq <= CoveredBy(snap))
      BY <1>7, <3>1
    <3> QED BY <1>7, <3>2 DEF ReplayLine
  <2> QED BY <2>1, <2>2
<1>9. /\ event.kind = "full" => event.data = proc[p].session
      /\ event.kind = "mode" => event.data = proc[p].session.mode
      /\ event.kind = "replace" => event.data = proc[p].session.msgs
      /\ event.kind = "append" => proc[p].base.msgs \o event.data = proc[p].session.msgs
      /\ event.kind # "full" => proc[p].base # None
  <2>1. 1 \in DOMAIN drafts /\ Head(drafts) = drafts[1]
    BY <1>6
  <2>2. /\ drafts[1].kind = "full" => drafts[1].data = proc[p].session
        /\ drafts[1].kind = "mode" => drafts[1].data = proc[p].session.mode
        /\ drafts[1].kind = "replace" => drafts[1].data = proc[p].session.msgs
        /\ drafts[1].kind = "append" => proc[p].base.msgs \o drafts[1].data = proc[p].session.msgs
        /\ drafts[1].kind # "full" => proc[p].base # None
    <3> HIDE DEF drafts
    <3> QED BY <1>3, <2>1 DEF DraftsFit
  <2> HIDE DEF event, drafts
  <2> QED BY <1>5, <2>1, <2>2
<1>10. event.kind \in {"full", "mode", "replace", "append"}
  <2> HIDE DEF event
  <2> QED BY <1>5 DEF Drafts
<1>11. /\ Tail(drafts) = <<>> => Head(drafts).kind = "full"
       /\ ApplyEvent(proc[p].base, Head(drafts)) \in Sessions
       /\ DraftsFit(Tail(drafts), ApplyEvent(proc[p].base, Head(drafts)), proc[p].session)
  BY <1>1, <1>3, <1>6, DraftsFitTail
<1> HIDE DEF event, drafts
<1> QED BY <1>1, <1>3, <1>4, <1>5, <1>7, <1>8, <1>9, <1>10, <1>11 DEF event, drafts

\* A session of which one field is another's comes from both.
LEMMA FromField ==
  ASSUME NEW now \in Sessions, NEW session \in Sessions, NEW A, session \in A, From(now, A),
         NEW next, \/ next = [now EXCEPT !.mode = session.mode]
                   \/ next = [now EXCEPT !.msgs = session.msgs]
  PROVE  From(next, A)
<1>1. \A f \in Fields : next[f] = now[f] \/ next[f] = session[f]
  BY DEF Sessions, Fields
<1> QED BY <1>1 DEF From

\* A readable event, written behind lines that have their newlines: what is
\* replayed then is attempted or was, unless it is skewed; the whole session
\* in any case.
LEMMA WrittenKept ==
  ASSUME StoreInv, Typed, KeptInv, NEW p \in Processes,
         proc[p].at = "appending", proc[p].drafts # <<>>, ended
  PROVE  LET event == NextEvent(p)
             next == ReplayLine(snap, Now, event)
         IN  /\ next \in Sessions
             /\ event.kind = "full" => next = proc[p].session
             /\ event.kind = "full" \/ ~Skews(p, event) => From(next, Since)
<1> DEFINE event == NextEvent(p)
           next == ReplayLine(snap, Now, event)
<1>1. Now \in Sessions \cup {None}
  BY ReplayType DEF Typed, FilesTyped, Now
<1>2. next = ApplyEvent(Now, event) /\ next \in Sessions
  BY <1>1, Appending
<1>3. proc[p].session \in Sessions /\ proc[p].session \in Since
  BY Appending
<1>4. event.kind = "full" => next = proc[p].session
  <2>1. event.kind = "full" => event.data = proc[p].session
    BY Appending
  <2> HIDE DEF event
  <2> QED BY <1>2, <2>1 DEF ApplyEvent
<1>5. CASE event.kind = "full"
  BY <1>2, <1>3, <1>4, <1>5, FromItself
<1>6. ASSUME event.kind # "full", ~Skews(p, event) PROVE From(next, Since)
  <2>1. event # None /\ proc[p].base # None
    BY <1>6, Appending
  <2>2. /\ ~skewed
        /\ Now # None
        /\ event.kind = "append" => Base(Now).msgs = Base(proc[p].base).msgs
    <3> HIDE DEF event, next
    <3> QED BY <1>6, <2>1 DEF Skews, Now
  <2>3. From(Now, Since) /\ Now \in Sessions
    <3>1. Stored = Now
      BY <2>2, StoredNow
    <3> QED BY <1>1, <2>2, <3>1 DEF KeptInv, Kept
  <2>4. Base(Now) = Now /\ Base(proc[p].base) = proc[p].base
    BY <2>1, <2>2 DEF Base
  <2>5. \/ next = [Now EXCEPT !.mode = proc[p].session.mode]
        \/ next = [Now EXCEPT !.msgs = proc[p].session.msgs]
    <3>1. /\ event.kind = "mode" => event.data = proc[p].session.mode
          /\ event.kind = "replace" => event.data = proc[p].session.msgs
          /\ event.kind = "append" => proc[p].base.msgs \o event.data = proc[p].session.msgs
          /\ event.kind \in {"full", "mode", "replace", "append"}
      BY Appending
    <3> HIDE DEF event, next
    <3>2. CASE event.kind = "mode"
      BY <1>2, <2>4, <3>1, <3>2 DEF ApplyEvent
    <3>3. CASE event.kind = "replace"
      BY <1>2, <2>4, <3>1, <3>3 DEF ApplyEvent
    <3>4. CASE event.kind = "append"
      <4>1. next = [Now EXCEPT !.msgs = Now.msgs \o event.data]
        BY <1>2, <2>4, <3>4 DEF ApplyEvent
      <4> QED BY <2>2, <2>4, <3>1, <3>4, <4>1
    <3> QED BY <1>6, <3>1, <3>2, <3>3, <3>4
  <2> HIDE DEF event, next
  <2> QED BY <1>3, <2>3, <2>5, FromField
<1> HIDE DEF event, next
<1> QED BY <1>2, <1>4, <1>5, <1>6 DEF event, next

\* Without a newline at the end, the line that is written next loses the last
\* one and itself: what is replayed then was there before.
LEMMA LostKept ==
  ASSUME StoreInv, Typed, KeptInv, NEW p \in Processes,
         proc[p].at = "appending", proc[p].drafts # <<>>, ~ended,
         NEW line, ~skewed, ~Skews(p, line)
  PROVE  Kept(Under) /\ (Under = None \/ From(Under, Since))
<1>1. Under # None => From(Under, Since)
  BY DEF KeptInv
<1>2. Under = None => proc[p].base = None
  BY DEF Skews, Under
<1>3. proc[p].base = None => promised = None
  BY Appending
<1> QED BY <1>1, <1>2, <1>3 DEF Kept

LEMMA KeptAppendLine ==
  ASSUME StoreInv, Typed, KeptInv, NEW p \in Processes, AppendLine(p)
  PROVE  KeptInv'
<1> DEFINE event == NextEvent(p)
           next == ApplyEvent(proc[p].base, Head(proc[p].drafts))
           rest == Tail(proc[p].drafts)
           r == [proc[p] EXCEPT !.seq = proc[p].seq + 1, !.drafts = rest, !.base = next]
<1>1. /\ proc[p].at = "appending" /\ proc[p].drafts # <<>>
      /\ lines' = Glued(event) /\ ended' = TRUE /\ skewed' = Skews(p, event)
      /\ proc' = [proc EXCEPT ![p] = r]
      /\ UNCHANGED <<snap, legacy, promised, attempted>>
  BY DEF AppendLine
<1>2. /\ holder = p /\ proc[p].session \in Sessions /\ proc[p].session \in Since
      /\ next \in Sessions /\ DraftsFit(rest, next, proc[p].session)
      /\ rest = <<>> => event.kind = "full"
  BY <1>1, Appending
<1>3. /\ r.at = "appending" /\ r.session = proc[p].session /\ r.base = next
      /\ r.drafts = rest /\ r.seq = proc[p].seq + 1 /\ r.atRisk = proc[p].atRisk
  BY <1>1, ProcFacts DEF Doing
<1>4. proc'[p] = r
  BY <1>1 DEF StoreInv
<1>5. Since' = Since
  BY <1>1 DEF Since
<1>6. /\ lines' # <<>>
      /\ ended => Now' = ReplayLine(snap, Now, event)
      /\ ~ended => Now' = Under
  <2>1. Now' = Replay(Glued(event), snap)
    BY <1>1 DEF Now
  <2> HIDE DEF event
  <2> QED BY <1>1, <2>1, GluedReplay
<1>7. Stored' = Now'
  BY <1>6 DEF Stored, HasEvents, Now
<1>8. (skewed \/ Kept(Stored))'
  <2> SUFFICES ASSUME ~skewed' PROVE Kept(Now)'
    BY <1>7 DEF Kept, From
  <2>1. CASE ended
    <3>1. Now' \in Sessions /\ From(Now', Since)
      BY <1>1, <1>6, <2>1, WrittenKept
    <3> QED BY <1>5, <3>1, NoneAssumption DEF Kept, From
  <2>2. CASE ~ended
    <3>1. ~skewed
      BY <1>1, <2>2 DEF Skews
    <3>2. Kept(Under)
      BY <1>1, <2>2, <3>1, LostKept
    <3> QED BY <1>1, <1>5, <1>6, <2>2, <3>2 DEF Kept, From
  <2> QED BY <2>1, <2>2
<1>9. SavingOK(p)'
  <2>1. (CoveredBy(snap) <= proc[p].seq)'
    <3>1. CoveredBy(snap) <= proc[p].seq
      BY <1>1 DEF KeptInv, SavingOK
    <3>2. CoveredBy(snap) \in Nat /\ proc[p].seq \in Nat
      BY Facts, ProcFacts
    <3>3. CoveredBy(snap)' = CoveredBy(snap) /\ proc'[p].seq = proc[p].seq + 1
      BY <1>1, <1>3, <1>4 DEF CoveredBy
    <3> QED BY <3>1, <3>2, <3>3
  <2>2. (proc[p].session \in attempted)'
    <3>1. proc[p].session \in attempted
      BY <1>1 DEF KeptInv, SavingOK
    <3> QED BY <1>1, <1>3, <1>4, <3>1
  <2>3. proc'[p].base # None /\ proc'[p].at = "appending"
    BY <1>2, <1>3, <1>4, NoneAssumption
  <2>4. DraftsFit(proc[p].drafts, proc[p].base, proc[p].session)'
    BY <1>2, <1>3, <1>4
  <2>5. ASSUME rest = <<>> PROVE proc[p].atRisk \/ Now' = proc[p].session
    <3>1. CASE ended
      BY <1>1, <1>2, <1>6, <2>5, <3>1, WrittenKept
    <3>2. CASE ~ended
      <4>1. proc[p].drafts \in Seq(Drafts)
        BY ProcFacts
      <4>2. Len(proc[p].drafts) = 1
        <5>1. Len(rest) = Len(proc[p].drafts) - 1 /\ Len(proc[p].drafts) \in Nat
          BY <1>1, <4>1
        <5> HIDE DEF rest
        <5>2. Len(rest) = 0
          BY <2>5
        <5> QED BY <5>1, <5>2
      <4> QED BY <1>1, <3>2, <4>2 DEF KeptInv, SavingOK
    <3> QED BY <3>1, <3>2
  <2>6. Written(p)' => ended' /\ (proc'[p].atRisk \/ Now' = proc'[p].session)
    <3>1. Written(p)' => rest = <<>>
      BY <1>3, <1>4 DEF Written
    <3> QED BY <1>1, <1>3, <1>4, <2>5, <3>1
  <2> QED BY <1>1, <2>1, <2>2, <2>3, <2>4, <2>6 DEF SavingOK
<1> HIDE DEF event, next, rest, r
<1> QED BY <1>1, <1>2, <1>6, <1>8, <1>9, WriterStep

LEMMA KeptStopInLine ==
  ASSUME StoreInv, Typed, KeptInv, NEW p \in Processes, StopInLine(p)
  PROVE  KeptInv'
<1> DEFINE event == NextEvent(p)
<1>1. /\ proc[p].at = "appending" /\ proc[p].drafts # <<>> /\ Stops(p)
      /\ UNCHANGED <<snap, legacy, promised, attempted>>
  BY DEF StopInLine
<1>2. PICK line \in {None, event} :
        lines' = Glued(line) /\ ended' = FALSE /\ skewed' = (skewed \/ Skews(p, line))
  BY DEF StopInLine
<1>3. PICK r : proc' = [proc EXCEPT ![p] = r] /\ r.at \notin Holding
  BY <1>1, StopsAt
<1>4. SavingOK(p)'
  BY <1>3, IdleOK
<1>5. holder = p
  BY <1>1, Appending
<1>6. Since' = Since
  BY <1>1 DEF Since
<1>7. Under' = Under
  BY <1>1, <1>2, TornReplay
<1>8. /\ lines' # <<>>
      /\ ended => Now' = ReplayLine(snap, Now, line) /\ Under = Now
      /\ ~ended => Now' = Under
  <2>1. Now' = Replay(Glued(line), snap)
    BY <1>1, <1>2 DEF Now
  <2> QED BY <1>2, <2>1, GluedReplay
<1>9. Stored' = Now'
  BY <1>8 DEF Stored, HasEvents, Now
<1>10. Now # None => skewed \/ From(Now, Since)
  BY StoredNow DEF KeptInv, Kept
<1>11. (ended \/ skewed \/ Under = None \/ From(Under, Since))'
  <2> SUFFICES ASSUME ~skewed', Under # None PROVE From(Under, Since)
    BY <1>6, <1>7 DEF From
  <2>1. ~skewed
    BY <1>2
  <2> QED BY <1>8, <1>10, <2>1 DEF KeptInv
<1>12. (skewed \/ Kept(Stored))'
  <2> SUFFICES ASSUME ~skewed' PROVE Kept(Now)'
    BY <1>9 DEF Kept, From
  <2>1. ~skewed /\ ~Skews(p, line)
    BY <1>2
  <2>2. CASE ~ended
    <3>1. Kept(Under)
      BY <1>1, <2>1, <2>2, LostKept
    <3> QED BY <1>1, <1>6, <1>8, <2>2, <3>1 DEF Kept, From
  <2>3. CASE ended /\ line = None
    <3>1. Now' = Now
      BY <1>8, <2>3 DEF ReplayLine
    <3>2. Now = None => proc[p].base = None
      BY <2>1, <2>3 DEF Skews, Now
    <3>3. proc[p].base = None => promised = None
      BY <1>1, <2>1, Appending
    <3> QED BY <1>1, <1>6, <1>10, <2>1, <3>1, <3>2, <3>3 DEF Kept, From
  <2>4. CASE ended /\ line = event
    <3>1. Now' \in Sessions /\ From(Now', Since)
      <4>1. Now' = ReplayLine(snap, Now, event)
        BY <1>8, <2>4
      <4> HIDE DEF event
      <4> QED BY <1>1, <2>1, <2>4, <4>1, WrittenKept DEF event
    <3> QED BY <1>6, <3>1, NoneAssumption DEF Kept, From
  <2> QED BY <1>2, <2>2, <2>3, <2>4
<1> QED BY <1>3, <1>4, <1>5, <1>8, <1>11, <1>12, WriterStep

LEMMA KeptWriteSnapshot ==
  ASSUME StoreInv, Typed, KeptInv, NEW p \in Processes, WriteSnapshot(p)
  PROVE  KeptInv'
<1> DEFINE r == [proc[p] EXCEPT !.at = "saved", !.atRisk = FALSE]
<1>1. /\ proc[p].at = "appending" /\ proc[p].drafts = <<>>
      /\ snap' = SnapshotOf(p) /\ skewed' = FALSE
      /\ proc' = [proc EXCEPT ![p] = r]
      /\ UNCHANGED <<lines, ended, legacy, promised, attempted>>
  BY DEF WriteSnapshot
<1>2. holder = p /\ proc[p].session \in Sessions /\ proc[p].seq \in Nat /\ UpTo(proc[p].seq)
  BY <1>1, Facts, ProcFacts DEF Holding
<1>3. r.at = "saved" /\ r.session = proc[p].session
  BY ProcFacts DEF Doing
<1>4. proc'[p] = r
  BY <1>1 DEF StoreInv
<1>5. snap' # None /\ CoveredBy(snap') = proc[p].seq /\ Start(snap') = proc[p].session
  <2>1. SnapshotOf(p) \in Snapshots
    BY <1>2 DEF SnapshotOf, Snapshots
  <2>2. snap' # None
    BY <1>1, <2>1, NoneAssumption
  <2> QED BY <1>1, <2>2 DEF CoveredBy, Start, SnapshotOf
<1>6. Now' = proc[p].session
  <2>1. PICK n \in Nat : DOMAIN lines = 1..n
    BY DEF StoreInv, LinesTyped
  <2>2. \A i \in 1..n : lines[i] = None \/ lines[i].seq <= CoveredBy(snap')
    BY <1>2, <1>5, <2>1 DEF UpTo
  <2>3. Replay(lines, snap') = After(lines, snap', n)
    BY <2>1, AfterIs
  <2>4. After(lines, snap', n) = Start(snap')
    BY <2>1, <2>2, AfterCovered
  <2> QED BY <1>1, <1>5, <2>3, <2>4 DEF Now
<1>7. Stored' = Now'
  BY <1>1, <1>5 DEF Stored, HasEvents, Now
<1>8. proc[p].session \in Since'
  <2>1. proc[p].session \in attempted
    BY <1>1 DEF KeptInv, SavingOK
  <2> QED BY <1>1, <1>2, <2>1, NoneAssumption DEF Since
<1>9. Kept(Stored)'
  BY <1>2, <1>6, <1>7, <1>8, NoneAssumption DEF Kept, From
<1>10. ended'
  BY <1>1 DEF KeptInv, SavingOK, Written
<1>11. SavingOK(p)'
  BY <1>3, <1>4, <1>6, <1>10 DEF SavingOK
<1> HIDE DEF r
<1> QED BY <1>1, <1>2, <1>9, <1>10, <1>11, WriterStep

LEMMA KeptKeepSnapshot ==
  ASSUME StoreInv, Typed, KeptInv, NEW p \in Processes, KeepSnapshot(p)
  PROVE  KeptInv'
<1> DEFINE r == [proc[p] EXCEPT !.at = "saved"]
<1>1. /\ proc[p].at = "appending" /\ proc[p].drafts = <<>> /\ proc' = [proc EXCEPT ![p] = r]
      /\ UNCHANGED <<lines, ended, snap, legacy, promised, attempted, skewed>>
  BY DEF KeepSnapshot, disk, ghosts
<1>2. r.at = "saved" /\ r.session = proc[p].session /\ r.atRisk = proc[p].atRisk
  BY ProcFacts DEF Doing
<1>3. proc'[p] = r
  BY <1>1 DEF StoreInv
<1>4. ended /\ (proc[p].atRisk \/ Now = proc[p].session)
  BY <1>1 DEF KeptInv, SavingOK, Written
<1>5. SavingOK(p)'
  BY <1>1, <1>2, <1>3, <1>4, SameReplay DEF SavingOK
<1> HIDE DEF r
<1> QED BY <1>1, <1>5, QuietStep

LEMMA KeptReturn ==
  ASSUME StoreInv, Typed, KeptInv, NEW p \in Processes, Return(p)
  PROVE  KeptInv'
<1>1. /\ proc[p].at = "saved" /\ proc' = [proc EXCEPT ![p] = Opened(p)]
      /\ UNCHANGED <<lines, ended, snap, legacy, skewed>>
  BY DEF Return, disk
<1>2. holder = p /\ proc[p].session \in Sessions
  BY <1>1, Facts, ProcFacts DEF Holding
<1>3. Opened(p).at \notin Holding
  BY DEF Opened, Closed, Holding
<1>4. SavingOK(p)'
  BY <1>1, <1>3, IdleOK
<1>5. Now' = Now /\ Under' = Under /\ Stored' = Stored
  BY <1>1, SameReplay
<1>6. ended /\ (proc[p].atRisk \/ Now = proc[p].session)
  BY <1>1 DEF KeptInv, SavingOK, Written
<1>7. (skewed \/ Kept(Stored))'
  <2>1. CASE proc[p].atRisk
    <3>1. UNCHANGED <<promised, attempted>>
      BY <2>1 DEF Return
    <3> QED BY <1>1, <1>5, <3>1 DEF KeptInv, Kept, From, Since
  <2>2. CASE ~proc[p].atRisk
    <3>1. promised' = proc[p].session /\ attempted' = {}
      BY <2>2 DEF Return
    <3>2. Now = proc[p].session /\ Now # None
      BY <1>2, <1>6, <2>2, NoneAssumption
    <3>3. Stored' = proc[p].session
      BY <1>5, <3>2, StoredNow
    <3>4. proc[p].session \in Since'
      BY <3>1, <3>2 DEF Since
    <3> QED BY <3>2, <3>3, <3>4 DEF Kept, From
  <2> QED BY <2>1, <2>2
<1> QED BY <1>1, <1>2, <1>4, <1>6, <1>7, WriterStep

LEMMA KeptRemoval ==
  ASSUME StoreInv, Typed, KeptInv,
         ChooseToDelete \/ RemoveEvents \/ RemoveSnapshot \/ RemoveDir \/ RemoveLegacy
  PROVE  KeptInv'
<1>1. CASE ChooseToDelete \/ RemoveDir
  <2>1. UNCHANGED <<lines, ended, snap, legacy, proc, promised, attempted, skewed>>
    BY <1>1 DEF ChooseToDelete, RemoveDir, disk, ghosts
  <2>2. Now' = Now /\ Under' = Under /\ Stored' = Stored
    BY <2>1, SameReplay
  <2> QED BY <2>1, <2>2 DEF KeptInv, Kept, From, Since, SavingOK, Written, CoveredBy
<1>2. CASE RemoveEvents \/ RemoveSnapshot
  <2>1. RemoveFile /\ skewed' = TRUE /\ promised' = None
    BY <1>2 DEF RemoveEvents, RemoveSnapshot, RemoveFile
  <2>2. snap' = snap \/ snap' = None
    BY <1>2 DEF RemoveEvents, RemoveSnapshot
  <2>3. (~ended => lines # <<>>)' /\ (ended => ended')
    BY <1>2 DEF RemoveEvents, RemoveSnapshot, KeptInv
  <2>4. ASSUME NEW p \in Processes PROVE SavingOK(p)'
    <3>1. CASE holder # p
      <4>1. proc'[p] = proc[p] /\ proc[p].at \notin Holding
        BY <2>1, <3>1, Facts DEF RemoveFile
      <4> QED BY <4>1 DEF SavingOK, Written, Holding
    <3>2. CASE holder = p
      <4>1. proc'[p] = [proc[p] EXCEPT !.atRisk = TRUE]
        BY <2>1, <3>2 DEF RemoveFile
      <4>2. /\ proc'[p].at = proc[p].at /\ proc'[p].session = proc[p].session
            /\ proc'[p].seen = proc[p].seen /\ proc'[p].base = proc[p].base
            /\ proc'[p].seq = proc[p].seq /\ proc'[p].drafts = proc[p].drafts
            /\ proc'[p].atRisk = TRUE
        BY <4>1, ProcFacts DEF Doing
      <4>3. SavingOK(p)
        BY DEF KeptInv
      <4>4. proc[p].at = "appending" => proc[p].session \in attempted'
        BY <2>1 DEF RemoveFile
      <4>5. proc[p].at = "appending" => CoveredBy(snap') <= proc[p].seq
        BY <2>2, <4>3, ProcFacts, NoneAssumption DEF SavingOK, CoveredBy
      <4>6. CoveredBy(snap)' = CoveredBy(snap')
        BY DEF CoveredBy
      <4>7. Written(p)' => ended'
        BY <2>3, <4>2, <4>3 DEF SavingOK, Written
      <4> QED BY <2>1, <2>2, <4>2, <4>3, <4>4, <4>5, <4>6, <4>7 DEF SavingOK
    <3> QED BY <3>1, <3>2
  <2> QED BY <2>1, <2>3, <2>4 DEF KeptInv
<1>3. CASE RemoveLegacy
  <2>1. UNCHANGED <<lines, ended, snap, proc, attempted, skewed>> /\ legacy' = None
    BY <1>3 DEF RemoveLegacy, ghosts
  <2>2. Now' = Now /\ Under' = Under
    BY <2>1 DEF Now, Under, Glued
  <2>3. promised' = promised \/ promised' = None
    BY <1>3 DEF RemoveLegacy, ghosts
  <2>4. ASSUME NEW p \in Processes PROVE SavingOK(p)'
    <3>1. SavingOK(p)
      BY DEF KeptInv
    <3> QED BY <2>1, <2>2, <2>3, <3>1 DEF SavingOK, Written, CoveredBy
  <2>5. CASE HasEvents
    <3>1. promised' = promised
      BY <1>3, <2>5 DEF RemoveLegacy, ghosts
    <3>2. Stored' = Stored
      BY <2>1, <2>5 DEF Stored, HasEvents
    <3> QED BY <2>1, <2>2, <2>4, <3>1, <3>2 DEF KeptInv, Kept, From, Since
  <2>6. CASE ~HasEvents
    <3>1. promised' = None
      BY <1>3, <2>6 DEF RemoveLegacy
    <3>2. Stored' = None
      BY <2>1, <2>6 DEF Stored, HasEvents
    <3>3. ended
      BY <2>6 DEF KeptInv, HasEvents
    <3> QED BY <2>1, <2>4, <3>1, <3>2, <3>3 DEF KeptInv, Kept
  <2> QED BY <2>5, <2>6
<1> QED BY <1>1, <1>2, <1>3

LEMMA NextKept == RecoverInv /\ [Next]_vars => RecoverInv'
<1> SUFFICES ASSUME StoreInv, Typed, KeptInv, [Next]_vars PROVE RecoverInv'
  BY DEF RecoverInv
<1>1. StoreInv' /\ Typed'
  BY NextInv, NextTyped
<1>2. ASSUME NEW p \in Processes, Step(p) PROVE KeptInv'
  BY <1>2, KeptOpening, KeptSave, KeptReadEvents, KeptAppendLine, KeptWriteSnapshot,
     KeptKeepSnapshot, KeptReturn, KeptStopInLine DEF Step
<1>3. ASSUME ChooseToDelete \/ RemoveEvents \/ RemoveSnapshot \/ RemoveDir \/ RemoveLegacy
      PROVE  KeptInv'
  BY <1>3, KeptRemoval
<1>4. ASSUME UNCHANGED vars PROVE KeptInv'
  <2>1. UNCHANGED <<lines, ended, snap, legacy, proc, promised, attempted, skewed>>
    BY <1>4 DEF vars, disk, ghosts
  <2>2. Now' = Now /\ Under' = Under /\ Stored' = Stored
    BY <2>1, SameReplay
  <2>3. Since' = Since
    BY <2>1 DEF Since
  <2>4. \A p \in Processes : SavingOK(p)'
    BY <2>1, <2>2 DEF KeptInv, SavingOK, Written, CoveredBy
  <2>5. (skewed \/ Kept(Stored))' /\ (ended \/ skewed \/ Under = None \/ From(Under, Since))'
    BY <2>1, <2>2, <2>3 DEF KeptInv, Kept, From
  <2> QED BY <2>1, <2>4, <2>5 DEF KeptInv
<1>5. KeptInv'
  BY <1>2, <1>3, <1>4 DEF Next
<1> QED BY <1>1, <1>5 DEF RecoverInv

\* What is stored is, field by field, the last session whose save has returned or
\* one whose save has begun since, wherever processes die and writes fail, and
\* whatever a line without its newline takes with it.
THEOREM SessionsRecovered == Spec => []Recovered
<1>1. Init => RecoverInv
  BY InitInv, InitTyped, InitKept DEF RecoverInv
<1>2. RecoverInv => Recovered
  BY TypedTypeOK DEF RecoverInv, KeptInv, Kept, Since, Recovered
<1> QED BY <1>1, NextKept, <1>2, PTL DEF Spec

-----------------------------------------------------------------------------
(* A load returns what is stored when it ends. *)

\* Nothing was removed or torn.
Whole == removals = 0 /\ \A i \in DOMAIN lines : lines[i] # None

\* The session is a line, with this number.
IsLine(n, session) ==
  \E i \in DOMAIN lines : lines[i].kind = "full" /\ lines[i].seq = n /\ lines[i].data = session

LoadOK(p) ==
  /\ proc[p].at = "appending" /\ proc[p].drafts = <<>> =>
       IsLine(proc[p].seq, proc[p].session) /\ proc[p].seq > CoveredBy(snap)
  /\ proc[p].at = "loading" =>
       /\ HasEvents
       /\ \/ proc[p].seen \in {None, snap}
          \/ snap # None /\ proc[p].seen.seq < snap.seq

LoadInv ==
  /\ removals = 0 => removal = "none"
  /\ Whole => /\ snap # None => IsLine(snap.seq, snap.session)
              /\ \A p \in Processes : LoadOK(p)

\* From a line with the whole session on, an older snapshot and the one that was
\* made of that session lead to the same.
LEMMA SnapshotsAgree ==
  ASSUME StoreInv, FilesTyped, \A i \in DOMAIN lines : lines[i] # None,
         NEW s \in Snapshots \cup {None}, NEW t \in Snapshots, IsLine(t.seq, t.session),
         s = None \/ s.seq < t.seq
  PROVE  Replay(lines, s) = Replay(lines, t)
<1>1. PICK n \in Nat : DOMAIN lines = 1..n
  BY DEF FilesTyped
<1>2. PICK i \in 1..n : lines[i].kind = "full" /\ lines[i].seq = t.seq /\ lines[i].data = t.session
  BY <1>1 DEF IsLine
<1>3. \A j \in 1..n : lines[j] # None /\ lines[j].seq \in Nat /\ lines[j].seq > 0
  <2>1. \A j \in 1..n : lines[j] \in Events
    BY <1>1 DEF FilesTyped
  <2> QED BY <2>1, EventIs
<1>4. CoveredBy(t) = t.seq /\ Start(t) = t.session /\ t.seq \in Nat
  BY NoneAssumption DEF CoveredBy, Start, Snapshots
<1>5. CoveredBy(s) \in Nat /\ CoveredBy(s) < t.seq
  <2>1. CASE s = None
    BY <1>2, <1>3, <1>4, <2>1 DEF CoveredBy
  <2>2. CASE s # None
    BY <1>4, <2>2 DEF CoveredBy, Snapshots
  <2> QED BY <2>1, <2>2
<1>6. \A j, k \in 1..n : j < k => lines[j].seq < lines[k].seq
  BY <1>1, <1>3 DEF StoreInv, Ordered
<1>7. Runs(lines, s, n) /\ Runs(lines, t, n)
  BY <1>1, AfterRuns
<1>8. After(lines, t, i) = t.session
  <2>1. \A j \in 1..i : lines[j].seq <= CoveredBy(t)
    <3> SUFFICES ASSUME NEW j \in 1..i PROVE lines[j].seq <= lines[i].seq
      BY <1>2, <1>4
    <3>1. CASE j = i
      BY <1>3, <3>1
    <3>2. CASE j < i
      BY <1>3, <1>6, <3>2
    <3> QED BY <3>1, <3>2
  <2>2. i \in Nat /\ i <= n
    OBVIOUS
  <2>3. After(lines, t, i) = Start(t)
    BY <1>1, <2>1, <2>2, AfterCovered
  <2> QED BY <1>4, <2>3
<1>9. After(lines, s, i) = t.session
  <2>1. PICK k \in Nat : k + 1 = i
    <3>1. i - 1 \in Nat /\ (i - 1) + 1 = i
      OBVIOUS
    <3> QED BY <3>1
  <2>2. After(lines, s, k + 1) = ReplayLine(s, After(lines, s, k), lines[k + 1])
    BY <1>7, <2>1 DEF Runs
  <2>3. ReplayLine(s, After(lines, s, k), lines[i]) = ApplyEvent(After(lines, s, k), lines[i])
    <3>1. ~(lines[i].seq <= CoveredBy(s))
      BY <1>2, <1>4, <1>5
    <3> QED BY <1>3, <3>1 DEF ReplayLine
  <2> QED BY <1>2, <2>1, <2>2, <2>3 DEF ApplyEvent
<1> DEFINE S == {d \in Nat : i + d <= n => After(lines, s, i + d) = After(lines, t, i + d)}
<1>10. 0 \in S
  BY <1>8, <1>9
<1>11. ASSUME NEW d \in Nat, d \in S PROVE d + 1 \in S
  <2> SUFFICES ASSUME i + d + 1 <= n
               PROVE  After(lines, s, i + (d + 1)) = After(lines, t, i + (d + 1))
    BY <1>11
  <2>1. PICK k \in Nat : k = i + d /\ k < n /\ i + (d + 1) = k + 1
    OBVIOUS
  <2>2. After(lines, s, k) = After(lines, t, k)
    BY <1>11, <2>1
  <2>3. After(lines, s, k + 1) = ReplayLine(s, After(lines, s, k), lines[k + 1])
    BY <1>7, <2>1 DEF Runs
  <2>4. After(lines, t, k + 1) = ReplayLine(t, After(lines, t, k), lines[k + 1])
    BY <1>7, <2>1 DEF Runs
  <2>5. k + 1 \in 1..n /\ i < k + 1
    BY <2>1
  <2>6. lines[i].seq < lines[k + 1].seq /\ lines[k + 1].seq \in Nat
    BY <1>3, <1>6, <2>5
  <2>7. ~(lines[k + 1].seq <= CoveredBy(s)) /\ ~(lines[k + 1].seq <= CoveredBy(t))
    BY <1>2, <1>4, <1>5, <2>6
  <2> QED BY <2>1, <2>2, <2>3, <2>4, <2>7 DEF ReplayLine
<1>12. PICK d \in Nat : i + d = n
  <2>1. n - i \in Nat /\ i + (n - i) = n
    OBVIOUS
  <2> QED BY <2>1
<1>13. d \in S
  <2> HIDE DEF S
  <2> QED BY <1>10, <1>11, Induct
<1>14. After(lines, s, n) = After(lines, t, n)
  BY <1>12, <1>13
<1>15. Replay(lines, s) = After(lines, s, n) /\ Replay(lines, t) = After(lines, t, n)
  BY <1>1, AfterIs
<1> QED BY <1>14, <1>15

LEMMA InitLoad == Init => LoadInv
<1> SUFFICES ASSUME Init PROVE LoadInv
  OBVIOUS
<1>1. \A p \in Processes : proc[p].at = "closed"
  BY DEF Init, Closed
<1> QED BY <1>1 DEF Init, LoadInv, LoadOK

\* The files stay as they are.
LEMMA LoadQuiet ==
  ASSUME StoreInv, LoadInv, NEW p \in Processes, NEW r, proc' = [proc EXCEPT ![p] = r],
         UNCHANGED <<lines, snap, removal, removals>>, Whole => LoadOK(p)'
  PROVE  LoadInv'
<1>1. Whole' = Whole
  BY DEF Whole
<1>2. ASSUME Whole PROVE (snap # None => IsLine(snap.seq, snap.session))'
  BY <1>2 DEF LoadInv, IsLine
<1>3. ASSUME Whole, NEW q \in Processes PROVE LoadOK(q)'
  <2>1. CASE q = p
    BY <1>3, <2>1
  <2>2. CASE q # p
    <3>1. proc'[q] = proc[q]
      BY <2>2 DEF StoreInv
    <3>2. LoadOK(q)
      BY <1>3 DEF LoadInv
    <3> QED BY <3>1, <3>2 DEF LoadOK, IsLine, HasEvents, CoveredBy
  <2> QED BY <2>1, <2>2
<1> QED BY <1>1, <1>2, <1>3 DEF LoadInv

\* Who is not loading, nor done with its lines, has nothing to answer for.
LEMMA LoadIdle ==
  ASSUME StoreInv, NEW p \in Processes, NEW r, proc' = [proc EXCEPT ![p] = r],
         r.at # "loading", r.at # "appending" \/ r.drafts # <<>>
  PROVE  LoadOK(p)'
<1>1. proc'[p] = r
  BY DEF StoreInv
<1> QED BY <1>1 DEF LoadOK

LEMMA LoadQuietSteps ==
  ASSUME StoreInv, Typed, LoadInv, NEW p \in Processes,
         \/ New(p) \/ Load(p) \/ FinishLoad(p) \/ Change(p) \/ Save(p) \/ ReadEvents(p)
         \/ KeepSnapshot(p) \/ Return(p) \/ StopBetween(p)
  PROVE  LoadInv'
<1>0. UNCHANGED <<lines, snap, removal, removals>>
  BY DEF New, Load, FinishLoad, Change, Save, ReadEvents, KeepSnapshot, Return, StopBetween,
         disk, counts
<1>1. CASE New(p)
  <2>1. [Closed EXCEPT !.at = "open", !.session = Fresh].at = "open"
    BY DEF Closed
  <2> QED BY <1>0, <1>1, <2>1, LoadIdle, LoadQuiet DEF New
<1>2. CASE Load(p)
  <2>1. CASE HasEvents /\ proc' = [proc EXCEPT ![p] = [@ EXCEPT !.at = "loading", !.seen = snap]]
    <3> DEFINE r == [proc[p] EXCEPT !.at = "loading", !.seen = snap]
    <3>1. r.at = "loading" /\ r.seen = snap
      BY ProcFacts DEF Doing
    <3>2. proc' = [proc EXCEPT ![p] = r]
      BY <2>1
    <3> HIDE DEF r
    <3>3. proc'[p] = r
      BY <3>2 DEF StoreInv
    <3>4. LoadOK(p)'
      BY <1>0, <2>1, <3>1, <3>3 DEF LoadOK, HasEvents
    <3> QED BY <1>0, <3>2, <3>4, LoadQuiet
  <2>2. CASE proc' = [proc EXCEPT ![p] = [@ EXCEPT !.at = "open", !.session = legacy]]
    <3> DEFINE r == [proc[p] EXCEPT !.at = "open", !.session = legacy]
    <3>1. r.at = "open"
      BY ProcFacts DEF Doing
    <3>2. proc' = [proc EXCEPT ![p] = r]
      BY <2>2
    <3> HIDE DEF r
    <3> QED BY <1>0, <3>1, <3>2, LoadIdle, LoadQuiet
  <2> QED BY <1>2, <2>1, <2>2 DEF Load
<1>3. CASE FinishLoad(p)
  <2>1. PICK loaded : loaded = Replay(lines, proc[p].seen)
    OBVIOUS
  <2>2. PICK r : r = IF loaded = None THEN Closed ELSE [Closed EXCEPT !.at = "open", !.session = loaded]
    OBVIOUS
  <2>3. proc' = [proc EXCEPT ![p] = r]
    BY <1>3, <2>1, <2>2 DEF FinishLoad
  <2>4. r.at \in {"closed", "open"}
    BY <2>2 DEF Closed
  <2> QED BY <1>0, <2>3, <2>4, LoadIdle, LoadQuiet
<1>4. CASE Change(p)
  <2>1. PICK s : proc' = [proc EXCEPT ![p].session = s]
    BY <1>4 DEF Change
  <2> DEFINE r == [proc[p] EXCEPT !.session = s]
  <2>2. r.at = "open"
    BY <1>4, ProcFacts DEF Change, Doing
  <2>3. proc' = [proc EXCEPT ![p] = r]
    BY <2>1
  <2> HIDE DEF r
  <2> QED BY <1>0, <2>2, <2>3, LoadIdle, LoadQuiet
<1>5. CASE Save(p)
  <2> DEFINE r == [proc[p] EXCEPT !.at = "reading", !.seen = snap]
  <2>1. r.at = "reading"
    BY ProcFacts DEF Doing
  <2>2. proc' = [proc EXCEPT ![p] = r]
    BY <1>5 DEF Save
  <2> HIDE DEF r
  <2> QED BY <1>0, <2>1, <2>2, LoadIdle, LoadQuiet
<1>6. CASE ReadEvents(p)
  <2>1. PICK previous : previous = Previous(p)
    OBVIOUS
  <2>2. previous \in Sessions \cup {None}
    <3>1. Replay(lines, proc[p].seen) \in Sessions \cup {None}
      BY ProcFacts, ReplayType DEF Typed, FilesTyped
    <3>2. legacy \in Sessions \cup {None}
      BY SomeSessions DEF Typed, FilesTyped
    <3> QED BY <2>1, <3>1, <3>2 DEF Previous
  <2>3. PICK drafts : drafts = SaveDrafts(previous, proc[p].session)
    OBVIOUS
  <2>4. drafts # <<>>
    <3>1. proc[p].session \in Sessions
      BY <1>6, ProcFacts DEF ReadEvents
    <3> QED BY <2>2, <2>3, <3>1, SaveDraftsFit
  <2>5. PICK last : last = LastSeq(lines, proc[p].seen)
    OBVIOUS
  <2>6. PICK risk : risk = (proc[p].atRisk \/ (~ended /\ Len(drafts) = 1))
    OBVIOUS
  <2> DEFINE r == [proc[p] EXCEPT !.at = "appending", !.base = previous, !.seq = last,
                                  !.drafts = drafts, !.atRisk = risk]
  <2>7. proc' = [proc EXCEPT ![p] = r]
    BY <1>6, <2>1, <2>3, <2>5, <2>6 DEF ReadEvents
  <2>8. r.at = "appending" /\ r.drafts = drafts
    BY ProcFacts DEF Doing
  <2> HIDE DEF r
  <2> QED BY <1>0, <2>4, <2>7, <2>8, LoadIdle, LoadQuiet
<1>7. CASE KeepSnapshot(p)
  <2> DEFINE r == [proc[p] EXCEPT !.at = "saved"]
  <2>1. r.at = "saved"
    BY ProcFacts DEF Doing
  <2>2. proc' = [proc EXCEPT ![p] = r]
    BY <1>7 DEF KeepSnapshot
  <2> HIDE DEF r
  <2> QED BY <1>0, <2>1, <2>2, LoadIdle, LoadQuiet
<1>8. CASE Return(p)
  <2>1. Opened(p).at = "open"
    BY DEF Opened, Closed
  <2>2. proc' = [proc EXCEPT ![p] = Opened(p)]
    BY <1>8 DEF Return
  <2> QED BY <1>0, <2>1, <2>2, LoadIdle, LoadQuiet
<1>9. CASE StopBetween(p)
  <2>1. Closed.at = "closed" /\ Opened(p).at = "open"
    BY DEF Opened, Closed
  <2>2. \E r \in {Closed, Opened(p)} : proc' = [proc EXCEPT ![p] = r]
    BY <1>9 DEF StopBetween, Stops
  <2> QED BY <1>0, <2>1, <2>2, LoadIdle, LoadQuiet
<1> QED BY <1>1, <1>2, <1>3, <1>4, <1>5, <1>6, <1>7, <1>8, <1>9

\* A line that goes behind the others leaves them where they are.
LEMMA LinesStay ==
  ASSUME Typed, KeptInv, NEW line \in Events \cup {None}, lines' = Glued(line), UNCHANGED removals,
         Whole'
  PROVE  /\ ended /\ line # None /\ Whole
         /\ \A n, session : IsLine(n, session) => IsLine(n, session)'
         /\ line.kind = "full" => IsLine(line.seq, line.data)'
         /\ HasEvents'
<1>1. lines \in Seq(Events \cup {None})
  BY DEF Typed, FilesTyped
<1>2. PICK n \in Nat : n = Len(lines) /\ DOMAIN lines = 1..n
  BY <1>1
<1>3. ended
  <2> SUFFICES ASSUME ~ended PROVE FALSE
    OBVIOUS
  <2>1. lines # <<>>
    BY DEF KeptInv
  <2>2. n # 0
    BY <1>1, <1>2, <2>1
  <2>3. lines' = [lines EXCEPT ![n] = None]
    BY <1>2 DEF Glued
  <2>4. n \in DOMAIN lines' /\ lines'[n] = None
    BY <1>2, <2>2, <2>3
  <2> QED BY <2>4 DEF Whole
<1>4. PICK T : T = Events \cup {None}
  OBVIOUS
<1>5. lines \in Seq(T) /\ line \in T /\ lines' = Append(lines, line)
  BY <1>1, <1>3, <1>4 DEF Glued
<1>6. /\ DOMAIN lines' = 1..(n + 1) /\ lines'[n + 1] = line
      /\ \A i \in 1..n : lines'[i] = lines[i]
  BY <1>2, <1>5
<1>7. line # None
  BY <1>6 DEF Whole
<1>8. Whole
  BY <1>2, <1>6 DEF Whole
<1>9. ASSUME NEW m, NEW session, IsLine(m, session) PROVE IsLine(m, session)'
  BY <1>2, <1>6, <1>9 DEF IsLine
<1>10. line.kind = "full" => IsLine(line.seq, line.data)'
  BY <1>6 DEF IsLine
<1>11. lines' # <<>>
  <2>1. n + 1 \in DOMAIN lines'
    BY <1>6
  <2> QED BY <2>1
<1> QED BY <1>3, <1>7, <1>8, <1>9, <1>10, <1>11 DEF HasEvents

\* What others answer for, when the file only grows.
LEMMA LoadGrows ==
  ASSUME StoreInv, NEW p \in Processes, NEW r, proc' = [proc EXCEPT ![p] = r], UNCHANGED snap,
         \A n, session : IsLine(n, session) => IsLine(n, session)', HasEvents',
         NEW q \in Processes, q # p, LoadOK(q)
  PROVE  LoadOK(q)'
<1>1. proc'[q] = proc[q]
  BY DEF StoreInv
<1> QED BY <1>1 DEF LoadOK, CoveredBy

LEMMA LoadAppendLine ==
  ASSUME StoreInv, Typed, KeptInv, LoadInv, NEW p \in Processes, AppendLine(p)
  PROVE  LoadInv'
<1>1. proc[p].at = "appending" /\ proc[p].drafts # <<>> /\ UNCHANGED <<snap, removal, removals>>
  BY DEF AppendLine, counts
<1>2. PICK event \in Events : event = NextEvent(p)
  BY <1>1, NextEventTyped
<1>3. PICK rest : rest = Tail(proc[p].drafts)
  OBVIOUS
<1>4. PICK session : session = proc[p].session
  OBVIOUS
<1>5. PICK next : next = ApplyEvent(proc[p].base, Head(proc[p].drafts))
  OBVIOUS
<1>6. PICK r : r = [proc[p] EXCEPT !.seq = proc[p].seq + 1, !.drafts = rest, !.base = next]
  OBVIOUS
<1>7. lines' = Glued(event) /\ proc' = [proc EXCEPT ![p] = r]
  BY <1>2, <1>3, <1>5, <1>6 DEF AppendLine
<1>8. r.at = "appending" /\ r.session = session /\ r.drafts = rest /\ r.seq = event.seq
  <2>1. r.at = "appending" /\ r.session = session /\ r.drafts = rest /\ r.seq = proc[p].seq + 1
    BY <1>1, <1>4, <1>6, ProcFacts DEF Doing
  <2>2. event.seq = proc[p].seq + 1
    BY <1>1, <1>2, NextEventTyped
  <2> QED BY <2>1, <2>2
<1>9. /\ rest = <<>> => event.kind = "full"
      /\ event.kind = "full" => event.data = session
      /\ event.seq > CoveredBy(snap)
  BY <1>1, <1>2, <1>3, <1>4, Appending
<1>10. proc'[p] = r
  BY <1>7 DEF StoreInv
<1>11. ASSUME Whole' PROVE (snap # None => IsLine(snap.seq, snap.session))' /\ \A q \in Processes : LoadOK(q)'
  <2>1. Whole /\ (\A n, s : IsLine(n, s) => IsLine(n, s)') /\ HasEvents'
        /\ (event.kind = "full" => IsLine(event.seq, event.data)')
    BY <1>1, <1>7, <1>11, LinesStay
  <2>2. (snap # None => IsLine(snap.seq, snap.session))'
    <3>1. snap # None => IsLine(snap.seq, snap.session)
      BY <2>1 DEF LoadInv
    <3> QED BY <1>1, <2>1, <3>1 DEF IsLine
  <2>3. LoadOK(p)'
    <3>1. CoveredBy(snap)' = CoveredBy(snap)
      BY <1>1 DEF CoveredBy
    <3>2. rest = <<>> => IsLine(event.seq, session)'
      BY <1>9, <2>1
    <3> QED BY <1>8, <1>9, <1>10, <3>1, <3>2 DEF LoadOK, IsLine
  <2>4. ASSUME NEW q \in Processes, q # p PROVE LoadOK(q)'
    <3>1. LoadOK(q)
      BY <2>1 DEF LoadInv
    <3> QED BY <1>1, <1>7, <2>1, <2>4, <3>1, LoadGrows
  <2> QED BY <2>2, <2>3, <2>4
<1> QED BY <1>1, <1>11 DEF LoadInv

LEMMA LoadStopInLine ==
  ASSUME StoreInv, Typed, KeptInv, LoadInv, NEW p \in Processes, StopInLine(p)
  PROVE  LoadInv'
<1>1. /\ proc[p].at = "appending" /\ proc[p].drafts # <<>> /\ Stops(p)
      /\ UNCHANGED <<snap, removal, removals>>
  BY DEF StopInLine
<1>2. PICK line \in {None, NextEvent(p)} : lines' = Glued(line)
  BY DEF StopInLine
<1>3. line \in Events \cup {None}
  BY <1>1, <1>2, NextEventTyped
<1>4. PICK r : proc' = [proc EXCEPT ![p] = r] /\ r.at \in {"closed", "open"}
  <2>1. Closed.at = "closed" /\ Opened(p).at = "open"
    BY DEF Opened, Closed
  <2> QED BY <1>1, <2>1 DEF Stops
<1>5. ASSUME Whole' PROVE (snap # None => IsLine(snap.seq, snap.session))' /\ \A q \in Processes : LoadOK(q)'
  <2>1. Whole /\ (\A n, session : IsLine(n, session) => IsLine(n, session)') /\ HasEvents'
    BY <1>1, <1>2, <1>3, <1>5, LinesStay
  <2>2. (snap # None => IsLine(snap.seq, snap.session))'
    <3>1. snap # None => IsLine(snap.seq, snap.session)
      BY <2>1 DEF LoadInv
    <3> QED BY <1>1, <2>1, <3>1 DEF IsLine
  <2>3. LoadOK(p)'
    BY <1>4, LoadIdle
  <2>4. ASSUME NEW q \in Processes, q # p PROVE LoadOK(q)'
    <3>1. LoadOK(q)
      BY <2>1 DEF LoadInv
    <3> QED BY <1>1, <1>4, <2>1, <2>4, <3>1, LoadGrows
  <2> QED BY <2>2, <2>3, <2>4
<1> QED BY <1>1, <1>5 DEF LoadInv

\* The snapshot is made of the session that was appended last, and covers more
\* than the one before.
LEMMA LoadWriteSnapshot ==
  ASSUME StoreInv, Typed, KeptInv, LoadInv, NEW p \in Processes, WriteSnapshot(p)
  PROVE  LoadInv'
<1> DEFINE r == [proc[p] EXCEPT !.at = "saved", !.atRisk = FALSE]
<1>1. /\ proc[p].at = "appending" /\ proc[p].drafts = <<>> /\ snap' = SnapshotOf(p)
      /\ proc' = [proc EXCEPT ![p] = r] /\ UNCHANGED <<lines, removal, removals>>
  BY DEF WriteSnapshot, counts
<1>2. r.at = "saved"
  BY ProcFacts DEF Doing
<1> HIDE DEF r
<1>3. proc[p].session \in Sessions /\ proc[p].seq \in Nat /\ holder = p
  BY <1>1, ProcFacts, Facts DEF Holding
<1>4. snap' \in Snapshots /\ snap' # None /\ snap'.seq = proc[p].seq /\ snap'.session = proc[p].session
  <2>1. SnapshotOf(p) \in Snapshots
    BY <1>3 DEF SnapshotOf, Snapshots
  <2> QED BY <1>1, <2>1, NoneAssumption DEF SnapshotOf
<1>5. Whole' = Whole
  BY <1>1 DEF Whole
<1>6. ASSUME Whole PROVE IsLine(proc[p].seq, proc[p].session) /\ proc[p].seq > CoveredBy(snap)
  BY <1>1, <1>6 DEF LoadInv, LoadOK
<1>7. ASSUME Whole PROVE (snap # None => IsLine(snap.seq, snap.session))'
  BY <1>1, <1>4, <1>6, <1>7 DEF IsLine
<1>8. LoadOK(p)'
  BY <1>1, <1>2, LoadIdle
<1>9. ASSUME Whole, NEW q \in Processes, q # p PROVE LoadOK(q)'
  <2>1. proc'[q] = proc[q]
    BY <1>1, <1>9 DEF StoreInv
  <2>2. proc[q].at # "appending"
    BY <1>3, <1>9, Facts DEF Holding
  <2>3. HasEvents'
    BY <1>4 DEF HasEvents
  <2>4. ASSUME proc[q].at = "loading" PROVE proc[q].seen = None \/ proc[q].seen.seq < snap'.seq
    <3> SUFFICES ASSUME proc[q].seen # None PROVE proc[q].seen.seq < proc[p].seq
      BY <1>4
    <3>1. proc[q].seen \in Snapshots
      BY ProcFacts
    <3>2. proc[q].seen.seq \in Nat
      BY <3>1 DEF Snapshots
    <3>3. CoveredBy(snap) < proc[p].seq /\ CoveredBy(snap) \in Nat
      BY <1>3, <1>6, <1>9, Facts
    <3>4. proc[q].seen = snap \/ (snap # None /\ proc[q].seen.seq < snap.seq)
      BY <1>9, <2>4 DEF LoadInv, LoadOK
    <3>5. snap # None => CoveredBy(snap) = snap.seq
      BY DEF CoveredBy
    <3> QED BY <1>3, <3>2, <3>3, <3>4, <3>5
  <2> QED BY <1>4, <2>1, <2>2, <2>3, <2>4 DEF LoadOK
<1> QED BY <1>1, <1>5, <1>7, <1>8, <1>9 DEF LoadInv

\* Once one is chosen, nothing is claimed.
LEMMA LoadRemoval ==
  ASSUME Typed, LoadInv,
         ChooseToDelete \/ RemoveEvents \/ RemoveSnapshot \/ RemoveDir \/ RemoveLegacy
  PROVE  LoadInv'
<1>1. removals \in Nat
  BY DEF Typed, CountsTyped
<1>2. removals' # 0
  <2>1. CASE ChooseToDelete
    BY <1>1, <2>1 DEF ChooseToDelete
  <2>2. CASE RemoveEvents \/ RemoveSnapshot \/ RemoveDir \/ RemoveLegacy
    <3>1. removal # "none" /\ removals' = removals
      BY <2>2 DEF RemoveEvents, RemoveSnapshot, RemoveFile, RemoveDir, RemoveLegacy, counts
    <3> QED BY <3>1 DEF LoadInv
  <2> QED BY <2>1, <2>2
<1> QED BY <1>2 DEF LoadInv, Whole

LEMMA NextLoad == RecoverInv /\ LoadInv /\ [Next]_vars => (RecoverInv /\ LoadInv)'
<1> SUFFICES ASSUME RecoverInv, LoadInv, [Next]_vars PROVE LoadInv'
  BY NextKept
<1>1. StoreInv /\ Typed /\ KeptInv
  BY DEF RecoverInv
<1>2. ASSUME NEW p \in Processes, Step(p) PROVE LoadInv'
  BY <1>1, <1>2, LoadQuietSteps, LoadAppendLine, LoadStopInLine, LoadWriteSnapshot DEF Step
<1>3. ASSUME ChooseToDelete \/ RemoveEvents \/ RemoveSnapshot \/ RemoveDir \/ RemoveLegacy
      PROVE  LoadInv'
  BY <1>1, <1>3, LoadRemoval
<1>4. ASSUME UNCHANGED vars PROVE LoadInv'
  <2>1. UNCHANGED <<lines, snap, proc, removal, removals>>
    BY <1>4 DEF vars, disk, counts
  <2> QED BY <2>1 DEF LoadInv, Whole, LoadOK, IsLine, HasEvents, CoveredBy
<1> QED BY <1>2, <1>3, <1>4 DEF Next

\* A process that was loading and then has the session open has finished its load.
LEMMA LoadsFinish ==
  ASSUME StoreInv, Typed, [Next]_vars, NEW p \in Processes,
         proc[p].at = "loading", proc'[p].at = "open"
  PROVE  FinishLoad(p)
<1>1. holder # p
  BY ProcFacts DEF Holding
<1>2. proc' # proc
  OBVIOUS
<1>3. PICK q \in Processes : Step(q)
  <2>1. ~UNCHANGED vars
    BY <1>2 DEF vars
  <2>2. ~(ChooseToDelete \/ RemoveDir \/ RemoveLegacy)
    BY <1>2 DEF ChooseToDelete, RemoveDir, RemoveLegacy
  <2>3. ASSUME RemoveFile PROVE FALSE
    <3>1. proc'[p] = proc[p]
      BY <1>1, <2>3 DEF RemoveFile
    <3> QED BY <3>1
  <2> QED BY <2>1, <2>2, <2>3 DEF Next, RemoveEvents, RemoveSnapshot
<1>4. \E r : proc' = [proc EXCEPT ![q] = r]
  BY <1>3 DEF Step, New, Load, FinishLoad, Change, Save, ReadEvents, AppendLine, WriteSnapshot,
              KeepSnapshot, Return, StopInLine, StopBetween, Stops
<1>5. q = p
  <2> SUFFICES ASSUME q # p PROVE FALSE
    OBVIOUS
  <2>1. proc'[p] = proc[p]
    BY <1>4 DEF StoreInv
  <2> QED BY <2>1
<1>6. ~StopBetween(p)
  <2> SUFFICES ASSUME StopBetween(p) PROVE FALSE
    OBVIOUS
  <2>1. proc' = [proc EXCEPT ![p] = Closed]
    BY <1>1 DEF StopBetween, Stops
  <2>2. proc'[p] = Closed
    BY <2>1 DEF StoreInv
  <2> QED BY <2>2 DEF Closed
<1> QED BY <1>3, <1>5, <1>6 DEF Step, New, Load, Change, Save, LockFree, ReadEvents, AppendLine,
              WriteSnapshot, KeepSnapshot, Return, StopInLine

\* A load reads the snapshot first and the events later, without the lock: it
\* returns what is stored by then, however many saves came in between.
THEOREM LoadsReturnStored == Spec => LoadsStored
<1>1. Init => RecoverInv /\ LoadInv
  BY InitInv, InitTyped, InitKept, InitLoad DEF RecoverInv
<1>2. ASSUME RecoverInv, LoadInv, [Next]_vars, NEW p \in Processes,
             proc[p].at = "loading", proc'[p].at = "open",
             removals = 0, \A i \in DOMAIN lines : lines[i] # None
      PROVE  proc'[p].session = Stored
  <2>1. StoreInv /\ Typed /\ FilesTyped
    BY <1>2 DEF RecoverInv, Typed
  <2>2. FinishLoad(p)
    BY <1>2, <2>1, LoadsFinish
  <2>3. PICK loaded : loaded = Replay(lines, proc[p].seen)
    OBVIOUS
  <2>4. proc' = [proc EXCEPT ![p] =
          IF loaded = None THEN Closed ELSE [Closed EXCEPT !.at = "open", !.session = loaded]]
    BY <2>2, <2>3 DEF FinishLoad
  <2>5. proc'[p].session = loaded
    <3>1. proc'[p] = IF loaded = None THEN Closed ELSE [Closed EXCEPT !.at = "open", !.session = loaded]
      BY <2>1, <2>4 DEF StoreInv
    <3>2. loaded # None
      BY <1>2, <3>1 DEF Closed
    <3> QED BY <3>1, <3>2 DEF Closed
  <2>6. LoadOK(p) /\ (snap # None => IsLine(snap.seq, snap.session))
    BY <1>2 DEF LoadInv, Whole
  <2>7. Stored = Replay(lines, snap)
    BY <1>2, <2>6 DEF LoadOK, Stored
  <2>8. CASE proc[p].seen = snap
    BY <2>3, <2>5, <2>7, <2>8
  <2>9. CASE proc[p].seen # snap
    <3>1. proc[p].seen \in Snapshots \cup {None} /\ snap \in Snapshots \cup {None}
      BY <2>1, ProcFacts DEF FilesTyped
    <3>2. snap # None /\ (proc[p].seen = None \/ proc[p].seen.seq < snap.seq)
      BY <1>2, <2>6, <2>9 DEF LoadOK
    <3>3. Replay(lines, proc[p].seen) = Replay(lines, snap)
      BY <1>2, <2>1, <2>6, <3>1, <3>2, SnapshotsAgree
    <3> QED BY <2>3, <2>5, <2>7, <3>3
  <2> QED BY <2>8, <2>9
<1>3. RecoverInv /\ LoadInv /\ [Next]_vars =>
        [\A p \in Processes :
           /\ proc[p].at = "loading" /\ proc'[p].at = "open"
           /\ removals = 0 /\ \A i \in DOMAIN lines : lines[i] # None
           => proc'[p].session = Stored]_vars
  BY <1>2
<1> QED BY <1>1, <1>3, NextLoad, PTL DEF Spec, LoadsStored
=============================================================================
