--------------------------- MODULE FileEditsProofs ---------------------------
(***************************************************************************)
(* Proofs about FileEdits, for any number of agents, users, files and      *)
(* operations, whatever fails and whoever else writes: putting files back  *)
(* overwrites nothing but what the operation itself wrote, calls end with  *)
(* all of their files changed or none, and undoing leads back.  The first  *)
(* argument is local: as long as nobody else has written to a file, its    *)
(* content is a function of how far the process at it has come (Fits);     *)
(* what others do to it is in touched, and stays there.  The second looks  *)
(* at one file and all who are at it (FileOK): what each may still write   *)
(* there is what the last operation in the store has left, or has found.   *)
(***************************************************************************)
EXTENDS FileEdits, WellFoundedInduction, TLAPS

Parts == {"at", "id", "op", "next", "left", "current", "outcome", "initial", "touched"}
Record(x) == x = [k \in Parts |-> x[k]]

OpParts == {"edits", "before", "after", "status"}
OpOK(op) == op = [k \in OpParts |-> op[k]] /\ op.edits \in Calls

\* Every edit that others did not disturb can be undone, to the files before.
Sound(op, h) ==
  \A i \in DOMAIN op.edits : op.edits[i].path \notin h.disturbed =>
    /\ Before(op, op.edits[i]) = h.initial[op.edits[i].path]
    /\ op.after[op.edits[i].path] = op.edits[i].new

\* What process p has in hand, whatever the files hold.
Shape(p, x) ==
  /\ Record(x)
  /\ x.at # "idle" => OpOK(x.op)
  /\ x.at \in {"writing", "restoring"} => x.next \in 1 .. Len(x.op.edits)
  /\ p \in Editors => x.at \notin {"checking", "checked"}
  /\ p \in Undoers => x.at \in {"idle", "checking", "checked", "restoring", "reverting", "closing"}
  /\ x.at = "planned" => x.next = 1 /\ x.op.status = "pending"
  /\ x.at = "reverting" => x.outcome = "rollback_failed"
  /\ x.at = "closing" => x.outcome \in {Success(p), "rollback_failed"}

\* Editor p knows how its files were, and finds its entry again.
OfEditor(x, entry, h) ==
  /\ x.at = "planned" => \A i \in DOMAIN x.op.edits :
       x.op.edits[i].type = "add" => x.initial[x.op.edits[i].path] = Absent
  /\ x.at \notin {"idle", "planned"} =>
       /\ entry.status = "pending" /\ h.initial = x.initial
       /\ \A i \in DOMAIN x.op.edits : x.op.edits[i].path \notin x.touched =>
            Before(x.op, x.op.edits[i]) = x.initial[x.op.edits[i].path]

OfUndoer(x, entry, h) ==
  x.at # "idle" => /\ entry.status # "pending"
                   /\ x.op.status = "committed" /\ Sound(x.op, h)

Linked(p, x, en, hi) ==
  /\ x.at \notin {"idle", "planned"} => x.id \in DOMAIN en
  /\ p \in Editors => OfEditor(x, en[x.id], hi[x.id])
  /\ p \in Undoers => OfUndoer(x, en[x.id], hi[x.id])

\* Found by editor p before it puts the files back.
Leftover(x, edit) == {x.initial[edit.path], edit.new, Torn}

\* What is in the file of the i-th edit, if nobody else has written to it.
Fit(p, x, i, c) ==
  LET edit == x.op.edits[i]
  IN /\ x.at = "planned" => c = x.initial[edit.path]
     /\ x.at = "writing" => c = IF i < x.next THEN edit.new ELSE x.initial[edit.path]
     /\ x.at \in {"hashing", "committing"} => c = edit.new
     /\ x.at = "committing" => x.op.after[edit.path] = edit.new
     /\ x.at = "aborting" => c \in Leftover(x, edit)
     /\ x.at = "checked" => c = x.op.after[edit.path]
     /\ x.at = "restoring" =>
          /\ c = IF i < x.next THEN Before(x.op, edit) ELSE x.current[edit.path]
          /\ p \in Editors => x.current[edit.path] \in Leftover(x, edit)
          /\ p \in Undoers => x.current[edit.path] = x.op.after[edit.path]
     /\ x.at = "reverting" => edit.path \in x.left \/ c = x.current[edit.path]
     /\ x.at = "closing" /\ x.left = {} =>
          c = IF x.outcome = "rollback_failed" THEN x.current[edit.path] ELSE Before(x.op, edit)

Fits(p, x, fs) ==
  x.at # "idle" => \A i \in DOMAIN x.op.edits :
    x.op.edits[i].path \notin x.touched => Fit(p, x, i, fs[x.op.edits[i].path])

Own(p, x, fs, en, hi) == Shape(p, x) /\ Linked(p, x, en, hi) /\ Fits(p, x, fs)

Working(x) == x.at \notin {"idle", "planned"}

\* Two calls of tools never work on the same entry.
IdsDiffer ==
  \A p, q \in Editors : p # q /\ Working(proc[p]) /\ Working(proc[q]) => proc[p].id # proc[q].id

StoreOK ==
  /\ \E S : entries \in Seq(S)
  /\ \E S : history \in Seq(S)
  /\ Len(history) = Len(entries)
  /\ \A i \in DOMAIN entries :
       /\ OpOK(entries[i])
       /\ history[i] = [k \in {"initial", "disturbed"} |-> history[i][k]]
       /\ entries[i].status = "committed" => Sound(entries[i], history[i])

FilesInv ==
  /\ files = [f \in Paths |-> files[f]]
  /\ proc = [p \in Procs |-> proc[p]]
  /\ StoreOK /\ IdsDiffer
  /\ \A p \in Procs : Own(p, proc[p], files, entries, history)

-----------------------------------------------------------------------------
(* Operations. *)

LEMMA EditsOf ==
  ASSUME NEW op, OpOK(op)
  PROVE  /\ op.edits \in Seq(Edit) /\ DOMAIN op.edits = 1 .. Len(op.edits)
         /\ Len(op.edits) \in Nat /\ 1 <= Len(op.edits)
         /\ \A i \in DOMAIN op.edits : op.edits[i].path \in PathsOf(op) /\ op.edits[i].path \in Paths
                                       /\ op.edits[i] \in Edit
         /\ \A i, j \in DOMAIN op.edits : op.edits[i].path = op.edits[j].path => i = j
         /\ PathsOf(op) \subseteq Paths
<1>1. op.edits \in Seq(Edit) /\ op.edits # <<>> /\ OnceEach(op.edits)
  BY EditAssumption DEF OpOK
<1>2. DOMAIN op.edits = 1 .. Len(op.edits) /\ Len(op.edits) \in Nat /\ 1 <= Len(op.edits)
  BY <1>1
<1>3. \A i \in DOMAIN op.edits : op.edits[i] \in Edit
  BY <1>1
<1>4. \A i \in DOMAIN op.edits : op.edits[i].path \in Paths
  BY <1>3 DEF Edit
<1>5. QED BY <1>1, <1>2, <1>3, <1>4 DEF OnceEach, PathsOf

LEMMA EditOfPath ==
  ASSUME NEW op, OpOK(op), NEW f \in PathsOf(op)
  PROVE  \E i \in DOMAIN op.edits : op.edits[i].path = f /\ EditOf(op, f) = op.edits[i]
<1>1. \E i \in DOMAIN op.edits : op.edits[i].path = f
  BY DEF PathsOf
<1>2. QED BY <1>1 DEF EditOf

-----------------------------------------------------------------------------
(* What a step of one process leaves of the others' invariant. *)

\* A process of whose file somebody else has written.
LEMMA Touched ==
  ASSUME NEW p \in Procs, NEW x, NEW fs, NEW en, NEW hi, Own(p, x, fs, en, hi), x.at # "idle",
         NEW f, NEW gs, \A g \in Paths : g # f => gs[g] = fs[g]
  PROVE  Own(p, [x EXCEPT !.touched = x.touched \cup {f}], gs, en, hi)
<1> DEFINE y == [x EXCEPT !.touched = x.touched \cup {f}]
<1>1. Record(x) /\ OpOK(x.op)
  BY DEF Own, Shape
<1>2. /\ Record(y) /\ y.touched = x.touched \cup {f}
      /\ y.at = x.at /\ y.id = x.id /\ y.op = x.op /\ y.next = x.next /\ y.left = x.left
      /\ y.current = x.current /\ y.outcome = x.outcome /\ y.initial = x.initial
  BY <1>1 DEF Record, Parts
<1> HIDE DEF y
<1>3. Shape(p, y)
  BY <1>2 DEF Own, Shape
<1>4. Linked(p, y, en, hi)
  BY <1>2 DEF Own, Linked, OfEditor, OfUndoer
<1>5. Fits(p, y, gs)
  <2> SUFFICES ASSUME NEW i \in DOMAIN x.op.edits, x.op.edits[i].path \notin y.touched
               PROVE  Fit(p, y, i, gs[x.op.edits[i].path])
    BY <1>2 DEF Fits
  <2>1. gs[x.op.edits[i].path] = fs[x.op.edits[i].path]
    BY <1>1, <1>2, EditsOf
  <2>2. Fit(p, x, i, fs[x.op.edits[i].path])
    BY <1>2 DEF Own, Fits
  <2>3. QED BY <1>2, <2>1, <2>2 DEF Fit, Leftover
<1>6. QED BY <1>3, <1>4, <1>5 DEF Own, y

\* A process whose files nobody writes.
LEMMA Untouched ==
  ASSUME NEW p \in Procs, NEW x, NEW fs, NEW en, NEW hi, Own(p, x, fs, en, hi),
         NEW f, ~(x.at # "idle" /\ f \in PathsOf(x.op)),
         NEW gs, \A g \in Paths : g # f => gs[g] = fs[g]
  PROVE  Own(p, x, gs, en, hi)
<1>1. Fits(p, x, gs)
  <2> SUFFICES ASSUME x.at # "idle", NEW i \in DOMAIN x.op.edits, x.op.edits[i].path \notin x.touched
               PROVE  Fit(p, x, i, gs[x.op.edits[i].path])
    BY DEF Fits
  <2>1. OpOK(x.op)
    BY DEF Own, Shape
  <2>2. gs[x.op.edits[i].path] = fs[x.op.edits[i].path]
    BY <2>1, EditsOf
  <2>3. QED BY <2>2 DEF Own, Fits
<1>2. QED BY <1>1 DEF Own

\* Somebody writes a file, and the store stays as it is.
LEMMA WriteStep ==
  ASSUME FilesInv, NEW p, NEW f \in Paths, NEW content, NEW to, Writes(p, f, content, to),
         UNCHANGED <<entries, history>>,
         p \in Procs => /\ Own(p, to, files', entries, history)
                        /\ Working(to) /\ p \in Editors =>
                             Working(proc[p]) /\ to.id = proc[p].id
  PROVE  FilesInv'
<1>1. files' = [g \in Paths |-> files'[g]] /\ \A g \in Paths : g # f => files'[g] = files[g]
  BY DEF Writes, FilesInv
<1>2. proc' = [q \in Procs |-> proc'[q]]
  BY DEF Writes
<1>3. ASSUME NEW q \in Procs, q # p
      PROVE  /\ Own(q, proc'[q], files', entries, history)
             /\ proc'[q].at = proc[q].at /\ proc'[q].id = proc[q].id
  <2>1. Own(q, proc[q], files, entries, history)
    BY DEF FilesInv
  <2>2. CASE Uses(q, f)
    <3>1. proc'[q] = [proc[q] EXCEPT !.touched = proc[q].touched \cup {f}]
      BY <1>3, <2>2 DEF Writes
    <3>2. Own(q, proc'[q], files', entries, history)
      BY <1>1, <2>1, <2>2, <3>1, Touched DEF Uses
    <3>3. Record(proc[q])
      BY <2>1 DEF Own, Shape
    <3>4. QED BY <3>1, <3>2, <3>3 DEF Record, Parts
  <2>3. CASE ~Uses(q, f)
    <3>1. proc'[q] = proc[q]
      BY <1>3, <2>3 DEF Writes
    <3>2. QED BY <1>1, <2>1, <2>3, <3>1, Untouched DEF Uses
  <2>4. QED BY <2>2, <2>3
<1>4. ASSUME p \in Procs PROVE proc'[p] = to
  BY <1>4 DEF Writes
<1>5. \A q \in Procs : Own(q, proc'[q], files', entries', history')
  BY <1>3, <1>4
<1>6. IdsDiffer'
  <2> SUFFICES ASSUME NEW q \in Editors, NEW r \in Editors, q # r,
                      Working(proc'[q]), Working(proc'[r])
               PROVE  proc'[q].id # proc'[r].id
    BY DEF IdsDiffer
  <2>1. \A s \in Editors : Working(proc'[s]) => Working(proc[s]) /\ proc'[s].id = proc[s].id
    BY <1>3, <1>4 DEF Procs, Working
  <2>2. QED BY <2>1 DEF FilesInv, IdsDiffer
<1>7. StoreOK'
  BY DEF FilesInv, StoreOK
<1>8. QED BY <1>1, <1>2, <1>5, <1>6, <1>7 DEF FilesInv

\* Process p goes on, and files and store stay as they are.
LEMMA QuietStep ==
  ASSUME FilesInv, NEW p \in Procs, NEW to, Goes(p, to), UNCHANGED <<files, entries, history>>,
         Own(p, to, files, entries, history),
         Working(to) /\ p \in Editors => Working(proc[p]) /\ to.id = proc[p].id
  PROVE  FilesInv'
<1>1. proc' = [q \in Procs |-> proc'[q]] /\ proc'[p] = to
      /\ \A q \in Procs : q # p => proc'[q] = proc[q]
  BY DEF Goes, FilesInv
<1>2. \A q \in Procs : Own(q, proc'[q], files', entries', history')
  BY <1>1 DEF FilesInv
<1>3. IdsDiffer'
  <2>1. \A s \in Editors : Working(proc'[s]) => Working(proc[s]) /\ proc'[s].id = proc[s].id
    BY <1>1 DEF Procs
  <2>2. QED BY <2>1 DEF FilesInv, IdsDiffer
<1>4. StoreOK'
  BY DEF FilesInv, StoreOK
<1>5. QED BY <1>1, <1>2, <1>3, <1>4 DEF FilesInv

\* A process that is done, or dies.
LEMMA IdleOwn ==
  ASSUME NEW p \in Procs, NEW fs, NEW en, NEW hi
  PROVE  Own(p, Idle, fs, en, hi) /\ ~Working(Idle)
<1>1. Idle.at = "idle" /\ Record(Idle)
  BY DEF Idle, Record, Parts
<1>2. Shape(p, Idle)
  BY <1>1 DEF Shape
<1>3. QED BY <1>1, <1>2 DEF Own, Linked, OfEditor, OfUndoer, Fits, Working

LEMMA InitInv == Init => FilesInv
<1> SUFFICES ASSUME Init PROVE FilesInv
  OBVIOUS
<1>1. files = [f \in Paths |-> files[f]] /\ proc = [p \in Procs |-> proc[p]]
      /\ \A p \in Procs : proc[p] = Idle
  BY DEF Init
<1>2. \A p \in Procs : Own(p, proc[p], files, entries, history)
  BY <1>1, IdleOwn
<1>3. StoreOK
  <2>1. entries \in Seq({}) /\ history \in Seq({}) /\ Len(history) = Len(entries) /\ DOMAIN entries = {}
    BY DEF Init
  <2>2. QED BY <2>1 DEF StoreOK
<1>4. IdsDiffer
  BY <1>1 DEF IdsDiffer, Working, Idle, Procs
<1>5. QED BY <1>1, <1>2, <1>3, <1>4 DEF FilesInv

-----------------------------------------------------------------------------
(* The steps of a tool's call. *)

LEMMA PlanStep ==
  ASSUME FilesInv, NEW e \in Editors, Plan(e)
  PROVE  FilesInv'
<1>1. PICK edits \in Calls :
        LET op == [edits |-> edits, before |-> NoStates, after |-> NoStates, status |-> "pending"]
        IN /\ \A i \in DOMAIN edits : Applicable(edits[i])
           /\ Goes(e, [Idle EXCEPT !.at = "planned", !.op = op, !.initial = Held(op)])
  BY DEF Plan
<1> DEFINE op == [edits |-> edits, before |-> NoStates, after |-> NoStates, status |-> "pending"]
           to == [Idle EXCEPT !.at = "planned", !.op = op, !.initial = Held(op)]
<1>2. OpOK(op) /\ op.edits = edits /\ op.status = "pending"
  BY DEF OpOK, OpParts
<1>3. Record(to) /\ to.at = "planned" /\ to.next = 1 /\ to.op = op /\ to.initial = Held(op) /\ to.touched = {}
  BY DEF Idle, Record, Parts
<1> HIDE DEF op
<1>4. Goes(e, to) /\ \A i \in DOMAIN edits : Applicable(edits[i])
  BY <1>1 DEF op
<1> HIDE DEF to
<1>5. \A i \in DOMAIN edits : Held(op)[edits[i].path] = files[edits[i].path]
  BY <1>2, EditsOf DEF Held
<1>6. Shape(e, to)
  BY <1>2, <1>3, EditAssumption DEF Shape
<1>7. \A i \in DOMAIN edits : edits[i].type = "add" => files[edits[i].path] = Absent
  BY <1>4 DEF Applicable
<1>8. Linked(e, to, entries, history)
  BY <1>2, <1>3, <1>5, <1>7, EditAssumption DEF Linked, OfEditor
<1>9. Fits(e, to, files)
  BY <1>2, <1>3, <1>5 DEF Fits, Fit
<1>10. UNCHANGED <<files, entries, history>> /\ ~Working(to) /\ e \in Procs
  BY <1>3 DEF Plan, Working, Procs
<1>11. QED BY <1>4, <1>6, <1>8, <1>9, <1>10, QuietStep DEF Own

\* What the invariant says of one process.
LEMMA Facts ==
  ASSUME FilesInv, NEW p \in Procs
  PROVE  /\ Record(proc[p]) /\ Shape(p, proc[p]) /\ Linked(p, proc[p], entries, history)
         /\ Fits(p, proc[p], files)
         /\ files = [f \in Paths |-> files[f]]
         /\ proc = [q \in Procs |-> proc[q]]
  BY DEF FilesInv, Own, Shape

\* Of an editor, an undoer.
LEMMA Roles == \A p : /\ p \in Editors => p \in Procs /\ p \notin Undoers /\ Success(p) = "aborted"
                      /\ p \in Undoers => p \in Procs /\ p \notin Editors /\ Success(p) = "rolled_back"
  BY EditAssumption DEF Procs, Success

\* The process gives up, or dies.
LEMMA StopStep ==
  ASSUME FilesInv, NEW p \in Procs, Goes(p, Idle), UNCHANGED <<files, entries, history>>
  PROVE  FilesInv'
  BY IdleOwn, QuietStep

\* Process p goes on and changes the store.
LEMMA StoreStep ==
  ASSUME FilesInv, NEW p \in Procs, NEW to, Goes(p, to), UNCHANGED files, StoreOK',
         Own(p, to, files, entries', history'),
         \A q \in Procs : q # p => Linked(q, proc[q], entries', history'),
         Working(to) /\ p \in Editors =>
           \A q \in Editors : q # p /\ Working(proc[q]) => proc[q].id # to.id
  PROVE  FilesInv'
<1>1. proc' = [q \in Procs |-> proc'[q]] /\ proc'[p] = to
      /\ \A q \in Procs : q # p => proc'[q] = proc[q]
  BY DEF Goes, FilesInv
<1>2. \A q \in Procs : Own(q, proc'[q], files', entries', history')
  BY <1>1 DEF FilesInv, Own
<1>3. IdsDiffer'
  BY <1>1 DEF FilesInv, IdsDiffer, Procs
<1>4. QED BY <1>1, <1>2, <1>3 DEF FilesInv

LEMMA BeginStep ==
  ASSUME FilesInv, NEW e \in Editors, Begin(e)
  PROVE  FilesInv'
<1> DEFINE x == proc[e]
           op == [x.op EXCEPT !.before = Held(x.op)]
           to == [x EXCEPT !.at = "writing", !.id = Len(entries) + 1, !.op = op]
           h == [initial |-> x.initial, disturbed |-> {}]
<1>1. /\ e \in Procs /\ e \notin Undoers
      /\ Record(x) /\ Shape(e, x) /\ Linked(e, x, entries, history) /\ Fits(e, x, files)
  BY Facts, Roles
<1>2. /\ x.at = "planned" /\ entries' = Append(entries, op) /\ history' = Append(history, h)
      /\ Goes(e, to) /\ UNCHANGED files
  BY DEF Begin
<1>3. OpOK(x.op) /\ x.op.status = "pending" /\ x.next = 1
  BY <1>1, <1>2 DEF Shape
<1>4. OpOK(op) /\ op.edits = x.op.edits /\ op.before = Held(x.op) /\ op.status = "pending"
  BY <1>3 DEF OpOK, OpParts
<1>5. /\ Record(to) /\ to.at = "writing" /\ to.id = Len(entries) + 1 /\ to.op = op
      /\ to.initial = x.initial /\ to.touched = x.touched /\ to.next = 1
  BY <1>1, <1>3 DEF Record, Parts
<1>6. h = [k \in {"initial", "disturbed"} |-> h[k]] /\ h.initial = x.initial
  OBVIOUS
<1> HIDE DEF op, to, h
<1>7. /\ DOMAIN entries' = 1 .. Len(entries) + 1 /\ Len(history) = Len(entries)
      /\ Len(entries) \in Nat /\ DOMAIN entries = 1 .. Len(entries)
      /\ entries'[Len(entries) + 1] = op /\ history'[Len(entries) + 1] = h
      /\ \A i \in DOMAIN entries : i # Len(entries) + 1 /\ entries'[i] = entries[i] /\ history'[i] = history[i]
      /\ Len(history') = Len(entries')
      /\ \E S : entries' \in Seq(S)
      /\ \E S : history' \in Seq(S)
  <2>1. PICK S : entries \in Seq(S)
    BY DEF FilesInv, StoreOK
  <2>2. PICK T : history \in Seq(T)
    BY DEF FilesInv, StoreOK
  <2>3. Len(history) = Len(entries)
    BY DEF FilesInv, StoreOK
  <2>4. entries' \in Seq(S \cup {op}) /\ history' \in Seq(T \cup {h})
    BY <1>2, <2>1, <2>2
  <2>5. QED BY <1>2, <2>1, <2>2, <2>3, <2>4
<1>8. StoreOK'
  <2>1. ASSUME NEW i \in DOMAIN entries'
        PROVE  /\ OpOK(entries'[i])
               /\ history'[i] = [k \in {"initial", "disturbed"} |-> history'[i][k]]
               /\ entries'[i].status = "committed" => Sound(entries'[i], history'[i])
    <3>1. CASE i \in DOMAIN entries
      BY <1>7, <3>1 DEF FilesInv, StoreOK
    <3>2. CASE i = Len(entries) + 1
      BY <1>4, <1>6, <1>7, <3>2
    <3>3. QED BY <1>7, <3>1, <3>2
  <2>2. QED BY <1>7, <2>1 DEF StoreOK
<1>9. Shape(e, to)
  BY <1>1, <1>4, <1>5, EditsOf DEF Shape
<1>10. ASSUME NEW i \in DOMAIN op.edits
       PROVE  /\ op.before[op.edits[i].path] = files[op.edits[i].path]
              /\ op.edits[i].path \notin x.touched => files[op.edits[i].path] = x.initial[op.edits[i].path]
              /\ op.edits[i].type = "add" => x.initial[op.edits[i].path] = Absent
  <2>1. op.before[op.edits[i].path] = files[op.edits[i].path]
    BY <1>3, <1>4, EditsOf DEF Held
  <2>2. op.edits[i].path \notin x.touched => files[op.edits[i].path] = x.initial[op.edits[i].path]
    BY <1>1, <1>2, <1>4 DEF Fits, Fit
  <2>3. op.edits[i].type = "add" => x.initial[op.edits[i].path] = Absent
    BY <1>1, <1>2, <1>4 DEF Linked, OfEditor
  <2>4. QED BY <2>1, <2>2, <2>3
<1>11. Linked(e, to, entries', history')
  BY <1>1, <1>4, <1>5, <1>6, <1>7, <1>10 DEF Linked, OfEditor, Before
<1>12. Fits(e, to, files)
  BY <1>4, <1>5, <1>10, EditsOf DEF Fits, Fit
<1>13. ASSUME NEW q \in Procs PROVE Linked(q, proc[q], entries', history')
  <2>1. Linked(q, proc[q], entries, history)
    BY Facts
  <2>2. CASE Working(proc[q])
    <3>1. proc[q].id \in DOMAIN entries
      BY <2>1, <2>2 DEF Linked, Working
    <3>2. QED BY <2>1, <3>1, <1>7 DEF Linked
  <2>3. CASE ~Working(proc[q])
    BY <2>1, <2>3, Facts, Roles DEF Linked, Working, OfEditor, OfUndoer, Shape
  <2>4. QED BY <2>2, <2>3
<1>14. \A q \in Editors : Working(proc[q]) => proc[q].id # to.id
  BY <1>5, <1>7, Facts, Roles DEF Linked, Working
<1>15. QED BY <1>1, <1>2, <1>8, <1>9, <1>11, <1>12, <1>13, <1>14, StoreStep DEF Own

\* Nothing but proc changes: an operation fails, or is decided.
LEMMA QuietSteps ==
  ASSUME FilesInv, NEW e \in Editors,
         DeleteFails(e) \/ CommitFails(e)
  PROVE  FilesInv'
<1> DEFINE x == proc[e]
           to == [x EXCEPT !.at = "aborting"]
<1>1. /\ e \in Procs /\ e \notin Undoers
      /\ Record(x) /\ Shape(e, x) /\ Linked(e, x, entries, history) /\ Fits(e, x, files)
  BY Facts, Roles
<1>2. /\ x.at \in {"writing", "hashing", "committing"} /\ Goes(e, to)
      /\ UNCHANGED <<files, entries, history>>
  BY DEF DeleteFails, CommitFails
<1>3. /\ Record(to) /\ to.at = "aborting" /\ to.id = x.id /\ to.op = x.op
      /\ to.initial = x.initial /\ to.touched = x.touched
  BY <1>1 DEF Record, Parts
<1> HIDE DEF to
<1>4. Shape(e, to) /\ Linked(e, to, entries, history)
  BY <1>1, <1>2, <1>3 DEF Shape, Linked, OfEditor
<1>5. Fits(e, to, files)
  BY <1>1, <1>2, <1>3 DEF Fits, Fit, Leftover
<1>6. QED BY <1>1, <1>2, <1>3, <1>4, <1>5, QuietStep DEF Own, Working

LEMMA HashStep ==
  ASSUME FilesInv, NEW e \in Editors, Hash(e)
  PROVE  FilesInv'
<1> DEFINE x == proc[e]
           op == [x.op EXCEPT !.after = Held(x.op)]
           to == [x EXCEPT !.at = "committing", !.op = op]
<1>1. /\ e \in Procs /\ e \notin Undoers
      /\ Record(x) /\ Shape(e, x) /\ Linked(e, x, entries, history) /\ Fits(e, x, files)
  BY Facts, Roles
<1>2. x.at = "hashing" /\ UNCHANGED <<files, entries, history>>
  BY DEF Hash
<1>3. OpOK(x.op)
  BY <1>1, <1>2 DEF Shape
<1>4. OpOK(op) /\ op.edits = x.op.edits /\ op.before = x.op.before /\ op.after = Held(x.op)
  BY <1>3 DEF OpOK, OpParts
<1>5. Goes(e, to)
  BY <1>1, <1>3 DEF Hash, Record, Parts, OpOK, OpParts
<1>6. /\ Record(to) /\ to.at = "committing" /\ to.id = x.id /\ to.op = op
      /\ to.initial = x.initial /\ to.touched = x.touched
  BY <1>1 DEF Record, Parts
<1> HIDE DEF to, op
<1>7. Shape(e, to) /\ Linked(e, to, entries, history)
  BY <1>1, <1>2, <1>4, <1>6 DEF Shape, Linked, OfEditor, Before
<1>8. Fits(e, to, files)
  <2> SUFFICES ASSUME NEW i \in DOMAIN op.edits, op.edits[i].path \notin x.touched
               PROVE  Fit(e, to, i, files[op.edits[i].path])
    BY <1>6 DEF Fits
  <2>1. files[op.edits[i].path] = op.edits[i].new
    BY <1>1, <1>2, <1>4 DEF Fits, Fit
  <2>2. op.after[op.edits[i].path] = files[op.edits[i].path]
    BY <1>3, <1>4, EditsOf DEF Held
  <2>3. QED BY <1>6, <2>1, <2>2 DEF Fit
<1>9. QED BY <1>1, <1>2, <1>5, <1>6, <1>7, <1>8, QuietStep DEF Own, Working

\* The file is written, or something is left of it.
LEMMA WriteEditStep ==
  ASSUME FilesInv, NEW e \in Editors, WriteEdit(e)
  PROVE  FilesInv'
<1> DEFINE x == proc[e]
           f == NextEdit(e).path
           c == NextEdit(e).new
           to == Written(e)
<1>1. /\ e \in Procs /\ e \notin Undoers /\ files = [g \in Paths |-> files[g]]
      /\ Record(x) /\ Shape(e, x) /\ Linked(e, x, entries, history) /\ Fits(e, x, files)
  BY Facts, Roles
<1>2. x.at = "writing" /\ Writes(e, f, c, to) /\ UNCHANGED <<entries, history>>
  BY DEF WriteEdit
<1>3. OpOK(x.op) /\ x.next \in 1 .. Len(x.op.edits)
  BY <1>1, <1>2 DEF Shape
<1>4. /\ DOMAIN x.op.edits = 1 .. Len(x.op.edits) /\ Len(x.op.edits) \in Nat
      /\ f = x.op.edits[x.next].path /\ c = x.op.edits[x.next].new /\ f \in Paths
      /\ \A i \in DOMAIN x.op.edits : x.op.edits[i].path \in Paths /\ (x.op.edits[i].path = f => i = x.next)
  BY <1>3, EditsOf DEF NextEdit
<1>5. /\ Record(to) /\ to.id = x.id /\ to.op = x.op /\ to.initial = x.initial /\ to.touched = x.touched
      /\ \/ to.at = "hashing" /\ x.next = Len(x.op.edits)
         \/ to.at = "writing" /\ to.next = x.next + 1 /\ x.next # Len(x.op.edits)
  BY <1>1, <1>2 DEF Written, OnLast, Record, Parts
<1>6. files'[f] = c /\ \A g \in Paths : g # f => files'[g] = files[g]
  BY <1>1, <1>2, <1>4 DEF Writes
<1> HIDE DEF to, f, c
<1>6a. /\ to.at = "writing" => to.next \in 1 .. Len(x.op.edits)
       /\ to.at = "writing" => \A i \in 1 .. Len(x.op.edits) : i < to.next <=> i < x.next \/ i = x.next
       /\ to.at = "hashing" => \A i \in 1 .. Len(x.op.edits) : i < x.next \/ i = x.next
  BY <1>3, <1>4, <1>5
<1>7. Shape(e, to) /\ Linked(e, to, entries, history)
  BY <1>1, <1>2, <1>3, <1>5, <1>6a DEF Shape, Linked, OfEditor
<1>8. ASSUME NEW i \in DOMAIN x.op.edits, x.op.edits[i].path \notin x.touched
      PROVE  Fit(e, to, i, files'[x.op.edits[i].path])
  <2>1. Fit(e, x, i, files[x.op.edits[i].path])
    BY <1>1, <1>2, <1>8 DEF Fits
  <2>2. CASE i = x.next
    <3>1. files'[x.op.edits[i].path] = x.op.edits[i].new
      BY <1>4, <1>6, <2>2
    <3>2. to.at = "writing" => i < to.next
      BY <1>3, <1>6a, <2>2
    <3>3. QED BY <1>5, <3>1, <3>2 DEF Fit
  <2>3. CASE i # x.next
    <3>1. files'[x.op.edits[i].path] = files[x.op.edits[i].path]
      BY <1>4, <1>6, <2>3
    <3>2. i \in 1 .. Len(x.op.edits) /\ x.next \in 1 .. Len(x.op.edits)
      BY <1>3, <1>4
    <3>3. files[x.op.edits[i].path] = IF i < x.next THEN x.op.edits[i].new
                                      ELSE x.initial[x.op.edits[i].path]
      BY <1>2, <2>1 DEF Fit
    <3>4. QED BY <1>4, <1>5, <1>6a, <2>3, <3>1, <3>2, <3>3 DEF Fit
  <2>4. QED BY <2>2, <2>3
<1>9. Fits(e, to, files')
  BY <1>5, <1>8 DEF Fits
<1>10. QED BY <1>1, <1>2, <1>4, <1>5, <1>7, <1>9, WriteStep DEF Own, Working

LEMMA WriteFailsStep ==
  ASSUME FilesInv, NEW e \in Editors, WriteFails(e)
  PROVE  FilesInv'
<1> DEFINE x == proc[e]
           f == NextEdit(e).path
           to == [x EXCEPT !.at = "aborting"]
<1>1. /\ e \in Procs /\ e \notin Undoers /\ files = [g \in Paths |-> files[g]]
      /\ Record(x) /\ Shape(e, x) /\ Linked(e, x, entries, history) /\ Fits(e, x, files)
  BY Facts, Roles
<1>2. PICK c \in Leaves(f, NextEdit(e).new) : Writes(e, f, c, to)
  BY DEF WriteFails
<1>3. x.at = "writing" /\ UNCHANGED <<entries, history>>
  BY DEF WriteFails
<1>4. OpOK(x.op) /\ x.next \in 1 .. Len(x.op.edits)
  BY <1>1, <1>3 DEF Shape
<1>5. /\ f = x.op.edits[x.next].path /\ f \in Paths
      /\ \A i \in DOMAIN x.op.edits : x.op.edits[i].path \in Paths /\ (x.op.edits[i].path = f => i = x.next)
  BY <1>4, EditsOf DEF NextEdit
<1>6. /\ Record(to) /\ to.at = "aborting" /\ to.id = x.id /\ to.op = x.op
      /\ to.initial = x.initial /\ to.touched = x.touched
  BY <1>1 DEF Record, Parts
<1>7. files'[f] = c /\ \A g \in Paths : g # f => files'[g] = files[g]
  BY <1>1, <1>2, <1>5 DEF Writes
<1>8. c = files[f] \/ c = Torn
  BY <1>2 DEF Leaves
<1> HIDE DEF to, f
<1>9. Shape(e, to) /\ Linked(e, to, entries, history)
  BY <1>1, <1>3, <1>4, <1>6 DEF Shape, Linked, OfEditor
<1>10. ASSUME NEW i \in DOMAIN x.op.edits, x.op.edits[i].path \notin x.touched
       PROVE  files'[x.op.edits[i].path] \in Leftover(x, x.op.edits[i])
  <2>1. Fit(e, x, i, files[x.op.edits[i].path])
    BY <1>1, <1>3, <1>10 DEF Fits
  <2>2. files[x.op.edits[i].path] \in Leftover(x, x.op.edits[i])
    BY <1>3, <2>1 DEF Fit, Leftover
  <2>3. QED BY <1>5, <1>7, <1>8, <2>2 DEF Leftover
<1>11. Fits(e, to, files')
  BY <1>6, <1>10 DEF Fits, Fit, Leftover
<1>12. QED BY <1>1, <1>2, <1>3, <1>5, <1>6, <1>9, <1>11, WriteStep DEF Own, Working

\* The operation is committed: from now on it can be undone.
LEMMA CommitStep ==
  ASSUME FilesInv, NEW e \in Editors, Commit(e)
  PROVE  FilesInv'
<1> DEFINE x == proc[e]
           id == x.id
           op == [x.op EXCEPT !.status = "committed"]
<1>1. /\ e \in Procs /\ e \notin Undoers
      /\ Record(x) /\ Shape(e, x) /\ Linked(e, x, entries, history) /\ Fits(e, x, files)
  BY Facts, Roles
<1>2. /\ x.at = "committing" /\ Goes(e, Idle) /\ UNCHANGED files
      /\ entries' = [entries EXCEPT ![id] = op]
      /\ history' = [history EXCEPT ![id].disturbed = x.touched]
  BY DEF Commit
<1>3. OpOK(x.op) /\ id \in DOMAIN entries /\ Working(x)
  BY <1>1, <1>2 DEF Shape, Linked, Working
<1>4. /\ OpOK(op) /\ op.edits = x.op.edits /\ op.before = x.op.before /\ op.after = x.op.after
      /\ op.status = "committed"
  BY <1>3 DEF OpOK, OpParts
<1> HIDE DEF op
<1>5. /\ Len(history) = Len(entries) /\ DOMAIN history = DOMAIN entries
      /\ \A i \in DOMAIN entries : history[i] = [k \in {"initial", "disturbed"} |-> history[i][k]]
  <2>1. /\ \E S : entries \in Seq(S)
        /\ \E S : history \in Seq(S)
        /\ Len(history) = Len(entries)
        /\ \A i \in DOMAIN entries : history[i] = [k \in {"initial", "disturbed"} |-> history[i][k]]
    BY DEF FilesInv, StoreOK
  <2>2. QED BY <2>1
<1>6. /\ DOMAIN entries' = DOMAIN entries /\ DOMAIN history' = DOMAIN entries
      /\ entries'[id] = op
      /\ history'[id].initial = history[id].initial /\ history'[id].disturbed = x.touched
      /\ history'[id] = [k \in {"initial", "disturbed"} |-> history'[id][k]]
      /\ \A i \in DOMAIN entries : i # id => entries'[i] = entries[i] /\ history'[i] = history[i]
  BY <1>2, <1>3, <1>5
<1>7. Sound(op, history'[id])
  <2> SUFFICES ASSUME NEW i \in DOMAIN op.edits, op.edits[i].path \notin x.touched
               PROVE  /\ Before(op, op.edits[i]) = history[id].initial[op.edits[i].path]
                      /\ op.after[op.edits[i].path] = op.edits[i].new
    BY <1>6 DEF Sound
  <2>1. Fit(e, x, i, files[op.edits[i].path])
    BY <1>1, <1>2, <1>4 DEF Fits
  <2>2. op.after[op.edits[i].path] = op.edits[i].new
    BY <1>2, <1>4, <2>1 DEF Fit
  <2>3. Before(op, op.edits[i]) = x.initial[op.edits[i].path] /\ history[id].initial = x.initial
    BY <1>1, <1>2, <1>4 DEF Linked, OfEditor, Before
  <2>4. QED BY <2>2, <2>3
<1>8. StoreOK'
  <2>1. (\E S : entries' \in Seq(S)) /\ (\E S : history' \in Seq(S)) /\ Len(history') = Len(entries')
    <3>1. PICK S : entries \in Seq(S)
      BY DEF FilesInv, StoreOK
    <3>2. PICK T : history \in Seq(T)
      BY DEF FilesInv, StoreOK
    <3>3. entries' \in Seq(S \cup {op}) /\ Len(entries') = Len(entries)
      BY <1>2, <1>3, <3>1
    <3>4. history' \in Seq(T \cup {history'[id]}) /\ Len(history') = Len(history)
      <4>1. DOMAIN history' = 1 .. Len(history) /\ Len(history) \in Nat
        BY <1>5, <1>6, <3>2
      <4>2. \A i \in 1 .. Len(history) : history'[i] \in T \cup {history'[id]}
        BY <1>5, <1>6, <3>2
      <4>3. history' = [i \in 1 .. Len(history) |-> history'[i]]
        BY <1>2, <4>1
      <4>4. QED BY <4>1, <4>2, <4>3
    <3>5. QED BY <1>5, <3>3, <3>4
  <2>2. ASSUME NEW i \in DOMAIN entries'
        PROVE  /\ OpOK(entries'[i])
               /\ history'[i] = [k \in {"initial", "disturbed"} |-> history'[i][k]]
               /\ entries'[i].status = "committed" => Sound(entries'[i], history'[i])
    <3>1. CASE i = id
      BY <1>4, <1>6, <1>7, <3>1
    <3>2. CASE i # id
      BY <1>6, <3>2 DEF FilesInv, StoreOK
    <3>3. QED BY <3>1, <3>2
  <2>3. QED BY <2>1, <2>2 DEF StoreOK
<1>9. ASSUME NEW q \in Procs, q # e PROVE Linked(q, proc[q], entries', history')
  <2>1. Linked(q, proc[q], entries, history)
    BY Facts
  <2>2. CASE q \in Editors
    <3>1. Working(proc[q]) => proc[q].id # id
      BY <1>3, <1>9, <2>2 DEF FilesInv, IdsDiffer
    <3>2. QED BY <1>6, <2>1, <2>2, <3>1, Roles DEF Linked, OfEditor, Working
  <2>3. CASE q \in Undoers
    <3>1. proc[q].at # "idle" => Working(proc[q]) /\ proc[q].id \in DOMAIN entries
      BY <2>1, <2>3, Facts DEF Shape, Working, Linked
    <3>2. proc[q].at # "idle" => proc[q].id # id
      BY <1>1, <1>3, <2>1, <2>3 DEF Linked, OfEditor, OfUndoer, Working
    <3>3. QED BY <1>6, <2>1, <2>3, <3>1, <3>2, Roles DEF Linked, OfUndoer, Working
  <2>4. QED BY <2>2, <2>3 DEF Procs
<1>10. QED BY <1>1, <1>2, <1>8, <1>9, IdleOwn, StoreStep

-----------------------------------------------------------------------------
(* Undoing, and putting files back. *)

LEMMA RollbackStep ==
  ASSUME FilesInv, NEW u \in Undoers, Rollback(u)
  PROVE  FilesInv'
<1>1. PICK id \in DOMAIN entries :
        Chosen(id) /\ Goes(u, [Idle EXCEPT !.at = "checking", !.id = id, !.op = entries[id]])
  BY DEF Rollback
<1> DEFINE to == [Idle EXCEPT !.at = "checking", !.id = id, !.op = entries[id]]
<1>2. Record(to) /\ to.at = "checking" /\ to.id = id /\ to.op = entries[id]
  BY DEF Idle, Record, Parts
<1>3. Goes(u, to) /\ UNCHANGED <<files, entries, history>>
  BY <1>1 DEF Rollback
<1> HIDE DEF to
<1>4. OpOK(entries[id]) /\ entries[id].status = "committed" /\ Sound(entries[id], history[id])
  BY <1>1 DEF FilesInv, StoreOK, Chosen
<1>5. Shape(u, to) /\ Linked(u, to, entries, history) /\ Fits(u, to, files)
  BY <1>2, <1>4, Roles DEF Shape, Linked, OfUndoer, Fits, Fit
<1>6. QED BY <1>3, <1>5, Roles, QuietStep DEF Own

LEMMA CheckStep ==
  ASSUME FilesInv, NEW u \in Undoers, Check(u)
  PROVE  FilesInv'
<1> DEFINE x == proc[u]
           to == [x EXCEPT !.at = "checked"]
<1>1. /\ u \in Procs /\ u \notin Editors
      /\ Record(x) /\ Shape(u, x) /\ Linked(u, x, entries, history)
  BY Facts, Roles
<1>2. /\ x.at = "checking" /\ Goes(u, to) /\ UNCHANGED <<files, entries, history>>
      /\ \A f \in PathsOf(x.op) : files[f] = x.op.after[f]
  BY DEF Check, Unchanged
<1>3. Record(to) /\ to.at = "checked" /\ to.id = x.id /\ to.op = x.op
  BY <1>1 DEF Record, Parts
<1> HIDE DEF to
<1>4. Shape(u, to) /\ Linked(u, to, entries, history)
  BY <1>1, <1>2, <1>3 DEF Shape, Linked, OfUndoer
<1>5. Fits(u, to, files)
  BY <1>2, <1>3, <1>4, EditsOf DEF Shape, Fits, Fit
<1>6. QED BY <1>1, <1>2, <1>4, <1>5, QuietStep DEF Own

\* Process p saves its entry and is done.
LEMMA SaveStep ==
  ASSUME FilesInv, NEW p \in Procs, Working(proc[p]), Goes(p, Idle), UNCHANGED <<files, history>>,
         NEW op, OpOK(op), op.status # "pending",
         op.status = "committed" => Sound(op, history[proc[p].id]),
         entries' = [entries EXCEPT ![proc[p].id] = op]
  PROVE  FilesInv'
<1> DEFINE id == proc[p].id
<1>1. id \in DOMAIN entries /\ Linked(p, proc[p], entries, history)
  BY Facts DEF Linked, Working
<1>2. /\ DOMAIN entries' = DOMAIN entries /\ entries'[id] = op
      /\ \A i \in DOMAIN entries : i # id => entries'[i] = entries[i]
  BY <1>1
<1>3. StoreOK'
  <2>1. PICK S : entries \in Seq(S)
    BY DEF FilesInv, StoreOK
  <2>2. entries' \in Seq(S \cup {op}) /\ Len(entries') = Len(entries)
    BY <1>1, <2>1
  <2>3. QED BY <1>2, <2>2 DEF FilesInv, StoreOK
<1>4. ASSUME NEW q \in Procs, q # p PROVE Linked(q, proc[q], entries', history')
  <2>1. Linked(q, proc[q], entries, history)
    BY Facts
  <2>2. CASE q \in Editors
    <3>1. Working(proc[q]) => proc[q].id # id
      <4>1. CASE p \in Editors
        BY <1>4, <2>2, <4>1 DEF FilesInv, IdsDiffer
      <4>2. CASE p \in Undoers
        BY <1>1, <2>1, <2>2, <4>2 DEF Linked, OfEditor, OfUndoer, Working
      <4>3. QED BY <4>1, <4>2 DEF Procs
    <3>2. QED BY <1>2, <2>1, <2>2, <3>1, Roles DEF Linked, OfEditor, Working
  <2>3. CASE q \in Undoers
    <3>1. proc[q].at # "idle" => proc[q].id \in DOMAIN entries
      BY <2>1, <2>3, Facts DEF Shape, Linked
    <3>2. QED BY <1>2, <2>1, <2>3, <3>1, Roles DEF Linked, OfUndoer
  <2>4. QED BY <2>2, <2>3 DEF Procs
<1>5. QED BY <1>3, <1>4, IdleOwn, StoreStep

LEMMA BlockedStep ==
  ASSUME FilesInv, NEW u \in Undoers, Blocked(u)
  PROVE  FilesInv'
<1>1. u \in Procs /\ Shape(u, proc[u]) /\ Linked(u, proc[u], entries, history)
  BY Facts, Roles
<1>2. /\ proc[u].at \in {"checking", "checked"} /\ Goes(u, Idle) /\ UNCHANGED <<files, history>>
      /\ entries' = [entries EXCEPT ![proc[u].id] = proc[u].op]
  BY DEF Blocked
<1>3. OpOK(proc[u].op) /\ proc[u].op.status = "committed" /\ Sound(proc[u].op, history[proc[u].id])
  BY <1>1, <1>2 DEF Shape, Linked, OfUndoer
<1>4. Working(proc[u])
  BY <1>2 DEF Working
<1> DEFINE op == proc[u].op
<1>5. OpOK(op) /\ op.status = "committed" /\ Sound(op, history[proc[u].id])
      /\ entries' = [entries EXCEPT ![proc[u].id] = op]
  BY <1>2, <1>3
<1> HIDE DEF op
<1>6. QED BY <1>1, <1>2, <1>4, <1>5, SaveStep

LEMMA CloseStep ==
  ASSUME FilesInv, NEW p \in Procs, Close(p)
  PROVE  FilesInv'
<1> DEFINE x == proc[p]
           op == Outcome(p)
<1>1. Shape(p, x)
  BY Facts
<1>2. /\ x.at = "closing" /\ Goes(p, Idle) /\ UNCHANGED <<files, history>>
      /\ entries' = [entries EXCEPT ![x.id] = op]
  BY DEF Close
<1>3. OpOK(x.op) /\ x.outcome \in {"aborted", "rolled_back", "rollback_failed"} /\ Working(x)
  BY <1>1, <1>2 DEF Shape, Success, Working
<1>4. OpOK(op) /\ op.status = x.outcome
  BY <1>3 DEF Outcome, OpOK, OpParts
<1> HIDE DEF op
<1>5. QED BY <1>2, <1>3, <1>4, SaveStep

LEMMA SnapshotStep ==
  ASSUME FilesInv, NEW p \in Procs, Snapshot(p)
  PROVE  FilesInv'
<1> DEFINE x == proc[p]
           to == [x EXCEPT !.at = "restoring", !.next = 1, !.current = Held(x.op)]
<1>1. Record(x) /\ Shape(p, x) /\ Linked(p, x, entries, history) /\ Fits(p, x, files)
  BY Facts
<1>2. x.at \in {"aborting", "checked"} /\ Goes(p, to) /\ UNCHANGED <<files, entries, history>>
  BY DEF Snapshot
<1>3. /\ Record(to) /\ to.at = "restoring" /\ to.next = 1 /\ to.current = Held(x.op) /\ to.id = x.id
      /\ to.op = x.op /\ to.initial = x.initial /\ to.touched = x.touched
  BY <1>1 DEF Record, Parts
<1> HIDE DEF to
<1>4. OpOK(x.op)
  BY <1>1, <1>2 DEF Shape
<1>5. /\ DOMAIN x.op.edits = 1 .. Len(x.op.edits) /\ Len(x.op.edits) \in Nat /\ 1 <= Len(x.op.edits)
      /\ \A i \in DOMAIN x.op.edits : ~(i < 1)
                                      /\ Held(x.op)[x.op.edits[i].path] = files[x.op.edits[i].path]
  BY <1>4, EditsOf DEF Held
<1>6. Shape(p, to)
  BY <1>1, <1>2, <1>3, <1>4, <1>5 DEF Shape
<1>7. Linked(p, to, entries, history)
  BY <1>1, <1>2, <1>3 DEF Linked, OfEditor, OfUndoer
<1>8. ASSUME NEW i \in DOMAIN x.op.edits, x.op.edits[i].path \notin x.touched
      PROVE  Fit(p, to, i, files[x.op.edits[i].path])
  <2>1. Fit(p, x, i, files[x.op.edits[i].path])
    BY <1>1, <1>2, <1>8 DEF Fits
  <2>2. p \in Editors => files[x.op.edits[i].path] \in Leftover(x, x.op.edits[i])
    BY <1>1, <1>2, <2>1 DEF Fit, Shape
  <2>3. p \in Undoers => files[x.op.edits[i].path] = x.op.after[x.op.edits[i].path]
    BY <1>1, <1>2, <2>1 DEF Fit, Shape
  <2>4. QED BY <1>3, <1>5, <2>2, <2>3 DEF Fit, Leftover
<1>9. Fits(p, to, files)
  BY <1>3, <1>8 DEF Fits
<1>10. QED BY <1>2, <1>3, <1>6, <1>7, <1>9, QuietStep DEF Own, Working

LEMMA SnapshotFailsStep ==
  ASSUME FilesInv, NEW e \in Editors, SnapshotFails(e)
  PROVE  FilesInv'
<1> DEFINE x == proc[e]
           to == [x EXCEPT !.at = "closing", !.outcome = "rollback_failed", !.left = PathsOf(x.op)]
<1>1. /\ e \in Procs /\ e \notin Undoers
      /\ Record(x) /\ Shape(e, x) /\ Linked(e, x, entries, history)
  BY Facts, Roles
<1>2. x.at = "aborting" /\ Goes(e, to) /\ UNCHANGED <<files, entries, history>>
  BY DEF SnapshotFails
<1>3. /\ Record(to) /\ to.at = "closing" /\ to.outcome = "rollback_failed" /\ to.id = x.id
      /\ to.op = x.op /\ to.initial = x.initial /\ to.touched = x.touched /\ to.left = PathsOf(x.op)
  BY <1>1 DEF Record, Parts
<1> HIDE DEF to
<1>4. OpOK(x.op)
  BY <1>1, <1>2 DEF Shape
<1>5. Shape(e, to) /\ Linked(e, to, entries, history)
  BY <1>1, <1>2, <1>3, <1>4 DEF Shape, Linked, OfEditor
<1>6. Fits(e, to, files)
  BY <1>3, <1>4, EditsOf DEF Fits, Fit
<1>7. QED BY <1>1, <1>2, <1>3, <1>5, <1>6, QuietStep DEF Own, Working

\* A process at a file: what it writes there concerns one of its edits.
LEMMA RestoreFileStep ==
  ASSUME FilesInv, NEW p \in Procs, RestoreFile(p)
  PROVE  FilesInv'
<1> DEFINE x == proc[p]
           f == NextEdit(p).path
           c == Before(x.op, NextEdit(p))
           to == Restored(p)
<1>1. /\ files = [g \in Paths |-> files[g]]
      /\ Record(x) /\ Shape(p, x) /\ Linked(p, x, entries, history) /\ Fits(p, x, files)
  BY Facts
<1>2. x.at = "restoring" /\ Writes(p, f, c, to) /\ UNCHANGED <<entries, history>>
  BY DEF RestoreFile
<1>3. OpOK(x.op) /\ x.next \in 1 .. Len(x.op.edits)
  BY <1>1, <1>2 DEF Shape
<1>4. /\ DOMAIN x.op.edits = 1 .. Len(x.op.edits) /\ Len(x.op.edits) \in Nat
      /\ f = x.op.edits[x.next].path /\ c = Before(x.op, x.op.edits[x.next]) /\ f \in Paths
      /\ \A i \in DOMAIN x.op.edits : x.op.edits[i].path \in Paths /\ (x.op.edits[i].path = f => i = x.next)
  BY <1>3, EditsOf DEF NextEdit
<1>5. /\ Record(to) /\ to.id = x.id /\ to.op = x.op /\ to.initial = x.initial /\ to.touched = x.touched
      /\ to.current = x.current
      /\ \/ to.at = "closing" /\ to.outcome = Success(p) /\ x.next = Len(x.op.edits)
         \/ to.at = "restoring" /\ to.next = x.next + 1 /\ x.next # Len(x.op.edits)
  BY <1>1, <1>2 DEF Restored, OnLast, Record, Parts
<1>6. files'[f] = c /\ \A g \in Paths : g # f => files'[g] = files[g]
  BY <1>1, <1>2, <1>4 DEF Writes
<1>7. Success(p) # "rollback_failed"
  BY DEF Success
<1> HIDE DEF to, f, c
<1>8. /\ to.at = "restoring" => to.next \in 1 .. Len(x.op.edits)
      /\ to.at = "restoring" => \A i \in 1 .. Len(x.op.edits) : i < to.next <=> i < x.next \/ i = x.next
      /\ to.at = "closing" => \A i \in 1 .. Len(x.op.edits) : i < x.next \/ i = x.next
  BY <1>3, <1>4, <1>5
<1>9. Shape(p, to) /\ Linked(p, to, entries, history)
  BY <1>1, <1>2, <1>3, <1>5, <1>8 DEF Shape, Linked, OfEditor, OfUndoer
<1>10. ASSUME NEW i \in DOMAIN x.op.edits, x.op.edits[i].path \notin x.touched
       PROVE  Fit(p, to, i, files'[x.op.edits[i].path])
  <2>1. /\ files[x.op.edits[i].path] = IF i < x.next THEN Before(x.op, x.op.edits[i])
                                       ELSE x.current[x.op.edits[i].path]
        /\ p \in Editors => x.current[x.op.edits[i].path] \in Leftover(x, x.op.edits[i])
        /\ p \in Undoers => x.current[x.op.edits[i].path] = x.op.after[x.op.edits[i].path]
    BY <1>1, <1>2, <1>10 DEF Fits, Fit
  <2>2. files'[x.op.edits[i].path] = IF i < x.next \/ i = x.next THEN Before(x.op, x.op.edits[i])
                                     ELSE x.current[x.op.edits[i].path]
    BY <1>4, <1>6, <2>1
  <2>3. QED BY <1>4, <1>5, <1>7, <1>8, <2>1, <2>2 DEF Fit, Leftover
<1>11. Fits(p, to, files')
  BY <1>5, <1>10 DEF Fits
<1>12. QED BY <1>1, <1>2, <1>4, <1>5, <1>9, <1>11, WriteStep DEF Own, Working

LEMMA RestoreFailsStep ==
  ASSUME FilesInv, NEW p \in Procs, RestoreFails(p)
  PROVE  FilesInv'
<1> DEFINE x == proc[p]
           f == NextEdit(p).path
           to == [x EXCEPT !.at = "reverting", !.outcome = "rollback_failed", !.left = PathsOf(x.op)]
<1>1. Record(x) /\ Shape(p, x) /\ Linked(p, x, entries, history)
  BY Facts
<1>2. PICK c \in Leaves(f, Before(x.op, NextEdit(p))) : Writes(p, f, c, to)
  BY DEF RestoreFails
<1>3. x.at = "restoring" /\ UNCHANGED <<entries, history>>
  BY DEF RestoreFails
<1>4. OpOK(x.op) /\ f \in Paths
  BY <1>1, <1>3, EditsOf DEF Shape, NextEdit
<1>5. /\ Record(to) /\ to.at = "reverting" /\ to.outcome = "rollback_failed" /\ to.left = PathsOf(x.op)
      /\ to.id = x.id /\ to.op = x.op /\ to.initial = x.initial /\ to.touched = x.touched
  BY <1>1 DEF Record, Parts
<1> HIDE DEF to, f
<1>6. Shape(p, to) /\ Linked(p, to, entries, history)
  BY <1>1, <1>3, <1>4, <1>5 DEF Shape, Linked, OfEditor, OfUndoer
<1>7. Fits(p, to, files')
  BY <1>4, <1>5, EditsOf DEF Fits, Fit
<1>8. QED BY <1>1, <1>2, <1>3, <1>4, <1>5, <1>6, <1>7, WriteStep DEF Own, Working

LEMMA RevertStep ==
  ASSUME FilesInv, NEW p \in Procs, NEW f \in Paths, Revert(p, f)
  PROVE  FilesInv'
<1> DEFINE x == proc[p]
           c == x.current[f]
           to == [x EXCEPT !.left = x.left \ {f},
                           !.at = IF x.left = {f} THEN "closing" ELSE "reverting"]
<1>1. /\ files = [g \in Paths |-> files[g]]
      /\ Record(x) /\ Shape(p, x) /\ Linked(p, x, entries, history) /\ Fits(p, x, files)
  BY Facts
<1>2. x.at = "reverting" /\ f \in x.left /\ Writes(p, f, c, to) /\ UNCHANGED <<entries, history>>
  BY DEF Revert
<1>3. OpOK(x.op) /\ x.outcome = "rollback_failed"
  BY <1>1, <1>2 DEF Shape
<1>4. /\ Record(to) /\ to.left = x.left \ {f} /\ to.outcome = x.outcome /\ to.current = x.current
      /\ to.at \in {"closing", "reverting"}
      /\ to.id = x.id /\ to.op = x.op /\ to.initial = x.initial /\ to.touched = x.touched
  BY <1>1 DEF Record, Parts
<1>5. files'[f] = c /\ \A g \in Paths : g # f => files'[g] = files[g]
  BY <1>1, <1>2 DEF Writes
<1>6. to.at = "closing" => x.left = {f}
  BY <1>1 DEF Record, Parts
<1> HIDE DEF to
<1>7. Shape(p, to) /\ Linked(p, to, entries, history)
  BY <1>1, <1>2, <1>3, <1>4 DEF Shape, Linked, OfEditor, OfUndoer
<1>8. ASSUME NEW i \in DOMAIN x.op.edits, x.op.edits[i].path \notin x.touched
      PROVE  Fit(p, to, i, files'[x.op.edits[i].path])
  <2>1. x.op.edits[i].path \in x.left \/ files[x.op.edits[i].path] = x.current[x.op.edits[i].path]
    BY <1>1, <1>2, <1>8 DEF Fits, Fit
  <2>2. x.op.edits[i].path \in x.left \ {f} \/ files'[x.op.edits[i].path] = x.current[x.op.edits[i].path]
    BY <1>3, <1>5, <2>1, EditsOf
  <2>3. QED BY <1>3, <1>4, <1>6, <2>2 DEF Fit
<1>9. Fits(p, to, files')
  BY <1>4, <1>8 DEF Fits
<1>10. QED BY <1>1, <1>2, <1>4, <1>7, <1>9, WriteStep DEF Own, Working

LEMMA RevertFailsStep ==
  ASSUME FilesInv, NEW p \in Procs, NEW f \in Paths, RevertFails(p, f)
  PROVE  FilesInv'
<1> DEFINE x == proc[p]
           to == [x EXCEPT !.at = "closing"]
<1>1. Record(x) /\ Shape(p, x) /\ Linked(p, x, entries, history)
  BY Facts
<1>2. PICK c \in Leaves(f, x.current[f]) : Writes(p, f, c, to)
  BY DEF RevertFails
<1>3. x.at = "reverting" /\ f \in x.left /\ UNCHANGED <<entries, history>>
  BY DEF RevertFails
<1>4. /\ Record(to) /\ to.at = "closing" /\ to.outcome = x.outcome /\ to.left = x.left
      /\ to.id = x.id /\ to.op = x.op /\ to.initial = x.initial /\ to.touched = x.touched
  BY <1>1 DEF Record, Parts
<1> HIDE DEF to
<1>5. Shape(p, to) /\ Linked(p, to, entries, history)
  BY <1>1, <1>3, <1>4 DEF Shape, Linked, OfEditor, OfUndoer
<1>6. Fits(p, to, files')
  BY <1>3, <1>4 DEF Fits, Fit
<1>7. QED BY <1>1, <1>2, <1>3, <1>4, <1>5, <1>6, WriteStep DEF Own, Working

-----------------------------------------------------------------------------
(* The invariant, and what follows from it. *)

LEMMA NextInv == FilesInv /\ [Next]_vars => FilesInv'
<1> SUFFICES ASSUME FilesInv, [Next]_vars PROVE FilesInv'
  OBVIOUS
<1>1. ASSUME NEW e \in Editors, EditorStep(e) PROVE FilesInv'
  <2>1. CASE Plan(e)        BY <2>1, PlanStep
  <2>2. CASE Begin(e)       BY <2>2, BeginStep
  <2>3. CASE BeginFails(e)  BY <2>3, StopStep, Roles DEF BeginFails
  <2>4. CASE WriteEdit(e)   BY <2>4, WriteEditStep
  <2>5. CASE DeleteFails(e) \/ CommitFails(e)  BY <2>5, QuietSteps
  <2>6. CASE WriteFails(e)  BY <2>6, WriteFailsStep
  <2>7. CASE Hash(e) \/ SnapshotFails(e)  BY <2>7, HashStep, SnapshotFailsStep
  <2>8. CASE Commit(e)      BY <2>8, CommitStep
  <2>9. QED BY <1>1, <2>1, <2>2, <2>3, <2>4, <2>5, <2>6, <2>7, <2>8 DEF EditorStep
<1>2. ASSUME NEW u \in Undoers, UndoerStep(u) PROVE FilesInv'
  BY <1>2, RollbackStep, CheckStep, BlockedStep DEF UndoerStep
<1>3. ASSUME NEW p \in Procs, RestoreStep(p) PROVE FilesInv'
  <2>1. CASE Snapshot(p)       BY <2>1, SnapshotStep
  <2>2. CASE RestoreFile(p)    BY <2>2, RestoreFileStep
  <2>3. CASE RestoreFails(p)   BY <2>3, RestoreFailsStep
  <2>4. CASE Close(p)          BY <2>4, CloseStep
  <2>5. CASE CloseFails(p) \/ Dies(p)  BY <2>5, StopStep DEF CloseFails, Dies
  <2>6. CASE \E f \in Paths : Revert(p, f) \/ RevertFails(p, f)
    BY <2>6, RevertStep, RevertFailsStep
  <2>7. CASE \E f \in Paths : DiesWriting(p, f)
    <3>1. PICK f \in Paths : DiesWriting(p, f)
      BY <2>7
    <3>2. Writes(p, f, Torn, Idle) /\ UNCHANGED <<entries, history>>
      BY <3>1 DEF DiesWriting
    <3>3. QED BY <3>2, IdleOwn, WriteStep
  <2>8. QED BY <1>3, <2>1, <2>2, <2>3, <2>4, <2>5, <2>6, <2>7 DEF RestoreStep
<1>4. ASSUME NEW f \in Paths, NEW content, Foreign(f, content) PROVE FilesInv'
  <2>1. Writes(None, f, content, Idle) /\ UNCHANGED <<entries, history>> /\ None \notin Procs
    BY <1>4, EditAssumption DEF Foreign
  <2>2. QED BY <2>1, WriteStep
<1>5. CASE UNCHANGED vars
  BY <1>5 DEF vars, FilesInv, StoreOK, IdsDiffer
<1>6. QED BY <1>1, <1>2, <1>3, <1>4, <1>5 DEF Next

\* Restoring a file overwrites only what the operation itself wrote or found.
LEMMA OverwritesOwn == FilesInv => LosesOnlyItsOwn
<1> SUFFICES ASSUME FilesInv, NEW p \in Procs, proc[p].at = "restoring",
                    NEW i \in proc[p].next .. Len(proc[p].op.edits),
                    proc[p].op.edits[i].path \notin Disturbed(p)
             PROVE  LET f == proc[p].op.edits[i].path
                    IN \/ files[f] = proc[p].op.edits[i].new
                       \/ p \in Editors /\ files[f] \in {proc[p].initial[f], Torn}
  BY DEF LosesOnlyItsOwn
<1> DEFINE x == proc[p]
           f == x.op.edits[i].path
<1>1. Shape(p, x) /\ Linked(p, x, entries, history) /\ Fits(p, x, files)
  BY Facts
<1>2. OpOK(x.op) /\ x.next \in 1 .. Len(x.op.edits)
  BY <1>1 DEF Shape
<1>3. i \in DOMAIN x.op.edits /\ ~(i < x.next) /\ f \notin x.touched
  BY <1>2, EditsOf DEF Disturbed
<1>4. /\ files[f] = x.current[f]
      /\ p \in Editors => x.current[f] \in Leftover(x, x.op.edits[i])
      /\ p \in Undoers => x.current[f] = x.op.after[f]
  BY <1>1, <1>3 DEF Fits, Fit
<1>5. CASE p \in Editors
  BY <1>4, <1>5 DEF Leftover
<1>6. CASE p \in Undoers
  <2>1. Sound(x.op, history[x.id]) /\ f \notin history[x.id].disturbed
    BY <1>1, <1>6 DEF Linked, OfUndoer, Disturbed
  <2>2. QED BY <1>3, <1>4, <1>6, <2>1 DEF Sound
<1>7. QED BY <1>5, <1>6 DEF Procs

\* A call leaves all of its files changed, or none.
LEMMA EndsWhole == FilesInv => AllOrNothing
<1> SUFFICES ASSUME FilesInv, NEW p \in Procs, proc[p].at \in {"committing", "closing"},
                    NEW f \in PathsOf(proc[p].op), f \notin Disturbed(p)
             PROVE  /\ proc[p].at = "committing" =>
                         files[f] = EditOf(proc[p].op, f).new /\ files[f] = proc[p].op.after[f]
                    /\ proc[p].at = "closing" /\ proc[p].left = {} =>
                         CASE proc[p].outcome = "aborted" -> files[f] = proc[p].initial[f]
                           [] proc[p].outcome = "rolled_back" -> files[f] = history[proc[p].id].initial[f]
                           [] proc[p].outcome = "rollback_failed" -> files[f] = proc[p].current[f]
  BY DEF AllOrNothing
<1> DEFINE x == proc[p]
<1>1. Shape(p, x) /\ Linked(p, x, entries, history) /\ Fits(p, x, files)
  BY Facts
<1>2. OpOK(x.op)
  BY <1>1 DEF Shape
<1>3. PICK i \in DOMAIN x.op.edits : x.op.edits[i].path = f /\ EditOf(x.op, f) = x.op.edits[i]
  BY <1>2, EditOfPath
<1>4. f \notin x.touched /\ Fit(p, x, i, files[f])
  BY <1>1, <1>3 DEF Disturbed, Fits
<1>5. CASE x.at = "committing"
  BY <1>3, <1>4, <1>5 DEF Fit
<1>6. CASE x.at = "closing" /\ x.left = {}
  <2>1. files[f] = IF x.outcome = "rollback_failed" THEN x.current[f] ELSE Before(x.op, x.op.edits[i])
    BY <1>3, <1>4, <1>6 DEF Fit
  <2>2. CASE p \in Editors
    <3>1. x.outcome \in {"aborted", "rollback_failed"}
      BY <1>1, <1>6, <2>2, Roles DEF Shape
    <3>2. Before(x.op, x.op.edits[i]) = x.initial[f]
      BY <1>1, <1>3, <1>4, <1>6, <2>2 DEF Linked, OfEditor
    <3>3. QED BY <1>6, <2>1, <3>1, <3>2
  <2>3. CASE p \in Undoers
    <3>1. x.outcome \in {"rolled_back", "rollback_failed"}
      BY <1>1, <1>6, <2>3, Roles DEF Shape
    <3>2. Sound(x.op, history[x.id]) /\ f \notin history[x.id].disturbed
      BY <1>1, <1>6, <2>3 DEF Linked, OfUndoer, Disturbed
    <3>3. Before(x.op, x.op.edits[i]) = history[x.id].initial[f]
      BY <1>3, <3>2 DEF Sound
    <3>4. QED BY <1>6, <2>1, <3>1, <3>3
  <2>4. QED BY <2>2, <2>3 DEF Procs
<1>7. QED BY <1>5, <1>6

\* However agents, users and others interleave, and whatever fails: a call that
\* fails, and /rollback, overwrite nothing that others have written, except in
\* the time the call itself was at work (AbortAndRestore and Rollback).
THEOREM RestoresLoseOnlyTheirOwn == Spec => []LosesOnlyItsOwn
<1>1. Spec => []FilesInv
  BY InitInv, NextInv, PTL DEF Spec
<1>2. QED BY <1>1, OverwritesOwn, PTL

\* A call that commits has changed all of its files, one that aborts or is
\* rolled back none, one that could not be restored is left as it was found
\* (Commit, AbortAndRestore, Rollback), but for files that others wrote to.
THEOREM EditsAreAllOrNothing == Spec => []AllOrNothing
<1>1. Spec => []FilesInv
  BY InitInv, NextInv, PTL DEF Spec
<1>2. QED BY <1>1, EndsWhole, PTL

-----------------------------------------------------------------------------
(* The chain of the operations on one file. *)

\* What the file was before the operation.
Was(op, f) == Before(op, EditOf(op, f))

Using(x, f) == x.at # "idle" /\ f \in PathsOf(x.op)

\* The loop of writes, or of restoring, has passed the file.
Passed(x, f) == \E i \in DOMAIN x.op.edits : x.op.edits[i].path = f /\ i < x.next

\* The process has written the file, and what it wrote is there to stay ...
Wrote(x, f) == x.at \in {"hashing", "committing"} \/ (x.at = "writing" /\ Passed(x, f))

\* ... or it has put it back, ...
PutBack(x, f) == \/ x.at = "restoring" /\ Passed(x, f)
                 \/ x.at = "closing" /\ x.outcome # "rollback_failed"

\* ... or it is going to ...
Owes(x, f) == x.at = "aborting" \/ (x.at = "restoring" /\ ~Passed(x, f))

\* ... or that has failed, and in the end nothing will be said of the file.
Doomed(x) == x.at = "reverting" \/ (x.at = "closing" /\ x.outcome = "rollback_failed")

\* The last operation that can be undone has left c.
OnTop(f, c) == \A n \in Undoable(f) : (\A k \in Undoable(f) : k <= n) => entries[n].after[f] = c

\* Each operation has found what the one before it has left.
Links(f) ==
  \A i, j \in Undoable(f) :
    i < j /\ (\A k \in Undoable(f) : k <= i \/ j <= k) => Was(entries[j], f) = entries[i].after[f]

\* Because of p the file need not be as the last operation has left it.
Unsettles(p, x, f) ==
  /\ Using(x, f)
  /\ \/ Doomed(x)
     \/ p \in Editors /\ (Wrote(x, f) \/ Owes(x, f)) /\ OnTop(f, Was(x.op, f))
     \/ p \in Undoers /\ PutBack(x, f) /\ \E j \in Undoable(f) : j >= x.id

Settled(f) == OnTop(f, files[f]) \/ \E p \in Procs : Unsettles(p, proc[p], f)

\* What p knows of the file it is at.
Knows(p, x, f) ==
  Using(x, f) =>
    /\ f \notin x.touched
    /\ p \in Editors =>
         /\ Working(x) => \A j \in Undoable(f) : j < x.id
         /\ Wrote(x, f) => OnTop(f, Was(x.op, f))
         /\ Owes(x, f) => OnTop(f, Was(x.op, f)) \/ files[f] = Was(x.op, f)
    /\ p \in Undoers /\ ~Doomed(x) /\ x.id \notin Undoable(f) => files[f] = Was(x.op, f)

\* The content of the file is the work of q.
Left(q, y, f) == /\ Using(y, f)
                 /\ (q \in Editors /\ Wrote(y, f)) \/ (q \in Undoers /\ PutBack(y, f))

\* An agent that is at the file at the same time has come later.
Came(q, y, p, x, f) ==
  p \in Editors /\ Using(x, f) /\ Working(x) /\ Left(q, y, f) =>
    /\ Was(x.op, f) = files[f]
    /\ q \in Editors => y.id < x.id

FileOK(f) ==
  /\ Links(f) /\ Settled(f)
  /\ \A p \in Procs : Knows(p, proc[p], f)
  /\ \A q, p \in Procs : p # q => Came(q, proc[q], p, proc[p], f)

\* As far as f goes, nothing has happened to the process but that others have
\* written other files of it.
Like(y, x, f) ==
  /\ y.at = x.at /\ y.id = x.id /\ y.op = x.op /\ y.next = x.next /\ y.outcome = x.outcome
  /\ f \in y.touched => f \in x.touched

LEMMA AlikeKnow ==
  ASSUME NEW p, NEW x, NEW y, NEW f, Like(y, x, f)
  PROVE  /\ Using(y, f) <=> Using(x, f)
         /\ Left(p, y, f) <=> Left(p, x, f)
         /\ Unsettles(p, y, f) <=> Unsettles(p, x, f)
         /\ Knows(p, x, f) => Knows(p, y, f)
         /\ \A q, z : Came(q, z, p, x, f) => Came(q, z, p, y, f)
         /\ \A q, z : Came(p, x, q, z, f) => Came(p, y, q, z, f)
<1> USE DEF Like
<1>1. /\ Using(y, f) <=> Using(x, f)
      /\ Wrote(y, f) <=> Wrote(x, f)
      /\ PutBack(y, f) <=> PutBack(x, f)
      /\ Owes(y, f) <=> Owes(x, f)
      /\ Doomed(y) <=> Doomed(x)
      /\ Working(y) <=> Working(x)
  BY DEF Using, Wrote, Passed, PutBack, Owes, Doomed, Working
<1>2. Left(p, y, f) <=> Left(p, x, f)  BY <1>1 DEF Left
<1>3. QED BY <1>1, <1>2 DEF Unsettles, Knows, Came

\* What others have seen of a step of p that did not spoil f.
Apart(p, to, f) ==
  /\ proc'[p] = to
  /\ \A q \in Procs : q # p => Like(proc'[q], proc[q], f)

LEMMA GoesApart ==
  ASSUME FilesInv, NEW p \in Procs, NEW to, Goes(p, to), NEW f
  PROVE  Apart(p, to, f)
  BY DEF FilesInv, Goes, Apart, Like

LEMMA WritesApart ==
  ASSUME FilesInv, NEW p, NEW g \in Paths, NEW c, NEW to, Writes(p, g, c, to),
         NEW f \in Paths, f \notin Shared(p, g)
  PROVE  /\ p \in Procs => Apart(p, to, f)
         /\ \A q \in Procs : q # p => Like(proc'[q], proc[q], f)
         /\ f = g => files'[f] = c /\ \A q \in Procs \ {p} : ~Using(proc[q], f)
         /\ f # g => files'[f] = files[f]
<1>1. \A q \in Procs : Record(proc[q])  BY Facts
<1>2. ASSUME NEW q \in Procs, q # p PROVE Like(proc'[q], proc[q], f)
  <2>1. CASE ~Uses(q, g)
    <3>1. proc'[q] = proc[q]  BY <1>2, <2>1 DEF Writes
    <3>2. QED BY <3>1 DEF Like
  <2>2. CASE Uses(q, g)
    <3>1. proc'[q] = [proc[q] EXCEPT !.touched = proc[q].touched \cup {g}]
      BY <1>2, <2>2 DEF Writes
    <3>2. f # g  BY <1>2, <2>2 DEF Shared
    <3>3. /\ proc'[q].at = proc[q].at /\ proc'[q].id = proc[q].id /\ proc'[q].op = proc[q].op
          /\ proc'[q].next = proc[q].next /\ proc'[q].outcome = proc[q].outcome
          /\ proc'[q].touched = proc[q].touched \cup {g}
      BY <1>1, <3>1 DEF Record, Parts
    <3>4. QED BY <3>2, <3>3 DEF Like
  <2>3. QED BY <2>1, <2>2
<1>3. p \in Procs => proc'[p] = to  BY DEF Writes
<1>4. f = g => \A q \in Procs \ {p} : ~Using(proc[q], f)
  BY DEF Shared, Uses, Using
<1>5. (f = g => files'[f] = c) /\ (f # g => files'[f] = files[f])
  BY DEF Writes, FilesInv
<1>6. QED BY <1>2, <1>3, <1>4, <1>5 DEF Apart

\* The store says the same of f.
SameLog(f) == Undoable(f)' = Undoable(f) /\ \A n \in Undoable(f) : entries'[n] = entries[n]

LEMMA SameFile ==
  ASSUME NEW f, SameLog(f), NEW p, NEW x
  PROVE  /\ \A c : OnTop(f, c)' <=> OnTop(f, c)
         /\ Links(f)' <=> Links(f)
         /\ Unsettles(p, x, f)' <=> Unsettles(p, x, f)
         /\ files'[f] = files[f] => /\ Knows(p, x, f)' <=> Knows(p, x, f)
                                    /\ \A q, y : Came(q, y, p, x, f)' <=> Came(q, y, p, x, f)
<1>1. ASSUME NEW c PROVE OnTop(f, c)' <=> OnTop(f, c)
  BY DEF SameLog, OnTop
<1>2. Links(f)' <=> Links(f)
  BY DEF SameLog, Links
<1>3. Unsettles(p, x, f)' <=> Unsettles(p, x, f)
  <2>1. OnTop(f, Was(x.op, f))' <=> OnTop(f, Was(x.op, f))
    BY <1>1 DEF SameLog, OnTop, Was, Before, EditOf
  <2>2. QED BY <2>1 DEF SameLog, Unsettles, Using, Doomed, Wrote, Passed, Owes, PutBack, PathsOf
<1>4. ASSUME files'[f] = files[f] PROVE Knows(p, x, f)' <=> Knows(p, x, f)
  <2>1. OnTop(f, Was(x.op, f))' <=> OnTop(f, Was(x.op, f))
    BY <1>1 DEF SameLog, OnTop, Was, Before, EditOf
  <2>2. QED BY <1>4, <2>1 DEF SameLog, Knows, Using, Doomed, Wrote, Passed, Owes, Working, PathsOf, Was, Before, EditOf
<1>5. ASSUME files'[f] = files[f], NEW q, NEW y PROVE Came(q, y, p, x, f)' <=> Came(q, y, p, x, f)
  BY <1>5 DEF Came, Left, Using, Wrote, Passed, PutBack, Working, PathsOf, Was, Before, EditOf
<1>6. QED BY <1>1, <1>2, <1>3, <1>4, <1>5

\* Process p goes on, and the file and what the store says of it stay.
LEMMA KeepStep ==
  ASSUME NEW f, FileOK(f), NEW p \in Procs, NEW to, Apart(p, to, f),
         files'[f] = files[f], SameLog(f), Knows(p, to, f),
         Unsettles(p, proc[p], f) => Unsettles(p, to, f) \/ OnTop(f, files[f]),
         \A q \in Procs : q # p => Came(q, proc[q], p, to, f) /\ Came(p, to, q, proc[q], f)
  PROVE  FileOK(f)'
<1>1. Links(f)'  BY SameFile DEF FileOK
<1>2. ASSUME NEW q \in Procs, NEW y, y = proc'[q]
      PROVE  /\ Knows(q, y, f)
             /\ Unsettles(q, proc[q], f) => Unsettles(q, y, f) \/ OnTop(f, files[f])
  <2>1. CASE q = p  BY <1>2, <2>1 DEF Apart
  <2>2. CASE q # p
    <3>1. PICK x : x = proc[q]  OBVIOUS
    <3>2. Like(y, x, f)  BY <1>2, <2>2, <3>1 DEF Apart
    <3>3. QED BY <3>1, <3>2, AlikeKnow DEF FileOK
  <2>3. QED BY <2>1, <2>2
<1>3. ASSUME NEW q \in Procs PROVE Knows(q, proc[q], f)'
  <2>1. PICK y : y = proc'[q]  OBVIOUS
  <2>2. Knows(q, y, f)'  BY <1>2, <2>1, SameFile
  <2>3. QED BY <2>1, <2>2
<1>4. ASSUME NEW q \in Procs, NEW r \in Procs, q # r PROVE Came(q, proc[q], r, proc[r], f)'
  <2>1. PICK y, z : y = proc'[q] /\ z = proc'[r]  OBVIOUS
  <2>2. Came(q, y, r, z, f)
    <3>1. PICK a, b : a = proc[q] /\ b = proc[r]  OBVIOUS
    <3>2. CASE q # p /\ r # p
      <4>1. Like(y, a, f) /\ Like(z, b, f)  BY <2>1, <3>1, <3>2 DEF Apart
      <4>2. Came(q, a, r, b, f)  BY <1>4, <3>1 DEF FileOK
      <4>3. Came(q, a, r, z, f)  BY <4>1, <4>2, AlikeKnow
      <4>4. QED BY <4>1, <4>3, AlikeKnow
    <3>3. CASE q = p /\ r # p
      <4>1. y = to /\ Like(z, b, f)  BY <2>1, <3>1, <3>3 DEF Apart
      <4>2. Came(q, to, r, b, f)  BY <3>1, <3>3
      <4>3. QED BY <4>1, <4>2, AlikeKnow
    <3>4. CASE q # p /\ r = p
      <4>1. z = to /\ Like(y, a, f)  BY <2>1, <3>1, <3>4 DEF Apart
      <4>2. Came(q, a, r, to, f)  BY <3>1, <3>4
      <4>3. QED BY <4>1, <4>2, AlikeKnow
    <3>5. QED BY <1>4, <3>2, <3>3, <3>4
  <2>3. Came(q, y, r, z, f)'  BY <2>2, SameFile
  <2>4. QED BY <2>1, <2>3
<1>5. Settled(f)'
  <2>1. PICK c : c = files[f] /\ c = files'[f]  OBVIOUS
  <2>2. CASE OnTop(f, c)
    <3>1. OnTop(f, c)'  BY <2>2, SameFile
    <3>2. QED BY <2>1, <3>1 DEF Settled
  <2>3. CASE ~OnTop(f, c)
    <3>1. PICK q \in Procs : Unsettles(q, proc[q], f)  BY <2>1, <2>3 DEF FileOK, Settled
    <3>2. PICK y : y = proc'[q]  OBVIOUS
    <3>3. Unsettles(q, y, f)  BY <1>2, <2>1, <2>3, <3>1, <3>2
    <3>4. Unsettles(q, y, f)'  BY <3>3, SameFile
    <3>5. QED BY <3>2, <3>4 DEF Settled
  <2>4. QED BY <2>2, <2>3
<1>6. QED BY <1>1, <1>3, <1>4, <1>5 DEF FileOK

\* The process was not at the file, and is not.
LEMMA AwayStep ==
  ASSUME NEW f, FileOK(f), NEW p \in Procs, NEW to, Apart(p, to, f),
         files'[f] = files[f], SameLog(f), ~Using(to, f), ~Unsettles(p, proc[p], f)
  PROVE  FileOK(f)'
  BY KeepStep DEF Knows, Came, Left

\* Others have written other files.
LEMMA OthersStep ==
  ASSUME NEW f, FileOK(f), \A q \in Procs : Like(proc'[q], proc[q], f),
         files'[f] = files[f], SameLog(f)
  PROVE  FileOK(f)'
<1>1. CASE Procs = {}
  <2>1. PICK c : c = files[f]  OBVIOUS
  <2>2. OnTop(f, c) /\ Links(f)  BY <1>1, <2>1 DEF FileOK, Settled
  <2>3. OnTop(f, c)' /\ Links(f)'  BY <2>2, SameFile
  <2>4. QED BY <1>1, <2>1, <2>3 DEF FileOK, Settled
<1>2. CASE Procs # {}
  <2>1. PICK p \in Procs : TRUE  BY <1>2
  <2>2. PICK x, to : x = proc[p] /\ to = proc'[p]  OBVIOUS
  <2>3. Apart(p, to, f) /\ Like(to, x, f)  BY <2>2 DEF Apart
  <2>4. Knows(p, to, f) /\ (Unsettles(p, x, f) => Unsettles(p, to, f))
    BY <2>2, <2>3, AlikeKnow DEF FileOK
  <2>5. ASSUME NEW q \in Procs, q # p PROVE Came(q, proc[q], p, to, f) /\ Came(p, to, q, proc[q], f)
    <3>1. Came(q, proc[q], p, x, f) /\ Came(p, x, q, proc[q], f)  BY <2>2, <2>5 DEF FileOK
    <3>2. QED BY <3>1, <2>3, AlikeKnow
  <2>6. QED BY <2>2, <2>3, <2>4, <2>5, KeepStep
<1>3. QED BY <1>1, <1>2

\* The process goes from one stage to the next, and the file stays.
LEMMA Onwards ==
  ASSUME NEW f, FileOK(f), NEW p \in Procs, NEW x, x = proc[p], NEW to, Apart(p, to, f),
         files'[f] = files[f], SameLog(f),
         Working(x), Working(to), to.id = x.id, f \in to.touched => f \in x.touched,
         PathsOf(to.op) = PathsOf(x.op),
         f \in PathsOf(x.op) =>
           /\ Was(to.op, f) = Was(x.op, f)
           /\ Wrote(to, f) => Wrote(x, f)
           /\ PutBack(to, f) => PutBack(x, f)
           /\ Doomed(x) => Doomed(to)
           /\ p \in Editors =>
                /\ Owes(to, f) => Owes(x, f) \/ Wrote(x, f) \/ files[f] = Was(x.op, f)
                /\ Wrote(x, f) \/ Owes(x, f) => Wrote(to, f) \/ Owes(to, f) \/ Doomed(to)
           /\ p \in Undoers /\ PutBack(x, f) => PutBack(to, f) \/ Doomed(to)
  PROVE  FileOK(f)'
<1>1. Using(to, f) <=> Using(x, f)  BY DEF Using, Working
<1>2. Knows(p, x, f)  BY DEF FileOK
<1>3. Knows(p, to, f)
  <2>1. CASE ~Using(to, f)  BY <2>1 DEF Knows
  <2>2. CASE Using(to, f)
    <3>1. f \in PathsOf(x.op)  BY <1>1, <2>2 DEF Using
    <3>2. f \notin to.touched  BY <1>1, <1>2, <2>2 DEF Knows
    <3>3. ASSUME p \in Editors
          PROVE  /\ \A j \in Undoable(f) : j < to.id
                 /\ Wrote(to, f) => OnTop(f, Was(to.op, f))
                 /\ Owes(to, f) => OnTop(f, Was(to.op, f)) \/ files[f] = Was(to.op, f)
      BY <1>1, <1>2, <2>2, <3>1, <3>3 DEF Knows
    <3>4. ASSUME p \in Undoers, ~Doomed(to), to.id \notin Undoable(f) PROVE files[f] = Was(to.op, f)
      BY <1>1, <1>2, <2>2, <3>1, <3>4 DEF Knows
    <3>5. QED BY <3>2, <3>3, <3>4 DEF Knows
  <2>3. QED BY <2>1, <2>2
<1>4. Unsettles(p, x, f) => Unsettles(p, to, f)
  BY <1>1 DEF Unsettles, Using
<1>5. Left(p, to, f) => Left(p, x, f)
  BY <1>1 DEF Left, Using
<1>6. ASSUME NEW q \in Procs, q # p PROVE Came(q, proc[q], p, to, f) /\ Came(p, to, q, proc[q], f)
  <2>1. Came(q, proc[q], p, x, f) /\ Came(p, x, q, proc[q], f)  BY <1>6 DEF FileOK
  <2>2. Came(q, proc[q], p, to, f)  BY <2>1, <1>1 DEF Came, Using
  <2>3. Came(p, to, q, proc[q], f)  BY <2>1, <1>5 DEF Came
  <2>4. QED BY <2>2, <2>3
<1>7. QED BY <1>3, <1>4, <1>6, KeepStep

\* A process writes the file, and nobody else is at it.
LEMMA SoleStep ==
  ASSUME NEW f, FileOK(f), NEW p \in Procs, NEW to, Apart(p, to, f), SameLog(f),
         \A q \in Procs \ {p} : ~Using(proc[q], f), NEW c, files'[f] = c,
         OnTop(f, c) \/ Unsettles(p, to, f),
         Using(to, f) =>
           /\ f \notin to.touched
           /\ p \in Editors =>
                /\ Working(to) => \A j \in Undoable(f) : j < to.id
                /\ Wrote(to, f) => OnTop(f, Was(to.op, f))
                /\ Owes(to, f) => OnTop(f, Was(to.op, f)) \/ c = Was(to.op, f)
           /\ p \in Undoers /\ ~Doomed(to) /\ to.id \notin Undoable(f) => c = Was(to.op, f)
  PROVE  FileOK(f)'
<1>1. Links(f)'  BY SameFile DEF FileOK
<1>2. ASSUME NEW q \in Procs, q # p PROVE ~Using(proc[q], f)'
  <2>1. PICK x, y : x = proc[q] /\ y = proc'[q]  OBVIOUS
  <2>2. Like(y, x, f)  BY <1>2, <2>1 DEF Apart
  <2>3. ~Using(y, f)  BY <1>2, <2>1, <2>2, AlikeKnow
  <2>4. QED BY <2>1, <2>3 DEF Using, PathsOf
<1>3. proc'[p] = to  BY DEF Apart
<1>4. Knows(p, to, f)'
  <2>1. (OnTop(f, Was(to.op, f))' <=> OnTop(f, Was(to.op, f)))
    BY DEF SameLog, OnTop, Was, Before, EditOf
  <2>2. QED BY <2>1 DEF SameLog, Knows, Using, Doomed, Wrote, Passed, Owes, Working, PathsOf, Was, Before, EditOf
<1>5. Knows(p, proc[p], f)'  BY <1>3, <1>4
<1>6. ASSUME NEW q \in Procs PROVE Knows(q, proc[q], f)'
  BY <1>2, <1>5 DEF Knows
<1>7. ASSUME NEW q \in Procs, NEW r \in Procs, q # r PROVE Came(q, proc[q], r, proc[r], f)'
  BY <1>2, <1>7 DEF Came, Left
<1>8. Settled(f)'
  <2>1. CASE OnTop(f, c)
    <3>1. OnTop(f, c)'  BY <2>1, SameFile
    <3>2. QED BY <3>1 DEF Settled
  <2>2. CASE Unsettles(p, to, f)
    <3>1. Unsettles(p, to, f)'  BY <2>2, SameFile
    <3>2. QED BY <1>3, <3>1 DEF Settled
  <2>3. QED BY <2>1, <2>2
<1>9. QED BY <1>1, <1>6, <1>7, <1>8 DEF FileOK

-----------------------------------------------------------------------------
(* Types; and an undoer has in hand what is in the store. *)

\* The files before the operation are known.
Started(op) == \A f \in PathsOf(op) : op.before[f] \in States

Stages == {"idle", "planned", "writing", "hashing", "committing", "aborting",
           "checking", "checked", "restoring", "reverting", "closing"}

Typed(x) ==
  /\ x.at \in Stages
  /\ x.at # "idle" => x.op \in Operations
  /\ Working(x) => Started(x.op)
  /\ x.at \in {"restoring", "reverting"} => \A f \in PathsOf(x.op) : x.current[f] \in States
  /\ x.left # {} => Doomed(x) /\ x.left \subseteq PathsOf(x.op)
  /\ x.touched \subseteq Paths

StoreTyped == /\ \A i \in DOMAIN entries : entries[i] \in Operations /\ Started(entries[i])
              /\ DOMAIN history = DOMAIN entries

FilesTyped == /\ files \in [Paths -> States] /\ spoilt \subseteq Paths
              /\ StoreTyped
              /\ \A p \in Procs : Typed(proc[p])

LEMMA TypesFollow == FilesTyped => TypeOK
<1> SUFFICES ASSUME FilesTyped PROVE TypeOK
  OBVIOUS
<1>1. ASSUME NEW p \in Procs
      PROVE  /\ proc[p].at \in Stages
             /\ proc[p].at # "idle" => proc[p].op \in Operations /\ proc[p].left \subseteq PathsOf(proc[p].op)
             /\ proc[p].touched \subseteq Paths
  BY DEF FilesTyped, Typed
<1>2. QED BY <1>1 DEF FilesTyped, StoreTyped, TypeOK, Stages

LEMMA IdleTyped == Typed(Idle)
  BY DEF Typed, Idle, Stages, Working

\* What there is in the files.
LEMMA HeldTyped ==
  ASSUME files \in [Paths -> States], NEW op, OpOK(op)
  PROVE  /\ Held(op) \in [Paths -> States \cup {None}]
         /\ \A f \in PathsOf(op) : Held(op)[f] = files[f] /\ Held(op)[f] \in States
<1>1. PathsOf(op) \subseteq Paths  BY EditsOf
<1>2. QED BY <1>1 DEF Held

LEMMA StoreStays == StoreTyped /\ UNCHANGED <<entries, history>> => StoreTyped'
  BY DEF StoreTyped, Started, PathsOf, Operations

LEMMA GoesTyped ==
  ASSUME FilesInv, FilesTyped, NEW p \in Procs, NEW to, Goes(p, to), Typed(to),
         UNCHANGED files, StoreTyped', spoilt' \subseteq Paths
  PROVE  FilesTyped'
<1>1. \A q \in Procs : Typed(proc'[q])
  BY DEF Goes, FilesInv, FilesTyped
<1>2. ASSUME NEW q \in Procs PROVE Typed(proc[q])'
  <2>1. PICK x : x = proc'[q]  OBVIOUS
  <2>2. Typed(x)'  BY <1>1, <2>1 DEF Typed, Started, Doomed, Working, PathsOf
  <2>3. QED BY <2>1, <2>2
<1>3. QED BY <1>2 DEF FilesTyped

LEMMA WritesTyped ==
  ASSUME FilesInv, FilesTyped, NEW p, NEW f \in Paths, NEW c \in States, NEW to, Writes(p, f, c, to),
         p \in Procs => Typed(to), UNCHANGED <<entries, history>>, spoilt' \subseteq Paths
  PROVE  FilesTyped'
<1>1. ASSUME NEW q \in Procs PROVE Typed(proc'[q])
  <2>1. CASE q = p  BY <2>1 DEF Writes
  <2>2. CASE q # p /\ ~Uses(q, f)  BY <2>2 DEF Writes, FilesTyped
  <2>3. CASE q # p /\ Uses(q, f)
    <3>1. PICK x, y : x = proc[q] /\ y = proc'[q]  OBVIOUS
    <3>2. Record(x) /\ Typed(x) /\ y = [x EXCEPT !.touched = x.touched \cup {f}]
      BY <2>3, <3>1, Facts DEF Writes, FilesTyped
    <3>3. /\ y.at = x.at /\ y.op = x.op /\ y.left = x.left /\ y.current = x.current
          /\ y.outcome = x.outcome /\ y.touched = x.touched \cup {f}
      BY <3>2 DEF Record, Parts
    <3>4. Typed(y)  BY <3>2, <3>3 DEF Typed, Working, Doomed
    <3>5. QED BY <3>1, <3>4
  <2>4. QED BY <2>1, <2>2, <2>3
<1>2. ASSUME NEW q \in Procs PROVE Typed(proc[q])'
  <2>1. PICK x : x = proc'[q]  OBVIOUS
  <2>2. Typed(x)'  BY <1>1, <2>1 DEF Typed, Started, Doomed, Working, PathsOf
  <2>3. QED BY <2>1, <2>2
<1>3. files' \in [Paths -> States]  BY DEF Writes, FilesTyped
<1>4. QED BY <1>2, <1>3, StoreStays DEF FilesTyped

\* What an edit comes to, and what there was before it.
LEMMA EditTyped ==
  ASSUME NEW op \in Operations, OpOK(op), NEW i \in DOMAIN op.edits
  PROVE  /\ op.edits[i].path \in Paths /\ op.edits[i].new \in States
         /\ Started(op) => Before(op, op.edits[i]) \in States
         /\ Absent \in States /\ Torn \in States
<1>1. op.edits[i] \in Edit /\ op.edits[i].path \in PathsOf(op) /\ op.edits[i].path \in Paths  BY EditsOf
<1>2. op.edits[i].new \in States  BY <1>1 DEF Edit, States
<1>3. QED BY <1>1, <1>2 DEF Started, Before, States

\* A call of a tool, up to its end.
LEMMA CallTyped ==
  ASSUME FilesInv, FilesTyped, NEW e \in Editors,
         Plan(e) \/ Begin(e) \/ Hash(e) \/ Commit(e)
  PROVE  FilesTyped'
<1>1. PICK x : x = proc[e]  OBVIOUS
<1>2. e \in Procs /\ Record(x) /\ Typed(x) /\ Shape(e, x) /\ Linked(e, x, entries, history)
      /\ files \in [Paths -> States] /\ StoreTyped /\ spoilt \subseteq Paths
  BY <1>1, Facts, Roles DEF FilesTyped
<1>3. CASE Plan(e)
  <2>1. PICK edits \in Calls :
          Goes(e, [Idle EXCEPT !.at = "planned", !.initial = Held([edits |-> edits, before |-> NoStates, after |-> NoStates, status |-> "pending"]),
                    !.op = [edits |-> edits, before |-> NoStates, after |-> NoStates, status |-> "pending"]])
    BY <1>3 DEF Plan, Idle
  <2>2. PICK op : op = [edits |-> edits, before |-> NoStates, after |-> NoStates, status |-> "pending"]  OBVIOUS
  <2>3. op \in Operations
    <3>1. edits \in Seq(Edit) /\ OnceEach(edits)  BY EditAssumption
    <3>2. NoStates \in [Paths -> States \cup {None}]  BY DEF NoStates
    <3>3. QED BY <2>2, <3>1, <3>2 DEF Operations
  <2>4. PICK to : to = [Idle EXCEPT !.at = "planned", !.initial = Held(op), !.op = op]  OBVIOUS
  <2>5. Goes(e, to)  BY <2>1, <2>2, <2>4
  <2>6. to.at = "planned" /\ to.op = op /\ to.left = {} /\ to.touched = {}
    BY <2>4 DEF Idle
  <2>7. Typed(to)  BY <2>3, <2>6 DEF Typed, Working, Stages
  <2>8. QED BY <1>2, <1>3, <2>5, <2>7, GoesTyped, StoreStays DEF Plan
<1>4. CASE Begin(e)
  <2>1. PICK op : op = [x.op EXCEPT !.before = Held(x.op)]  OBVIOUS
  <2>2. OpOK(x.op) /\ x.op \in Operations /\ x.at = "planned"
    BY <1>1, <1>2, <1>4 DEF Begin, Shape, Typed
  <2>3. op \in Operations /\ PathsOf(op) = PathsOf(x.op) /\ op.before = Held(x.op)
    <3>1. Held(x.op) \in [Paths -> States \cup {None}]  BY <1>2, <2>2, HeldTyped
    <3>2. op \in Operations /\ op.edits = x.op.edits /\ op.before = Held(x.op)
      BY <2>1, <2>2, <3>1 DEF Operations
    <3>3. QED BY <3>2 DEF PathsOf
  <2>4. Started(op)  BY <1>2, <2>2, <2>3, HeldTyped DEF Started
  <2>5. PICK to : to = [x EXCEPT !.at = "writing", !.id = Len(entries) + 1, !.op = op]  OBVIOUS
  <2>6. Goes(e, to)  BY <1>1, <1>4, <2>1, <2>5 DEF Begin
  <2>7. to.at = "writing" /\ to.op = op /\ to.left = x.left /\ to.touched = x.touched
    BY <1>2, <2>5 DEF Record, Parts
  <2>8. Typed(to)  BY <1>2, <2>2, <2>3, <2>4, <2>7 DEF Typed, Working, Stages, Doomed
  <2>9. StoreTyped'
    <3>1. PICK S : entries \in Seq(S)  BY DEF FilesInv, StoreOK
    <3>2. PICK T : history \in Seq(T)  BY DEF FilesInv, StoreOK
    <3>3. Len(history) = Len(entries)  BY DEF FilesInv, StoreOK
    <3>4. entries' = Append(entries, op)  BY <1>1, <1>4, <2>1 DEF Begin
    <3>5. PICK h : history' = Append(history, h)  BY <1>4 DEF Begin
    <3>6. DOMAIN history' = DOMAIN entries'  BY <3>1, <3>2, <3>3, <3>4, <3>5
    <3>7. \A i \in DOMAIN entries' : IF i \in DOMAIN entries THEN entries'[i] = entries[i] ELSE entries'[i] = op
      BY <3>1, <3>4
    <3>8. \A i \in DOMAIN entries' : entries'[i] \in Operations /\ Started(entries'[i])
      BY <1>2, <2>3, <2>4, <3>7 DEF StoreTyped
    <3>9. QED BY <3>6, <3>8 DEF StoreTyped, Started, PathsOf, Operations
  <2>10. QED BY <1>2, <1>4, <2>6, <2>8, <2>9, GoesTyped DEF Begin
<1>5. CASE Hash(e)
  <2>1. PICK op : op = [x.op EXCEPT !.after = Held(x.op)]  OBVIOUS
  <2>2. OpOK(x.op) /\ x.op \in Operations /\ x.at = "hashing" /\ Started(x.op)
    BY <1>1, <1>2, <1>5 DEF Hash, Shape, Typed, Working
  <2>3. op \in Operations /\ op.edits = x.op.edits /\ op.before = x.op.before
    <3>1. Held(x.op) \in [Paths -> States \cup {None}]  BY <1>2, <2>2, HeldTyped
    <3>2. QED BY <2>1, <2>2, <3>1 DEF Operations
  <2>4. Started(op) /\ PathsOf(op) = PathsOf(x.op)  BY <2>2, <2>3 DEF Started, PathsOf
  <2>5. PICK to : to = [x EXCEPT !.at = "committing", !.op = op]  OBVIOUS
  <2>6. Goes(e, to)  BY <1>1, <1>2, <1>5, <2>1, <2>2, <2>5 DEF Hash, Record, Parts, OpOK, OpParts
  <2>7. to.at = "committing" /\ to.op = op /\ to.left = x.left /\ to.touched = x.touched
    BY <1>2, <2>5 DEF Record, Parts
  <2>8. Typed(to)  BY <1>2, <2>2, <2>3, <2>4, <2>7 DEF Typed, Working, Stages, Doomed
  <2>9. QED BY <1>2, <1>5, <2>6, <2>8, GoesTyped, StoreStays DEF Hash
<1>6. CASE Commit(e)
  <2>1. PICK op : op = [x.op EXCEPT !.status = "committed"]  OBVIOUS
  <2>2. x.op \in Operations /\ x.at = "committing" /\ Started(x.op)
    BY <1>1, <1>2, <1>6 DEF Commit, Typed, Working
  <2>3. op \in Operations /\ op.edits = x.op.edits /\ op.before = x.op.before
    BY <2>1, <2>2 DEF Operations
  <2>4. Started(op)  BY <2>2, <2>3 DEF Started, PathsOf
  <2>5. StoreTyped'
    <3>1. entries' = [entries EXCEPT ![x.id] = op]  BY <1>1, <1>6, <2>1 DEF Commit
    <3>2. DOMAIN history' = DOMAIN history /\ DOMAIN entries' = DOMAIN entries
      BY <1>6, <3>1 DEF Commit
    <3>3. \A i \in DOMAIN entries : entries'[i] = entries[i] \/ entries'[i] = op
      BY <3>1
    <3>4. \A i \in DOMAIN entries' : entries'[i] \in Operations /\ Started(entries'[i])
      BY <1>2, <2>3, <2>4, <3>2, <3>3 DEF StoreTyped
    <3>5. QED BY <1>2, <3>2, <3>4 DEF StoreTyped, Started, PathsOf, Operations
  <2>6. QED BY <1>2, <1>6, <2>5, GoesTyped, IdleTyped DEF Commit
<1>7. QED BY <1>3, <1>4, <1>5, <1>6

\* The entry is saved, with another status.
LEMMA SaveTyped ==
  ASSUME FilesInv, FilesTyped, NEW p \in Procs, Blocked(p) \/ Close(p)
  PROVE  FilesTyped'
<1>1. PICK x : x = proc[p]  OBVIOUS
<1>2. Record(x) /\ Typed(x) /\ Shape(p, x) /\ StoreTyped /\ spoilt \subseteq Paths
  BY <1>1, Facts DEF FilesTyped
<1>3. /\ x.at \in {"checking", "checked", "closing"} /\ Goes(p, Idle) /\ UNCHANGED <<files, history>>
      /\ x.at = "closing" => x.outcome \in {"aborted", "rolled_back", "rollback_failed"}
  BY <1>1, <1>2 DEF Blocked, Close, Shape, Success
<1>4. OpOK(x.op) /\ x.op \in Operations /\ Started(x.op)
  BY <1>2, <1>3 DEF Shape, Typed, Working
<1>5. PathsOf(x.op) \subseteq Paths  BY <1>4, EditsOf
<1>6. spoilt' \subseteq Paths
  BY <1>1, <1>2, <1>5 DEF Blocked, Close, Revives, Spoils
<1>7. PICK op \in Operations : /\ op.edits = x.op.edits /\ op.before = x.op.before
                               /\ entries' = [entries EXCEPT ![x.id] = op]
  <2>1. CASE Blocked(p)  BY <1>1, <1>4, <2>1 DEF Blocked
  <2>2. CASE Close(p)
    <3>1. Outcome(p) \in Operations /\ Outcome(p).edits = x.op.edits /\ Outcome(p).before = x.op.before
      BY <1>1, <1>3, <1>4, <2>2 DEF Close, Outcome, Operations
    <3>2. QED BY <1>1, <2>2, <3>1 DEF Close
  <2>3. QED BY <2>1, <2>2
<1>8. Started(op)  BY <1>4, <1>7 DEF Started, PathsOf
<1>9. StoreTyped'
  <2>1. DOMAIN entries' = DOMAIN entries /\ \A i \in DOMAIN entries : entries'[i] = entries[i] \/ entries'[i] = op
    BY <1>7
  <2>2. \A i \in DOMAIN entries' : entries'[i] \in Operations /\ Started(entries'[i])
    BY <1>2, <1>7, <1>8, <2>1 DEF StoreTyped
  <2>3. QED BY <1>2, <1>3, <2>1, <2>2 DEF StoreTyped, Started, PathsOf, Operations
<1>10. QED BY <1>3, <1>6, <1>9, GoesTyped, IdleTyped

\* A process goes on or stops, and the files and the store stay.
QuietAction(p) ==
  \/ BeginFails(p) \/ DeleteFails(p) \/ CommitFails(p) \/ Check(p) \/ Snapshot(p)
  \/ SnapshotFails(p) \/ CloseFails(p) \/ Dies(p) \/ (p \in Undoers /\ Rollback(p))

LEMMA StaysTyped ==
  ASSUME FilesInv, FilesTyped, NEW p \in Procs, QuietAction(p)
  PROVE  FilesTyped'
<1> USE DEF QuietAction
<1>1. PICK x : x = proc[p]  OBVIOUS
<1>2. /\ Record(x) /\ Typed(x) /\ Shape(p, x) /\ files \in [Paths -> States]
      /\ spoilt \subseteq Paths /\ UNCHANGED <<files, entries, history>> /\ StoreTyped'
  BY <1>1, Facts, StoreStays
  DEF FilesTyped, BeginFails, DeleteFails, CommitFails, Check, Snapshot, SnapshotFails, CloseFails, Dies, Rollback
<1>3. spoilt' \subseteq Paths
  <2>1. x.at # "idle" => PathsOf(x.op) \subseteq Paths  BY <1>2, EditsOf DEF Shape
  <2>2. QED BY <1>1, <1>2, <2>1
        DEF BeginFails, DeleteFails, CommitFails, Check, Snapshot, SnapshotFails, CloseFails, Dies, Rollback
<1>4. PICK to : Goes(p, to) /\ Typed(to)
  <2>1. CASE BeginFails(p) \/ CloseFails(p) \/ Dies(p)
    BY <2>1, IdleTyped DEF BeginFails, CloseFails, Dies
  <2>2. CASE DeleteFails(p) \/ CommitFails(p) \/ Check(p)
    <3>1. PICK at \in {"aborting", "checked"} : Goes(p, [x EXCEPT !.at = at]) /\ Working(x)
      BY <1>1, <2>2 DEF DeleteFails, CommitFails, Check, Working
    <3>2. PICK to : to = [x EXCEPT !.at = at]  OBVIOUS
    <3>3. to.at = at /\ to.op = x.op /\ to.left = x.left /\ to.touched = x.touched /\ to.outcome = x.outcome
      BY <1>2, <3>2 DEF Record, Parts
    <3>4. x.left = {}
      BY <1>1, <1>2, <2>2 DEF Typed, Doomed, DeleteFails, CommitFails, Check
    <3>5. Typed(to)  BY <1>2, <3>1, <3>3, <3>4 DEF Typed, Working, Stages
    <3>6. QED BY <3>1, <3>2, <3>5
  <2>3. CASE Snapshot(p)
    <3>1. PICK to : to = [x EXCEPT !.at = "restoring", !.next = 1, !.current = Held(x.op)]  OBVIOUS
    <3>2. /\ to.at = "restoring" /\ to.op = x.op /\ to.left = x.left /\ to.touched = x.touched
          /\ to.current = Held(x.op)
      BY <1>2, <3>1 DEF Record, Parts
    <3>3. x.at \in {"aborting", "checked"}  BY <1>1, <2>3 DEF Snapshot
    <3>4. OpOK(x.op)  BY <1>2, <3>3 DEF Shape
    <3>5. Typed(to)  BY <1>2, <3>2, <3>3, <3>4, HeldTyped DEF Typed, Working, Stages, Doomed
    <3>6. QED BY <1>1, <2>3, <3>1, <3>5 DEF Snapshot
  <2>4. CASE SnapshotFails(p)
    <3>1. PICK to : to = [x EXCEPT !.at = "closing", !.outcome = "rollback_failed", !.left = PathsOf(x.op)]
      OBVIOUS
    <3>2. /\ to.at = "closing" /\ to.op = x.op /\ to.left = PathsOf(x.op) /\ to.touched = x.touched
          /\ to.outcome = "rollback_failed"
      BY <1>2, <3>1 DEF Record, Parts
    <3>3. x.at = "aborting"  BY <1>1, <2>4 DEF SnapshotFails
    <3>4. Typed(to)  BY <1>2, <3>2, <3>3 DEF Typed, Working, Stages, Doomed
    <3>5. QED BY <1>1, <2>4, <3>1, <3>4 DEF SnapshotFails
  <2>5. CASE p \in Undoers /\ Rollback(p)
    <3>1. PICK id \in DOMAIN entries : Goes(p, [Idle EXCEPT !.at = "checking", !.id = id, !.op = entries[id]])
      BY <2>5 DEF Rollback
    <3>2. PICK to : to = [Idle EXCEPT !.at = "checking", !.id = id, !.op = entries[id]]  OBVIOUS
    <3>3. to.at = "checking" /\ to.op = entries[id] /\ to.left = {} /\ to.touched = {}
      BY <3>2 DEF Idle
    <3>4. entries[id] \in Operations /\ Started(entries[id])  BY DEF FilesTyped, StoreTyped
    <3>5. Typed(to)  BY <3>3, <3>4 DEF Typed, Working, Stages
    <3>6. QED BY <3>1, <3>2, <3>5
  <2>6. QED BY <2>1, <2>2, <2>3, <2>4, <2>5
<1>5. QED BY <1>2, <1>3, <1>4, GoesTyped

LEMMA SharedPaths == ASSUME NEW p, NEW f \in Paths PROVE Shared(p, f) \subseteq Paths
  BY DEF Shared

\* A step that writes a file.
LEMMA WritingTyped ==
  ASSUME FilesInv, FilesTyped, NEW p \in Procs,
         \/ p \in Editors /\ (WriteEdit(p) \/ WriteFails(p))
         \/ RestoreFile(p) \/ RestoreFails(p)
         \/ \E f \in Paths : Revert(p, f) \/ RevertFails(p, f) \/ DiesWriting(p, f)
  PROVE  FilesTyped'
<1>1. PICK x : x = proc[p]  OBVIOUS
<1>2. Record(x) /\ Typed(x) /\ Shape(p, x) /\ files \in [Paths -> States] /\ spoilt \subseteq Paths
  BY <1>1, Facts DEF FilesTyped
<1>3. Working(x)
  BY <1>1 DEF WriteEdit, WriteFails, RestoreFile, RestoreFails, Revert, RevertFails, DiesWriting, Target, Working
<1>4. OpOK(x.op) /\ x.op \in Operations /\ Started(x.op) /\ PathsOf(x.op) \subseteq Paths
  BY <1>2, <1>3, EditsOf DEF Shape, Typed, Working
<1>5. UNCHANGED <<entries, history>> /\ Absent \in States /\ Torn \in States
  BY DEF WriteEdit, WriteFails, RestoreFile, RestoreFails, Revert, RevertFails, DiesWriting, States
<1>6. CASE WriteEdit(p) \/ WriteFails(p) \/ RestoreFile(p) \/ RestoreFails(p)
  <2>1. PICK edit : edit = NextEdit(p)  OBVIOUS
  <2>2. edit.path \in Paths /\ edit.new \in States /\ Before(x.op, edit) \in States
    <3>1. x.next \in 1 .. Len(x.op.edits)
      BY <1>1, <1>2, <1>6 DEF WriteEdit, WriteFails, RestoreFile, RestoreFails, Shape
    <3>2. x.next \in DOMAIN x.op.edits /\ edit = x.op.edits[x.next]
      BY <1>1, <1>4, <2>1, <3>1, EditsOf DEF NextEdit
    <3>3. QED BY <1>4, <3>2, EditTyped
  <2>3. spoilt' \subseteq Paths
    BY <1>2, <1>6, <2>1, <2>2, SharedPaths DEF WriteEdit, WriteFails, RestoreFile, RestoreFails
  <2>4. PICK c, to : c \in States /\ Writes(p, edit.path, c, to) /\ Typed(to)
    <3>1. CASE WriteEdit(p)
      <4>1. PICK to : to = Written(p)  OBVIOUS
      <4>2. x.at = "writing" /\ x.left = {}  BY <1>1, <1>2, <3>1 DEF WriteEdit, Typed, Doomed
      <4>3. /\ to.at \in {"writing", "hashing"} /\ to.op = x.op /\ to.left = x.left
            /\ to.touched = x.touched
        BY <1>1, <1>2, <4>1, <4>2 DEF Written, Record, Parts
      <4>4. Typed(to)  BY <1>2, <1>3, <4>2, <4>3 DEF Typed, Working, Stages
      <4>5. QED BY <2>1, <2>2, <3>1, <4>1, <4>4 DEF WriteEdit
    <3>2. CASE WriteFails(p)
      <4>1. PICK to : to = [x EXCEPT !.at = "aborting"]  OBVIOUS
      <4>2. x.left = {}  BY <1>1, <1>2, <3>2 DEF WriteFails, Typed, Doomed
      <4>3. to.at = "aborting" /\ to.op = x.op /\ to.left = x.left /\ to.touched = x.touched
        BY <1>2, <4>1 DEF Record, Parts
      <4>4. Typed(to)  BY <1>2, <1>3, <4>2, <4>3 DEF Typed, Working, Stages
      <4>5. Leaves(edit.path, edit.new) \subseteq States  BY <1>2, <1>5, <2>2 DEF Leaves
      <4>6. QED BY <1>1, <2>1, <3>2, <4>1, <4>4, <4>5 DEF WriteFails
    <3>3. CASE RestoreFile(p)
      <4>1. PICK to : to = Restored(p)  OBVIOUS
      <4>2. x.at = "restoring" /\ x.left = {}  BY <1>1, <1>2, <3>3 DEF RestoreFile, Typed, Doomed
      <4>3. /\ to.at \in {"restoring", "closing"} /\ to.op = x.op /\ to.left = x.left
            /\ to.touched = x.touched /\ to.current = x.current
        BY <1>1, <1>2, <4>1, <4>2 DEF Restored, Record, Parts
      <4>4. Typed(to)  BY <1>2, <1>3, <4>2, <4>3 DEF Typed, Working, Stages
      <4>5. QED BY <1>1, <2>1, <2>2, <3>3, <4>1, <4>4 DEF RestoreFile
    <3>4. CASE RestoreFails(p)
      <4>1. PICK to : to = [x EXCEPT !.at = "reverting", !.outcome = "rollback_failed", !.left = PathsOf(x.op)]
        OBVIOUS
      <4>2. x.at = "restoring"  BY <1>1, <3>4 DEF RestoreFails
      <4>3. /\ to.at = "reverting" /\ to.op = x.op /\ to.left = PathsOf(x.op) /\ to.touched = x.touched
            /\ to.current = x.current
        BY <1>2, <4>1 DEF Record, Parts
      <4>4. Typed(to)  BY <1>2, <1>3, <4>2, <4>3 DEF Typed, Working, Stages, Doomed
      <4>5. Leaves(edit.path, Before(x.op, edit)) \subseteq States  BY <1>2, <1>5, <2>2 DEF Leaves
      <4>6. QED BY <1>1, <2>1, <3>4, <4>1, <4>4, <4>5 DEF RestoreFails
    <3>5. QED BY <1>6, <3>1, <3>2, <3>3, <3>4
  <2>5. QED BY <1>5, <2>2, <2>3, <2>4, WritesTyped
<1>7. ASSUME NEW f \in Paths, Revert(p, f) \/ RevertFails(p, f) PROVE FilesTyped'
  <2>1. x.at = "reverting" /\ f \in x.left /\ f \in PathsOf(x.op) /\ x.current[f] \in States
    BY <1>1, <1>2, <1>7 DEF Revert, RevertFails, Typed
  <2>2. x.outcome = "rollback_failed"  BY <1>2, <2>1 DEF Shape
  <2>3. PICK c, to : c \in States /\ Writes(p, f, c, to) /\ Typed(to)
    <3>1. CASE Revert(p, f)
      <4>1. PICK to : to = [x EXCEPT !.left = x.left \ {f},
                                     !.at = IF x.left = {f} THEN "closing" ELSE "reverting"]
        OBVIOUS
      <4>2. /\ to.at \in {"closing", "reverting"} /\ to.op = x.op /\ to.left = x.left \ {f}
            /\ to.touched = x.touched /\ to.current = x.current /\ to.outcome = x.outcome
        BY <1>2, <4>1 DEF Record, Parts
      <4>3. Typed(to)  BY <1>2, <1>3, <2>1, <2>2, <4>2 DEF Typed, Working, Stages, Doomed
      <4>4. QED BY <1>1, <2>1, <3>1, <4>1, <4>3 DEF Revert
    <3>2. CASE RevertFails(p, f)
      <4>1. PICK to : to = [x EXCEPT !.at = "closing"]  OBVIOUS
      <4>2. /\ to.at = "closing" /\ to.op = x.op /\ to.left = x.left
            /\ to.touched = x.touched /\ to.outcome = x.outcome
        BY <1>2, <4>1 DEF Record, Parts
      <4>3. Typed(to)  BY <1>2, <1>3, <2>1, <2>2, <4>2 DEF Typed, Working, Stages, Doomed
      <4>4. Leaves(f, x.current[f]) \subseteq States  BY <1>2, <1>5, <2>1 DEF Leaves
      <4>5. QED BY <1>1, <3>2, <4>1, <4>3, <4>4 DEF RevertFails
    <3>3. QED BY <1>7, <3>1, <3>2
  <2>4. spoilt' \subseteq Paths  BY <1>2, <1>7, SharedPaths DEF Revert, RevertFails
  <2>5. QED BY <1>5, <2>3, <2>4, WritesTyped
<1>8. ASSUME NEW f \in Paths, DiesWriting(p, f) PROVE FilesTyped'
  <2>1. spoilt' \subseteq Paths /\ Writes(p, f, Torn, Idle)
    BY <1>1, <1>2, <1>4, <1>8 DEF DiesWriting
  <2>2. QED BY <1>5, <2>1, IdleTyped, WritesTyped
<1>9. QED BY <1>6, <1>7, <1>8

LEMMA NextTyped == FilesInv /\ FilesTyped /\ [Next]_vars => FilesTyped'
<1> SUFFICES ASSUME FilesInv, FilesTyped, [Next]_vars PROVE FilesTyped'
  OBVIOUS
<1>1. ASSUME NEW e \in Editors, EditorStep(e) PROVE FilesTyped'
  <2>1. e \in Procs  BY Roles
  <2>2. CASE Plan(e) \/ Begin(e) \/ Hash(e) \/ Commit(e)  BY <2>2, CallTyped
  <2>3. CASE WriteEdit(e) \/ WriteFails(e)  BY <2>1, <2>3, WritingTyped
  <2>4. CASE BeginFails(e) \/ DeleteFails(e) \/ CommitFails(e) \/ SnapshotFails(e)
    <3>1. QuietAction(e)  BY <2>4 DEF QuietAction
    <3>2. QED BY <2>1, <3>1, StaysTyped
  <2>5. QED BY <1>1, <2>2, <2>3, <2>4 DEF EditorStep
<1>2. ASSUME NEW u \in Undoers, UndoerStep(u) PROVE FilesTyped'
  BY <1>2, Roles, SaveTyped, StaysTyped DEF UndoerStep, QuietAction
<1>3. ASSUME NEW p \in Procs, RestoreStep(p) PROVE FilesTyped'
  <2>1. CASE Snapshot(p) \/ CloseFails(p) \/ Dies(p)
    <3>1. QuietAction(p)  BY <2>1 DEF QuietAction
    <3>2. QED BY <3>1, StaysTyped
  <2>2. CASE Close(p)       BY <2>2, SaveTyped
  <2>3. CASE RestoreFile(p) \/ RestoreFails(p) \/ \E f \in Paths : Revert(p, f) \/ RevertFails(p, f) \/ DiesWriting(p, f)
    BY <2>3, WritingTyped
  <2>4. QED BY <1>3, <2>1, <2>2, <2>3 DEF RestoreStep
<1>4. ASSUME NEW f \in Paths, NEW content \in Contents \cup {Absent}, Foreign(f, content) PROVE FilesTyped'
  <2>1. /\ Writes(None, f, content, Idle) /\ UNCHANGED <<entries, history>> /\ spoilt' \subseteq Paths
        /\ None \notin Procs /\ content \in States
    BY <1>4, EditAssumption DEF Foreign, FilesTyped, States
  <2>2. QED BY <2>1, WritesTyped
<1>5. CASE UNCHANGED vars
  <2>1. StoreTyped'  BY <1>5, StoreStays DEF vars, FilesTyped
  <2>2. ASSUME NEW q \in Procs PROVE Typed(proc[q])'
    <3>1. PICK x : x = proc[q] /\ x = proc'[q]  BY <1>5 DEF vars
    <3>2. Typed(x)'  BY <3>1 DEF FilesTyped, Typed, Started, Doomed, Working, PathsOf
    <3>3. QED BY <3>1, <3>2
  <2>3. QED BY <1>5, <2>1, <2>2 DEF vars, FilesTyped
<1>6. QED BY <1>1, <1>2, <1>3, <1>4, <1>5 DEF Next

LEMMA InitTyped == Init => FilesTyped
<1> SUFFICES ASSUME Init PROVE FilesTyped
  OBVIOUS
<1>1. files \in [Paths -> States]  BY DEF Init, States
<1>2. \A p \in Procs : Typed(proc[p])  BY IdleTyped DEF Init
<1>3. QED BY <1>1, <1>2 DEF Init, FilesTyped, StoreTyped

\* But for the status.
SameOp(a, b) == a.edits = b.edits /\ a.before = b.before /\ a.after = b.after

Loaded == \A u \in Undoers : proc[u].at # "idle" => SameOp(proc[u].op, entries[proc[u].id])

LEMMA GoesLoaded ==
  ASSUME FilesInv, Loaded, NEW p \in Procs, NEW to, Goes(p, to),
         p \in Undoers /\ to.at # "idle" => SameOp(to.op, entries'[to.id]),
         \A u \in Undoers : u # p /\ proc[u].at # "idle" => SameOp(entries[proc[u].id], entries'[proc[u].id])
  PROVE  Loaded'
<1>1. proc'[p] = to /\ \A q \in Procs : q # p => proc'[q] = proc[q]
  BY DEF Goes, FilesInv
<1>2. QED BY <1>1, Roles DEF Loaded, SameOp

LEMMA WritesLoaded ==
  ASSUME FilesInv, Loaded, NEW p, NEW f, NEW c, NEW to, Writes(p, f, c, to), UNCHANGED entries,
         p \in Undoers /\ to.at # "idle" => SameOp(to.op, entries[to.id])
  PROVE  Loaded'
<1>1. ASSUME NEW u \in Undoers, proc'[u].at # "idle"
      PROVE  SameOp(proc'[u].op, entries[proc'[u].id])
  <2>1. u \in Procs  BY Roles
  <2>2. CASE u = p  BY <1>1, <2>1, <2>2 DEF Writes
  <2>3. CASE u # p
    <3>1. PICK x, y : x = proc[u] /\ y = proc'[u]  OBVIOUS
    <3>2. Record(x)  BY <2>1, <3>1, Facts
    <3>3. y = x \/ y = [x EXCEPT !.touched = x.touched \cup {f}]  BY <2>1, <2>3, <3>1 DEF Writes
    <3>4. y.at = x.at /\ y.id = x.id /\ y.op = x.op  BY <3>2, <3>3 DEF Record, Parts
    <3>5. QED BY <1>1, <3>1, <3>4 DEF Loaded
  <2>4. QED BY <2>2, <2>3
<1>2. QED BY <1>1 DEF Loaded, SameOp

\* The store stays, or grows.
LEMMA CallLoaded ==
  ASSUME FilesInv, Loaded, NEW e \in Editors, Goes(e, proc'[e]),
         \A i \in DOMAIN entries : entries'[i] = entries[i]
  PROVE  Loaded'
<1>1. e \in Procs /\ e \notin Undoers  BY Roles
<1>2. \A u \in Undoers : proc[u].at # "idle" => proc[u].id \in DOMAIN entries
  BY Facts, Roles DEF Linked, Shape
<1>3. QED BY <1>1, <1>2, GoesLoaded DEF SameOp

\* Process p saves what it has in hand, or an editor does so.
LEMMA SaveLoaded ==
  ASSUME FilesInv, Loaded, NEW p \in Procs, Working(proc[p]), Goes(p, Idle),
         NEW op, SameOp(op, proc[p].op), entries' = [entries EXCEPT ![proc[p].id] = op]
  PROVE  Loaded'
<1>1. PICK x : x = proc[p]  OBVIOUS
<1>2. x.id \in DOMAIN entries /\ Linked(p, x, entries, history)
  BY <1>1, Facts DEF Linked, Working
<1>3. entries'[x.id] = op /\ \A i \in DOMAIN entries : i # x.id => entries'[i] = entries[i]
  BY <1>1, <1>2
<1>4. ASSUME NEW u \in Undoers, u # p, proc[u].at # "idle"
      PROVE  SameOp(entries[proc[u].id], entries'[proc[u].id])
  <2>1. proc[u].id \in DOMAIN entries /\ entries[proc[u].id].status # "pending"
    BY <1>4, Facts, Roles DEF Linked, Shape, OfUndoer
  <2>2. CASE proc[u].id # x.id  BY <1>3, <2>1, <2>2 DEF SameOp
  <2>3. CASE proc[u].id = x.id
    <3>1. p \in Undoers  BY <1>1, <1>2, <2>1, <2>3 DEF Procs, Linked, OfEditor, Working
    <3>2. SameOp(x.op, entries[x.id]) /\ SameOp(proc[u].op, entries[x.id])
      BY <1>1, <1>4, <2>3, <3>1 DEF Loaded, Working
    <3>3. QED BY <1>1, <1>3, <2>3, <3>2 DEF SameOp
  <2>4. QED BY <2>2, <2>3
<1>5. Idle.at = "idle"  BY DEF Idle
<1>6. QED BY <1>4, <1>5, GoesLoaded

\* Process p goes on with the same operation, or stops.
LEMMA OwnLoaded ==
  ASSUME FilesInv, Loaded, NEW p \in Procs, NEW to, UNCHANGED entries,
         Goes(p, to) \/ \E f, c : Writes(p, f, c, to),
         to.at = "idle" \/ (proc[p].at # "idle" /\ to.op = proc[p].op /\ to.id = proc[p].id)
  PROVE  Loaded'
<1>1. p \in Undoers /\ to.at # "idle" => SameOp(to.op, entries[to.id])  BY DEF Loaded
<1>2. QED BY <1>1, GoesLoaded, WritesLoaded DEF SameOp

LEMMA NextLoaded == FilesInv /\ Loaded /\ [Next]_vars => Loaded'
<1> SUFFICES ASSUME FilesInv, Loaded, [Next]_vars PROVE Loaded'
  OBVIOUS
<1>1. ASSUME NEW e \in Editors, EditorStep(e) PROVE Loaded'
  <2>1. e \in Procs /\ e \notin Undoers  BY Roles
  <2>2. CASE WriteEdit(e) \/ WriteFails(e)
    <3>1. PICK f, c, to : Writes(e, f, c, to) /\ UNCHANGED entries
      BY <2>2 DEF WriteEdit, WriteFails
    <3>2. QED BY <2>1, <3>1, WritesLoaded
  <2>3. CASE Commit(e)
    <3>1. Working(proc[e])  BY <2>3 DEF Commit, Working
    <3>2. OpOK(proc[e].op)  BY <2>1, <3>1, Facts DEF Shape, Working
    <3>3. PICK op : op = [proc[e].op EXCEPT !.status = "committed"]  OBVIOUS
    <3>4. SameOp(op, proc[e].op)  BY <3>2, <3>3 DEF SameOp, OpOK, OpParts
    <3>5. QED BY <2>1, <2>3, <3>1, <3>3, <3>4, SaveLoaded DEF Commit
  <2>4. CASE Begin(e)
    <3>1. PICK to : Goes(e, to)  BY <2>4 DEF Begin
    <3>2. Goes(e, proc'[e])  BY <2>1, <3>1 DEF Goes, FilesInv
    <3>3. PICK S : entries \in Seq(S)  BY DEF FilesInv, StoreOK
    <3>4. PICK op : entries' = Append(entries, op)  BY <2>4 DEF Begin
    <3>5. \A i \in DOMAIN entries : entries'[i] = entries[i]  BY <3>3, <3>4
    <3>6. QED BY <3>2, <3>5, CallLoaded
  <2>5. CASE Plan(e) \/ BeginFails(e) \/ DeleteFails(e) \/ Hash(e) \/ CommitFails(e) \/ SnapshotFails(e)
    <3>1. PICK to : Goes(e, to) /\ UNCHANGED entries
      BY <2>5 DEF Plan, BeginFails, DeleteFails, Hash, CommitFails, SnapshotFails
    <3>2. Goes(e, proc'[e])  BY <2>1, <3>1 DEF Goes, FilesInv
    <3>3. QED BY <3>1, <3>2, CallLoaded
  <2>6. QED BY <1>1, <2>2, <2>3, <2>4, <2>5 DEF EditorStep
<1>2. ASSUME NEW u \in Undoers, UndoerStep(u) PROVE Loaded'
  <2>1. PICK x : x = proc[u]  OBVIOUS
  <2>2. u \in Procs /\ Record(x)  BY <2>1, Facts, Roles
  <2>3. CASE Rollback(u)
    <3>1. PICK id \in DOMAIN entries : Goes(u, [Idle EXCEPT !.at = "checking", !.id = id, !.op = entries[id]])
      BY <2>3 DEF Rollback
    <3>2. PICK to : to = [Idle EXCEPT !.at = "checking", !.id = id, !.op = entries[id]]  OBVIOUS
    <3>3. to.id = id /\ to.op = entries[id]  BY <3>2 DEF Idle
    <3>4. UNCHANGED entries  BY <2>3 DEF Rollback
    <3>5. QED BY <2>2, <3>1, <3>2, <3>3, <3>4, GoesLoaded DEF SameOp
  <2>4. CASE Check(u)
    <3>1. PICK to : to = [x EXCEPT !.at = "checked"]  OBVIOUS
    <3>2. to.id = x.id /\ to.op = x.op  BY <2>2, <3>1 DEF Record, Parts
    <3>3. x.at # "idle" /\ Goes(u, to) /\ UNCHANGED entries  BY <2>1, <2>4, <3>1 DEF Check
    <3>4. QED BY <2>1, <2>2, <3>2, <3>3, OwnLoaded
  <2>5. CASE Blocked(u)
    <3>1. Working(x)  BY <2>1, <2>5 DEF Blocked, Working
    <3>2. QED BY <2>1, <2>2, <2>5, <3>1, SaveLoaded DEF Blocked, SameOp
  <2>6. QED BY <1>2, <2>3, <2>4, <2>5 DEF UndoerStep
<1>3. ASSUME NEW p \in Procs, RestoreStep(p) PROVE Loaded'
  <2>1. PICK x : x = proc[p]  OBVIOUS
  <2>2. Record(x)  BY <2>1, Facts
  <2>3. CASE Close(p)
    <3>1. Working(x) /\ Goes(p, Idle) /\ entries' = [entries EXCEPT ![x.id] = Outcome(p)]
      BY <2>1, <2>3 DEF Close, Working
    <3>2. OpOK(x.op)  BY <2>1, <3>1, Facts DEF Shape, Working
    <3>3. PICK op : op = Outcome(p)  OBVIOUS
    <3>4. SameOp(op, x.op)  BY <2>1, <3>2, <3>3 DEF Outcome, SameOp, OpOK, OpParts
    <3>5. QED BY <2>1, <3>1, <3>3, <3>4, SaveLoaded
  <2>4. CASE CloseFails(p) \/ Dies(p) \/ \E f \in Paths : DiesWriting(p, f)
    <3>1. (Goes(p, Idle) \/ \E f, c : Writes(p, f, c, Idle)) /\ UNCHANGED entries /\ Idle.at = "idle"
      BY <2>4 DEF CloseFails, Dies, DiesWriting, Idle
    <3>2. QED BY <3>1, OwnLoaded
  <2>5. CASE Snapshot(p) \/ RestoreFile(p) \/ RestoreFails(p) \/ \E f \in Paths : Revert(p, f) \/ RevertFails(p, f)
    <3>1. PICK to : /\ Goes(p, to) \/ \E f, c : Writes(p, f, c, to)
                    /\ to.op = x.op /\ to.id = x.id
      <4>1. CASE Snapshot(p)
        <5>1. PICK to : to = [x EXCEPT !.at = "restoring", !.next = 1, !.current = Held(x.op)]  OBVIOUS
        <5>2. to.op = x.op /\ to.id = x.id  BY <2>2, <5>1 DEF Record, Parts
        <5>3. QED BY <2>1, <4>1, <5>1, <5>2 DEF Snapshot
      <4>2. CASE RestoreFile(p)
        <5>1. PICK to : to = Restored(p)  OBVIOUS
        <5>2. to.op = x.op /\ to.id = x.id  BY <2>1, <2>2, <5>1 DEF Restored, Record, Parts
        <5>3. QED BY <4>2, <5>1, <5>2 DEF RestoreFile
      <4>3. CASE RestoreFails(p)
        <5>1. PICK to : to = [x EXCEPT !.at = "reverting", !.outcome = "rollback_failed", !.left = PathsOf(x.op)]
          OBVIOUS
        <5>2. to.op = x.op /\ to.id = x.id  BY <2>2, <5>1 DEF Record, Parts
        <5>3. QED BY <2>1, <4>3, <5>1, <5>2 DEF RestoreFails
      <4>4. ASSUME NEW f \in Paths, Revert(p, f)
            PROVE  \E to : (\E g, c : Writes(p, g, c, to)) /\ to.op = x.op /\ to.id = x.id
        <5>1. PICK to : to = [x EXCEPT !.left = x.left \ {f},
                                       !.at = IF x.left = {f} THEN "closing" ELSE "reverting"]
          OBVIOUS
        <5>2. to.op = x.op /\ to.id = x.id  BY <2>2, <5>1 DEF Record, Parts
        <5>3. QED BY <2>1, <4>4, <5>1, <5>2 DEF Revert
      <4>5. ASSUME NEW f \in Paths, RevertFails(p, f)
            PROVE  \E to : (\E g, c : Writes(p, g, c, to)) /\ to.op = x.op /\ to.id = x.id
        <5>1. PICK to : to = [x EXCEPT !.at = "closing"]  OBVIOUS
        <5>2. to.op = x.op /\ to.id = x.id  BY <2>2, <5>1 DEF Record, Parts
        <5>3. QED BY <2>1, <4>5, <5>1, <5>2 DEF RevertFails
      <4>6. CASE \E f \in Paths : Revert(p, f) \/ RevertFails(p, f)
        <5>1. PICK f \in Paths : Revert(p, f) \/ RevertFails(p, f)  BY <4>6
        <5>2. PICK to : (\E g, c : Writes(p, g, c, to)) /\ to.op = x.op /\ to.id = x.id  BY <5>1, <4>4, <4>5
        <5>3. QED BY <5>2
      <4>7. QED BY <2>5, <4>1, <4>2, <4>3, <4>6
    <3>2. x.at # "idle" /\ UNCHANGED entries
      BY <2>1, <2>5 DEF Snapshot, RestoreFile, RestoreFails, Revert, RevertFails
    <3>3. QED BY <2>1, <3>1, <3>2, OwnLoaded
  <2>6. QED BY <1>3, <2>3, <2>4, <2>5 DEF RestoreStep
<1>4. ASSUME NEW f, NEW content, Foreign(f, content) PROVE Loaded'
  <2>1. Writes(None, f, content, Idle) /\ UNCHANGED entries /\ Idle.at = "idle"
    BY <1>4 DEF Foreign, Idle
  <2>2. QED BY <2>1, WritesLoaded
<1>5. CASE UNCHANGED vars
  BY <1>5 DEF vars, Loaded, SameOp
<1>6. QED BY <1>1, <1>2, <1>3, <1>4, <1>5 DEF Next

-----------------------------------------------------------------------------
(* The chain of each file, step by step. *)

\* What the store says of the file when nothing is saved, or nothing that counts.
LEMMA LogAsIs == ASSUME UNCHANGED entries, NEW f PROVE SameLog(f)
  BY DEF SameLog, Undoable, Chosen, PathsOf

LEMMA LogStays ==
  ASSUME NEW f, NEW id \in DOMAIN entries, NEW op, entries' = [entries EXCEPT ![id] = op],
         id \notin Undoable(f), op.status # "committed" \/ f \notin PathsOf(op)
  PROVE  SameLog(f)
<1>1. DOMAIN entries' = DOMAIN entries /\ entries'[id] = op
      /\ \A i \in DOMAIN entries : i # id => entries'[i] = entries[i]
  OBVIOUS
<1>2. \A i : i \in Undoable(f)' <=> i \in Undoable(f)
  BY <1>1 DEF Undoable, Chosen, PathsOf
<1>3. \A i \in Undoable(f) : entries'[i] = entries[i]
  BY <1>1 DEF Undoable
<1>4. Undoable(f)' = Undoable(f)  BY <1>2
<1>5. QED BY <1>3, <1>4 DEF SameLog

LEMMA Numbered ==
  ASSUME FilesInv, NEW f
  PROVE  /\ DOMAIN entries = 1 .. Len(entries) /\ Len(entries) \in Nat
         /\ Undoable(f) \subseteq DOMAIN entries /\ Undoable(f) \subseteq Nat
<1>1. PICK S : entries \in Seq(S)  BY DEF FilesInv, StoreOK
<1>2. QED BY <1>1 DEF Undoable

\* The edit of a file that nobody else has written to.
LEMMA AtFile ==
  ASSUME FilesInv, FilesTyped, NEW p \in Procs, NEW x, x = proc[p], NEW f, FileOK(f), Using(x, f)
  PROVE  \E i \in DOMAIN x.op.edits :
           /\ x.op.edits[i].path = f /\ EditOf(x.op, f) = x.op.edits[i]
           /\ Was(x.op, f) = Before(x.op, x.op.edits[i])
           /\ Fit(p, x, i, files[f])
           /\ Passed(x, f) <=> i < x.next
           /\ p \in Editors /\ Working(x) => Was(x.op, f) = x.initial[f]
           /\ p \in Editors /\ x.at = "planned" /\ x.op.edits[i].type = "add" => x.initial[f] = Absent
<1>1. OpOK(x.op) /\ f \in PathsOf(x.op) /\ x.at # "idle"  BY Facts DEF Shape, Using
<1>2. PICK i \in DOMAIN x.op.edits : x.op.edits[i].path = f /\ EditOf(x.op, f) = x.op.edits[i]
  BY <1>1, EditOfPath
<1>3. f \notin x.touched  BY DEF FileOK, Knows
<1>4. Fit(p, x, i, files[f])  BY <1>1, <1>2, <1>3, Facts DEF Fits
<1>5. Passed(x, f) <=> i < x.next  BY <1>1, <1>2, EditsOf DEF Passed
<1>6. p \in Editors => OfEditor(x, entries[x.id], history[x.id])  BY Facts DEF Linked
<1>7. QED BY <1>2, <1>3, <1>4, <1>5, <1>6 DEF Was, OfEditor, Working

\* A call commits, or an operation is undone: for the file that is the last thing
\* that was done.
LEMMA LogStep ==
  ASSUME NEW f, FileOK(f), NEW p \in Procs, NEW to, Apart(p, to, f), ~Using(to, f),
         files'[f] = files[f], Left(p, proc[p], f), Links(f)', NEW c, c = files[f], OnTop(f, c)',
         \A j \in Undoable(f)' : j \in Undoable(f) \/ (p \in Editors /\ j = proc[p].id),
         \A q \in Undoers \cap Procs : Using(proc[q], f) /\ proc[q].id \notin Undoable(f)' =>
           proc[q].id \notin Undoable(f) \/ c = Was(proc[q].op, f)
  PROVE  FileOK(f)'
<1>1. ASSUME NEW q \in Procs PROVE Knows(q, proc[q], f)'
  <2>1. PICK x, y : x = proc[q] /\ y = proc'[q]  OBVIOUS
  <2>2. CASE q = p
    <3>1. ~Using(y, f)'  BY <2>1, <2>2 DEF Apart, Using, PathsOf
    <3>2. QED BY <2>1, <3>1 DEF Knows
  <2>3. CASE q # p
    <3>1. Like(y, x, f)  BY <2>1, <2>3 DEF Apart
    <3>2. Knows(q, y, f)  BY <2>1, <3>1, AlikeKnow DEF FileOK
    <3>3. Came(p, proc[p], q, y, f)  BY <2>1, <2>3, <3>1, AlikeKnow DEF FileOK
    <3>4. ASSUME Using(y, f)
          PROVE  /\ f \notin y.touched
                 /\ q \in Editors =>
                      /\ Working(y) => \A j \in Undoable(f)' : j < y.id
                      /\ Wrote(y, f) \/ Owes(y, f) => c = Was(y.op, f)
                 /\ q \in Undoers /\ ~Doomed(y) /\ y.id \notin Undoable(f)' => c = Was(y.op, f)
      <4>1. ASSUME q \in Editors, Working(y)
            PROVE  c = Was(y.op, f) /\ (p \in Editors => proc[p].id < y.id)
        BY <3>3, <3>4, <4>1 DEF Came
      <4>2. Wrote(y, f) \/ Owes(y, f) => Working(y)  BY DEF Wrote, Owes, Working
      <4>3. ASSUME q \in Editors, Working(y), NEW j \in Undoable(f)' PROVE j < y.id
        BY <3>2, <3>4, <4>1, <4>3 DEF Knows
      <4>4. ASSUME q \in Undoers, ~Doomed(y), y.id \notin Undoable(f)' PROVE c = Was(y.op, f)
        <5>1. Using(x, f) /\ x.id = y.id /\ x.op = y.op  BY <3>1, <3>4, AlikeKnow DEF Like
        <5>2. y.id \notin Undoable(f) \/ c = Was(y.op, f)  BY <2>1, <4>4, <5>1
        <5>3. QED BY <3>2, <3>4, <4>4, <5>2 DEF Knows
      <4>5. QED BY <3>2, <3>4, <4>1, <4>2, <4>3, <4>4 DEF Knows
    <3>5. PICK w : w = Was(y.op, f)  OBVIOUS
    <3>6. w = Was(y.op, f)'  BY <3>5 DEF Was, Before, EditOf
    <3>7. c = w => OnTop(f, w)'  OBVIOUS
    <3>8. (Using(y, f)' <=> Using(y, f)) /\ (Working(y)' <=> Working(y)) /\ (Doomed(y)' <=> Doomed(y))
          /\ (Wrote(y, f)' <=> Wrote(y, f)) /\ (Owes(y, f)' <=> Owes(y, f))
      BY DEF Using, Working, Doomed, Wrote, Passed, Owes, PathsOf
    <3>9. Knows(q, y, f)'
      BY <3>4, <3>5, <3>6, <3>7, <3>8 DEF Knows
    <3>10. QED BY <2>1, <3>9
  <2>4. QED BY <2>2, <2>3
<1>2. ASSUME NEW q \in Procs, NEW r \in Procs, q # r PROVE Came(q, proc[q], r, proc[r], f)'
  <2>1. PICK y, z : y = proc'[q] /\ z = proc'[r]  OBVIOUS
  <2>2. Came(q, y, r, z, f)
    <3>1. CASE q = p
      <4>1. ~Using(y, f)  BY <2>1, <3>1 DEF Apart
      <4>2. QED BY <4>1 DEF Came, Left
    <3>2. CASE r = p
      <4>1. ~Using(z, f)  BY <2>1, <3>2 DEF Apart
      <4>2. QED BY <4>1 DEF Came
    <3>3. CASE q # p /\ r # p
      <4>1. PICK a, b : a = proc[q] /\ b = proc[r]  OBVIOUS
      <4>2. Like(y, a, f) /\ Like(z, b, f)  BY <2>1, <3>3, <4>1 DEF Apart
      <4>3. Came(q, a, r, b, f)  BY <1>2, <4>1 DEF FileOK
      <4>4. Came(q, a, r, z, f)  BY <4>2, <4>3, AlikeKnow
      <4>5. QED BY <4>2, <4>4, AlikeKnow
    <3>4. QED BY <3>1, <3>2, <3>3
  <2>3. Came(q, y, r, z, f)'
    BY <2>2 DEF Came, Left, Using, Wrote, Passed, PutBack, Working, PathsOf, Was, Before, EditOf
  <2>4. QED BY <2>1, <2>3
<1>3. Settled(f)'
  <2>1. c = files'[f]  OBVIOUS
  <2>2. QED BY <2>1 DEF Settled
<1>4. QED BY <1>1, <1>2, <1>3 DEF FileOK

\* The process has not come to the file yet, or is done with it, and stops.
LEMMA StopFile ==
  ASSUME FilesInv, NEW p \in Procs, Goes(p, Idle), UNCHANGED files,
         NEW f, FileOK(f), SameLog(f), ~Unsettles(p, proc[p], f)
  PROVE  FileOK(f)'
<1>1. Apart(p, Idle, f)  BY GoesApart
<1>2. ~Using(Idle, f)  BY DEF Using, Idle
<1>3. QED BY <1>1, <1>2, AwayStep

LEMMA PlanFile ==
  ASSUME FilesInv, NEW e \in Editors, Plan(e), NEW f, FileOK(f)
  PROVE  FileOK(f)'
<1>1. e \in Procs /\ e \notin Undoers  BY Roles
<1>2. PICK to : Goes(e, to) /\ to.at = "planned" /\ to.touched = {}
  <2>1. PICK edits : LET op == [edits |-> edits, before |-> NoStates, after |-> NoStates, status |-> "pending"]
                     IN Goes(e, [Idle EXCEPT !.at = "planned", !.op = op, !.initial = Held(op)])
    BY DEF Plan
  <2>2. PICK op : Goes(e, [Idle EXCEPT !.at = "planned", !.op = op, !.initial = Held(op)])  BY <2>1
  <2>3. PICK to : to = [Idle EXCEPT !.at = "planned", !.op = op, !.initial = Held(op)]  OBVIOUS
  <2>4. to.at = "planned" /\ to.touched = {}  BY <2>3 DEF Idle
  <2>5. QED BY <2>2, <2>3, <2>4
<1>3. Apart(e, to, f) /\ SameLog(f) /\ files'[f] = files[f]
  BY <1>1, <1>2, GoesApart, LogAsIs DEF Plan
<1>4. ~Wrote(to, f) /\ ~Owes(to, f) /\ ~Working(to) /\ ~Left(e, to, f)
  BY <1>1, <1>2 DEF Wrote, Owes, Working, Left
<1>5. Knows(e, to, f)  BY <1>1, <1>2, <1>4 DEF Knows
<1>6. ~Unsettles(e, proc[e], f)  BY DEF Plan, Unsettles, Using
<1>7. \A q \in Procs : Came(q, proc[q], e, to, f) /\ Came(e, to, q, proc[q], f)
  BY <1>4 DEF Came
<1>8. QED BY <1>1, <1>3, <1>5, <1>6, <1>7, KeepStep

LEMMA BeginFile ==
  ASSUME FilesInv, FilesTyped, NEW e \in Editors, Begin(e), NEW f, FileOK(f)
  PROVE  FileOK(f)'
<1>1. PICK x : x = proc[e]  OBVIOUS
<1>2. e \in Procs /\ e \notin Undoers /\ Record(x) /\ x.at = "planned" /\ Shape(e, x) /\ OpOK(x.op)
  BY <1>1, Facts, Roles DEF Begin, Shape
<1>3. PICK op : op = [x.op EXCEPT !.before = Held(x.op)]  OBVIOUS
<1>4. OpOK(op) /\ op.edits = x.op.edits /\ op.before = Held(x.op) /\ op.status = "pending"
  BY <1>2, <1>3 DEF Shape, OpOK, OpParts
<1>5. PICK to : to = [x EXCEPT !.at = "writing", !.id = Len(entries) + 1, !.op = op]  OBVIOUS
<1>6. to.at = "writing" /\ to.id = Len(entries) + 1 /\ to.op = op /\ to.next = 1 /\ to.touched = x.touched
  BY <1>2, <1>5 DEF Record, Parts, Shape
<1>7. Goes(e, to) /\ entries' = Append(entries, op) /\ UNCHANGED files
  BY <1>1, <1>3, <1>5 DEF Begin
<1>8. Apart(e, to, f)  BY <1>2, <1>7, GoesApart
<1>9. SameLog(f)
  <2>1. PICK S : entries \in Seq(S)  BY DEF FilesInv, StoreOK
  <2>2. /\ DOMAIN entries' = DOMAIN entries \cup {Len(entries) + 1} /\ entries'[Len(entries) + 1] = op
        /\ \A i \in DOMAIN entries : entries'[i] = entries[i]
    BY <1>7, <2>1
  <2>3. \A i : i \in Undoable(f)' <=> i \in Undoable(f)
    BY <1>4, <2>2 DEF Undoable, Chosen, PathsOf
  <2>4. Undoable(f)' = Undoable(f)  BY <2>3
  <2>5. QED BY <2>2, <2>4 DEF SameLog, Undoable
<1>10. Using(to, f) <=> Using(x, f)
  BY <1>2, <1>4, <1>6 DEF Using, PathsOf
<1>11. ASSUME Using(x, f) PROVE ~Wrote(to, f) /\ Was(to.op, f) = files[f]
  <2>1. PICK i \in DOMAIN x.op.edits :
          /\ x.op.edits[i].path = f /\ EditOf(x.op, f) = x.op.edits[i] /\ Fit(e, x, i, files[f])
          /\ x.op.edits[i].type = "add" => x.initial[f] = Absent
    BY <1>1, <1>2, <1>11, AtFile
  <2>2. files[f] = x.initial[f]  BY <1>2, <2>1 DEF Fit
  <2>3. f \in PathsOf(op) /\ op.before[f] = files[f] /\ EditOf(op, f) = x.op.edits[i]
    <3>1. f \in PathsOf(x.op) /\ PathsOf(x.op) \subseteq Paths  BY <1>2, <1>11, EditsOf DEF Using
    <3>2. QED BY <1>4, <2>1, <3>1 DEF Held, PathsOf, EditOf
  <2>4. Was(op, f) = files[f]  BY <2>1, <2>2, <2>3 DEF Was, Before
  <2>5. \A j \in DOMAIN op.edits : ~(j < 1)  BY <1>4, EditsOf
  <2>6. QED BY <1>6, <2>4, <2>5 DEF Wrote, Passed
<1>12. ~Owes(to, f)  BY <1>6 DEF Owes
<1>13. \A j \in DOMAIN entries : j < to.id  BY <1>6, Numbered
<1>14. Knows(e, to, f)
  <2>1. Using(to, f) => f \notin to.touched  BY <1>1, <1>2, <1>6, <1>10 DEF FileOK, Knows
  <2>2. QED BY <1>2, <1>10, <1>11, <1>12, <1>13, <2>1, Numbered DEF Knows
<1>15. ~Unsettles(e, x, f)
  BY <1>2 DEF Unsettles, Wrote, Owes, Doomed
<1>16. ASSUME NEW q \in Procs, q # e PROVE Came(q, proc[q], e, to, f) /\ Came(e, to, q, proc[q], f)
  <2>1. Left(q, proc[q], f) => Working(proc[q])  BY DEF Left, Wrote, PutBack, Working
  <2>2. Working(proc[q]) => proc[q].id \in DOMAIN entries  BY Facts DEF Linked, Working
  <2>3. Came(q, proc[q], e, to, f)  BY <1>10, <1>11, <1>13, <2>1, <2>2 DEF Came
  <2>4. ~Left(e, to, f)  BY <1>2, <1>10, <1>11 DEF Left
  <2>5. QED BY <2>3, <2>4 DEF Came
<1>17. QED BY <1>1, <1>2, <1>7, <1>8, <1>9, <1>14, <1>15, <1>16, KeepStep

LEMMA BeginFailsFile ==
  ASSUME FilesInv, NEW e \in Editors, BeginFails(e), NEW f, FileOK(f)
  PROVE  FileOK(f)'
<1>1. e \in Procs /\ e \notin Undoers /\ SameLog(f) /\ Goes(e, Idle) /\ UNCHANGED files
  BY Roles, LogAsIs DEF BeginFails
<1>2. ~Unsettles(e, proc[e], f)
  BY <1>1 DEF BeginFails, Unsettles, Wrote, Owes, Doomed
<1>3. QED BY <1>1, <1>2, StopFile

\* A call fails, or its files are hashed; no file is written.
LEMMA CallFile ==
  ASSUME FilesInv, FilesTyped, NEW e \in Editors,
         DeleteFails(e) \/ CommitFails(e) \/ Hash(e) \/ SnapshotFails(e), NEW f, FileOK(f)
  PROVE  FileOK(f)'
<1>1. PICK x : x = proc[e]  OBVIOUS
<1>2. e \in Procs /\ e \notin Undoers /\ Record(x) /\ Shape(e, x) /\ SameLog(f) /\ UNCHANGED files
  BY <1>1, Facts, Roles, LogAsIs DEF DeleteFails, CommitFails, Hash, SnapshotFails
<1>3. x.at \in {"writing", "hashing", "committing", "aborting"}
  BY <1>1 DEF DeleteFails, CommitFails, Hash, SnapshotFails
<1>4. OpOK(x.op) /\ Working(x)  BY <1>2, <1>3 DEF Shape, Working
<1>5. CASE DeleteFails(e) \/ CommitFails(e)
  <2>1. PICK to : to = [x EXCEPT !.at = "aborting"]  OBVIOUS
  <2>2. Goes(e, to) /\ x.at \in {"writing", "hashing", "committing"}
    BY <1>1, <1>5, <2>1 DEF DeleteFails, CommitFails
  <2>3. /\ to.at = "aborting" /\ to.id = x.id /\ to.op = x.op /\ to.next = x.next
        /\ to.touched = x.touched /\ to.outcome = x.outcome
    BY <1>2, <2>1 DEF Record, Parts
  <2>4. ~Wrote(to, f) /\ ~PutBack(to, f) /\ ~Doomed(x) /\ Working(to) /\ Owes(to, f)
    BY <2>2, <2>3 DEF Wrote, PutBack, Doomed, Working, Owes
  <2>5. ASSUME f \in PathsOf(x.op) PROVE Wrote(x, f) \/ files[f] = Was(x.op, f)
    <3>1. Using(x, f)  BY <2>2, <2>5 DEF Using
    <3>2. PICK i : /\ Fit(e, x, i, files[f]) /\ (Passed(x, f) <=> i < x.next)
                   /\ x.op.edits[i].path = f /\ Was(x.op, f) = x.initial[f]
      BY <1>1, <1>2, <1>4, <3>1, AtFile
    <3>3. QED BY <2>2, <3>2 DEF Wrote, Fit
  <2>6. QED BY <1>1, <1>2, <1>4, <2>2, <2>3, <2>4, <2>5, GoesApart, Onwards
<1>6. CASE Hash(e)
  <2>1. PICK op : op = [x.op EXCEPT !.after = Held(x.op)]  OBVIOUS
  <2>2. PICK to : to = [x EXCEPT !.at = "committing", !.op = op]  OBVIOUS
  <2>3. x.at = "hashing" /\ Goes(e, to)
    BY <1>1, <1>2, <1>4, <1>6, <2>1, <2>2 DEF Hash, Record, Parts, OpOK, OpParts
  <2>4. op.edits = x.op.edits /\ op.before = x.op.before
    BY <1>4, <2>1 DEF OpOK, OpParts
  <2>5. PathsOf(op) = PathsOf(x.op) /\ Was(op, f) = Was(x.op, f)
    BY <2>4 DEF PathsOf, Was, Before, EditOf
  <2>6. to.at = "committing" /\ to.id = x.id /\ to.op = op /\ to.touched = x.touched
    BY <1>2, <2>2 DEF Record, Parts
  <2>7. Wrote(x, f) /\ Wrote(to, f) /\ ~PutBack(to, f) /\ ~Doomed(x) /\ Working(to) /\ ~Owes(to, f)
    BY <2>3, <2>6 DEF Wrote, PutBack, Doomed, Working, Owes
  <2>8. QED BY <1>1, <1>2, <1>4, <2>3, <2>5, <2>6, <2>7, GoesApart, Onwards
<1>7. CASE SnapshotFails(e)
  <2>1. PICK to : to = [x EXCEPT !.at = "closing", !.outcome = "rollback_failed", !.left = PathsOf(x.op)]
    OBVIOUS
  <2>2. x.at = "aborting" /\ Goes(e, to)  BY <1>1, <1>7, <2>1 DEF SnapshotFails
  <2>3. to.at = "closing" /\ to.outcome = "rollback_failed" /\ to.id = x.id /\ to.op = x.op /\ to.touched = x.touched
    BY <1>2, <2>1 DEF Record, Parts
  <2>4. ~Wrote(to, f) /\ ~PutBack(to, f) /\ ~Doomed(x) /\ Working(to) /\ ~Owes(to, f) /\ Doomed(to)
    BY <2>2, <2>3 DEF Wrote, PutBack, Doomed, Working, Owes
  <2>5. QED BY <1>1, <1>2, <1>4, <2>2, <2>3, <2>4, GoesApart, Onwards
<1>8. QED BY <1>5, <1>6, <1>7

\* What a write of p says of the file f.
LEMMA WriteSees ==
  ASSUME FilesInv, NEW p \in Procs, NEW g \in Paths, NEW c, NEW to, Writes(p, g, c, to), UNCHANGED entries,
         spoilt' = spoilt \cup Shared(p, g), NEW f \in Paths \ spoilt'
  PROVE  /\ Apart(p, to, f) /\ SameLog(f)
         /\ f = g => files'[f] = c /\ \A q \in Procs \ {p} : ~Using(proc[q], f)
         /\ f # g => files'[f] = files[f]
  BY WritesApart, LogAsIs

\* The file is as the last operation left it, unless p keeps it from being so.
LEMMA AloneSettled ==
  ASSUME NEW f, FileOK(f), NEW p \in Procs, \A q \in Procs \ {p} : ~Using(proc[q], f),
         ~Unsettles(p, proc[p], f), NEW c, c = files[f]
  PROVE  OnTop(f, c)
  BY DEF FileOK, Settled, Unsettles

LEMMA WriteEditFile ==
  ASSUME FilesInv, FilesTyped, NEW e \in Editors, WriteEdit(e), NEW f \in Paths \ spoilt', FileOK(f)
  PROVE  FileOK(f)'
<1>1. PICK x, edit, to : x = proc[e] /\ edit = NextEdit(e) /\ to = Written(e)  OBVIOUS
<1>2. /\ e \in Procs /\ e \notin Undoers /\ Record(x) /\ Shape(e, x) /\ x.at = "writing"
      /\ Writes(e, edit.path, edit.new, to) /\ UNCHANGED entries /\ spoilt' = spoilt \cup Shared(e, edit.path)
  BY <1>1, Facts, Roles DEF WriteEdit
<1>3. OpOK(x.op) /\ x.next \in 1 .. Len(x.op.edits) /\ Working(x) /\ ~Doomed(x)
  BY <1>2 DEF Shape, Working, Doomed
<1>4. /\ DOMAIN x.op.edits = 1 .. Len(x.op.edits) /\ Len(x.op.edits) \in Nat
      /\ edit = x.op.edits[x.next] /\ edit.path \in Paths /\ edit.path \in PathsOf(x.op)
      /\ \A i \in DOMAIN x.op.edits : x.op.edits[i].path = edit.path => i = x.next
  BY <1>1, <1>3, EditsOf DEF NextEdit
<1>5. /\ to.id = x.id /\ to.op = x.op /\ to.touched = x.touched
      /\ \/ to.at = "hashing" /\ x.next = Len(x.op.edits)
         \/ to.at = "writing" /\ to.next = x.next + 1
  BY <1>1, <1>2 DEF Written, OnLast, Record, Parts
<1>6. ~PutBack(to, f) /\ ~Doomed(to) /\ ~Owes(to, f) /\ ~Owes(x, f) /\ Working(to)
  BY <1>2, <1>5 DEF PutBack, Doomed, Owes, Working
<1>7. /\ Apart(e, to, f) /\ SameLog(f)
      /\ f = edit.path => files'[f] = edit.new /\ \A q \in Procs \ {e} : ~Using(proc[q], f)
      /\ f # edit.path => files'[f] = files[f]
  BY <1>2, <1>4, WriteSees
<1>8. CASE f = edit.path
  <2>1. Using(x, f) /\ Using(to, f)  BY <1>2, <1>4, <1>5, <1>8 DEF Using
  <2>2. PICK i \in DOMAIN x.op.edits : /\ x.op.edits[i].path = f /\ Fit(e, x, i, files[f])
                                       /\ (Passed(x, f) <=> i < x.next) /\ Was(x.op, f) = x.initial[f]
    BY <1>1, <1>2, <1>3, <2>1, AtFile
  <2>3. i = x.next  BY <1>4, <1>8, <2>2
  <2>4. ~Passed(x, f) /\ files[f] = Was(x.op, f)  BY <1>2, <1>3, <2>2, <2>3 DEF Fit
  <2>5. ~Unsettles(e, x, f)  BY <1>2, <1>3, <1>6, <2>4 DEF Unsettles, Wrote
  <2>6. OnTop(f, Was(x.op, f))  BY <1>1, <1>2, <1>7, <1>8, <2>4, <2>5, AloneSettled
  <2>7. Wrote(to, f)
    <3>1. to.at = "writing" => i < to.next  BY <1>3, <1>5, <2>3
    <3>2. QED BY <1>5, <2>2, <3>1 DEF Wrote, Passed
  <2>8. Unsettles(e, to, f)  BY <1>5, <2>1, <2>6, <2>7 DEF Unsettles
  <2>9. Knows(e, x, f)  BY <1>1, <1>2 DEF FileOK
  <2>10. f \notin to.touched /\ \A j \in Undoable(f) : j < to.id
    BY <1>3, <1>5, <2>1, <2>9 DEF Knows
  <2>11. PICK c : c = edit.new  OBVIOUS
  <2>12. QED BY <1>2, <1>5, <1>6, <1>7, <1>8, <2>6, <2>8, <2>10, <2>11, SoleStep
<1>9. CASE f # edit.path
  <2>1. f \in PathsOf(x.op) /\ Wrote(to, f) => Wrote(x, f)
    <3>1. SUFFICES ASSUME f \in PathsOf(x.op), Wrote(to, f) PROVE Passed(x, f)
      BY <1>2 DEF Wrote
    <3>2. PICK i \in DOMAIN x.op.edits : x.op.edits[i].path = f /\ (to.at = "writing" => i < to.next)
      BY <1>5, <3>1 DEF Wrote, Passed, PathsOf
    <3>3. i # x.next  BY <1>4, <1>9, <3>2
    <3>4. i < x.next  BY <1>3, <1>4, <1>5, <3>2, <3>3
    <3>5. QED BY <3>2, <3>4 DEF Passed
  <2>2. Wrote(x, f) => Wrote(to, f)
    <3>1. SUFFICES ASSUME Passed(x, f), to.at = "writing" PROVE Passed(to, f)
      BY <1>2, <1>5 DEF Wrote
    <3>2. PICK i \in DOMAIN x.op.edits : x.op.edits[i].path = f /\ i < x.next  BY <3>1 DEF Passed
    <3>3. i < to.next  BY <1>3, <1>4, <1>5, <3>1, <3>2
    <3>4. QED BY <1>5, <3>2, <3>3 DEF Passed
  <2>3. QED BY <1>1, <1>2, <1>3, <1>5, <1>6, <1>7, <1>9, <2>1, <2>2, Onwards
<1>10. QED BY <1>8, <1>9

LEMMA WriteFailsFile ==
  ASSUME FilesInv, FilesTyped, NEW e \in Editors, WriteFails(e), NEW f \in Paths \ spoilt', FileOK(f)
  PROVE  FileOK(f)'
<1>1. PICK x, edit : x = proc[e] /\ edit = NextEdit(e)  OBVIOUS
<1>2. PICK to : to = [x EXCEPT !.at = "aborting"]  OBVIOUS
<1>3. PICK c : Writes(e, edit.path, c, to)  BY <1>1, <1>2 DEF WriteFails
<1>4. /\ e \in Procs /\ e \notin Undoers /\ Record(x) /\ Shape(e, x) /\ x.at = "writing"
      /\ UNCHANGED entries /\ spoilt' = spoilt \cup Shared(e, edit.path)
  BY <1>1, Facts, Roles DEF WriteFails
<1>5. OpOK(x.op) /\ x.next \in 1 .. Len(x.op.edits) /\ Working(x) /\ ~Doomed(x) /\ ~Owes(x, f)
  BY <1>4 DEF Shape, Working, Doomed, Owes
<1>6. /\ DOMAIN x.op.edits = 1 .. Len(x.op.edits) /\ Len(x.op.edits) \in Nat
      /\ edit = x.op.edits[x.next] /\ edit.path \in Paths /\ edit.path \in PathsOf(x.op)
      /\ \A i \in DOMAIN x.op.edits : x.op.edits[i].path = edit.path => i = x.next
  BY <1>1, <1>5, EditsOf DEF NextEdit
<1>7. to.at = "aborting" /\ to.id = x.id /\ to.op = x.op /\ to.touched = x.touched
  BY <1>2, <1>4 DEF Record, Parts
<1>8. ~PutBack(to, f) /\ ~Doomed(to) /\ Owes(to, f) /\ ~Wrote(to, f) /\ Working(to)
  BY <1>7 DEF PutBack, Doomed, Owes, Wrote, Working
<1>9. /\ Apart(e, to, f) /\ SameLog(f)
      /\ f = edit.path => files'[f] = c /\ \A q \in Procs \ {e} : ~Using(proc[q], f)
      /\ f # edit.path => files'[f] = files[f]
  BY <1>3, <1>4, <1>6, WriteSees
<1>10. ASSUME Using(x, f)
       PROVE  /\ Wrote(x, f) \/ files[f] = Was(x.op, f)
              /\ f = edit.path => ~Wrote(x, f)
  <2>1. PICK i \in DOMAIN x.op.edits : /\ x.op.edits[i].path = f /\ Fit(e, x, i, files[f])
                                       /\ (Passed(x, f) <=> i < x.next) /\ Was(x.op, f) = x.initial[f]
    BY <1>1, <1>4, <1>5, <1>10, AtFile
  <2>2. f = edit.path => i = x.next  BY <1>6, <2>1
  <2>3. f = edit.path => ~Passed(x, f)  BY <1>5, <2>1, <2>2
  <2>4. QED BY <1>4, <2>1, <2>3 DEF Wrote, Fit
<1>11. CASE f = edit.path
  <2>1. Using(x, f) /\ Using(to, f)  BY <1>4, <1>6, <1>7, <1>11 DEF Using
  <2>2. ~Unsettles(e, x, f)  BY <1>4, <1>5, <1>10, <1>11, <2>1 DEF Unsettles
  <2>3. OnTop(f, Was(x.op, f))
    BY <1>1, <1>4, <1>9, <1>10, <1>11, <2>1, <2>2, AloneSettled
  <2>4. Unsettles(e, to, f)  BY <1>7, <1>8, <2>1, <2>3 DEF Unsettles
  <2>5. Knows(e, x, f)  BY <1>1, <1>4 DEF FileOK
  <2>6. f \notin to.touched /\ \A j \in Undoable(f) : j < to.id
    BY <1>5, <1>7, <2>1, <2>5 DEF Knows
  <2>7. QED BY <1>4, <1>7, <1>8, <1>9, <1>11, <2>3, <2>4, <2>6, SoleStep
<1>12. CASE f # edit.path
  <2>1. f \in PathsOf(x.op) => Using(x, f)  BY <1>4 DEF Using
  <2>2. QED BY <1>1, <1>4, <1>5, <1>7, <1>8, <1>9, <1>10, <1>12, <2>1, Onwards
<1>13. QED BY <1>11, <1>12

LEMMA RestoreFileFile ==
  ASSUME FilesInv, FilesTyped, NEW p \in Procs, RestoreFile(p), NEW f \in Paths \ spoilt', FileOK(f)
  PROVE  FileOK(f)'
<1>1. PICK x, edit, to : x = proc[p] /\ edit = NextEdit(p) /\ to = Restored(p)  OBVIOUS
<1>2. PICK c : c = Before(x.op, edit)  OBVIOUS
<1>3. /\ Record(x) /\ Shape(p, x) /\ x.at = "restoring" /\ Writes(p, edit.path, c, to)
      /\ UNCHANGED entries /\ spoilt' = spoilt \cup Shared(p, edit.path)
  BY <1>1, <1>2, Facts DEF RestoreFile
<1>4. /\ OpOK(x.op) /\ x.next \in 1 .. Len(x.op.edits) /\ Working(x) /\ ~Doomed(x) /\ ~Wrote(x, f)
      /\ Success(p) # "rollback_failed"
  BY <1>3 DEF Shape, Working, Doomed, Wrote, Success
<1>5. /\ DOMAIN x.op.edits = 1 .. Len(x.op.edits) /\ Len(x.op.edits) \in Nat
      /\ edit = x.op.edits[x.next] /\ edit.path \in Paths /\ edit.path \in PathsOf(x.op)
      /\ \A i \in DOMAIN x.op.edits : x.op.edits[i].path = edit.path => i = x.next
  BY <1>1, <1>4, EditsOf DEF NextEdit
<1>6. /\ to.id = x.id /\ to.op = x.op /\ to.touched = x.touched
      /\ \/ to.at = "closing" /\ to.outcome = Success(p) /\ x.next = Len(x.op.edits)
         \/ to.at = "restoring" /\ to.next = x.next + 1
  BY <1>1, <1>3 DEF Restored, OnLast, Record, Parts
<1>7. ~Doomed(to) /\ ~Wrote(to, f) /\ Working(to)
  BY <1>4, <1>6 DEF Doomed, Wrote, Working
<1>8. /\ Apart(p, to, f) /\ SameLog(f)
      /\ f = edit.path => files'[f] = c /\ \A q \in Procs \ {p} : ~Using(proc[q], f)
      /\ f # edit.path => files'[f] = files[f]
  BY <1>3, <1>5, WriteSees
<1>9. CASE f = edit.path
  <2>1. Using(x, f) /\ Using(to, f)  BY <1>3, <1>5, <1>6, <1>9 DEF Using
  <2>2. PICK i \in DOMAIN x.op.edits :
          /\ x.op.edits[i].path = f /\ Was(x.op, f) = Before(x.op, x.op.edits[i])
          /\ Passed(x, f) <=> i < x.next
    BY <1>1, <2>1, AtFile
  <2>3. i = x.next  BY <1>5, <1>9, <2>2
  <2>4. ~Passed(x, f) /\ c = Was(x.op, f)  BY <1>2, <1>4, <1>5, <2>2, <2>3
  <2>5. PutBack(to, f) /\ ~Owes(to, f)
    <3>1. to.at = "restoring" => Passed(to, f)
      <4>1. to.at = "restoring" => i < to.next  BY <1>4, <1>6, <2>3
      <4>2. QED BY <1>6, <2>2, <4>1 DEF Passed
    <3>2. QED BY <1>4, <1>6, <3>1 DEF PutBack, Owes
  <2>6. Knows(p, x, f) /\ f \notin to.touched /\ ~PutBack(x, f) /\ Owes(x, f)
    BY <1>1, <1>3, <1>6, <2>1, <2>4 DEF FileOK, Knows, PutBack, Owes
  <2>7. CASE p \in Editors
    <3>1. p \notin Undoers  BY <2>7, Roles
    <3>2. OnTop(f, c)
      <4>1. SUFFICES ASSUME ~OnTop(f, c) PROVE FALSE  OBVIOUS
      <4>2. files[f] = c  BY <2>1, <2>4, <2>6, <2>7, <4>1 DEF Knows
      <4>3. ~Unsettles(p, x, f)  BY <1>4, <2>4, <3>1, <4>1 DEF Unsettles
      <4>4. QED BY <1>1, <1>8, <1>9, <4>1, <4>2, <4>3, AloneSettled
    <3>3. \A j \in Undoable(f) : j < to.id  BY <1>4, <1>6, <2>1, <2>6, <2>7 DEF Knows
    <3>4. QED BY <1>7, <1>8, <1>9, <2>5, <2>6, <3>1, <3>2, <3>3, SoleStep
  <2>8. CASE p \in Undoers
    <3>1. p \notin Editors  BY <2>8, Roles
    <3>2. OnTop(f, c) \/ Unsettles(p, to, f)
      <4>1. CASE x.id \in Undoable(f)
        <5>1. x.id >= x.id  BY <4>1, Numbered
        <5>2. QED BY <1>6, <2>1, <2>5, <2>8, <4>1, <5>1 DEF Unsettles
      <4>2. CASE x.id \notin Undoable(f)
        <5>1. files[f] = c  BY <1>4, <2>1, <2>4, <2>6, <2>8, <4>2 DEF Knows
        <5>2. ~Unsettles(p, x, f)  BY <1>4, <2>6, <3>1 DEF Unsettles
        <5>3. QED BY <1>1, <1>8, <1>9, <5>1, <5>2, AloneSettled
      <4>3. QED BY <4>1, <4>2
    <3>3. c = Was(to.op, f)  BY <1>6, <2>4
    <3>4. QED BY <1>7, <1>8, <1>9, <2>6, <3>1, <3>2, <3>3, SoleStep
  <2>9. QED BY <2>7, <2>8 DEF Procs
<1>10. CASE f # edit.path
  <2>1. f \in PathsOf(x.op) => (Passed(x, f) <=> PutBack(to, f)) /\ (~Passed(x, f) <=> Owes(to, f))
    <3>1. SUFFICES ASSUME f \in PathsOf(x.op)
                   PROVE  (Passed(x, f) <=> PutBack(to, f)) /\ (~Passed(x, f) <=> Owes(to, f))
      OBVIOUS
    <3>2. PICK i \in DOMAIN x.op.edits : x.op.edits[i].path = f  BY <3>1 DEF PathsOf
    <3>3. \A j \in DOMAIN x.op.edits : x.op.edits[j].path = f => j = i  BY <1>4, <3>2, EditsOf
    <3>4. (Passed(x, f) <=> i < x.next) /\ (Passed(to, f) <=> i < to.next)
      BY <1>6, <3>2, <3>3 DEF Passed
    <3>5. i # x.next  BY <1>5, <1>10, <3>2
    <3>6. CASE to.at = "closing"
      <4>1. i < x.next  BY <1>4, <1>5, <1>6, <3>2, <3>5, <3>6
      <4>2. QED BY <1>4, <1>6, <3>4, <3>6, <4>1 DEF PutBack, Owes
    <3>7. CASE to.at = "restoring"
      <4>1. i < x.next <=> i < to.next  BY <1>4, <1>5, <1>6, <3>2, <3>5, <3>7
      <4>2. QED BY <3>4, <3>7, <4>1 DEF PutBack, Owes
    <3>8. QED BY <1>6, <3>6, <3>7
  <2>2. (PutBack(x, f) <=> Passed(x, f)) /\ (Owes(x, f) <=> ~Passed(x, f))
    BY <1>3 DEF PutBack, Owes
  <2>3. QED BY <1>1, <1>4, <1>6, <1>7, <1>8, <1>10, <2>1, <2>2, Onwards
<1>11. QED BY <1>9, <1>10

\* Putting a file back fails, or undoing that: from here on nothing is said of it.
LEMMA GoesWrong ==
  ASSUME FilesInv, NEW p \in Procs, NEW x, x = proc[p], Working(x), NEW to, Working(to), Doomed(to),
         to.id = x.id, to.op = x.op, to.touched = x.touched,
         NEW g \in PathsOf(x.op), g \in Paths, NEW c, Writes(p, g, c, to), UNCHANGED entries,
         spoilt' = spoilt \cup Shared(p, g), NEW f \in Paths \ spoilt', FileOK(f)
  PROVE  FileOK(f)'
<1>1. ~Wrote(to, f) /\ ~PutBack(to, f) /\ ~Owes(to, f)
  BY DEF Doomed, Wrote, PutBack, Owes
<1>2. /\ Apart(p, to, f) /\ SameLog(f)
      /\ f = g => files'[f] = c /\ \A q \in Procs \ {p} : ~Using(proc[q], f)
      /\ f # g => files'[f] = files[f]
  BY WriteSees
<1>3. CASE f = g
  <2>1. Using(x, f) /\ Using(to, f) /\ Unsettles(p, to, f)
    BY <1>3 DEF Using, Working, Unsettles
  <2>2. Knows(p, x, f)  BY DEF FileOK
  <2>3. f \notin to.touched /\ (p \in Editors => \A j \in Undoable(f) : j < to.id)
    BY <2>1, <2>2 DEF Knows
  <2>4. QED BY <1>1, <1>2, <1>3, <2>1, <2>3, SoleStep
<1>4. CASE f # g
  BY <1>1, <1>2, <1>4, Onwards
<1>5. QED BY <1>3, <1>4

LEMMA FailedFile ==
  ASSUME FilesInv, FilesTyped, NEW p \in Procs,
         RestoreFails(p) \/ \E g \in Paths : Revert(p, g) \/ RevertFails(p, g),
         NEW f \in Paths \ spoilt', FileOK(f)
  PROVE  FileOK(f)'
<1>1. PICK x : x = proc[p]  OBVIOUS
<1>2. /\ Record(x) /\ Shape(p, x) /\ Typed(x) /\ x.at \in {"restoring", "reverting"}
      /\ UNCHANGED entries
  BY <1>1, Facts DEF FilesTyped, RestoreFails, Revert, RevertFails
<1>3. OpOK(x.op) /\ Working(x) /\ PathsOf(x.op) \subseteq Paths
  BY <1>2, EditsOf DEF Shape, Working
<1>4. CASE RestoreFails(p)
  <2>1. PICK g : g = NextEdit(p).path  OBVIOUS
  <2>2. PICK to : to = [x EXCEPT !.at = "reverting", !.outcome = "rollback_failed", !.left = PathsOf(x.op)]
    OBVIOUS
  <2>3. PICK c : Writes(p, g, c, to)  BY <1>1, <1>4, <2>1, <2>2 DEF RestoreFails
  <2>4. x.next \in 1 .. Len(x.op.edits)  BY <1>1, <1>2, <1>4 DEF RestoreFails, Shape
  <2>5. g \in PathsOf(x.op)  BY <1>1, <1>3, <2>1, <2>4, EditsOf DEF NextEdit
  <2>6. to.at = "reverting" /\ to.id = x.id /\ to.op = x.op /\ to.touched = x.touched
    BY <1>2, <2>2 DEF Record, Parts
  <2>7. Working(to) /\ Doomed(to)  BY <2>6 DEF Working, Doomed
  <2>8. spoilt' = spoilt \cup Shared(p, g)  BY <1>4, <2>1 DEF RestoreFails
  <2>9. QED BY <1>1, <1>2, <1>3, <2>3, <2>5, <2>6, <2>7, <2>8, GoesWrong
<1>5. ASSUME NEW g \in Paths, Revert(p, g) \/ RevertFails(p, g) PROVE FileOK(f)'
  <2>1. /\ x.at = "reverting" /\ g \in x.left /\ g \in PathsOf(x.op) /\ x.outcome = "rollback_failed"
        /\ spoilt' = spoilt \cup Shared(p, g)
    BY <1>1, <1>2, <1>5 DEF Revert, RevertFails, Typed, Shape
  <2>2. PICK c, to : /\ Writes(p, g, c, to) /\ to.at \in {"reverting", "closing"} /\ to.outcome = x.outcome
                     /\ to.id = x.id /\ to.op = x.op /\ to.touched = x.touched
    <3>1. CASE Revert(p, g)
      <4>1. PICK to : to = [x EXCEPT !.left = x.left \ {g},
                                     !.at = IF x.left = {g} THEN "closing" ELSE "reverting"]
        OBVIOUS
      <4>2. /\ to.at \in {"closing", "reverting"} /\ to.op = x.op /\ to.id = x.id
            /\ to.touched = x.touched /\ to.outcome = x.outcome
        BY <1>2, <4>1 DEF Record, Parts
      <4>3. QED BY <1>1, <3>1, <4>1, <4>2 DEF Revert
    <3>2. CASE RevertFails(p, g)
      <4>1. PICK to : to = [x EXCEPT !.at = "closing"]  OBVIOUS
      <4>2. /\ to.at = "closing" /\ to.op = x.op /\ to.id = x.id
            /\ to.touched = x.touched /\ to.outcome = x.outcome
        BY <1>2, <4>1 DEF Record, Parts
      <4>3. QED BY <1>1, <3>2, <4>1, <4>2 DEF RevertFails
    <3>3. QED BY <1>5, <3>1, <3>2
  <2>3. Working(to) /\ Doomed(to)  BY <2>1, <2>2 DEF Working, Doomed
  <2>4. QED BY <1>1, <1>2, <1>3, <2>1, <2>2, <2>3, GoesWrong
<1>6. QED BY <1>4, <1>5

LEMMA UndoerFile ==
  ASSUME FilesInv, FilesTyped, Loaded, NEW u \in Undoers, UndoerStep(u),
         NEW f \in Paths \ spoilt', FileOK(f)
  PROVE  FileOK(f)'
<1>1. PICK x : x = proc[u]  OBVIOUS
<1>2. u \in Procs /\ u \notin Editors /\ Record(x) /\ Shape(u, x) /\ UNCHANGED files
  BY <1>1, Facts, Roles DEF UndoerStep, Rollback, Check, Blocked
<1>3. CASE Rollback(u)
  <2>1. PICK id \in DOMAIN entries :
          Chosen(id) /\ Goes(u, [Idle EXCEPT !.at = "checking", !.id = id, !.op = entries[id]])
    BY <1>3 DEF Rollback
  <2>2. PICK to : to = [Idle EXCEPT !.at = "checking", !.id = id, !.op = entries[id]]  OBVIOUS
  <2>3. to.at = "checking" /\ to.id = id /\ to.op = entries[id] /\ to.touched = {}  BY <2>2 DEF Idle
  <2>4. Apart(u, to, f) /\ SameLog(f)  BY <1>2, <1>3, <2>1, <2>2, GoesApart, LogAsIs DEF Rollback
  <2>5. f \in PathsOf(to.op) => id \in Undoable(f)  BY <2>1, <2>3 DEF Undoable
  <2>6. Knows(u, to, f)  BY <1>2, <2>3, <2>5 DEF Knows, Using
  <2>7. ~Left(u, to, f)  BY <1>2, <2>3 DEF Left, PutBack
  <2>8. \A q \in Procs : Came(q, proc[q], u, to, f) /\ Came(u, to, q, proc[q], f)
    BY <1>2, <2>7 DEF Came
  <2>9. ~Unsettles(u, proc[u], f)  BY <1>3 DEF Rollback, Unsettles, Using
  <2>10. QED BY <1>2, <2>4, <2>6, <2>8, <2>9, KeepStep
<1>4. CASE Check(u)
  <2>1. PICK to : to = [x EXCEPT !.at = "checked"]  OBVIOUS
  <2>2. Goes(u, to) /\ x.at = "checking" /\ SameLog(f)  BY <1>1, <1>4, <2>1, LogAsIs DEF Check
  <2>3. to.at = "checked" /\ to.id = x.id /\ to.op = x.op /\ to.touched = x.touched
    BY <1>2, <2>1 DEF Record, Parts
  <2>4. /\ ~Wrote(to, f) /\ ~PutBack(to, f) /\ ~PutBack(x, f) /\ ~Doomed(x)
        /\ Working(x) /\ Working(to)
    BY <2>2, <2>3 DEF Wrote, PutBack, Doomed, Working
  <2>5. QED BY <1>1, <1>2, <2>2, <2>3, <2>4, GoesApart, Onwards
<1>5. CASE Blocked(u)
  <2>1. x.at \in {"checking", "checked"} /\ Goes(u, Idle) /\ entries' = [entries EXCEPT ![x.id] = x.op]
        /\ spoilt' = spoilt \cup Revives(u)
    BY <1>1, <1>5 DEF Blocked
  <2>2. /\ x.id \in DOMAIN entries /\ OpOK(x.op) /\ x.op.status = "committed"
        /\ SameOp(x.op, entries[x.id]) /\ OpOK(entries[x.id])
    BY <1>1, <1>2, <2>1, Facts DEF Shape, Linked, OfUndoer, Loaded, FilesInv, StoreOK
  <2>3. SameLog(f)
    <3>1. CASE Chosen(x.id)
      <4>1. entries[x.id].status = "committed"  BY <3>1 DEF Chosen
      <4>2. x.op = entries[x.id]
        <5>1. \A k \in OpParts : x.op[k] = entries[x.id][k]  BY <2>2, <4>1 DEF SameOp, OpParts
        <5>2. x.op = [k \in OpParts |-> x.op[k]] /\ entries[x.id] = [k \in OpParts |-> entries[x.id][k]]
          BY <2>2 DEF OpOK
        <5>3. QED BY <5>1, <5>2
      <4>3. entries = [i \in DOMAIN entries |-> entries[i]]
        <5>1. PICK S : entries \in Seq(S)  BY DEF FilesInv, StoreOK
        <5>2. QED BY <5>1
      <4>4. entries' = entries  BY <2>1, <2>2, <4>2, <4>3
      <4>5. QED BY <4>4, LogAsIs
    <3>2. CASE ~Chosen(x.id)
      <4>1. f \notin PathsOf(x.op)  BY <1>1, <2>1, <3>2 DEF Revives
      <4>2. x.id \notin Undoable(f)  BY <3>2 DEF Undoable
      <4>3. QED BY <2>1, <2>2, <4>1, <4>2, LogStays
    <3>3. QED BY <3>1, <3>2
  <2>4. ~Unsettles(u, x, f)  BY <1>2, <2>1 DEF Unsettles, Doomed, PutBack
  <2>5. QED BY <1>1, <1>2, <2>1, <2>3, <2>4, StopFile
<1>6. QED BY <1>3, <1>4, <1>5 DEF UndoerStep

LEMMA SnapshotFile ==
  ASSUME FilesInv, NEW p \in Procs, Snapshot(p), NEW f, FileOK(f)
  PROVE  FileOK(f)'
<1>1. PICK x : x = proc[p]  OBVIOUS
<1>2. PICK to : to = [x EXCEPT !.at = "restoring", !.next = 1, !.current = Held(x.op)]  OBVIOUS
<1>3. /\ Record(x) /\ Shape(p, x) /\ x.at \in {"aborting", "checked"} /\ Goes(p, to) /\ UNCHANGED files
      /\ SameLog(f)
  BY <1>1, <1>2, Facts, LogAsIs DEF Snapshot
<1>4. /\ to.at = "restoring" /\ to.next = 1 /\ to.id = x.id /\ to.op = x.op /\ to.touched = x.touched
  BY <1>2, <1>3 DEF Record, Parts
<1>5. OpOK(x.op) /\ Working(x) /\ Working(to)  BY <1>3, <1>4 DEF Shape, Working
<1>6. \A i \in DOMAIN x.op.edits : ~(i < 1)  BY <1>5, EditsOf
<1>7. ~Passed(to, f)  BY <1>4, <1>6 DEF Passed
<1>8. ~Wrote(to, f) /\ ~PutBack(to, f) /\ Owes(to, f) /\ ~Doomed(x) /\ ~PutBack(x, f)
  BY <1>3, <1>4, <1>7 DEF Wrote, PutBack, Owes, Doomed
<1>9. p \in Editors => Owes(x, f)  BY <1>3 DEF Shape, Owes
<1>10. QED BY <1>1, <1>3, <1>4, <1>5, <1>8, <1>9, GoesApart, Onwards

LEMMA CommitFile ==
  ASSUME FilesInv, FilesTyped, NEW e \in Editors, Commit(e), NEW f, FileOK(f)
  PROVE  FileOK(f)'
<1>1. PICK x, id : x = proc[e] /\ id = x.id  OBVIOUS
<1>2. PICK op : op = [x.op EXCEPT !.status = "committed"]  OBVIOUS
<1>3. /\ e \in Procs /\ e \notin Undoers /\ Shape(e, x) /\ Linked(e, x, entries, history)
      /\ x.at = "committing" /\ Goes(e, Idle) /\ UNCHANGED files
      /\ entries' = [entries EXCEPT ![id] = op]
  BY <1>1, <1>2, Facts, Roles DEF Commit
<1>4. id \in DOMAIN entries /\ entries[id].status = "pending" /\ OpOK(x.op) /\ Working(x)
  BY <1>1, <1>3 DEF Linked, OfEditor, Shape, Working
<1>5. OpOK(op) /\ op.edits = x.op.edits /\ op.before = x.op.before /\ op.after = x.op.after /\ op.status = "committed"
  BY <1>2, <1>4 DEF OpOK, OpParts
<1>6. id \notin Undoable(f) /\ PathsOf(op) = PathsOf(x.op) /\ Was(op, f) = Was(x.op, f)
  BY <1>4, <1>5 DEF Undoable, Chosen, PathsOf, Was, Before, EditOf
<1>7. CASE f \notin PathsOf(x.op)
  <2>1. SameLog(f)  BY <1>3, <1>4, <1>6, <1>7, LogStays
  <2>2. ~Unsettles(e, x, f)  BY <1>7 DEF Unsettles, Using
  <2>3. QED BY <1>1, <1>3, <2>1, <2>2, StopFile
<1>8. CASE f \in PathsOf(x.op)
  <2>1. Using(x, f) /\ Wrote(x, f) /\ Left(e, x, f)  BY <1>3, <1>8 DEF Using, Wrote, Left
  <2>2. PICK c : c = files[f]  OBVIOUS
  <2>3. op.after[f] = c
    <3>1. PICK i \in DOMAIN x.op.edits : x.op.edits[i].path = f /\ Fit(e, x, i, files[f])
      BY <1>1, <1>3, <2>1, AtFile
    <3>2. QED BY <1>3, <1>5, <2>2, <3>1 DEF Fit
  <2>4. Knows(e, x, f)  BY <1>1, <1>3 DEF FileOK
  <2>5. (\A j \in Undoable(f) : j < id) /\ OnTop(f, Was(op, f))
    BY <1>1, <1>3, <1>4, <1>6, <2>1, <2>4 DEF Knows
  <2>6. /\ DOMAIN entries' = DOMAIN entries /\ entries'[id] = op
        /\ \A i \in DOMAIN entries : i # id => entries'[i] = entries[i]
    BY <1>3, <1>4
  <2>7. \A i : i \in Undoable(f)' <=> i \in Undoable(f) \/ i = id
    BY <1>4, <1>5, <1>6, <1>8, <2>6 DEF Undoable, Chosen, PathsOf
  <2>8. \A i \in Undoable(f) : i \in Nat /\ i # id /\ entries'[i] = entries[i]
    BY <1>6, <2>6, Numbered DEF Undoable
  <2>9. id \in Nat  BY <1>4, Numbered
  <2>10. OnTop(f, c)'
    <3>1. SUFFICES ASSUME NEW n \in Undoable(f)', \A k \in Undoable(f)' : k <= n
                   PROVE  entries'[n].after[f] = c
      BY DEF OnTop
    <3>2. n = id  BY <2>5, <2>7, <2>8, <2>9, <3>1
    <3>3. QED BY <2>3, <2>6, <3>2
  <2>11. Links(f)'
    <3>1. SUFFICES ASSUME NEW i \in Undoable(f)', NEW j \in Undoable(f)', i < j,
                          \A k \in Undoable(f)' : k <= i \/ j <= k
                   PROVE  Was(entries'[j], f) = entries'[i].after[f]
      BY DEF Links, Was, Before, EditOf
    <3>2. i \in Undoable(f)  BY <2>5, <2>7, <2>8, <2>9, <3>1
    <3>3. entries'[i] = entries[i]  BY <2>8, <3>2
    <3>4. CASE j = id
      <4>1. \A k \in Undoable(f) : k <= i  BY <2>5, <2>7, <2>8, <2>9, <3>1, <3>4
      <4>2. entries[i].after[f] = Was(op, f)  BY <2>5, <3>2, <4>1 DEF OnTop
      <4>3. QED BY <2>6, <3>3, <3>4, <4>2
    <3>5. CASE j # id
      <4>1. j \in Undoable(f) /\ entries'[j] = entries[j]  BY <2>7, <2>8, <3>5
      <4>2. \A k \in Undoable(f) : k <= i \/ j <= k  BY <2>7, <3>1
      <4>3. Was(entries[j], f) = entries[i].after[f]  BY <3>1, <3>2, <4>1, <4>2 DEF FileOK, Links
      <4>4. QED BY <3>3, <4>1, <4>3
    <3>6. QED BY <3>4, <3>5
  <2>12. ~Using(Idle, f) /\ Apart(e, Idle, f)  BY <1>3, GoesApart DEF Using, Idle
  <2>13. \A j \in Undoable(f)' : j \in Undoable(f) \/ (e \in Editors /\ j = proc[e].id)
    BY <1>1, <2>7
  <2>14. \A q \in Undoers \cap Procs : Using(proc[q], f) /\ proc[q].id \notin Undoable(f)' =>
           proc[q].id \notin Undoable(f) \/ c = Was(proc[q].op, f)
    BY <2>7
  <2>15. QED BY <1>1, <1>3, <2>1, <2>2, <2>10, <2>11, <2>12, <2>13, <2>14, LogStep
<1>9. QED BY <1>7, <1>8

LEMMA CloseFile ==
  ASSUME FilesInv, FilesTyped, Loaded, NEW p \in Procs, Close(p), NEW f \in Paths \ spoilt', FileOK(f)
  PROVE  FileOK(f)'
<1>1. PICK x, id, op : x = proc[p] /\ id = x.id /\ op = Outcome(p)  OBVIOUS
<1>2. /\ Shape(p, x) /\ Linked(p, x, entries, history) /\ Typed(x)
      /\ x.at = "closing" /\ Goes(p, Idle) /\ UNCHANGED files
      /\ entries' = [entries EXCEPT ![id] = op] /\ f \notin Spoils(p)
  BY <1>1, Facts DEF Close, FilesTyped
<1>3. id \in DOMAIN entries /\ OpOK(x.op) /\ Working(x) /\ x.outcome \in {Success(p), "rollback_failed"}
  BY <1>1, <1>2 DEF Linked, Shape, Working
<1>4. OpOK(op) /\ op.edits = x.op.edits /\ op.status = x.outcome /\ op.status # "committed"
  BY <1>1, <1>3 DEF Outcome, OpOK, OpParts, Success
<1>5. /\ DOMAIN entries' = DOMAIN entries /\ entries'[id] = op
      /\ \A i \in DOMAIN entries : i # id => entries'[i] = entries[i]
  BY <1>2, <1>3
<1>6. CASE id \notin Undoable(f)
  <2>1. SameLog(f)  BY <1>2, <1>3, <1>4, <1>6, LogStays
  <2>2. ~Unsettles(p, x, f)
    <3>1. SUFFICES ASSUME f \in PathsOf(x.op) PROVE ~Unsettles(p, x, f)  BY DEF Unsettles, Using
    <3>2. x.outcome # "rollback_failed" /\ ~ \E j \in Undoable(f) : j > id
      BY <1>1, <1>2, <3>1 DEF Spoils
    <3>3. ~ \E j \in Undoable(f) : j >= id
      <4>1. id \in Nat  BY <1>3, Numbered
      <4>2. QED BY <1>6, <3>2, <4>1, Numbered
    <3>4. ~Doomed(x) /\ ~Wrote(x, f) /\ ~Owes(x, f)  BY <1>2, <3>2 DEF Doomed, Wrote, Owes
    <3>5. QED BY <1>1, <3>3, <3>4 DEF Unsettles
  <2>3. QED BY <1>1, <1>2, <2>1, <2>2, StopFile
<1>7. CASE id \in Undoable(f)
  <2>1. p \in Undoers /\ p \notin Editors
    <3>1. entries[id].status = "committed"  BY <1>7 DEF Undoable, Chosen
    <3>2. p \notin Editors  BY <1>1, <1>2, <3>1 DEF Linked, OfEditor
    <3>3. QED BY <3>2 DEF Procs
  <2>2. SameOp(x.op, entries[id])  BY <1>1, <1>2, <2>1 DEF Loaded
  <2>3. f \in PathsOf(x.op) /\ Was(x.op, f) = Was(entries[id], f)
    BY <1>7, <2>2 DEF Undoable, PathsOf, SameOp, Was, Before, EditOf
  <2>4. x.outcome # "rollback_failed" /\ ~ \E j \in Undoable(f) : j > id
    BY <1>1, <1>2, <2>3 DEF Spoils
  <2>5. \A j \in Undoable(f) : j \in Nat /\ j <= id
    BY <1>7, <2>4, Numbered
  <2>6. Using(x, f) /\ Left(p, x, f)  BY <1>2, <2>1, <2>3, <2>4 DEF Using, Left, PutBack
  <2>7. PICK c : c = files[f]  OBVIOUS
  <2>8. c = Was(entries[id], f)
    <3>1. PICK i \in DOMAIN x.op.edits : /\ Was(x.op, f) = Before(x.op, x.op.edits[i]) /\ Fit(p, x, i, files[f])
      BY <1>1, <2>6, AtFile
    <3>2. x.left = {}  BY <1>2, <2>4 DEF Typed, Doomed
    <3>3. QED BY <1>2, <2>3, <2>4, <2>7, <3>1, <3>2 DEF Fit
  <2>9. \A i : i \in Undoable(f)' <=> i \in Undoable(f) /\ i # id
    BY <1>4, <1>5 DEF Undoable, Chosen, PathsOf
  <2>10. \A i \in Undoable(f)' : entries'[i] = entries[i]
    BY <1>5, <2>9 DEF Undoable
  <2>11. OnTop(f, c)'
    <3>1. SUFFICES ASSUME NEW n \in Undoable(f)', \A k \in Undoable(f)' : k <= n
                   PROVE  entries'[n].after[f] = c
      BY DEF OnTop
    <3>2. n \in Undoable(f) /\ n < id  BY <1>7, <2>5, <2>9
    <3>3. \A k \in Undoable(f) : k <= n \/ id <= k  BY <1>7, <2>5, <2>9, <3>1
    <3>4. Was(entries[id], f) = entries[n].after[f]  BY <1>7, <3>2, <3>3 DEF FileOK, Links
    <3>5. QED BY <2>8, <2>10, <3>4
  <2>12. Links(f)'
    <3>1. SUFFICES ASSUME NEW i \in Undoable(f)', NEW j \in Undoable(f)', i < j,
                          \A k \in Undoable(f)' : k <= i \/ j <= k
                   PROVE  Was(entries'[j], f) = entries'[i].after[f]
      BY DEF Links, Was, Before, EditOf
    <3>2. i \in Undoable(f) /\ j \in Undoable(f) /\ \A k \in Undoable(f) : k <= i \/ j <= k
      BY <2>5, <2>9, <3>1
    <3>3. QED BY <2>10, <3>1, <3>2 DEF FileOK, Links
  <2>13. ~Using(Idle, f) /\ Apart(p, Idle, f)  BY <1>2, GoesApart DEF Using, Idle
  <2>14. \A j \in Undoable(f)' : j \in Undoable(f) \/ (p \in Editors /\ j = proc[p].id)
    BY <2>9
  <2>15. ASSUME NEW q \in Undoers \cap Procs, Using(proc[q], f), proc[q].id \notin Undoable(f)'
         PROVE  proc[q].id \notin Undoable(f) \/ c = Was(proc[q].op, f)
    <3>1. SUFFICES ASSUME proc[q].id = id PROVE c = Was(proc[q].op, f)  BY <2>9, <2>15
    <3>2. SameOp(proc[q].op, entries[id])  BY <2>15, <3>1 DEF Loaded, Using
    <3>3. QED BY <2>8, <3>2 DEF SameOp, Was, Before, EditOf
  <2>16. QED BY <1>1, <1>2, <2>6, <2>7, <2>11, <2>12, <2>13, <2>14, <2>15, LogStep
<1>8. QED BY <1>6, <1>7

\* The process, or somebody else, is not at the file.
LEMMA StoppedFile ==
  ASSUME FilesInv, FilesTyped, NEW p \in Procs, CloseFails(p) \/ Dies(p) \/ \E g \in Paths : DiesWriting(p, g),
         NEW f \in Paths \ spoilt', FileOK(f)
  PROVE  FileOK(f)'
<1>1. SameLog(f) /\ f \notin PathsOf(proc[p].op)
  BY LogAsIs DEF CloseFails, Dies, DiesWriting
<1>2. ~Unsettles(p, proc[p], f) /\ ~Using(Idle, f)  BY <1>1 DEF Unsettles, Using, Idle
<1>3. CASE CloseFails(p) \/ Dies(p)
  BY <1>1, <1>2, <1>3, StopFile DEF CloseFails, Dies
<1>4. ASSUME NEW g \in Paths, DiesWriting(p, g) PROVE FileOK(f)'
  <2>1. Writes(p, g, Torn, Idle) /\ f # g
    <3>1. PICK x : x = proc[p]  OBVIOUS
    <3>2. Shape(p, x) /\ Typed(x) /\ g \in Target(p)  BY <1>4, <3>1, Facts DEF DiesWriting, FilesTyped
    <3>3. CASE x.at \in {"writing", "restoring"}
      <4>1. OpOK(x.op) /\ x.next \in 1 .. Len(x.op.edits) /\ g = x.op.edits[x.next].path
        BY <3>1, <3>2, <3>3 DEF Shape, Target, NextEdit
      <4>2. g \in PathsOf(x.op)  BY <4>1, EditsOf
      <4>3. QED BY <1>1, <1>4, <3>1, <4>2 DEF DiesWriting
    <3>4. CASE x.at = "reverting"
      <4>1. g \in PathsOf(x.op)  BY <3>1, <3>2, <3>4 DEF Target, Typed
      <4>2. QED BY <1>1, <1>4, <3>1, <4>1 DEF DiesWriting
    <3>5. QED BY <3>1, <3>2, <3>3, <3>4 DEF Target
  <2>2. f \notin Shared(p, g)  BY <2>1 DEF Shared
  <2>3. Apart(p, Idle, f) /\ files'[f] = files[f]  BY <2>1, <2>2, WritesApart
  <2>4. QED BY <1>1, <1>2, <2>3, AwayStep
<1>5. QED BY <1>3, <1>4

LEMMA ForeignFile ==
  ASSUME FilesInv, NEW g \in Paths, NEW content, Foreign(g, content), NEW f \in Paths \ spoilt', FileOK(f)
  PROVE  FileOK(f)'
<1>1. Writes(None, g, content, Idle) /\ SameLog(f) /\ f # g /\ None \notin Procs
  BY LogAsIs, EditAssumption DEF Foreign
<1>2. f \notin Shared(None, g)  BY <1>1 DEF Shared
<1>3. files'[f] = files[f] /\ \A q \in Procs : Like(proc'[q], proc[q], f)
  BY <1>1, <1>2, WritesApart
<1>4. QED BY <1>1, <1>3, OthersStep

ChainInv == FilesInv /\ FilesTyped /\ Loaded /\ \A f \in Paths \ spoilt : FileOK(f)

LEMMA InitChain == Init => ChainInv
<1> SUFFICES ASSUME Init PROVE ChainInv
  OBVIOUS
<1>1. \A p \in Procs : proc[p].at = "idle"  BY DEF Init, Idle
<1>2. \A f : Undoable(f) = {}  BY DEF Init, Undoable
<1>3. \A f : FileOK(f)
  BY <1>1, <1>2 DEF FileOK, Links, Settled, OnTop, Knows, Came, Using
<1>4. Loaded  BY <1>1, Roles DEF Loaded
<1>5. QED BY <1>3, <1>4, InitInv, InitTyped DEF ChainInv

LEMMA NextChain == ChainInv /\ [Next]_vars => ChainInv'
<1> SUFFICES ASSUME ChainInv, [Next]_vars PROVE ChainInv'
  OBVIOUS
<1>1. FilesInv /\ FilesTyped /\ Loaded  BY DEF ChainInv
<1>2. FilesInv' /\ FilesTyped' /\ Loaded'  BY <1>1, NextInv, NextTyped, NextLoaded
<1>3. spoilt \subseteq spoilt'
  <2>1. CASE UNCHANGED vars  BY <2>1 DEF vars
  <2>2. ASSUME NEW e \in Editors, EditorStep(e) PROVE spoilt \subseteq spoilt'
    BY <2>2 DEF EditorStep, Plan, Begin, BeginFails, WriteEdit, DeleteFails, WriteFails, Hash, Commit,
                CommitFails, SnapshotFails
  <2>3. ASSUME NEW u \in Undoers, UndoerStep(u) PROVE spoilt \subseteq spoilt'
    BY <2>3 DEF UndoerStep, Rollback, Check, Blocked
  <2>4. ASSUME NEW p \in Procs, RestoreStep(p) PROVE spoilt \subseteq spoilt'
    BY <2>4 DEF RestoreStep, Snapshot, RestoreFile, RestoreFails, Close, CloseFails, Dies, Revert,
                RevertFails, DiesWriting
  <2>5. ASSUME NEW f, NEW content, Foreign(f, content) PROVE spoilt \subseteq spoilt'
    BY <2>5 DEF Foreign
  <2>6. QED BY <2>1, <2>2, <2>3, <2>4, <2>5 DEF Next
<1>4. ASSUME NEW f \in Paths \ spoilt' PROVE FileOK(f)'
  <2>1. FileOK(f)  BY <1>3 DEF ChainInv
  <2>2. ASSUME NEW e \in Editors, EditorStep(e) PROVE FileOK(f)'
    BY <1>1, <2>1, <2>2, PlanFile, BeginFile, BeginFailsFile, WriteEditFile, WriteFailsFile, CallFile,
       CommitFile DEF EditorStep
  <2>3. ASSUME NEW u \in Undoers, UndoerStep(u) PROVE FileOK(f)'
    BY <1>1, <2>1, <2>3, UndoerFile
  <2>4. ASSUME NEW p \in Procs, RestoreStep(p) PROVE FileOK(f)'
    <3>1. CASE Snapshot(p)  BY <1>1, <2>1, <3>1, SnapshotFile
    <3>2. CASE RestoreFile(p)  BY <1>1, <2>1, <3>2, RestoreFileFile
    <3>3. CASE Close(p)  BY <1>1, <2>1, <3>3, CloseFile
    <3>4. CASE RestoreFails(p) \/ \E g \in Paths : Revert(p, g) \/ RevertFails(p, g)
      BY <1>1, <2>1, <3>4, FailedFile
    <3>5. CASE CloseFails(p) \/ Dies(p) \/ \E g \in Paths : DiesWriting(p, g)
      BY <1>1, <2>1, <3>5, StoppedFile
    <3>6. QED BY <2>4, <3>1, <3>2, <3>3, <3>4, <3>5 DEF RestoreStep
  <2>5. ASSUME NEW g \in Paths, NEW content, Foreign(g, content) PROVE FileOK(f)'
    BY <1>1, <2>1, <2>5, ForeignFile
  <2>6. CASE UNCHANGED vars
    <3>1. files' = files /\ proc' = proc /\ SameLog(f)  BY <2>6, LogAsIs DEF vars
    <3>2. \A q \in Procs : Like(proc'[q], proc[q], f)  BY <3>1 DEF Like
    <3>3. QED BY <2>1, <3>1, <3>2, OthersStep
  <2>7. QED BY <2>2, <2>3, <2>4, <2>5, <2>6 DEF Next
<1>5. QED BY <1>2, <1>4 DEF ChainInv

LEMMA Least ==
  ASSUME NEW S \in SUBSET Nat, S # {}
  PROVE  \E n \in S : \A m \in S : n <= m
<1> DEFINE R == {ss \in Nat \X Nat : ss[1] < ss[2]}
<1>1. IsWellFoundedOn(R, Nat)  BY NatLessThanWellFounded DEF OpToRel
<1>2. \A x, y \in Nat : <<y, x>> \notin R => x <= y  OBVIOUS
<1> HIDE DEF R
<1>3. PICK x \in S : \A y \in S : ~ (<<y, x>> \in R)  BY <1>1, WFMin
<1>4. QED BY <1>2, <1>3

LEMMA ChainHolds == ChainInv => UndoChain
<1> SUFFICES ASSUME ChainInv PROVE UndoChain
  OBVIOUS
<1>1. TypeOK  BY TypesFollow DEF ChainInv
<1>2. ASSUME NEW f \in Paths \ spoilt, NEW i \in Undoable(f)
      PROVE  LET later == {j \in Undoable(f) : j > i}
             IN IF later = {}
                THEN (\A p \in Procs : ~Uses(p, f)) => files[f] = entries[i].after[f]
                ELSE LET j == CHOOSE j \in later : \A k \in later : j <= k
                     IN Before(entries[j], EditOf(entries[j], f)) = entries[i].after[f]
  <2>1. FileOK(f) /\ FilesInv  BY DEF ChainInv
  <2>2. Undoable(f) \subseteq Nat  BY <2>1, Numbered
  <2>3. PICK later : later = {j \in Undoable(f) : j > i}  OBVIOUS
  <2>4. CASE later = {}
    <3>1. \A k \in Undoable(f) : k <= i  BY <2>2, <2>3, <2>4
    <3>2. ASSUME \A p \in Procs : ~Uses(p, f) PROVE files[f] = entries[i].after[f]
      <4>1. PICK c : c = files[f]  OBVIOUS
      <4>2. OnTop(f, c)  BY <2>1, <3>2, <4>1 DEF FileOK, Settled, Unsettles, Using, Uses
      <4>3. QED BY <3>1, <4>1, <4>2 DEF OnTop
    <3>3. QED BY <2>3, <2>4, <3>2
  <2>5. CASE later # {}
    <3>1. \E j \in later : \A k \in later : j <= k  BY <2>2, <2>3, <2>5, Least
    <3>2. PICK j : j = CHOOSE n \in later : \A k \in later : n <= k  OBVIOUS
    <3>3. j \in later /\ \A k \in later : j <= k  BY <3>1, <3>2
    <3>4. j \in Undoable(f) /\ i < j /\ \A k \in Undoable(f) : k <= i \/ j <= k
      BY <2>2, <2>3, <3>3
    <3>5. Was(entries[j], f) = entries[i].after[f]  BY <2>1, <3>4 DEF FileOK, Links
    <3>6. QED BY <2>3, <2>5, <3>2, <3>5 DEF Was
  <2>6. QED BY <2>4, <2>5
<1>3. QED BY <1>1, <1>2 DEF UndoChain

\* Whatever agents, users and others do at the same time: undoing the operations
\* on a file, the last one first, leads back step by step to what it was (Commit,
\* Rollback and restoreBefore), unless a window has saved what it no longer knew.
THEOREM UndoLeadsBack == Spec => []UndoChain
<1>1. Spec => []ChainInv
  BY InitChain, NextChain, PTL DEF Spec
<1>2. QED BY <1>1, ChainHolds, PTL
=============================================================================
