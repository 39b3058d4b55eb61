------------------------------ MODULE FileEdits ------------------------------
(***************************************************************************)
(* The tools that edit files - apply_patch, write_file, replace_in_file -  *)
(* and the record of what they did (internal/rollback/store.go), by which  *)
(* a call that fails puts the files back and the user can undo one that    *)
(* did not.  Nothing here is locked: several agents may edit at once, the  *)
(* user and the shell write to the same files, and another window may be   *)
(* undoing what this one is looking at.                                    *)
(*                                                                         *)
(* An operation is a list of edits, each of a file of its own.  A move is  *)
(* two: its new file is added, and then the old one deleted.  Files are    *)
(* written one by one, and the operation's entry in the store is replaced  *)
(* by a rename.  What is read of several files one after the other is read *)
(* in one step: nothing is decided by two of them together.  A file's      *)
(* content is a value; the hash of it tells contents apart.                *)
(***************************************************************************)
EXTENDS Integers, Sequences, FiniteSets

CONSTANTS
  Editors,     \* the agents that run tools
  Undoers,     \* the places where the user may enter /rollback
  Paths,       \* the files
  Contents,    \* what may be in them
  Absent,      \* a file that does not exist
  Torn,        \* what a write leaves that does not come to its end
  Calls,       \* what the tools are asked to do: lists of edits
  MaxOps,      \* bound: calls of tools
  MaxUpsets,   \* bound: writes of others, file operations that fail, processes that die
  None

Procs  == Editors \cup Undoers
States == Contents \cup {Torn, Absent}

Edit == [type : {"add", "update"}, path : Paths, new : Contents]
          \cup [type : {"delete"}, path : Paths, new : {Absent}]

\* registerPatchTarget: no two edits of a call touch the same file.
OnceEach(edits) ==
  \A i, j \in DOMAIN edits : edits[i].path = edits[j].path => i = j

ASSUME EditAssumption == /\ Editors \cap Undoers = {} /\ None \notin Procs
                         /\ Absent \notin Contents \cup {Torn}
                         /\ \A edits \in Calls : edits \in Seq(Edit) /\ edits # <<>> /\ OnceEach(edits)

VARIABLES
  files,    \* the content of each file
  entries,  \* the operations in the store, in the order they began
  proc,     \* what each process is doing
  upsets,   \* how many writes of others and faults there have been
  history,  \* of each operation, the files before it and what others did to them meanwhile
  spoilt    \* the files about whose past nothing can be said

vars == <<files, entries, proc, upsets, history, spoilt>>

\* A process: the operation it has in memory, the edit it has come to, the files
\* as it found them before it put them back and those it has yet to return to
\* that, the status it is going to save; and, for the properties, the files when
\* it began and those that others have written since.
Idle == [at |-> "idle", id |-> 0, op |-> None, next |-> 1, left |-> {}, current |-> None,
         outcome |-> None, initial |-> None, touched |-> {}]

NoStates == [f \in Paths |-> None]

Init == /\ files \in [Paths -> Contents \cup {Absent}]
        /\ entries = <<>>
        /\ proc = [p \in Procs |-> Idle]
        /\ upsets = 0
        /\ history = <<>>
        /\ spoilt = {}

\* operationTouchedPaths
PathsOf(op) == {op.edits[i].path : i \in DOMAIN op.edits}

EditOf(op, f) == op.edits[CHOOSE i \in DOMAIN op.edits : op.edits[i].path = f]

\* What there is in the files of the operation.
Held(op) == [f \in Paths |-> IF f \in PathsOf(op) THEN files[f] ELSE None]

Goes(p, to) == proc' = [proc EXCEPT ![p] = to]

Uses(p, f) == proc[p].at # "idle" /\ f \in PathsOf(proc[p].op)

\* Process p (None for somebody else) writes the file and goes on; what the
\* other processes have seen of it is no longer so.
Writes(p, f, content, to) ==
  /\ files' = [files EXCEPT ![f] = content]
  /\ proc' = [q \in Procs |->
       IF q = p THEN to
       ELSE IF Uses(q, f) THEN [proc[q] EXCEPT !.touched = proc[q].touched \cup {f}]
       ELSE proc[q]]

\* The file, if another process is at it.
Shared(p, f) == {g \in {f} : \E q \in Procs \ {p} : Uses(q, g)}

-----------------------------------------------------------------------------
(* A call of a tool: what it will do is settled, and then recorded. *)

\* Mutant: a file is added whether it exists or not.
MutantAnywhere(edit) == edit.type = "update" => files[edit.path] # Absent

\* Added files must not exist, updated ones must.
Applicable(edit) == CASE edit.type = "add"    -> files[edit.path] = Absent
                      [] edit.type = "update" -> files[edit.path] # Absent
                      [] edit.type = "delete" -> TRUE

Plan(e) ==
  /\ proc[e].at = "idle" /\ Len(entries) < MaxOps
  /\ \E edits \in Calls :
       LET op == [edits |-> edits, before |-> NoStates, after |-> NoStates, status |-> "pending"]
       IN /\ \A i \in DOMAIN edits : Applicable(edits[i])
          /\ Goes(e, [Idle EXCEPT !.at = "planned", !.op = op, !.initial = Held(op)])
  /\ UNCHANGED <<files, entries, upsets, history, spoilt>>

\* captureBeforeState; the operation gets its id, and is saved.
Begin(e) ==
  /\ proc[e].at = "planned" /\ Len(entries) < MaxOps
  /\ LET op == [proc[e].op EXCEPT !.before = Held(proc[e].op)]
     IN /\ entries' = Append(entries, op)
        /\ Goes(e, [proc[e] EXCEPT !.at = "writing", !.id = Len(entries) + 1, !.op = op])
  /\ history' = Append(history, [initial |-> proc[e].initial, disturbed |-> {}])
  /\ UNCHANGED <<files, upsets, spoilt>>

\* A file cannot be read, or is too large, or no text, or the entry cannot be
\* saved; the call ends.
BeginFails(e) ==
  /\ proc[e].at = "planned" /\ upsets < MaxUpsets
  /\ Goes(e, Idle) /\ upsets' = upsets + 1
  /\ UNCHANGED <<files, entries, history, spoilt>>

-----------------------------------------------------------------------------
(* applyPlannedPatchOperations *)

NextEdit(p) == proc[p].op.edits[proc[p].next]

OnLast(p) == proc[p].next = Len(proc[p].op.edits)

Written(e) == IF OnLast(e) THEN [proc[e] EXCEPT !.at = "hashing"]
              ELSE [proc[e] EXCEPT !.next = proc[e].next + 1]

CannotDelete(e) == NextEdit(e).type = "delete" /\ files[NextEdit(e).path] = Absent

WriteEdit(e) ==
  /\ proc[e].at = "writing" /\ ~CannotDelete(e)
  /\ Writes(e, NextEdit(e).path, NextEdit(e).new, Written(e))
  /\ spoilt' = spoilt \cup Shared(e, NextEdit(e).path)
  /\ UNCHANGED <<entries, upsets, history>>

DeleteFails(e) ==
  /\ proc[e].at = "writing" /\ CannotDelete(e)
  /\ Goes(e, [proc[e] EXCEPT !.at = "aborting"])
  /\ UNCHANGED <<files, entries, upsets, history, spoilt>>

\* A failed operation on a file leaves it, or a part of what it was to be.
Leaves(f, content) == {files[f]} \cup (IF content = Absent THEN {} ELSE {Torn})

WriteFails(e) ==
  /\ proc[e].at = "writing" /\ upsets < MaxUpsets
  /\ \E left \in Leaves(NextEdit(e).path, NextEdit(e).new) :
       Writes(e, NextEdit(e).path, left, [proc[e] EXCEPT !.at = "aborting"])
  /\ spoilt' = spoilt \cup Shared(e, NextEdit(e).path)
  /\ upsets' = upsets + 1
  /\ UNCHANGED <<entries, history>>

-----------------------------------------------------------------------------
(* Commit notes what the files have come to. *)

AsMeant(e) == \A f \in PathsOf(proc[e].op) :
                (files[f] = Absent) <=> (EditOf(proc[e].op, f).type = "delete")

Hash(e) ==
  /\ proc[e].at = "hashing" /\ AsMeant(e)
  /\ Goes(e, [proc[e] EXCEPT !.at = "committing", !.op.after = Held(proc[e].op)])
  /\ UNCHANGED <<files, entries, upsets, history, spoilt>>

Commit(e) ==
  /\ proc[e].at = "committing"
  /\ entries' = [entries EXCEPT ![proc[e].id] = [proc[e].op EXCEPT !.status = "committed"]]
  /\ history' = [history EXCEPT ![proc[e].id].disturbed = proc[e].touched]
  /\ Goes(e, Idle)
  /\ UNCHANGED <<files, upsets, spoilt>>

\* A file is there that should not be, or the other way round; or one cannot
\* be read, or the entry not be saved.
CommitFails(e) ==
  /\ \/ proc[e].at = "hashing" /\ ~AsMeant(e) /\ UNCHANGED upsets
     \/ proc[e].at \in {"hashing", "committing"} /\ upsets < MaxUpsets /\ upsets' = upsets + 1
  /\ Goes(e, [proc[e] EXCEPT !.at = "aborting"])
  /\ UNCHANGED <<files, entries, history, spoilt>>

-----------------------------------------------------------------------------
(* Rollback, of the last operation or of one the user names. *)

Chosen(id) == entries[id].status = "committed"

Rollback(u) ==
  /\ proc[u].at = "idle"
  /\ \E id \in DOMAIN entries :
       /\ Chosen(id)
       /\ Goes(u, [Idle EXCEPT !.at = "checking", !.id = id, !.op = entries[id]])
  /\ UNCHANGED <<files, entries, upsets, history, spoilt>>

\* Mutant: it is enough that the file is there, or is not.
MutantThere(u, f) == (files[f] = Absent) <=> (proc[u].op.after[f] = Absent)

\* requireCurrentHash
Unchanged(u, f) == files[f] = proc[u].op.after[f]

\* checkConflicts
Check(u) ==
  /\ proc[u].at = "checking" /\ \A f \in PathsOf(proc[u].op) : Unchanged(u, f)
  /\ Goes(u, [proc[u] EXCEPT !.at = "checked"])
  /\ UNCHANGED <<files, entries, upsets, history, spoilt>>

\* Files about whose past nothing can be said once u has saved the operation: it
\* has been undone meanwhile, and comes back as committed.
Revives(u) == IF Chosen(proc[u].id) THEN {} ELSE PathsOf(proc[u].op)

\* Somebody has changed a file, or one cannot be read, when they are compared or
\* read again.  The operation is saved as it was loaded.
Blocked(u) ==
  /\ \/ /\ proc[u].at = "checking" /\ \E f \in PathsOf(proc[u].op) : ~Unchanged(u, f)
        /\ UNCHANGED upsets
     \/ proc[u].at \in {"checking", "checked"} /\ upsets < MaxUpsets /\ upsets' = upsets + 1
  /\ entries' = [entries EXCEPT ![proc[u].id] = proc[u].op]
  /\ Goes(u, Idle)
  /\ spoilt' = spoilt \cup Revives(u)
  /\ UNCHANGED <<files, history>>

-----------------------------------------------------------------------------
(* The files are put back: restoreBefore and applyBeforeState. *)

\* captureCurrentStates
Snapshot(p) ==
  /\ proc[p].at \in {"aborting", "checked"}
  /\ Goes(p, [proc[p] EXCEPT !.at = "restoring", !.next = 1, !.current = Held(proc[p].op)])
  /\ UNCHANGED <<files, entries, upsets, history, spoilt>>

\* A file cannot be read.  Nothing is restored.
SnapshotFails(e) ==
  /\ proc[e].at = "aborting" /\ upsets < MaxUpsets
  /\ Goes(e, [proc[e] EXCEPT !.at = "closing", !.outcome = "rollback_failed",
                             !.left = PathsOf(proc[e].op)])
  /\ upsets' = upsets + 1
  /\ UNCHANGED <<files, entries, history, spoilt>>

\* What there was before the edit.
Before(op, edit) == IF edit.type = "add" THEN Absent ELSE op.before[edit.path]

Success(p) == IF p \in Undoers THEN "rolled_back" ELSE "aborted"

Restored(p) == IF OnLast(p) THEN [proc[p] EXCEPT !.at = "closing", !.outcome = Success(p)]
               ELSE [proc[p] EXCEPT !.next = proc[p].next + 1]

RestoreFile(p) ==
  /\ proc[p].at = "restoring"
  /\ Writes(p, NextEdit(p).path, Before(proc[p].op, NextEdit(p)), Restored(p))
  /\ spoilt' = spoilt \cup Shared(p, NextEdit(p).path)
  /\ UNCHANGED <<entries, upsets, history>>

RestoreFails(p) ==
  /\ proc[p].at = "restoring" /\ upsets < MaxUpsets
  /\ \E left \in Leaves(NextEdit(p).path, Before(proc[p].op, NextEdit(p))) :
       Writes(p, NextEdit(p).path, left,
              [proc[p] EXCEPT !.at = "reverting", !.outcome = "rollback_failed",
                              !.left = PathsOf(proc[p].op)])
  /\ spoilt' = spoilt \cup Shared(p, NextEdit(p).path)
  /\ upsets' = upsets + 1
  /\ UNCHANGED <<entries, history>>

\* restoreCurrentStates, in the order of a map.
Revert(p, f) ==
  /\ proc[p].at = "reverting" /\ f \in proc[p].left
  /\ Writes(p, f, proc[p].current[f],
       [proc[p] EXCEPT !.left = proc[p].left \ {f},
                       !.at = IF proc[p].left = {f} THEN "closing" ELSE "reverting"])
  /\ spoilt' = spoilt \cup Shared(p, f)
  /\ UNCHANGED <<entries, upsets, history>>

\* Where one write has failed the next may fail as well.
RevertFails(p, f) ==
  /\ proc[p].at = "reverting" /\ f \in proc[p].left
  /\ \E left \in Leaves(f, proc[p].current[f]) :
       Writes(p, f, left, [proc[p] EXCEPT !.at = "closing"])
  /\ spoilt' = spoilt \cup Shared(p, f)
  /\ UNCHANGED <<entries, upsets, history>>

\* The operations in the store that can be undone and edit f.
Undoable(f) == {i \in DOMAIN entries : Chosen(i) /\ f \in PathsOf(entries[i])}

\* Files about whose past nothing can be said once p is done: the operation is
\* not the last on them, or it could not be undone.
Spoils(p) == {f \in PathsOf(proc[p].op) : \/ proc[p].outcome = "rollback_failed"
                                          \/ \E i \in Undoable(f) : i > proc[p].id}

\* Mutant: an operation that has been undone is not marked.
MutantKeepsStatus(p) == proc[p].op

\* The operation with its new status.
Outcome(p) == [proc[p].op EXCEPT !.status = proc[p].outcome]

Close(p) ==
  /\ proc[p].at = "closing"
  /\ entries' = [entries EXCEPT ![proc[p].id] = Outcome(p)]
  /\ Goes(p, Idle)
  /\ spoilt' = spoilt \cup Spoils(p)
  /\ UNCHANGED <<files, upsets, history>>

\* The entry cannot be saved.
CloseFails(p) ==
  /\ proc[p].at = "closing" /\ upsets < MaxUpsets
  /\ Goes(p, Idle)
  /\ upsets' = upsets + 1
  /\ spoilt' = spoilt \cup PathsOf(proc[p].op)
  /\ UNCHANGED <<files, entries, history>>

-----------------------------------------------------------------------------
(* The process dies, perhaps in the middle of a write; others write. *)

Dies(p) ==
  /\ proc[p].at # "idle" /\ upsets < MaxUpsets
  /\ upsets' = upsets + 1
  /\ Goes(p, Idle)
  /\ spoilt' = spoilt \cup PathsOf(proc[p].op)
  /\ UNCHANGED <<files, entries, history>>

\* The file it is about to write, if any.
Target(p) == CASE proc[p].at \in {"writing", "restoring"} -> {NextEdit(p).path}
               [] proc[p].at = "reverting" -> proc[p].left
               [] OTHER -> {}

DiesWriting(p, f) ==
  /\ f \in Target(p) /\ upsets < MaxUpsets
  /\ upsets' = upsets + 1
  /\ Writes(p, f, Torn, Idle)
  /\ spoilt' = spoilt \cup PathsOf(proc[p].op)
  /\ UNCHANGED <<entries, history>>

Foreign(f, content) ==
  /\ upsets < MaxUpsets /\ files[f] # content
  /\ upsets' = upsets + 1
  /\ Writes(None, f, content, Idle)
  /\ spoilt' = spoilt \cup {f}
  /\ UNCHANGED <<entries, history>>

-----------------------------------------------------------------------------
EditorStep(e) == \/ Plan(e) \/ Begin(e) \/ BeginFails(e)
                 \/ WriteEdit(e) \/ DeleteFails(e) \/ WriteFails(e)
                 \/ Hash(e) \/ Commit(e) \/ CommitFails(e) \/ SnapshotFails(e)

UndoerStep(u) == Rollback(u) \/ Check(u) \/ Blocked(u)

RestoreStep(p) == \/ Snapshot(p) \/ RestoreFile(p) \/ RestoreFails(p)
                  \/ Close(p) \/ CloseFails(p) \/ Dies(p)
                  \/ \E f \in Paths : Revert(p, f) \/ RevertFails(p, f) \/ DiesWriting(p, f)

Next == \/ \E e \in Editors : EditorStep(e)
        \/ \E u \in Undoers : UndoerStep(u)
        \/ \E p \in Procs : RestoreStep(p)
        \/ \E f \in Paths, content \in Contents \cup {Absent} : Foreign(f, content)

Spec == Init /\ [][Next]_vars

-----------------------------------------------------------------------------
(* Properties. *)

Operations == [edits : {edits \in Seq(Edit) : OnceEach(edits)},
               before : [Paths -> States \cup {None}], after : [Paths -> States \cup {None}],
               status : {"pending", "committed", "aborted", "rolled_back", "rollback_failed"}]

TypeOK ==
  /\ files \in [Paths -> States]
  /\ \A i \in DOMAIN entries : entries[i] \in Operations
  /\ DOMAIN history = DOMAIN entries
  /\ \A p \in Procs : LET x == proc[p] IN
       /\ x.at \in {"idle", "planned", "writing", "hashing", "committing", "aborting",
                    "checking", "checked", "restoring", "reverting", "closing"}
       /\ x.at # "idle" => x.op \in Operations /\ x.left \subseteq PathsOf(x.op)
       /\ x.touched \subseteq Paths
  /\ spoilt \subseteq Paths

\* What others did to the files of the operation p has in hand: since p began,
\* and, if it is being undone, while the tool was at it.
Disturbed(p) == proc[p].touched \cup
                  (IF p \in Undoers THEN history[proc[p].id].disturbed ELSE {})

\* Whatever the order in which agents, users and others write: restoring a file,
\* after a failure or on /rollback, never overwrites anything but what the
\* operation itself has written (or had found), unless somebody wrote to the
\* file while the call was at work or while it was being undone.
LosesOnlyItsOwn ==
  \A p \in Procs : proc[p].at = "restoring" =>
    \A i \in proc[p].next .. Len(proc[p].op.edits) :
      LET f == proc[p].op.edits[i].path
      IN f \notin Disturbed(p) =>
           \/ files[f] = proc[p].op.edits[i].new
           \/ p \in Editors /\ files[f] \in {proc[p].initial[f], Torn}

\* A call, or an undoing, ends with all of its files as they were meant to be
\* or with all as they were before; the status says which.  Files that others
\* wrote to meanwhile do not count; and if putting them back fails, and then
\* undoing that as well, nothing is said.
AllOrNothing ==
  \A p \in {q \in Procs : proc[q].at \in {"committing", "closing"}} :
  \A f \in PathsOf(proc[p].op) \ Disturbed(p) :
    /\ proc[p].at = "committing" =>
         files[f] = EditOf(proc[p].op, f).new /\ files[f] = proc[p].op.after[f]
    /\ proc[p].at = "closing" /\ proc[p].left = {} =>
         CASE proc[p].outcome = "aborted" -> files[f] = proc[p].initial[f]
           [] proc[p].outcome = "rolled_back" -> files[f] = history[proc[p].id].initial[f]
           [] proc[p].outcome = "rollback_failed" -> files[f] = proc[p].current[f]

\* Undoing one operation after the other leads back: of each file, the last
\* operation in the store that edits it found it as the one before left it, and
\* left it as it is now, unless the file is spoilt or somebody is at it.
\* And every variable has its type.
UndoChain ==
  /\ TypeOK
  /\ \A f \in Paths \ spoilt : \A i \in Undoable(f) :
       LET later == {j \in Undoable(f) : j > i}
       IN IF later = {}
          THEN (\A p \in Procs : ~Uses(p, f)) => files[f] = entries[i].after[f]
          ELSE LET j == CHOOSE j \in later : \A k \in later : j <= k
               IN Before(entries[j], EditOf(entries[j], f)) = entries[i].after[f]
=============================================================================
