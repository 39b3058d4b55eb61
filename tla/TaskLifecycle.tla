--------------------------- MODULE TaskLifecycle ---------------------------
(***************************************************************************)
(* What the task manager promises about one task, whatever its goroutines, *)
(* locks, waiters and subscribers do: the life of a task as its callers    *)
(* may rely on it.  TaskManager.tla is shown to implement it.              *)
(*                                                                         *)
(*     absent -> pending -> running -> completed | failed | killed         *)
(*                  |                                                      *)
(*                  +-> failed (no executor) | killed (cancelled)          *)
(*     failed -> pending, with the next attempt, while retries remain      *)
(***************************************************************************)
EXTENDS Naturals

CONSTANTS Tasks,        \* the task ids Submit may hand out
          MaxRetries    \* TaskSpec.MaxRetries

VARIABLES status,       \* status[t]: Task.Status, or "absent"
          attempt       \* attempt[t]: Task.Attempt

vars == <<status, attempt>>

Statuses == {"absent", "pending", "running", "completed", "failed", "killed"}
Terminal == {"completed", "failed", "killed"}

Init == /\ status = [t \in Tasks |-> "absent"]
        /\ attempt = [t \in Tasks |-> 0]

Move(t, from, to) == /\ status[t] \in from
                     /\ status' = [status EXCEPT ![t] = to]
                     /\ UNCHANGED attempt

Submit(t)  == Move(t, {"absent"}, "pending")
Start(t)   == Move(t, {"pending"}, "running")
Discard(t) == \E to \in {"failed", "killed"} : Move(t, {"pending"}, to)
Finish(t)  == \E to \in Terminal : Move(t, {"running"}, to)

\* Only a failed task is retried, each time as the next attempt.
Retry(t) == /\ status[t] = "failed"
            /\ attempt[t] < MaxRetries
            /\ status' = [status EXCEPT ![t] = "pending"]
            /\ attempt' = [attempt EXCEPT ![t] = @ + 1]

\* What the manager owes a task it has accepted: to take it out of pending,
\* and to take it out of running.
Progress(t) == Start(t) \/ Discard(t) \/ Finish(t)

Next == \E t \in Tasks : Submit(t) \/ Retry(t) \/ Progress(t)

SafeSpec == Init /\ [][Next]_vars

Spec == SafeSpec /\ \A t \in Tasks : WF_vars(Progress(t))
=============================================================================
