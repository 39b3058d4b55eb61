--------------------------- MODULE SubAgentQuota ---------------------------
(***************************************************************************)
(* InMemorySubAgentCoordinator over InMemoryQuotaManager                   *)
(* (internal/runtime/subagent.go, quota.go): a sub-agent task takes a slot *)
(* of its quota key when it is spawned, and gives it back when it ends.    *)
(*                                                                         *)
(* The task manager below is its abstract specification, TaskLifecycle,    *)
(* which TaskManager.tla is shown to implement.  Two goroutines may give a *)
(* task's slot back: the watcher that Spawn starts, and the caller of      *)
(* Wait.  Both first take the key out of quotaKeys, under the              *)
(* coordinator's mutex, and then decrement the count, under the quota      *)
(* manager's.                                                              *)
(***************************************************************************)
EXTENDS Integers, FiniteSets

CONSTANTS
  Tasks,          \* the sub-agent tasks that callers may spawn
  Keys,           \* quota keys
  KeyOf,          \* deriveQuotaKey of each task's spec
  Limit,          \* limitForKeyLocked of each key
  MaxRetries,     \* TaskSpec.MaxRetries
  SubmitMayFail,  \* TRUE iff TaskManager.Submit may return an error
  CtxMayExpire,   \* TRUE iff the contexts of Wait may end
  None            \* no key

ASSUME TasksAssumption == IsFiniteSet(Tasks)
ASSUME RetriesAssumption == MaxRetries \in Nat
ASSUME KeysAssumption  == KeyOf \in [Tasks -> Keys] /\ None \notin Keys
ASSUME LimitAssumption == Limit \in [Keys -> Nat \ {0}]

Givers == Tasks \X {"watcher", "caller"}

VARIABLES
  status, attempt,  \* the task manager, see TaskLifecycle
  inUse,            \* InMemoryQuotaManager.inUse; 0 where the map has no entry
  quotaKeys,        \* the coordinator's key for each task, or None
  spawner,          \* where the Spawn of each task is
  giver             \* where each goroutine that may give the slot back is

manager == <<status, attempt>>
vars    == <<status, attempt, inUse, quotaKeys, spawner, giver>>

TaskManager == INSTANCE TaskLifecycle

Ended(t) == status[t] \in TaskManager!Terminal
Live(t)  == status[t] \in {"pending", "running"}

Init == /\ TaskManager!Init
        /\ inUse = [k \in Keys |-> 0]
        /\ quotaKeys = [t \in Tasks |-> None]
        /\ spawner = [t \in Tasks |-> "idle"]
        /\ giver = [g \in Givers |-> "idle"]

Goto(t, at)  == spawner' = [spawner EXCEPT ![t] = at]
GiveAt(g, at) == giver' = [giver EXCEPT ![g] = at]

-----------------------------------------------------------------------------
(* Spawn. *)

\* Mutant: a slot is still given when the limit has been reached.
MutantOneMore(k) == inUse[k] <= Limit[k]

HasRoom(k) == inUse[k] < Limit[k]

\* InMemoryQuotaManager.Acquire
Acquire(t) ==
  /\ spawner[t] = "idle"
  /\ HasRoom(KeyOf[t])
  /\ inUse' = [inUse EXCEPT ![KeyOf[t]] = @ + 1]
  /\ Goto(t, "acquired")
  /\ UNCHANGED <<manager, quotaKeys, giver>>

\* The quota is exceeded, or the caller's context has ended.
Refuse(t) ==
  /\ spawner[t] = "idle"
  /\ ~HasRoom(KeyOf[t]) \/ CtxMayExpire
  /\ Goto(t, "refused")
  /\ UNCHANGED <<manager, inUse, quotaKeys, giver>>

Submit(t) ==
  /\ spawner[t] = "acquired"
  /\ TaskManager!Submit(t)
  /\ Goto(t, "submitted")
  /\ UNCHANGED <<inUse, quotaKeys, giver>>

\* Mutant: the last slot of a key is never taken off its count.
MutantKeepOne(k) == inUse' = IF inUse[k] <= 1 THEN inUse
                             ELSE [inUse EXCEPT ![k] = @ - 1]

\* InMemoryQuotaManager.Release
Release(k) == inUse' = [inUse EXCEPT ![k] = IF @ <= 1 THEN 0 ELSE @ - 1]

SubmitFailed(t) ==
  /\ SubmitMayFail /\ spawner[t] = "acquired"
  /\ Release(KeyOf[t])
  /\ Goto(t, "refused")
  /\ UNCHANGED <<manager, quotaKeys, giver>>

\* The key is recorded, and go waitTerminalAndRelease.
Record(t) ==
  /\ spawner[t] = "submitted"
  /\ quotaKeys' = [quotaKeys EXCEPT ![t] = KeyOf[t]]
  /\ GiveAt(<<t, "watcher">>, "waiting")
  /\ Goto(t, "spawned")
  /\ UNCHANGED <<manager, inUse>>

-----------------------------------------------------------------------------
(* Wait, and the watcher. *)

Wait(t) ==
  /\ spawner[t] = "spawned" /\ giver[<<t, "caller">>] = "idle"
  /\ GiveAt(<<t, "caller">>, "waiting")
  /\ UNCHANGED <<manager, inUse, quotaKeys, spawner>>

\* TaskManager.Wait returns a terminal result.
WaitReturns(g) ==
  /\ giver[g] = "waiting" /\ Ended(g[1])
  /\ GiveAt(g, "ended")
  /\ UNCHANGED <<manager, inUse, quotaKeys, spawner>>

\* The caller's context ends; the watcher's is the background context.
WaitExpires(t) ==
  /\ CtxMayExpire /\ giver[<<t, "caller">>] = "waiting"
  /\ GiveAt(<<t, "caller">>, "expired")
  /\ UNCHANGED <<manager, inUse, quotaKeys, spawner>>

\* Mutant: a Wait that has ended early gives the slot back.
MutantReleaseEarly(t) == "ended"

\* Where a Wait goes on after an error: isTaskTerminal.
AfterError(t) == IF Ended(t) THEN "ended" ELSE "idle"

CheckTerminal(t) ==
  /\ giver[<<t, "caller">>] = "expired"
  /\ GiveAt(<<t, "caller">>, AfterError(t))
  /\ UNCHANGED <<manager, inUse, quotaKeys, spawner>>

\* Mutant: the key is left in the table.
MutantKeepKey(t) == UNCHANGED quotaKeys

\* delete(c.quotaKeys, id)
Forget(t) == quotaKeys' = [quotaKeys EXCEPT ![t] = None]

\* releaseQuota, first half: whoever finds the key gives the slot back.
TakeKey(g) ==
  /\ giver[g] = "ended"
  /\ IF quotaKeys[g[1]] # None
     THEN Forget(g[1]) /\ GiveAt(g, "releasing")
     ELSE GiveAt(g, "done") /\ UNCHANGED quotaKeys
  /\ UNCHANGED <<manager, inUse, spawner>>

\* releaseQuota, second half.
GiveBack(g) ==
  /\ giver[g] = "releasing"
  /\ Release(KeyOf[g[1]])
  /\ GiveAt(g, "done")
  /\ UNCHANGED <<manager, quotaKeys, spawner>>

-----------------------------------------------------------------------------
\* What the task manager does of its own, and Retry.
TaskMoves(t) == /\ TaskManager!Progress(t) \/ TaskManager!Retry(t)
                /\ UNCHANGED <<inUse, quotaKeys, spawner, giver>>

SpawnStep(t) == Acquire(t) \/ Refuse(t) \/ Submit(t) \/ SubmitFailed(t) \/ Record(t)

GiverStep(g) == WaitReturns(g) \/ TakeKey(g) \/ GiveBack(g)

Next == \/ \E t \in Tasks : \/ SpawnStep(t) \/ TaskMoves(t)
                            \/ Wait(t) \/ WaitExpires(t) \/ CheckTerminal(t)
        \/ \E g \in Givers : GiverStep(g)

SafeSpec == Init /\ [][Next]_vars

\* Goroutines are scheduled, and the task manager makes the progress that
\* TaskLifecycle promises.
Spec == /\ SafeSpec
        /\ \A t \in Tasks : /\ WF_vars(TaskManager!Progress(t) /\ TaskMoves(t))
                            /\ WF_vars(Submit(t) \/ SubmitFailed(t) \/ Record(t))
        /\ \A g \in Givers : WF_vars(GiverStep(g))

-----------------------------------------------------------------------------
(* Properties. *)

\* The tables of the coordinator and of the quota manager have their types.
TypeOK == /\ status \in [Tasks -> TaskManager!Statuses]
          /\ attempt \in [Tasks -> 0 .. MaxRetries]
          /\ inUse \in [Keys -> Nat]
          /\ quotaKeys \in [Tasks -> Keys \cup {None}]
          /\ spawner \in [Tasks -> {"idle", "acquired", "refused", "submitted", "spawned"}]
          /\ giver \in [Givers -> {"idle", "waiting", "expired", "ended", "releasing", "done"}]

\* The tasks that hold a slot of key k: from Acquire until GiveBack.
Holding(t) == \/ spawner[t] \in {"acquired", "submitted"}
              \/ quotaKeys[t] # None
              \/ giver[<<t, "watcher">>] = "releasing"
              \/ giver[<<t, "caller">>] = "releasing"

Holders(k) == {t \in Tasks : KeyOf[t] = k /\ Holding(t)}

\* A task's slot is in one place at a time: with Spawn, in the table, or with
\* the one goroutine that found it there.
OneSlot(t) ==
  /\ spawner[t] # "spawned" => /\ quotaKeys[t] = None
                               /\ \A r \in {"watcher", "caller"} : giver[<<t, r>>] = "idle"
  /\ quotaKeys[t] \in {None, KeyOf[t]}
  /\ \A r \in {"watcher", "caller"} : giver[<<t, r>>] = "releasing" => quotaKeys[t] = None
  /\ ~(giver[<<t, "watcher">>] = "releasing" /\ giver[<<t, "caller">>] = "releasing")

\* With the types: the count of a key is the number of tasks that hold one of its slots: no
\* slot is given back twice or lost, although two goroutines give it back and
\* Release does not look at who calls it.
SlotsAccounted == /\ TypeOK
                  /\ \A t \in Tasks : OneSlot(t)
                  /\ \A k \in Keys : inUse[k] = Cardinality(Holders(k))

\* No more slots are given than the key has.
QuotaKept == \A k \in Keys : Cardinality(Holders(k)) <= Limit[k]

\* A task that has not been retried holds its slot as long as it lives, even
\* if whoever waits for it gives up ...
InFirstAttempt(t) == Live(t) /\ attempt[t] = 0

LiveTasksHold == \A t \in Tasks : InFirstAttempt(t) => Holding(t)

\* ... so that no more such tasks of a key live at a time than its limit.
NoOverrun == \A k \in Keys :
  Cardinality({t \in Tasks : KeyOf[t] = k /\ InFirstAttempt(t)}) <= Limit[k]

\* A task that has ended gives its slot back, whether anybody waits or not.
SlotsReturn == \A t \in Tasks : Ended(t) ~> ~Holding(t)
=============================================================================
