# Bytemind: specifications

TLA+ modules, TLC model checks and TLAPS proofs for bytemind, a coding agent
written in Go (`cmd/`, `internal/`, `tui/`). Everything below is translated from
the Go source; `PROJECT.json` gives, for each definition, the lines it stands for.

## 1. Inventory

The program is one process with many goroutines. A terminal UI runs *turns*; a
turn asks a provider for a completion, runs the tools the model asks for, and may
delegate work to sub-agents. The parts that keep state, and what makes each hard:

| Component | State it keeps | Operations | Interacts with | What is hard | What makes it correct |
|---|---|---|---|---|---|
| Task manager (`internal/runtime/manager.go`, `state_machine.go`) | tasks, waiters, cancel functions, parent/child links, executors, events, logs, stream subscribers | Submit, Cancel, Retry, Wait, Stream, (Un)RegisterExecution, and the goroutine of each attempt | gateway, sub-agent coordinator, event store | one mutex, but everything after the unlock (publish, persist, cancel children, notify, wait) interleaves | one attempt executes at a time, no waiter is lost, links let a cancel reach the children, events are seen in order, streams close |
| Sub-agent coordinator and quota (`subagent.go`, `quota.go`) | counts in use, the quota key of each task | Spawn, Wait, the goroutine that waits for the end | task manager | two goroutines release the same slot; the task may end before its key is recorded | a slot is held exactly as long as its task lives, never released twice, always given back |
| Runtime gateway (`internal/agent/runtime_gateway.go`) | one execution token per call | RunSync, RunAsync | task manager | a cancelled caller cancels the task and waits a bounded time; unregisters while the task may still be pending | the executor runs under the token that was registered for it |
| Storage locks (`internal/storage/locker_*.go`) | semaphores with reference counts; lock files with a time of modification | lock, unlock, heartbeat, reclaim | session store, task event log, other processes | processes that crash or sleep; stat then remove is not atomic | at most one holder per key; a dead holder's lock is reclaimed |
| Task event log (`internal/storage/task_store.go`) | one append-only file per task | AppendLog, ReadLogFrom, ReplayTaskLog | storage locks, task manager | a crash in the middle of a line, readers without the lock | every acknowledged record is read exactly once, in order |
| Session store (`internal/session/store_*.go`) | an event file and a snapshot per session | Save, Load, Snapshot, Delete, clean-up | storage locks, agent loop | crash between events and snapshot, torn lines, delete without the lock | what was saved is what is loaded; a replay never fails |
| Rollback store (`internal/rollback/store.go`) | operations with before-images of files | Begin, Commit, Abort, AbortAndRestore, Rollback | file-editing tools | crash between the steps, several operations on one file, external edits | a rollback restores exactly the content before, and refuses to overwrite later work |
| Provider health and router (`internal/provider/health.go`, `router.go`, `compat.go`) | a circuit breaker per provider | Check, RecordSuccess, RecordFailure, Route, fall-back | provider clients | late results of calls made under an older state, probes that never report | a broken provider is skipped, and is tried again in the end |
| Agent run loop (`internal/agent/engine_run_loop.go`, `turn_processing.go`, `tool_execution.go`) | the conversation, the plan | run a turn, execute tool calls in parallel batches | everything above | order of parallel results, cancellation in the middle of a batch | every tool call gets exactly one result, in order |
| Extensions and MCP (`internal/extensions*`, `internal/mcpctl`) | loaded extensions, client connections, bridged tools | reload, call, restart | tool registry | reconnection while calls are pending | a reply reaches the call that asked |
| Desktop notifier (`internal/notify/desktop.go`) | bounded queue, cool-down table | Notify, Close, sender goroutine | UI | queue full, close during notify | never blocks, never sends on a closed channel |
| Context compaction, plan state, approval, policy, sandbox | data only | pure functions over the conversation, the plan, a command | agent loop | boundaries | see the plan |
| Provider clients, tools, TUI, configuration, skills, mentions, assets, evaluation | - | I/O, rendering, parsing | - | - | not modelled: no concurrency of their own, or pure I/O |

## 2. Plan

The modules, in the order of what depends on them. A module that stands on another uses
its abstract specification, not its details.

| # | Module | Over | Abstract specification | State |
|---|---|---|---|---|
| 1 | `TaskManager` | - | `TaskLifecycle` (statuses and attempts of tasks) | done, with `TaskManagerProofs` |
| 2 | `SubAgentQuota` | `TaskLifecycle` | - | done, with `SubAgentQuotaProofs` |
| 3 | `StorageLock` | - | `Mutex` | done, with `StorageLockProofs` |
| 4 | `TaskLog` | `Mutex` | - | done, with `TaskLogProofs` |
| 5 | `ProviderHealth`: the circuit breaker under concurrent calls and the router's fall-back | - | - | done, with `ProviderHealthProofs` |
| 6 | `SessionStore`: events and snapshots across crashes | a lock as `Mutex` promises it | - | done, with `SessionStoreProofs` |
| 7 | `FileEdits`: the tools that edit files, the rollback store, undoing | - | - | done, with `FileEditsProofs` |
| 8 | `AgentTurns`: the run loop, groups of parallel calls, compaction | `SessionStore`'s Save as one step | - | done, with `AgentTurnsProofs` |
| 9 | `RuntimeGateway`: RunSync and RunAsync | `TaskLifecycle` | - | left |
| 10 | `DesktopNotifier`: bounded queue, cool-down, Close | - | a bounded queue that may drop | left |
| 11 | `ExtensionRuntime`: the MCP client's calls and reconnection, reload of extensions | - | - | left |
| 12 | `PlanState`: the phases of a plan and the repairs of replies | - | - | left |

The theorems worth proving are, for each module, that its inductive invariant holds, the
one or two properties its users rely on, and the step-by-step half of each refinement;
progress stays with TLC.
## 3. The task manager

`TaskManager.tla` models `InMemoryTaskManager`. Every section of the Go code under
`m.mu` is one action. What a function does after it has unlocked is a sequence of
*errands* in `todo[p]`, one step each: publish an event to one subscriber, persist
it, call a cancel function, cancel the children, wait, notify the waiters. A process
is a caller (`Tasks` name the callers of Submit, `Calls` make one Cancel, Retry or
Wait each) or the goroutine of an attempt, `<<task, attempt>>`. The correspondence:

| Model | Code |
|---|---|
| `status`, `attempt`, `errorCode`, `parentTask` | the fields of `Task` in `m.tasks` |
| `childParent`, `parentChildren`, `waiters`, `runCancels`, `events`, `subscribers`, `executions` | the maps of the same names (`m.streamSubscribers`, `m.executions`) |
| `cancelled` | the run contexts whose cancel function has been called |
| `stored` | the order in which the event store was given the events |
| `phase[g]` | where `runTaskAttempt` is: spawned, executing, finished |
| `todo`, `pc`, `spawn`, `inbox` | the rest of the function a goroutine is in, its result, the attempt it still has to enqueue, its waiter channel |
| `stream[s]` | the goroutine and the live channel of a `Stream` call, and what it has put on the out channel |

`Cancel` is the three branches `CancelRunning`, `CancelKilled`, `CancelPending`;
a child's Cancel is the same branches with the rest of the parent's Cancel behind
them, so the recursion of `cancelChildTasks` is a list of errands. `Submit` and
`Retry` end with `Enqueue`. `AttemptUnwired`, `AttemptTooLate`, `AttemptStart` and
`AttemptFinish` are the sections of `runTaskAttempt`. An executor may return any
outcome at any time, a cancellation of its own included; a timeout ends an attempt
like any failure does and has no code of its own here.

The reader of a stream takes part in `Deliver`, `out <- event`: a reader that is slow
makes that step late, while the live channel behind it fills up and holds the senders.
`Expiring` names the callers and the streams whose contexts may end. A stream whose
context ends leaves, whatever is still on its way to it.

`TaskLifecycle.tla` is the abstract specification: what a caller may rely on for one
task, with the progress the manager owes it. `TaskManager` implements it under the
identity on `status` and `attempt`.

### What is checked

* `RunningMeansExecuting`, `AttemptsInOrder`: one execution per running task, that of
  its current attempt; attempts follow one another. `runTaskAttempt` is given the
  task id only, so nothing in it compares attempts; the invariant is why that is safe.
* `LinksMirror`, `LiveChildrenLinked`: the two link maps agree, and a live child can be
  reached from its live parent while neither has been retried. Without that restriction
  the invariant does not hold: the links dropped when an attempt of the parent fails
  (manager.go:814-830) are not restored by `Retry` (manager.go:396-401), so cancelling
  the retried parent does not reach its live children, although docs/architecture.md:486
  says that cancellation cascades (级联取消).
* `NoLostWaiter`, `CallsReturn`: nobody blocked in Wait is forgotten, although Cancel
  wakes the waiters only after it has cancelled the children. `NoLostWaiter` is checked
  for callers whose contexts do not end; it fails otherwise, because a child's Cancel
  that returns the context's error makes the parent's return before it wakes anyone.
  `CallsReturn` is checked twice: in `task_live` two calls race over a parent and its
  child (a Cancel against a Retry, a Wait against the Cancel of the parent), in
  `task_stream` a call competes with the streams.
* `LogTellsStatus`, `StreamInOrder`, `StreamShowsOnce`, `StreamsClose`: the event log
  and its streams. Sends happen outside the lock: the events of an attempt arrive in
  order because they come from one goroutine at a time, and after a retry only "no event
  twice" is left.
* `StreamsClose` and `CallsReturn` hold but for what the code cannot promise, and the
  properties name it. `Stuck(p)`: the send in `publishTaskEvent` (manager.go:602) has no
  way out. A stream that leaves, because its context ends or because it has shown the
  last event before a retry, unsubscribes, but a sender that has copied the list of
  subscribers before goes on sending to its channel; once that is full the sender is
  blocked for ever, be it a Submit, Cancel or Retry or the attempt's goroutine, the other
  streams of the task get nothing from it, and neither do the waiters it was to wake.
  `Silenced(t)` adds the attempt that finds no executor and fails its task without
  an event (:664): its streams stay open until their contexts end. Only a stream that waits
  for such an event is excused, and only a call that is stuck itself or blocked in Wait
  while somebody is. The run reaches both:
  without either exception, `StreamsClose` is violated in it, and so is `CallsReturn`
  without the first. What the properties say is that nothing else keeps a stream open or a
  call from returning: with the buffers full and the readers late, every other order of
  sends, subscriptions, retries and departures comes to an end.
* `ImplementsLifecycle`: refinement of `TaskLifecycle` with its progress
  (`KeepsToLifecycle`, proved, is the same without).

| Run | Bounds | Why they are enough |
|---|---|---|
| `task_calls` | 2 tasks, 2 calls, 1 retry | parent and child, two racing calls, an old and a new attempt |
| `task_stream` | 1 task, 2 streams with a channel of 1, one of which may leave early, 1 call whose context may end, 1 retry, an executor that may be missing | channels smaller than the history, a stream that has left beside one that has not, events of two attempts, a racing cancel or retry, an attempt that ends without an event |
| `task_live` | 2 tasks, one with a token, no default executor, 2 calls, 1 retry | parent and child; two racing calls; tokens registered and removed before, while and after the attempt looks them up |

`streamBufferSize` is 32 in the code; the small buffers of the runs make the full
channel reachable: with 32 it takes more events, of more attempts, to fill it. No other counter is bounded: attempts are, by `MaxRetries`.

Deadlock checking is off: every caller makes one call and stops.

Fairness (`Spec`): weak fairness of `Work`, the steps of all goroutines, executors and
readers together: while some of them can go on, one does. That is less than the code's
scheduler gives, which is fair to each goroutine, and it is enough because none of them
works for ever: a call runs its errands, an attempt ends, a stream shows a log. What
it assumes is that `sync.RWMutex` does not starve, that executors return (a task
whose executor hangs for ever hangs in the code as well) and that readers go on reading
until their context ends. Calls, registrations and contexts are the environment's and have no
fairness.

### What is proved

`TaskManagerProofs.tla`, for all `Tasks`, `Calls`, `Subs`, `MaxRetries`, buffers:

* `TypeCorrect`: `SafeSpec => []TypeOK`.
* `OneExecution`: `SafeSpec => []RunningMeansExecuting`. The property is not
  inductive: it says nothing of goroutines that are spawned but have not started, or of
  the attempt a Submit or Retry has yet to enqueue. `AttemptsInOrder` is the
  strengthening (attempts are ordered, the current one's phase fits the task's status,
  and at most one call owes a goroutine), inductive together with `TypeOK`; it is a
  theorem of its own, `AttemptsKeepOrder`.
* `LinksAgree`: `SafeSpec => []LinksMirror`, inductive with `TypeOK` and
  `AttemptsInOrder`.
* `LiveChildrenStayLinked`: `SafeSpec => []LiveChildrenLinked`, with the addition that a
  task that has children has been submitted, so no child is waiting for a parent to come.
* `EventsTellStatus`: `SafeSpec => []LogTellsStatus`. The strengthening `EventsInv` says
  what the last event is when its status is not the task's: the attempt had no executor.
* `LifecycleKept`: `SafeSpec => KeepsToLifecycle`, step by step.
* `StreamsShowOnce`: `SafeSpec => []StreamShowsOnce`. An event reaches a stream from the
  backlog that Stream copies or from a send of the attempt's goroutine or of a call, all
  outside the lock. `ErrandsInv` says which events each goroutine and call still has to
  send, `OnceInv` that what a stream has shown, holds in its channel and is still to
  be sent to it are disjoint parts of the log.
* `StreamsKeepOrder`: `SafeSpec => []StreamInOrder`, with `OrderInv`: what is on its way
  to a stream follows what it holds without a gap, and comes from one sender at a time, as
  long as the task is not retried.
* `NoWaiterLost`: `Expiring \cap Calls = {}` and `SafeSpec` give `[]NoLostWaiter`. `WaitInv` follows
  a waiter: it is in the table of a task that is live, or a call that has taken it
  out (a Cancel on its way through the children) still has to notify it, or it has its
  result. The hypothesis is needed:
  where contexts end, a Cancel may return with the wake-ups still owed (below).

Assumed: the named assumptions on the constants in `TaskManager.tla` (a natural
`MaxRetries`, a positive buffer, finitely many streams, disjoint names; `None`, the
result of a call that has none yet, is no result). All invariants of the runs are proved;
liveness (`CallsReturn`, `StreamsClose`, the progress of `ImplementsLifecycle`) and the
action properties without a theorem are model-checked only.

Known limits of the code. Named in the properties: the send that never ends (:602) and
the failure without an event (:664), above. No property is about these: if
cancelling a child of a pending task fails because the caller's context ends, Cancel
returns before it wakes the waiters it has removed (manager.go:347); Retry keeps the
output of the failed attempt (:396); nothing is ever evicted (:198).

## 4. Sub-agent coordinator and quota

`SubAgentQuota.tla` models `InMemorySubAgentCoordinator` over `InMemoryQuotaManager`.
`Acquire`, `Refuse`, `Submit`, `SubmitFailed`, `Record` are the steps of Spawn;
`Wait`, `WaitReturns`, `WaitExpires`, `CheckTerminal` those of Wait; the goroutine
`waitTerminalAndRelease` is the giver `<<t, "watcher">>`, the caller of Wait the giver
`<<t, "caller">>`, and both run `releaseQuota` (`TakeKey`, `GiveBack`: two mutexes, two
steps). Below it is `TaskLifecycle`, which section 3 shows the task manager to
implement; only its steps move a task.

* `SlotsAccounted`: the count of a key equals the number of tasks that hold one of its
  slots. `Release` trusts its caller, so this is what "taken out of the table first"
  is for. `QuotaKept`: no key has more holders than its limit.
* `LiveTasksHold`: a live task holds its slot in its first attempt. With `QuotaKept` it
  follows that the limit bounds those tasks (`NoOverrun`, proved, and not in the run). Not later: a failed task gives its slot back, and a `Retry`
  runs it again without one.
* `SlotsReturn`: an ended task gives its slot back.

Run `quota`: two tasks on one key with one slot and one retry each, so both givers of
both tasks race for the same count.
Fairness: weak fairness of every goroutine, and the progress of `TaskLifecycle`.

`SubAgentQuotaProofs.tla` proves the three invariants and `NoOverrun` for any finite set of
tasks, any keys and limits. `SlotsAccounted` is inductive with its two parts, the
types and `OneSlot` (a slot is with Spawn, in the table, or with one giver);
`QuotaNeverExceeded` adds `inUse[k] <= Limit[k]`. `LivingHold` is proved from
`KeysUntilEnd`: nobody takes a key before the first attempt is over, which does not come
back (`OverIsFinal`).

## 5. Storage locks and the task event log

`Mutex.tla` is what a lock promises for one key: `place` says where each call of
LockSession or LockTask is, at most one is "in", every call that waits enters or gives
up, and a process may die at any time.

`StorageLock.tla` is the lock the program builds (`NewDefaultLocker`): an in-memory
locker in each process before a lock file that all processes share. `entry`, `table`,
`refCount` and `sem` are the reference-counted semaphores; `AcquireEntry`, `TakeSem`,
`QueueCtxDone`, `FreeSem`, `ReleaseEntry` the steps of `InMemoryLocker`. `file` is the
lock file with the call that created it (which the code does not look at), `stale` its
age against `staleAfter`; `Create`, `Exists`, `Write`, `Heartbeat`, `Stat`, `Reclaim`,
`Poll`, `Unlock`, `Unlink` are the steps of `FileLocker`. Stat and Reclaim are two steps:
the file may be another one in between. `GoStale` is the passing of `staleAfter`; it
cannot happen to a file whose holder is alive and runs its heartbeat (10 s against
2 min), except in the processes of `Stallable`.

| Run | Instance | Shows |
|---|---|---|
| `lock_crash` | 2 processes x 2 goroutines, one process dies at any point | `OneHolder`; `FileHasOwner`: only a dead holder's file is left behind; `ImplementsMutex`: refinement of `Mutex` with its progress |
| `lock_faults` | the same; one process dies, one stands still, contexts end, file operations fail | `OnePerProcess` (the semaphore excludes and is given back), `EntriesShared`: the in-memory half does not depend on the other |
| `lock_reclaim` | 3 processes, the holder's dies | `OneHolder` fails: two waiters reclaim the same stale file (a finding) |

With two processes one waiter is left after a crash, so the race of lock_reclaim cannot
happen there; lock_crash says what recovery does when it goes well. Fairness: goroutines
are scheduled, holders unlock, and time passes. Where contexts never end a call that waits
must get in by weak fairness alone; that holds because each call locks once.

`StorageLockProofs.tla` proves the four invariants for any number of processes and calls.
`EntriesShared` and `OnePerProcess` need no assumption: `SemaphoreInv` says that the calls
of a process that use an entry all use the one in the table, which counts them, and that
the semaphore is taken exactly when one of them has passed. `OneHolder`, `FileHasOwner` and
`KeepsToMutex` (each step is one of `Mutex` or a stutter) assume `Healthy`: no process dies
or stands still and no file operation fails. lock_reclaim shows that the assumption is
needed.

`TaskLog.tla` models the log file of one task. AppendLog writes under the task's lock, for
which `Mutex` stands; a line is two cells, so that a reader can see and a crash can leave
half of it. ReadLogFrom and ReplayTaskLog take no lock: `Page` is the Stat, `ReadLine` one
round of the loop, `PageEnds` its ends, `TakeBatch` the de-duplication and the decision to
go on.

* `OffsetsTrue`: AppendLog returns where the line begins. `LossBounded`: an append that
  fails halfway costs at most one acknowledged record, the one behind it, which is glued to
  the torn line; without such failures none is lost (`AckedReadable`, which is proved).
* `ReplayExact`: at every moment what a reader has is exactly what there is to read up to
  its position, in order, the first of each event id. `ReplayComplete`: a replay that ends
  has what could be read when it started. `ReplayEnds`.

Run `log`: three records on pages of one, the last with the event id of the first, so a
duplicate comes pages later, and any of the appends may fail or die at any point.
`TaskLogProofs.tla` proves, for any number of appends, readers and any page size:

* `OffsetsAreTrue` and, without failures, `AckedStayReadable`; both from `LogInv`, that
  the calls inside hold the lock and nobody else moves the end of the file.
* `LossIsOnePerFailure` (`LossBounded`). `LinesFit` says where the cells of a record can be:
  its head once, at the offset its call found, its tail right behind unless the append is
  under way or has failed. A lost record therefore lies behind the torn head of an append
  that failed, and no two behind the same: the lost are mapped into the failed one to one.
  The only assumption is that finitely many calls append (`RecordsAssumption`).
* `ReplayIsExact` (`ReplayExact`). Its invariant `ReaderFits` keeps for each reader what
  `WithNew` would return now: the first of each event id of the records that end by
  `next`, in order. `WithNew` is a recursive function; `Least` (a set of naturals has a least
  member) stands in for the induction the prover lacks and gives its two equations,
  `WithNothing` and `WithOneMore`. `UptoStays` says that the file only grows.
* `ReplayIsComplete` (`ReplayComplete`), with `Caught`: a replay that is not going on has
  found no further line since it started (`LineBefore`: a line that could be read is behind a
  line that can be found), or a full page, which it is never content with.

`ReplayEnds` is liveness and stays with TLC.

## 6. Provider health and routing

`ProviderHealth.tla` models `healthChecker` (a circuit breaker for each provider), the
router that consults it and the loop of `RoutedClient.execute` over the targets.

* `status`, `outcomes`, `probeInFlight` are the fields of `healthState`; `waiting` says
  that `nextProbeAt` lies ahead, and `ProbeDue` is the passing of that time. `Success`
  and `Failure` are RecordSuccess and RecordFailure, which completeProbe repeats.
* A call is `"routing"`, `"probing"` (Check is running the probe, without the mutex) or
  `"passed"` (Check has returned, Status is still to be read). `todo` holds the providers
  that `filterHealthyCandidates` has yet to check, `seen` the status with which it listed
  each target that has not failed since, `shown` the providers whose deltas were passed
  on. `Target` is the first of what `sortRouteCandidates` would return: health, then the
  ranks by policy. A call that has checked everything is `Requesting`, if it has targets.
* Requests and probes may succeed, fail, be cancelled or rejected at any time
  (`Answers`, `Fails`). `settled` is used by the liveness property only: from `Settle(p)`
  on, p answers, the others fail, and no call is interrupted nor any answer broken off.
* `ExternalHealthTicker.Tick` is a call that gives up before its first request.

Properties:

* `StatusTellsOutcomes`: in whatever order concurrent calls report, a provider in use has
  not failed FailThreshold times running, a healthy one has just succeeded or never been
  used, and one that is cut off has not succeeded RecoverThreshold times running.
* `OneProbe`: the probe flag is up exactly while one call probes.
* `NoMixedOutput`: what a call shows comes from one provider.
* `Recovers`: if one provider comes to answer while the others fail, it ends up healthy,
  whatever the breakers had been through. It needs the fall-back (a target that was seen
  half-open comes last), `RecoverThreshold <= WindowSize`, and answers that do not break
  off: a failing provider that is preferred and always streams something first keeps its
  callers from falling back, and if they call less often than RecoverProbeSec, the
  breaker never spares them the attempt.

Run `provider`: two callers, two providers, thresholds and window of 2, with and without
a probe (production passes none). Two callers are what it takes for one to find the
other's probe, for late reports and for stale listings; a threshold of 2 is the least for
which runs of outcomes matter and `"degraded"` occurs.
Fairness: weak fairness of each caller's own steps (goroutines run, requests and probes
end, callers call again) and of `ProbeDue` (time passes); none for interruptions.

`ProviderHealthProofs.tla` proves the three safety properties, the first of which
includes the types and the size of the window, for any sets of providers and callers and
any thresholds. `Sound` (types, `OutcomesAgree`, and that a call in the middle of a check is at a
provider) is inductive; `OneProbe` is inductive over it; `NoMixedOutput` follows from
`ShownByTarget`, that what has been shown is the present target's. The two CHOOSEs, of
the provider to check and of the best target, are shown to be well defined from the
well-foundedness of the naturals.

The configuration reference (`www/reference/config-reference.md`) gives `window_size` in
seconds; in the code it is a number of outcomes, and the model follows the code. A
provider that recovers while a better ranked one is healthy stays half-open, as nothing
calls it and production has no probe.
With `fail_threshold` above `window_size` the breaker never opens, with
`recover_success_threshold` above it it never closes; no value is refused (health.go:336).

## 7. The session store

`SessionStore.tla` models one session on disk. `lines` and `ended` are `events.jsonl`
(`None` is a line that cannot be parsed; `ended` whether the last has its newline), `snap`
is `snapshot.json`, `legacy` the file of the older layout. Each process has the session in
memory, and where its Load or Save is: `Load` reads the snapshot (or the legacy file) and
`FinishLoad` the events, without a lock; `Save` takes the session's lock and reads the
snapshot, `ReadEvents` the events, after which it is settled which lines to write;
`AppendLine` writes one, `WriteSnapshot` replaces the snapshot by a rename, `Return`
unlocks. `StopBetween` and `StopInLine` are a process that dies or a write that fails,
the second in the middle of a line. `ChooseToDelete`, `RemoveEvents`, `RemoveSnapshot`,
`RemoveDir` and `RemoveLegacy` are DeleteInWorkspace and the clean-up of sessions without
messages, which decides first and deletes later. The lock is what `Mutex` promises; that
the real one can be held twice after a crash is the finding of section 5 and not repeated.

A session is abstracted to its mode, its messages and the rest, each the number of the
change that made it. Event ids are random and never repeat; the test for one that does is
left out, as are `Store.Snapshot`, `ReadFrom` and `ReadEvents`, which only read, and the
index of sessions by workspace.

Three variables are there only for the properties: `promised` is the last session whose
Save has returned nil, `attempted` those whose Save has begun since, `skewed` whether a
change was written over something else than it was computed from.

* `NumbersGrow`: the events that are replayed have growing numbers, otherwise the session
  could not be loaded at all, and a Save goes on behind the last number.
* `Recovered`: field by field, what is stored is what was promised or what was attempted
  since, at every moment. A crash may leave the mode of one save and the plan of another.
  It excludes what the code does lose, and names it: a Save that has one line to append
  and finds a torn line before it (the two are glued, both are lost and Save returns nil:
  the next Save with the whole session repairs it); a Save during which the session is
  removed; and, while `skewed`, a message list that was appended to something it does not
  continue, which lasts until a whole session or a snapshot is written.
* `LoadsStored`: a Load, which takes no lock, returns what is stored when it ends, however
  many saves and snapshots fall between its two reads (no line torn, nothing removed).

What the model shows besides: the first Save of a legacy session writes its changes before
the whole, and from the first byte on the new layout hides the legacy file; a crash there
makes Load fail although the old file is intact, while the next Save falls back on it.

Run `session`: two processes, two changes, three saves, one fault, one removal, a snapshot
every three events. Two saves are enough for a torn line and the save behind it, the third
for what is built on them; three events bring the snapshot between lines of one save.
With three changes, two faults and no removal it passes too (20 million states).
Processes may stop, so deadlock is not checked, and no liveness is claimed.

`SessionStoreProofs.tla` proves all three properties for any number of processes, changes,
saves, faults and removals. The assumptions are `SessionAssumption` and `NoneAssumption`:
`None` is neither a process nor a session, an event or a snapshot.

* `NumbersAlwaysGrow`: the inductive invariant `StoreInv` adds that *all* lines are in
  order, not only those behind the snapshot, and that what the holder of the lock has read
  (the snapshot's number, the last event's) is not below what is in the files; the files
  only shrink by a removal, so the numbers a Save continues from never are too low.
* `SessionsRecovered`: `RecoverInv` is `StoreInv`, `Typed` (every variable has its type, and
  who has a session open has one) and `KeptInv`. The last says what a Save relies on between
  its lines: the drafts that are left lead from its `base` to its session and end with the
  whole session (`DraftsFit`, of `SaveDraftsFit` and `DraftsFitTail`), that session is among
  `attempted`, and when no draft is left the files lead to it unless it is at risk. It also
  says what is stored if the last line is lost, which a line without its newline will be:
  that was promised or attempted, too (`Under`).
* `LoadsReturnStored`: `LoadInv` adds that, as long as nothing was torn or removed, the
  snapshot is of a session that is also a line with the snapshot's number, and that who
  loads has read this snapshot, an older one or none. From that line on both lead to the
  same (`SnapshotsAgree`).

`Replay` is the library's fold, about which nothing can be proved by the induction theorems
at hand. `After(file, s, k)` is what its first k lines lead to; `AfterIs` shows that it starts
with the snapshot and goes on line by line, and `Induct` is the induction on k, stated for
a set of numbers. What appending a line, or losing the last one, does to a replay
(`ReplayAppended`, `ReplayLost`) follows. TLC checked `KeptInv` and `LoadInv` first, as
invariants on the instance of the run.

## 8. Editing files, and undoing it

`FileEdits.tla` models the tools that edit files together with the rollback store, because
neither means anything without the other. An operation is a list of edits of one file each
(`add`, `update`, `delete`); a move is the two that the code makes of it, in their order.
`files` is the workspace, `entries` the store's entry of each operation, `proc` what an
agent or a user who undoes is at. A call of a tool is `Plan` (what is read before anything
is recorded), `Begin`, one `WriteEdit` for each file, `Hash` and `Commit`; when it fails,
`Snapshot`, one `RestoreFile` for each edit and `Close` put the files back, and if one of
those fails, `Revert` undoes that. `/rollback` is `Rollback`, `Check`, and the same
restoring. No step is protected by a lock: agents, undoings and other programs
(`Foreign`) interleave between any two of them. `WriteFails` and the other failures may
leave half a file (`Torn`); `Dies` and `DiesWriting` are the process that dies.

The files of one call are read in one step where they are read one after the other,
because nothing is decided by two of them together; the writes are one step each. Contents
are values, so two states of a file that look the same are the same, as hashes are in the
code. Calls without a run id record nothing and are not modelled.

Three things are there only for the properties: `history` and `initial` keep the files
before a call began, `touched` those that others wrote to since, `spoilt` the files about
whose past nothing is claimed.

* `LosesOnlyItsOwn`: whatever is put back, after a failure or by the user, overwrites
  nothing but what the operation itself wrote or found.
* `AllOrNothing`: a call commits with all of its files as meant, or ends with all as they
  were; an undoing that fails leaves them as they were before it.
* `UndoChain`: of each file, every operation found it as the one before left it, and the
  last left it as it is, so undoing one after the other leads back to the start.

The properties name what they cannot promise, because the code does not: a file that
somebody writes to *while* the call is at work (Commit takes what it finds for its own and
will undo it; a failed call puts its files back without looking); a file whose undoing
failed, died or was not recorded (the operation stays `committed` with its files put
back, or `pending` for ever, and nothing returns to it); and one where an operation was
undone out of order, which the comparison of hashes allows when the contents happen to
agree. And there is the operation that comes back: of two undoings of the same one, the
second may find its files changed by the first, and saves the entry as it had read it, so
that a `rolled_back` operation is `committed` again (`store.go:333-336`). `Revives` names
the files of such an operation; without that exclusion `UndoChain` fails with two undoings.

Run `files`: two agents, one user, two files, two contents, two operations of one edit or
one move, one upset (a foreign write, a failure or a death) at any point. Two operations
are needed for a chain and for two calls at once, two files for all-or-nothing; a second
upset only adds to what is excluded. Everyone may stop, so deadlock is not checked.

`FileEditsProofs.tla` proves all three for any number of agents, users, files, edits and
failures, in two steps. `FilesInv` says for each process on its own, by how far it has
come, what each file it uses must contain unless somebody has written to it since (`Fits`);
that an undoing holds an operation whose entry was committed, so that its before-images are
the files before it (`Sound`); and that no two calls share an entry. A write of one process
only moves the file into `touched` of the others. `LosesOnlyItsOwn` and `AllOrNothing`
follow.

`UndoChain` is not a matter of one process: between a write and the entry that records it,
the file and the store disagree, and which of several processes at the same file may
disagree, and how, is the argument. `FileOK(f)` says, for a file that is not spoilt: each
operation found what the one before it left (`Links`); the file is what the last one left,
or some process at it has written it and will record that, put it back, or spoil it
(`Settled`); what each process knows of the file (`Knows`: a call that has written it found
what the last operation left; an undoing whose operation is no longer committed has put it
back already); and that a call which is at the file beside another that has written it came
later, and found what that one wrote (`Came`). Every action keeps it, by one of a few
lemmas: the process was not at the file (`AwayStep`), goes on without writing it
(`Onwards`), writes it alone (`SoleStep`), or changes the store's chain by its last
operation (`LogStep`). TLC checked `FileOK` on the run's instance, and with one agent and
two undoings, before it was proved.

## 9. Runs of the agent

`AgentTurns.tla` models the run loop for one session. `timeline` is
`Session.Messages`, `disk` what the last successful Save wrote, `request` the conversation
the model was sent, `at` where the run is: `idle`, before a `step`, `asking` the model, or
with `tools` at work. The loop's own variables have the names of the code where it has
them (`step`, `reactive` for `compactionAttempt`, `rateLimited` for `rateLimitAttempt`,
`lastCalls` and `repeats` of the tracker of repeated calls, `noProgress`); `calls`,
`from`, `running`, `done` and `broken` are the request being worked off, by groups.

| Code | Actions |
|---|---|
| `prepareRunPrompt`, `beginRunSession` | `Prompt` |
| the loop of `runPromptTurns`, `messagesForStep` | `Ask`, `AskCompacted`, `AskFails`, `CompactLast`, `OutOfSteps` |
| `processTurnWithReactiveCompaction` | `Overloaded`, `TooLong`, `AskingFails` |
| `processTurn`: replies without calls | `Answers`, `Idles` |
| `processTurn`: requests for calls | `CallTools`, `Loops`, `NextGroup`, `TurnEnds`, `GroupFails` |
| `executeToolCall` in the goroutines of `executeToolCallsParallel` | `Returns`, `Breaks` |
| background agents, `/compact`, the Tab key, the process | `Notify`, `Compact`, `ToggleMode`, `Crash` |

A message is its kind and what it belongs to. What a reply says is free: the six repairs
of `processTurn` count the same way and are one action, `Idles`. Compaction is the
algorithm of `internal/context/compaction.go`, with one recent pair to keep, as in the
code; when it is tried, and whether the provider gives a summary, is free. A Save is one
step that succeeds or fails; in both cases it drops notes from memory (section 7 is about
the files). The user interface works on the same session and saves it when the mode is
switched, also during a run; the model has that between any two steps, while in the code
nothing keeps the two goroutines apart.

* `ConversationSound`: in memory, on disk and in what the model is sent, every result
  stands behind its request, in the order of the calls, each once; every request has all
  of its results, but for the one being worked off and those that were cut short; and
  whatever the model is asked was saved before, but for notes.
* `SideEffectsAlone`: a call that is not on the list of `toolsParallelizable` runs when all
  before it are back, and none behind it starts before it is; no more than
  `maxParallelToolCalls` run at once.
* `RunEnds`: every run ends. Steps are bounded, but inside one a compaction gives back the
  attempts against an overloaded provider, and a compaction may leave everything as it is.

Fairness is `WF_vars(RunStep)`: some step of the run is taken while there is one. The
provider's answer and the tools may take any time but do come back, as an answer or an
error: the clients time out after two minutes (openai.go:83), the executor gives tools a deadline
(executor.go:357), and the user's interrupt ends the context of the rest. There is no fairness among the
steps, so the model may answer in any way for ever.

What the first property leaves out is left out because the code does not give it:

* Calls cut short (`cut`: a crash, a call that breaks, a Save that fails) keep their
  request in the session without results, and later runs send it as it is. Nothing adds
  the missing results; a compaction removes the request, or refuses to keep it.
* `PersistedUserMessageIndex` (engine_run_setup.go:62) is taken before the run. After a
  compaction, or a Save that drops notes in front of it, `conversationMessagesForTurn`
  puts a prompt that mentions an agent over whatever stands there now: over a request for
  calls, for example, whose results are then behind no request.
* A note is a message of the user with text (`isHumanUserMessage`), so a compaction that
  finds one behind the prompt keeps the note for the latest human message, and the Save
  in `compactSession` drops it: the retried request has neither.

Run `turns`: two prompts, two steps each, two tools of which one may run beside others, requests
of three and of two calls with groups of two, one compaction and one retry per step,
one note, two faults. Two prompts are needed for calls that a run left behind, two steps
for a pair that a compaction in the middle of a run can keep, two faults for a save that
fails before a crash.

`AgentTurnsProofs.tla` proves both invariants, for any tools, requests and limits, from
the named assumptions on them in `AgentTurns.tla` (requests are not empty, groups not
either, limits are natural numbers).

* `CallsRunAlone` is `SideEffectsAlone`. The inductive invariant (`IInv`) says that while
  tools are at work all calls before the group are back, that those of the group run, are
  back, or have broken, and that no other has been started; a group is an interval of
  calls (`GroupIsInterval`), so the next one begins where it ends.
* `ConversationsStaySound` is `ConversationSound`. `ConvInv` adds to `IInv` the bounds of
  the counters; that session and disk are sound, but for requests that were cut short and the
  current one, and hold no request with a number that has not been given yet; and, while tools
  are at work, that the session has no notes and ends with the current request and the
  results of all groups before (`WorkedOff`). Without the last part a finished request
  could not be said to be complete, without the numbers an earlier request could share the
  number of the current one. The lemmas are about what is done to a conversation: saving
  leaves out nothing between a request and its results (`DurableSound`, from the ranks of
  the places that are kept), the results of a group may follow (`ResultsSound`), and a compaction
  keeps the call of every result it keeps, hence all that is between them
  (`CompactionShape`, `EndSound`: this is what `ValidateToolPairInvariant` is for).
  `Durable` is written with the places that are saved, not with `SelectSeq`, which the
  provers cannot reason about.

`RunEnds` is a liveness property and stays with TLC.

## 10. What is only model-checked, and what is not modelled

Everything listed under `theorems` in `PROJECT.json` is proved for every value of the
constants, under the assumptions the modules name and, where a theorem says so, without
failures. Only model-checked, on the instances above: every liveness property and the
progress half of the refinements (fairness and ENABLED are out of the prover's reach);
the liveness properties are `StreamsClose`, `CallsReturn`, `SlotsReturn`, `ReplayEnds`, `Recovers`
and `RunEnds`; of `ImplementsLifecycle` and `ImplementsMutex` every step is proved
(`LifecycleKept`, `KeepsToMutex`). Every invariant and every action property that a passing
run checks is a theorem as well.

Left out of every module: the text of messages, payloads, timestamps except where a
comparison of them decides something, logging, and errors that only wrap another.
Components with status `not_modelled` are listed with their reasons in `PROJECT.json`:
provider clients, the terminal interface, configuration, skills and assets are I/O,
rendering and parsing without state that concurrent actors share.

Six hazards in PROJECT.json name no property, because the code does lose something there and
the property next to it leaves the case out: a line glued to a torn one, the first save of a
legacy session, the clean-up of sessions that are being saved, files that others write
while a call or its undoing is at work, and prompts that mention an agent. Their notes say
which property stops where.
