---------------------------- MODULE TaskManager ----------------------------
(***************************************************************************)
(* InMemoryTaskManager (internal/runtime/manager.go): the table of tasks,  *)
(* the goroutine of each attempt, cancellation down the parent/child       *)
(* links, waiters, the event log and its live streams.                     *)
(*                                                                         *)
(* Every section of the code under m.mu is one step.  What a function does *)
(* after it has unlocked - sends to subscribers, writes to the event       *)
(* store, cancels children, wakes waiters, waits - is a list of errands    *)
(* (todo) that its goroutine runs one at a time, interleaved with          *)
(* everybody else's; that is where this code can go wrong.                 *)
(***************************************************************************)
EXTENDS Integers, Sequences, FiniteSets

CONSTANTS
  Tasks,            \* task ids; t also names the goroutine that submits t
  Calls,            \* goroutines that make one Cancel, Retry or Wait call
  Subs,             \* goroutines that make one Stream call
  MaxRetries,       \* TaskSpec.MaxRetries
  Tokens,           \* the tasks submitted with an execution token
  StreamBuffer,     \* streamBufferSize
  DefaultExecutor,  \* TRUE iff the manager was built WithTaskExecutor
  Expiring,         \* the callers and the streams whose contexts may end
  None              \* no task, no goroutine, no result

Attempts   == 0 .. MaxRetries
Goroutines == Tasks \X Attempts      \* <<t, a>>: spawned for attempt a of t
Callers    == Tasks \cup Calls
Procs      == Callers \cup Goroutines

ASSUME RetriesAssumption == MaxRetries \in Nat
ASSUME BufferAssumption  == StreamBuffer \in Nat \ {0}
ASSUME SubsAssumption    == IsFiniteSet(Subs)
ASSUME TokensAssumption  == Tokens \subseteq Tasks
ASSUME ContextAssumption == Expiring \subseteq Calls \cup Subs
ASSUME NamesAssumption   == /\ Tasks \cap Calls = {}
                            /\ Callers \cap Goroutines = {}
                            /\ None \notin Procs

VARIABLES
  status,       \* Task.Status of each task, or "absent"
  attempt,      \* Task.Attempt
  errorCode,    \* Task.ErrorCode
  parentTask,   \* Task.Spec.ParentTaskID
  executions,   \* the tasks whose execution token is registered
  childParent,  \* the two maps of parent/child links
  parentChildren,
  waiters,      \* the callers whose channels are in m.waiters[t]
  runCancels,   \* the goroutine whose cancel function is in m.runCancels[t]
  cancelled,    \* the goroutines whose run context has been cancelled
  events,       \* m.events (m.logs gets an entry whenever it does)
  subscribers,  \* m.streamSubscribers
  stored,       \* what the event store has been given, in its order
  phase,        \* of a goroutine: absent, spawned, executing, finished
  todo,         \* the errands each process still has to run
  pc,           \* of a caller: idle, busy, ok, error
  spawn,        \* the attempt a Submit or a Retry still has to enqueue
  inbox,        \* the result last received on a caller's waiter channel
  stream        \* of a subscriber: see Idle below

tasks == <<status, attempt, errorCode>>
specs == <<parentTask, executions>>
links == <<childParent, parentChildren>>
runs  == <<runCancels, cancelled, phase>>
log   == <<events, stored>>
conns == <<subscribers, stream>>
calls == <<pc, spawn>>
vars  == <<tasks, specs, links, waiters, runs, log, conns, todo, calls, inbox>>

Statuses == {"absent", "pending", "running", "completed", "failed", "killed"}
Terminal == {"completed", "failed", "killed"}
Codes    == {"", "not_implemented", "task_cancelled", "task_execution_failed"}

\* Mutant: a failed task is not taken for an ended one.
MutantFailedLives(s) == s \in Terminal \ {"failed"}

\* IsTerminalTaskStatus
IsTerminal(s) == s \in Terminal

\* baseAllowedTransitions
Allowed == ({"pending"} \X {"running", "failed", "killed"})
             \cup ({"running"} \X {"completed", "failed", "killed"})

\* Mutant: no transition is ever refused.
MutantAnyMove(from, to, retrying) == TRUE

\* ValidateTaskTransition; only Retry passes AllowRetryTransition.
CanMove(from, to, retrying) ==
  \/ from = to
  \/ from = "failed" /\ to = "pending" /\ retrying
  \/ <<from, to>> \in Allowed

Event  == [task: Tasks, offset: Nat, status: Statuses, attempt: Attempts]
Result == [status: Terminal, code: Codes]

ASSUME ResultsAssumption == None \notin Result

\* A stream: the task, where its goroutine is, whether it is subscribed to
\* live events (useLive), the events it has in hand, the live channel, and all
\* the events it has put on the out channel.
Idle == [task |-> None, at |-> "idle", live |-> FALSE,
         hand |-> <<>>, chan |-> <<>>, out |-> <<>>]

-----------------------------------------------------------------------------
(* Errands. *)

Publish(e, s)  == [do |-> "publish", event |-> e, to |-> s]
Persist(e)     == [do |-> "persist", event |-> e]
CancelRun(g)   == [do |-> "cancelrun", run |-> g]
CancelKids(K)  == [do |-> "cancelkids", kids |-> K]
Notify(W, r)   == [do |-> "notify", who |-> W, result |-> r]
WaitFor(t)     == [do |-> "wait", task |-> t]
Blocked(t)     == [do |-> "blocked", task |-> t]

Errands ==      [do: {"publish"}, event: Event, to: Subs]
           \cup [do: {"persist"}, event: Event]
           \cup [do: {"cancelrun"}, run: Goroutines \cup {None}]
           \cup [do: {"cancelkids"}, kids: SUBSET Tasks]
           \cup [do: {"notify"}, who: SUBSET Calls, result: Result]
           \cup [do: {"wait", "blocked"}, task: Tasks]

\* Process p is about to run an errand of kind k.
At(p, k) == todo[p] # <<>> /\ Head(todo[p]).do = k

\* The orders in which a Go map with these keys may be iterated.
Orders(S) == {f \in [1 .. Cardinality(S) -> S] :
                \A i, j \in 1 .. Cardinality(S) : f[i] = f[j] => i = j}

-----------------------------------------------------------------------------
(* What the functions named ...Locked do. *)

\* Mutant: the event is built before the task is updated.
MutantStaleEvent(t) == [task |-> t, offset |-> Len(events[t]),
                        status |-> status[t], attempt |-> attempt[t]]

\* appendTaskEventLocked, appendTaskLogLocked: the event for t as it now is.
NewEvent(t) == [task |-> t, offset |-> Len(events[t]),
                status |-> status'[t], attempt |-> attempt'[t]]

LogEvent(t) == events' = [events EXCEPT ![t] = Append(@, NewEvent(t))]

\* Mutant: the event is published before and after it is persisted.
MutantPublishTwice(t, order) ==
  LET sends == [i \in DOMAIN order |-> Publish(NewEvent(t), order[i])]
  IN  sends \o <<Persist(NewEvent(t))>> \o sends

\* publishTaskEvent, persistTaskEvent and persistTaskLog come next, for the
\* subscribers snapshotStreamSubscribersLocked found, in some order.
Announce(t, order) ==
  [i \in DOMAIN order |-> Publish(NewEvent(t), order[i])] \o <<Persist(NewEvent(t))>>

\* Mutant: a child is linked to a parent that is running, but not to one that waits.
MutantLinkRunning(child, parent) ==
  IF status[parent] = "pending" THEN UNCHANGED links
  ELSE /\ childParent' = [childParent EXCEPT ![child] = parent]
       /\ parentChildren' = [parentChildren EXCEPT ![parent] = @ \cup {child}]

Link(child, parent) ==
  /\ childParent' = [childParent EXCEPT ![child] = parent]
  /\ parentChildren' =
       [p \in Tasks |-> IF p = parent THEN parentChildren[p] \cup {child}
                                      ELSE parentChildren[p]]

\* Mutant: the children of a task that ends keep their link to it.
MutantKeepChildren(t) ==
  /\ childParent' = [childParent EXCEPT ![t] = None]
  /\ parentChildren' =
       [p \in Tasks |-> IF p = t THEN {} ELSE parentChildren[p] \ {t}]

\* detachParentChildLinkLocked: from its parent and from all its children.
Detach(t) ==
  /\ childParent' = [c \in Tasks |-> IF c = t \/ c \in parentChildren[t]
                                     THEN None ELSE childParent[c]]
  /\ parentChildren' =
       [p \in Tasks |-> IF p = t THEN {}
                        ELSE IF p = childParent[t] THEN parentChildren[p] \ {t}
                        ELSE parentChildren[p]]

SetTask(t, s, code) == /\ status' = [status EXCEPT ![t] = s]
                       /\ errorCode' = [errorCode EXCEPT ![t] = code]

\* taskToResult
ResultOf(t) == [status |-> status'[t], code |-> errorCode'[t]]

\* resolveExecutionLocked finds an executor.
Executable(t) == t \in executions \/ DefaultExecutor

\* Mutant: the cancel function of a run that is over stays in the table.
MutantKeepCancel(t) == UNCHANGED runCancels

\* delete(m.runCancels, id)
EndRun(t) == runCancels' = [runCancels EXCEPT ![t] = None]

\* Mutant: a retry makes an attempt and starts no goroutine for it.
MutantSpawnFirst(g) ==
  phase' = IF g[2] = 0 THEN [phase EXCEPT ![g] = "spawned"] ELSE phase

\* enqueueTask: go m.runTaskAttempt
Spawn(g) == phase' = [phase EXCEPT ![g] = "spawned"]

-----------------------------------------------------------------------------
Init == /\ status = [t \in Tasks |-> "absent"]
        /\ attempt = [t \in Tasks |-> 0]
        /\ errorCode = [t \in Tasks |-> ""]
        /\ parentTask = [t \in Tasks |-> None]
        /\ executions = {}
        /\ childParent = [t \in Tasks |-> None]
        /\ parentChildren = [t \in Tasks |-> {}]
        /\ waiters = [t \in Tasks |-> {}]
        /\ runCancels = [t \in Tasks |-> None]
        /\ cancelled = {}
        /\ events = [t \in Tasks |-> <<>>]
        /\ subscribers = [t \in Tasks |-> {}]
        /\ stored = [t \in Tasks |-> <<>>]
        /\ phase = [g \in Goroutines |-> "absent"]
        /\ todo = [p \in Procs |-> <<>>]
        /\ pc = [c \in Callers |-> "idle"]
        /\ spawn = [c \in Callers |-> None]
        /\ inbox = [c \in Calls |-> None]
        /\ stream = [s \in Subs |-> Idle]

\* A task's id is known to others once its Submit has returned.
Known(t) == pc[t] = "ok"

Busy(c, errands) == /\ pc' = [pc EXCEPT ![c] = "busy"]
                    /\ todo' = [todo EXCEPT ![c] = errands]

\* RegisterExecution, UnregisterExecution.  The runtime gateway registers a
\* task's executor before it submits the task, and removes it after its Wait.
RegisterExecution(t) ==
  /\ pc[t] = "idle" /\ t \in Tokens \ executions
  /\ executions' = executions \cup {t}
  /\ UNCHANGED <<tasks, parentTask, links, waiters, runs, log, conns, todo, calls, inbox>>

UnregisterExecution(t) ==
  /\ pc[t] # "idle" /\ t \in executions
  /\ executions' = executions \ {t}
  /\ UNCHANGED <<tasks, parentTask, links, waiters, runs, log, conns, todo, calls, inbox>>

\* Submit, by the goroutine t, under an optional parent.
Submit(t, parent) ==
  /\ pc[t] = "idle"
  /\ parent # None => Known(parent)
  /\ SetTask(t, "pending", "")
  /\ UNCHANGED attempt
  /\ parentTask' = [parentTask EXCEPT ![t] = parent]
  /\ IF parent = None THEN UNCHANGED links ELSE Link(t, parent)
  /\ LogEvent(t)
  /\ \E order \in Orders(subscribers[t]) : Busy(t, Announce(t, order))
  /\ spawn' = [spawn EXCEPT ![t] = <<t, 0>>]
  /\ UNCHANGED <<executions, waiters, runs, stored, conns, inbox>>

\* The last thing Submit and Retry do.
Enqueue(c) ==
  /\ pc[c] = "busy" /\ todo[c] = <<>> /\ spawn[c] # None
  /\ Spawn(spawn[c])
  /\ pc' = [pc EXCEPT ![c] = "ok"]
  /\ spawn' = [spawn EXCEPT ![c] = None]
  /\ UNCHANGED <<tasks, specs, links, waiters, runCancels, cancelled, log,
                 conns, todo, inbox>>

\* Cancel and Wait return nil once their errands are done.
Return(c) ==
  /\ pc[c] = "busy" /\ todo[c] = <<>> /\ spawn[c] = None
  /\ pc' = [pc EXCEPT ![c] = "ok"]
  /\ UNCHANGED <<tasks, specs, links, waiters, runs, log, conns, todo,
                 spawn, inbox>>

\* A call that its first section under the lock turns down.
Refuse(c) ==
  /\ pc[c] = "idle"
  /\ pc' = [pc EXCEPT ![c] = "error"]
  /\ UNCHANGED <<tasks, specs, links, waiters, runs, log, conns, todo,
                 spawn, inbox>>

-----------------------------------------------------------------------------
(* Retry. *)

\* Mutant: retries are not counted.
MutantRetryForever(t) == status[t] = "failed"

Retryable(t) == status[t] = "failed" /\ attempt[t] < MaxRetries

Retry(c, t) ==
  /\ pc[c] = "idle" /\ Known(t)
  /\ Retryable(t)
  /\ CanMove(status[t], "pending", TRUE)
  /\ attempt' = [attempt EXCEPT ![t] = @ + 1]
  /\ SetTask(t, "pending", "")
  /\ LogEvent(t)
  /\ \E order \in Orders(subscribers[t]) : Busy(c, Announce(t, order))
  /\ spawn' = [spawn EXCEPT ![c] = <<t, attempt[t] + 1>>]
  /\ UNCHANGED <<specs, links, waiters, runs, stored, conns, inbox>>

\* invalidTransitionError, or ErrorCodeRetryExhausted.
RetryRefused(c, t) == /\ Known(t)
                      /\ ~Retryable(t)
                      /\ Refuse(c)

-----------------------------------------------------------------------------
(* Cancel(t), by caller c, with the errands in rest to do afterwards. *)

\* A running task: cancel its run and its children, then wait for it.
CancelRunning(c, t, rest) ==
  /\ status[t] = "running"
  /\ Busy(c, <<CancelRun(runCancels[t]), CancelKids(parentChildren[t]),
               WaitFor(t)>> \o rest)
  /\ UNCHANGED <<tasks, specs, links, waiters, runs, log, conns, spawn, inbox>>

\* A killed task: its children may still have to be cancelled.
CancelKilled(c, t, rest) ==
  /\ status[t] = "killed"
  /\ Busy(c, <<CancelKids(parentChildren[t])>> \o rest)
  /\ UNCHANGED <<tasks, specs, links, waiters, runs, log, conns, spawn, inbox>>

\* A pending task is killed on the spot.  Its waiters are taken out of the
\* map now, and are woken only after its children have been cancelled.
CancelPending(c, t, rest) ==
  /\ status[t] \notin {"absent", "running", "killed"}
  /\ CanMove(status[t], "killed", FALSE)
  /\ SetTask(t, "killed", "task_cancelled")
  /\ UNCHANGED attempt
  /\ EndRun(t)
  /\ Detach(t)
  /\ LogEvent(t)
  /\ waiters' = [waiters EXCEPT ![t] = {}]
  /\ \E order \in Orders(subscribers[t]) :
       Busy(c, Announce(t, order)
               \o <<CancelKids(parentChildren[t]), Notify(waiters[t], ResultOf(t))>>
               \o rest)
  /\ UNCHANGED <<specs, cancelled, phase, stored, conns, spawn, inbox>>

\* taskNotFoundError and invalidTransitionError.
Uncancellable(t) == \/ status[t] = "absent"
                    \/ /\ status[t] \notin {"running", "killed"}
                       /\ ~CanMove(status[t], "killed", FALSE)

Cancels(c, t, rest) == \/ CancelRunning(c, t, rest)
                       \/ CancelKilled(c, t, rest)
                       \/ CancelPending(c, t, rest)

Cancel(c, t) == pc[c] = "idle" /\ Known(t) /\ Cancels(c, t, <<>>)

CancelRefused(c, t) == Known(t) /\ Uncancellable(t) /\ Refuse(c)

-----------------------------------------------------------------------------
(* cancelChildTasks: the loop over the children found under the lock. *)

OtherKids(c, k) == <<CancelKids(Head(todo[c]).kids \ {k})>> \o Tail(todo[c])

CancelChild(c, k) == /\ At(c, "cancelkids") /\ k \in Head(todo[c]).kids
                     /\ Cancels(c, k, OtherKids(c, k))

\* A child that is gone or has already ended is no error.
SkipChild(c, k) ==
  /\ At(c, "cancelkids") /\ k \in Head(todo[c]).kids
  /\ Uncancellable(k)
  /\ todo' = [todo EXCEPT ![c] = OtherKids(c, k)]
  /\ UNCHANGED <<tasks, specs, links, waiters, runs, log, conns, calls, inbox>>

ChildrenDone(c) ==
  /\ At(c, "cancelkids") /\ Head(todo[c]).kids = {}
  /\ todo' = [todo EXCEPT ![c] = Tail(@)]
  /\ UNCHANGED <<tasks, specs, links, waiters, runs, log, conns, calls, inbox>>

\* cancel(): nothing happens if there is no function, or its run is over.
CancelTheRun(c) ==
  /\ At(c, "cancelrun")
  /\ cancelled' = cancelled \cup ({Head(todo[c]).run} \ {None})
  /\ todo' = [todo EXCEPT ![c] = Tail(@)]
  /\ UNCHANGED <<tasks, specs, links, waiters, runCancels, phase, log,
                 conns, calls, inbox>>

-----------------------------------------------------------------------------
(* Wait, called by itself or at the end of the Cancel of a running task. *)

Wait(c, t) ==
  /\ pc[c] = "idle" /\ Known(t)
  /\ Busy(c, <<WaitFor(t)>>)
  /\ UNCHANGED <<tasks, specs, links, waiters, runs, log, conns, spawn, inbox>>

\* A terminal task answers at once.
WaitAnswered(c) ==
  /\ At(c, "wait")
  /\ LET t == Head(todo[c]).task
     IN  /\ IsTerminal(status[t])
         /\ inbox' = [inbox EXCEPT ![c] = [status |-> status[t], code |-> errorCode[t]]]
  /\ todo' = [todo EXCEPT ![c] = Tail(@)]
  /\ UNCHANGED <<tasks, specs, links, waiters, runs, log, conns, calls>>

WaitRegistered(c) ==
  /\ At(c, "wait")
  /\ LET t == Head(todo[c]).task
     IN  /\ ~IsTerminal(status[t])
         /\ waiters' = [waiters EXCEPT ![t] = @ \cup {c}]
         /\ todo' = [todo EXCEPT ![c] = <<Blocked(t)>> \o Tail(@)]
  /\ inbox' = [inbox EXCEPT ![c] = None]
  /\ UNCHANGED <<tasks, specs, links, runs, log, conns, calls>>

\* case result := <-waiter
WaitWoken(c) ==
  /\ At(c, "blocked") /\ inbox[c] # None
  /\ todo' = [todo EXCEPT ![c] = Tail(@)]
  /\ UNCHANGED <<tasks, specs, links, waiters, runs, log, conns, calls, inbox>>

\* case <-ctx.Done(): removeWaiter.  The error goes up through every Cancel
\* that is under way, and each of them returns it without doing the rest.
WaitExpired(c) ==
  /\ c \in Expiring
  /\ At(c, "blocked")
  /\ LET t == Head(todo[c]).task
     IN  waiters' = [waiters EXCEPT ![t] = @ \ {c}]
  /\ todo' = [todo EXCEPT ![c] = <<>>]
  /\ pc' = [pc EXCEPT ![c] = "error"]
  /\ UNCHANGED <<tasks, specs, links, runs, log, conns, spawn, inbox>>

\* Mutant: the waiters a Cancel has taken out of the table are not woken.
MutantOnlyAttemptsWake(p) ==
  /\ At(p, "notify")
  /\ inbox' = [c \in Calls |-> IF c \in Head(todo[p]).who /\ p \in Goroutines
                               THEN Head(todo[p]).result ELSE inbox[c]]
  /\ todo' = [todo EXCEPT ![p] = Tail(@)]
  /\ UNCHANGED <<tasks, specs, links, waiters, runs, log, conns, calls>>

\* notifyTaskWaiters: the channels have room for the one result each gets.
NotifyWaiters(p) ==
  /\ At(p, "notify")
  /\ inbox' = [c \in Calls |-> IF c \in Head(todo[p]).who THEN Head(todo[p]).result
                                                          ELSE inbox[c]]
  /\ todo' = [todo EXCEPT ![p] = Tail(@)]
  /\ UNCHANGED <<tasks, specs, links, waiters, runs, log, conns, calls>>

-----------------------------------------------------------------------------
(* runTaskAttempt, in the goroutine g = <<t, a>>. *)

\* No executor: the task fails, and neither an event nor a log is written.
AttemptUnwired(g) ==
  LET t == g[1]
  IN  /\ phase[g] = "spawned"
      /\ ~Executable(t)
      /\ status[t] = "pending" /\ CanMove(status[t], "failed", FALSE)
      /\ SetTask(t, "failed", "not_implemented")
      /\ UNCHANGED attempt
      /\ Detach(t)
      /\ waiters' = [waiters EXCEPT ![t] = {}]
      /\ phase' = [phase EXCEPT ![g] = "finished"]
      /\ todo' = [todo EXCEPT ![g] = <<Notify(waiters[t], ResultOf(t))>>]
      /\ UNCHANGED <<specs, runCancels, cancelled, log, conns, calls, inbox>>

\* The task was cancelled before its goroutine got to it.
AttemptTooLate(g) ==
  /\ phase[g] = "spawned"
  /\ status[g[1]] # "pending"
  /\ phase' = [phase EXCEPT ![g] = "finished"]
  /\ UNCHANGED <<tasks, specs, links, waiters, runCancels, cancelled, log,
                 conns, todo, calls, inbox>>

AttemptStart(g) ==
  LET t == g[1]
  IN  /\ phase[g] = "spawned"
      /\ Executable(t)
      /\ status[t] = "pending" /\ CanMove(status[t], "running", FALSE)
      /\ SetTask(t, "running", "")
      /\ UNCHANGED attempt
      /\ LogEvent(t)
      /\ runCancels' = [runCancels EXCEPT ![t] = g]
      /\ phase' = [phase EXCEPT ![g] = "executing"]
      /\ \E order \in Orders(subscribers[t]) :
           todo' = [todo EXCEPT ![g] = Announce(t, order)]
      /\ UNCHANGED <<specs, links, waiters, cancelled, stored, conns, calls, inbox>>

\* mapExecutionResult; the code of a timeout stands with that of any failure.
Outcomes == {[status |-> "completed", code |-> ""],
             [status |-> "killed", code |-> "task_cancelled"],
             [status |-> "failed", code |-> "task_execution_failed"]}

\* The executor has returned, with whatever outcome: it may end in its own way
\* although its context was cancelled, and report a cancellation although it
\* was not.  Its run context is cancelled now in any case.  (The early return
\* for a task that is no longer running is never taken: see
\* RunningMeansExecuting.)
AttemptFinish(g, outcome) ==
  LET t == g[1]
  IN  /\ phase[g] = "executing" /\ todo[g] = <<>>
      /\ status[t] = "running" /\ CanMove(status[t], outcome.status, FALSE)
      /\ SetTask(t, outcome.status, outcome.code)
      /\ UNCHANGED attempt
      /\ cancelled' = cancelled \cup {g}
      /\ EndRun(t)
      /\ Detach(t)
      /\ LogEvent(t)
      /\ waiters' = [waiters EXCEPT ![t] = {}]
      /\ phase' = [phase EXCEPT ![g] = "finished"]
      /\ \E order \in Orders(subscribers[t]) :
           todo' = [todo EXCEPT ![g] = Announce(t, order)
                                         \o <<Notify(waiters[t], ResultOf(t))>>]
      /\ UNCHANGED <<specs, stored, conns, calls, inbox>>

-----------------------------------------------------------------------------
(* The event log and its streams. *)

\* persistTaskEvent and persistTaskLog.
PersistEvent(p) ==
  /\ At(p, "persist")
  /\ LET e == Head(todo[p]).event
     IN  stored' = [stored EXCEPT ![e.task] = Append(@, e)]
  /\ todo' = [todo EXCEPT ![p] = Tail(@)]
  /\ UNCHANGED <<tasks, specs, links, waiters, runs, events, conns, calls, inbox>>

\* Mutant: an event for which there is no room is dropped.
MutantPublishOrDrop(p) ==
  /\ At(p, "publish")
  /\ LET s == Head(todo[p]).to
     IN  stream' = IF Len(stream[s].chan) < StreamBuffer
                   THEN [stream EXCEPT ![s].chan = Append(@, Head(todo[p]).event)]
                   ELSE stream
  /\ todo' = [todo EXCEPT ![p] = Tail(@)]
  /\ UNCHANGED <<tasks, specs, links, waiters, runs, log, subscribers, calls, inbox>>

\* subscriber <- event: it blocks while the live channel is full.
PublishTo(p) ==
  /\ At(p, "publish")
  /\ LET s == Head(todo[p]).to
     IN  /\ Len(stream[s].chan) < StreamBuffer
         /\ stream' = [stream EXCEPT ![s].chan = Append(@, Head(todo[p]).event)]
  /\ todo' = [todo EXCEPT ![p] = Tail(@)]
  /\ UNCHANGED <<tasks, specs, links, waiters, runs, log, subscribers, calls, inbox>>

\* Mutant: a live stream does not replay the history.
MutantLiveOnly(s, t) ==
  /\ stream[s].at = "idle" /\ Known(t)
  /\ LET live == ~IsTerminal(status[t])
     IN  /\ stream' = [stream EXCEPT ![s] =
              [Idle EXCEPT !.task = t, !.at = "replay", !.live = live,
                           !.hand = IF live THEN <<>> ELSE events[t]]]
         /\ subscribers' = IF live THEN [subscribers EXCEPT ![t] = @ \cup {s}]
                                   ELSE subscribers
  /\ UNCHANGED <<tasks, specs, links, waiters, runs, log, todo, calls, inbox>>

\* Stream: the history so far, and a live channel unless the task has ended.
Stream(s, t) ==
  /\ stream[s].at = "idle" /\ Known(t)
  /\ LET live == ~IsTerminal(status[t])
     IN  /\ stream' = [stream EXCEPT ![s] =
              [Idle EXCEPT !.task = t, !.at = "replay", !.live = live, !.hand = events[t]]]
         /\ subscribers' = IF live THEN [subscribers EXCEPT ![t] = @ \cup {s}]
                                   ELSE subscribers
  /\ UNCHANGED <<tasks, specs, links, waiters, runs, log, todo, calls, inbox>>

StreamStep(s, new) ==
  /\ stream' = [stream EXCEPT ![s] = new]
  /\ UNCHANGED <<tasks, specs, links, waiters, runs, log, subscribers,
                 todo, calls, inbox>>

\* out <- event, once the reader has made room for it: a slow reader makes
\* this step late.  A terminal event ends the stream, but only a live one.
Deliver(s) ==
  LET x == stream[s]
      last == x.at = "live" /\ IsTerminal(Head(x.hand).status)
  IN  /\ x.at \in {"replay", "live"} /\ x.hand # <<>>
      /\ StreamStep(s, [x EXCEPT !.hand = Tail(@), !.out = Append(@, Head(x.hand)),
                                 !.at = IF last THEN "leaving" ELSE @])

HistoryDone(s) ==
  /\ stream[s].at = "replay" /\ stream[s].hand = <<>>
  /\ StreamStep(s, [stream[s] EXCEPT !.at = IF stream[s].live THEN "live" ELSE "leaving"])

\* event := <-live
Receive(s) ==
  /\ stream[s].at = "live" /\ stream[s].hand = <<>> /\ stream[s].chan # <<>>
  /\ StreamStep(s, [stream[s] EXCEPT !.hand = <<Head(stream[s].chan)>>,
                                       !.chan = Tail(@)])

\* <-ctx.Done(), an alternative of every select of the stream's goroutine.
StreamCtxDone(s) ==
  /\ s \in Expiring
  /\ \/ stream[s].at = "live"
     \/ stream[s].at = "replay" /\ stream[s].hand # <<>>
  /\ StreamStep(s, [stream[s] EXCEPT !.at = "leaving"])

\* Mutant: a stream is closed only once its live channel has been drained.
MutantDrainFirst(s) ==
  /\ stream[s].at = "leaving" /\ stream[s].chan = <<>>
  /\ stream' = [stream EXCEPT ![s].at = "closed"]
  /\ subscribers' = IF stream[s].live
                    THEN [subscribers EXCEPT ![stream[s].task] = @ \ {s}]
                    ELSE subscribers
  /\ UNCHANGED <<tasks, specs, links, waiters, runs, log, todo, calls, inbox>>

\* The deferred calls: removeStreamSubscriber, then close(out).
CloseStream(s) ==
  /\ stream[s].at = "leaving"
  /\ stream' = [stream EXCEPT ![s].at = "closed"]
  /\ subscribers' = IF stream[s].live
                    THEN [subscribers EXCEPT ![stream[s].task] = @ \ {s}]
                    ELSE subscribers
  /\ UNCHANGED <<tasks, specs, links, waiters, runs, log, todo, calls, inbox>>

-----------------------------------------------------------------------------
\* What the manager's own code does next, in each kind of process.
CallStep(c) ==
  \/ Enqueue(c) \/ Return(c)
  \/ \E k \in Tasks : CancelChild(c, k) \/ SkipChild(c, k)
  \/ ChildrenDone(c) \/ CancelTheRun(c)
  \/ WaitAnswered(c) \/ WaitRegistered(c) \/ WaitWoken(c)

ErrandStep(p) == NotifyWaiters(p) \/ PersistEvent(p) \/ PublishTo(p)

AttemptStep(g) ==
  \/ AttemptUnwired(g) \/ AttemptTooLate(g) \/ AttemptStart(g)
  \/ \E o \in Outcomes : AttemptFinish(g, o)

StreamerStep(s) == Deliver(s) \/ HistoryDone(s) \/ Receive(s) \/ CloseStream(s)

\* What callers and clocks may do.
Environment ==
  \/ \E t \in Tasks : RegisterExecution(t) \/ UnregisterExecution(t)
  \/ \E t \in Tasks, parent \in Tasks \cup {None} : Submit(t, parent)
  \/ \E c \in Calls, t \in Tasks : \/ Retry(c, t) \/ RetryRefused(c, t)
                                   \/ Cancel(c, t) \/ CancelRefused(c, t)
                                   \/ Wait(c, t)
  \/ \E c \in Calls : WaitExpired(c)
  \/ \E s \in Subs, t \in Tasks : Stream(s, t)
  \/ \E s \in Subs : StreamCtxDone(s)

\* What goroutines, executors and readers do as long as they can.
Work == \/ \E t \in Tasks : Enqueue(t)
        \/ \E c \in Calls : CallStep(c)
        \/ \E p \in Procs : ErrandStep(p)
        \/ \E g \in Goroutines : AttemptStep(g)
        \/ \E s \in Subs : StreamerStep(s)

Next == Environment \/ Work

SafeSpec == Init /\ [][Next]_vars

\* Goroutines are scheduled, the mutex and the channels are fair, every
\* executor eventually returns and readers go on reading.  No process works for
\* ever - it makes one call, runs one attempt or shows one log - so each gets
\* its turn if only, while some can go on, one of them does.
Fairness == WF_vars(Work)

Spec == SafeSpec /\ Fairness

-----------------------------------------------------------------------------
(* Properties. *)

StreamType == [task: Tasks \cup {None}, live: BOOLEAN,
               at: {"idle", "replay", "live", "leaving", "closed"},
               hand: Seq(Event), chan: Seq(Event), out: Seq(Event)]

TableTypes == /\ status \in [Tasks -> Statuses]
              /\ attempt \in [Tasks -> Attempts]
              /\ errorCode \in [Tasks -> Codes]
              /\ parentTask \in [Tasks -> Tasks \cup {None}]
              /\ executions \subseteq Tokens

LinkTypes == /\ childParent \in [Tasks -> Tasks \cup {None}]
             /\ parentChildren \in [Tasks -> SUBSET Tasks]

RunTypes == /\ runCancels \in [Tasks -> Goroutines \cup {None}]
            /\ cancelled \subseteq Goroutines
            /\ phase \in [Goroutines -> {"absent", "spawned", "executing", "finished"}]
            /\ pc \in [Callers -> {"idle", "busy", "ok", "error"}]
            /\ spawn \in [Callers -> Goroutines \cup {None}]

WaitTypes == /\ waiters \in [Tasks -> SUBSET Calls]
             /\ inbox \in [Calls -> Result \cup {None}]

LogTypes == /\ events \in [Tasks -> Seq(Event)]
            /\ stored \in [Tasks -> Seq(Event)]

StreamTypes == /\ subscribers \in [Tasks -> SUBSET Subs]
               /\ stream \in [Subs -> StreamType]

\* Every variable has its type: the tables of InMemoryTaskManager, and what
\* each goroutine still has to do.
TypeOK == /\ TableTypes
          /\ LinkTypes
          /\ RunTypes
          /\ WaitTypes
          /\ LogTypes
          /\ StreamTypes
          /\ todo \in [Procs -> Seq(Errands)]

Live(t) == status[t] \in {"pending", "running"}

\* A task is running exactly while one goroutine executes it: the one that
\* was spawned for its current attempt, whose cancel function is the one in
\* runCancels.  runTaskAttempt checks neither when it starts (it is given only
\* the id) nor when it stores its result, so an attempt that outlived its
\* task's retry would overwrite the next one.
RunningMeansExecuting ==
  /\ \A g \in Goroutines :
       phase[g] = "executing" => /\ status[g[1]] = "running"
                                 /\ attempt[g[1]] = g[2]
                                 /\ runCancels[g[1]] = g
  /\ \A t \in Tasks :
       /\ status[t] = "running" => phase[<<t, attempt[t]>>] = "executing"
       /\ runCancels[t] # None => status[t] = "running"

\* The inductive invariant behind RunningMeansExecuting.  Attempts are spawned
\* one after the other, and each is over before the next is made ...
AttemptsOrdered ==
  \A t \in Tasks : \A a \in Attempts :
    /\ a > attempt[t] => phase[<<t, a>>] = "absent"
    /\ a < attempt[t] => phase[<<t, a>>] = "finished"

\* ... the goroutine of the current one is where the task's status says ...
PhaseFitsStatus ==
  \A t \in Tasks :
    /\ status[t] = "absent" => attempt[t] = 0 /\ phase[<<t, attempt[t]>>] = "absent"
    /\ status[t] = "pending" => phase[<<t, attempt[t]>>] \in {"absent", "spawned"}
    /\ status[t] = "running" <=> phase[<<t, attempt[t]>>] = "executing"
    /\ status[t] \in {"completed", "failed"} => phase[<<t, attempt[t]>>] = "finished"
    /\ pc[t] = "idle" => status[t] = "absent"
    /\ runCancels[t] = IF status[t] = "running" THEN <<t, attempt[t]>> ELSE None

\* ... and a call that still has to spawn one is the only call that has to.
SpawnsFit ==
  /\ \A c \in Callers : \A t \in Tasks : \A a \in Attempts :
       spawn[c] = <<t, a>> => /\ a = attempt[t]
                              /\ phase[<<t, a>>] = "absent"
                              /\ status[t] \in {"pending", "killed"}
  /\ \A c, d \in Callers : spawn[c] = spawn[d] /\ spawn[c] # None => c = d

AttemptsInOrder == AttemptsOrdered /\ PhaseFitsStatus /\ SpawnsFit

\* The two maps of links mirror each other, and a child that has ended, or
\* has ever been retried, is in neither.
LinksMirror ==
  \A t \in Tasks :
    /\ \A p \in Tasks : childParent[t] = p <=> t \in parentChildren[p]
    /\ childParent[t] # None => /\ Live(t) /\ attempt[t] = 0
                                /\ childParent[t] = parentTask[t]

\* A live task is among its parent's children while the parent lives, so that
\* cancelling the parent finds it - as long as neither has been retried.
LiveChildrenLinked ==
  \A t \in Tasks :
    LET p == parentTask[t]
    IN  p # None /\ Live(t) /\ Live(p) /\ attempt[t] = 0 /\ attempt[p] = 0
          => t \in parentChildren[p]

\* No waiter is forgotten: a caller blocked in Wait is in the table of a task
\* that has not ended, or its result is on the way.
NoLostWaiter ==
  \A c \in Calls :
    At(c, "blocked") =>
      \/ inbox[c] # None
      \/ LET t == Head(todo[c]).task IN c \in waiters[t] /\ Live(t)
      \/ \E p \in Procs : \E i \in 1 .. Len(todo[p]) :
           todo[p][i].do = "notify" /\ c \in todo[p][i].who

\* The event log of a task ends with the state the task is in, and tells how
\* it came to it one transition at a time; the only state that is never
\* logged is the failure of an attempt that found no executor.
LogTellsStatus ==
  \A t \in Tasks :
    LET n == Len(events[t])
    IN  /\ \A i \in 2 .. n :
             \/ CanMove(events[t][i-1].status, events[t][i].status, TRUE)
             \/ events[t][i-1].status = "pending" /\ events[t][i].attempt > events[t][i-1].attempt
        /\ n > 0 /\ errorCode[t] # "not_implemented" =>
             events[t][n].status = status[t] /\ events[t][n].attempt = attempt[t]

Seen(s) == stream[s].out \o stream[s].hand \o stream[s].chan

\* A stream shows its task's events from the first on, in order, with none
\* missing or repeated, though they are sent outside the lock - as long as
\* the task has not been retried.
StreamInOrder ==
  \A s \in Subs :
    stream[s].task # None /\ attempt[stream[s].task] = 0 =>
      Seen(s) = SubSeq(events[stream[s].task], 1, Len(Seen(s)))

\* With retries the order may be lost, but no event is shown twice.
StreamShowsOnce ==
  \A s \in Subs : \A i, j \in 1 .. Len(Seen(s)) :
    Seen(s)[i].offset = Seen(s)[j].offset => i = j

\* What a task's callers rely on, liveness included: see TaskLifecycle.
Lifecycle == INSTANCE TaskLifecycle
ImplementsLifecycle == Lifecycle!Spec

\* The safety part of it: no task ever takes a step out of its lifecycle.
KeepsToLifecycle == Lifecycle!SafeSpec

\* Process p is in the bare send of publishTaskEvent to a stream that has gone
\* and left its channel full: it stays there for ever.
Stuck(p) == /\ At(p, "publish")
            /\ LET x == stream[Head(todo[p]).to]
               IN  x.at = "closed" /\ Len(x.chan) = StreamBuffer

\* Every call returns in the end, whatever it races with: only a send to a
\* stream that has gone can keep a call for ever, the one that makes it or one
\* that waits for a task.
CallsReturn ==
  <>[](\A c \in Callers : pc[c] = "busy" =>
         Stuck(c) \/ (At(c, "blocked") /\ \E p \in Procs : Stuck(p)))

\* The events of task t have come to a halt: a send of one is stuck, or there
\* was none, because the attempt had no executor.
Silenced(t) == \/ \E p \in Procs : Stuck(p) /\ Head(todo[p]).event.task = t
               \/ status[t] = "failed" /\ errorCode[t] = "not_implemented"

\* Every stream is closed in the end, its own context needed or not; only one
\* that waits for events that have come to a halt before the last is not.
StreamsClose ==
  <>[](\A s \in Subs : \/ stream[s].at \in {"idle", "closed"}
                       \/ stream[s].at = "live" /\ Silenced(stream[s].task))
=============================================================================
