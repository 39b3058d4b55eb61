------------------------- MODULE TaskManagerProofs -------------------------
(***************************************************************************)
(* What holds of TaskManager for every set of tasks, calls and streams and *)
(* every number of retries.                                                *)
(***************************************************************************)
EXTENDS TaskManager, FiniteSetTheorems, SequenceTheorems, TLAPS

-----------------------------------------------------------------------------
(* Errands. *)

\* The errand a process is about to run, and those that are left after it.
LEMMA NextErrand ==
  ASSUME todo \in [Procs -> Seq(Errands)], NEW p \in Procs, NEW k, At(p, k)
  PROVE  /\ Head(todo[p]) \in Errands
         /\ Head(todo[p]).do = k
         /\ Tail(todo[p]) \in Seq(Errands)
  BY HeadTailProperties DEF At

\* What the fields of an errand may hold.
LEMMA ErrandFields ==
  ASSUME NEW e \in Errands
  PROVE  /\ e.do = "publish" => e.event \in Event /\ e.to \in Subs
         /\ e.do = "persist" => e.event \in Event
         /\ e.do = "cancelrun" => e.run \in Goroutines \cup {None}
         /\ e.do = "cancelkids" => e.kids \in SUBSET Tasks
         /\ e.do = "notify" => e.who \in SUBSET Calls /\ e.result \in Result
         /\ e.do \in {"wait", "blocked"} => e.task \in Tasks
  BY SMT DEF Errands

\* An iteration order of a finite set of subscribers is a sequence of them.
LEMMA OrderIsSequence ==
  ASSUME NEW S \in SUBSET Subs, NEW order \in Orders(S)
  PROVE  /\ order \in Seq(Subs)
         /\ DOMAIN order = 1 .. Len(order)
         /\ \A i \in DOMAIN order : order[i] \in Subs
  <1>1. Cardinality(S) \in Nat
    BY FS_Subset, FS_CardinalityType, SubsAssumption
  <1>2. order \in [1 .. Cardinality(S) -> S]
    BY DEF Orders
  <1> QED BY <1>1, <1>2

\* The event a step writes for t has its type once the step's tables have.
LEMMA NewEventType ==
  ASSUME LogTypes, TableTypes', NEW t \in Tasks
  PROVE  NewEvent(t) \in Event
  <1>1. Len(events[t]) \in Nat
    BY LenProperties DEF LogTypes
  <1> QED BY <1>1 DEF NewEvent, Event, TableTypes

\* What a step announces to subscribers and to the event store.
LEMMA AnnounceType ==
  ASSUME LogTypes, TableTypes', NEW t \in Tasks,
         NEW S \in SUBSET Subs, NEW order \in Orders(S)
  PROVE  Announce(t, order) \in Seq(Errands)
  <1> DEFINE sends == [i \in DOMAIN order |-> Publish(NewEvent(t), order[i])]
  <1>1. NewEvent(t) \in Event
    BY NewEventType
  <1>2. sends \in Seq(Errands)
    <2>1. \A i \in DOMAIN order : Publish(NewEvent(t), order[i]) \in Errands
      BY <1>1, OrderIsSequence DEF Publish, Errands
    <2>2. DOMAIN order = 1 .. Len(order) /\ Len(order) \in Nat
      BY OrderIsSequence, LenProperties
    <2> QED BY <2>1, <2>2
  <1>3. <<Persist(NewEvent(t))>> \in Seq(Errands)
    BY <1>1 DEF Persist, Errands
  <1>4. sends \o <<Persist(NewEvent(t))>> \in Seq(Errands)
    BY <1>2, <1>3, ConcatProperties
  <1> QED BY <1>4 DEF Announce

-----------------------------------------------------------------------------
(* Types. *)

\* Writing t's event to the log.
LEMMA LogEventType ==
  ASSUME LogTypes, TableTypes', NEW t \in Tasks, LogEvent(t), UNCHANGED stored
  PROVE  LogTypes'
  <1>1. NewEvent(t) \in Event
    BY NewEventType
  <1> QED BY <1>1 DEF LogEvent, LogTypes

LEMMA DetachType ==
  ASSUME LinkTypes, NEW t \in Tasks, Detach(t)
  PROVE  LinkTypes'
  BY DEF LinkTypes, Detach

LEMMA LinkType ==
  ASSUME LinkTypes, NEW t \in Tasks, NEW parent \in Tasks, Link(t, parent)
  PROVE  LinkTypes'
  BY DEF LinkTypes, Link

LEMMA TypeInit == Init => TypeOK
  <1> SUFFICES ASSUME Init PROVE TypeOK
    OBVIOUS
  <1>1. TableTypes
    <2>1. /\ status = [t \in Tasks |-> "absent"]
          /\ attempt = [t \in Tasks |-> 0]
          /\ errorCode = [t \in Tasks |-> ""]
          /\ parentTask = [t \in Tasks |-> None]
          /\ executions = {}
      BY DEF Init
    <2>2. 0 \in Attempts
      BY RetriesAssumption DEF Attempts
    <2>3. "absent" \in Statuses /\ "" \in Codes
      BY DEF Statuses, Codes
    <2> QED BY <2>1, <2>2, <2>3 DEF TableTypes
  <1>2. LinkTypes
    <2>1. childParent = [t \in Tasks |-> None] /\ parentChildren = [t \in Tasks |-> {}]
      BY DEF Init
    <2> QED BY <2>1 DEF LinkTypes
  <1>3. RunTypes
    <2>1. /\ runCancels = [t \in Tasks |-> None]
          /\ cancelled = {}
          /\ phase = [g \in Goroutines |-> "absent"]
          /\ pc = [c \in Callers |-> "idle"]
          /\ spawn = [c \in Callers |-> None]
      BY DEF Init
    <2> QED BY <2>1 DEF RunTypes
  <1>4. WaitTypes
    <2>1. waiters = [t \in Tasks |-> {}] /\ inbox = [c \in Calls |-> None]
      BY DEF Init
    <2> QED BY <2>1 DEF WaitTypes
  <1>5. LogTypes
    <2>1. events = [t \in Tasks |-> <<>>] /\ stored = [t \in Tasks |-> <<>>]
      BY DEF Init
    <2> QED BY <2>1, EmptySeq DEF LogTypes
  <1>6. StreamTypes
    <2>1. subscribers = [t \in Tasks |-> {}] /\ stream = [s \in Subs |-> Idle]
      BY DEF Init
    <2>2. Idle \in StreamType
      BY EmptySeq DEF Idle, StreamType
    <2> QED BY <2>1, <2>2 DEF StreamTypes
  <1>7. todo \in [Procs -> Seq(Errands)]
    <2>1. todo = [p \in Procs |-> <<>>]
      BY DEF Init
    <2> QED BY <2>1, EmptySeq
  <1> QED BY <1>1, <1>2, <1>3, <1>4, <1>5, <1>6, <1>7 DEF TypeOK

\* Cancelling t as an errand or a call of c, with rest left to do.
LEMMA CancelsType ==
  ASSUME TypeOK, NEW c \in Calls, NEW t \in Tasks, NEW rest \in Seq(Errands),
         Cancels(c, t, rest)
  PROVE  TypeOK'
  <1> USE DEF Callers, Procs
  <1>1. CASE CancelRunning(c, t, rest)
    <2>1. <<CancelRun(runCancels[t]), CancelKids(parentChildren[t]), WaitFor(t)>>
             \in Seq(Errands)
      BY DEF TypeOK, RunTypes, LinkTypes, CancelRun, CancelKids, WaitFor, Errands
    <2>2. todo' \in [Procs -> Seq(Errands)]
      BY <1>1, <2>1, ConcatProperties DEF TypeOK, CancelRunning, Busy
    <2> QED BY <1>1, <2>2 DEF CancelRunning, Busy, TypeOK, TableTypes, LinkTypes,
               RunTypes, WaitTypes, LogTypes, StreamTypes, tasks, specs, links, runs, log, conns
  <1>2. CASE CancelKilled(c, t, rest)
    <2>1. <<CancelKids(parentChildren[t])>> \in Seq(Errands)
      BY DEF TypeOK, LinkTypes, CancelKids, Errands
    <2>2. todo' \in [Procs -> Seq(Errands)]
      BY <1>2, <2>1, ConcatProperties DEF TypeOK, CancelKilled, Busy
    <2> QED BY <1>2, <2>2 DEF CancelKilled, Busy, TypeOK, TableTypes, LinkTypes,
               RunTypes, WaitTypes, LogTypes, StreamTypes, tasks, specs, links, runs, log, conns
  <1>3. CASE CancelPending(c, t, rest)
    <2>1. TableTypes'
      BY <1>3 DEF CancelPending, SetTask, TypeOK, TableTypes, specs, Statuses, Codes
    <2>2. LinkTypes'
      BY <1>3, DetachType DEF CancelPending, TypeOK
    <2>3. LogTypes'
      BY <1>3, <2>1, LogEventType DEF CancelPending, TypeOK
    <2>4. todo' \in [Procs -> Seq(Errands)]
      <3>1. PICK order \in Orders(subscribers[t]) :
              Busy(c, Announce(t, order)
                   \o <<CancelKids(parentChildren[t]), Notify(waiters[t], ResultOf(t))>>
                   \o rest)
        BY <1>3 DEF CancelPending
      <3>2. Announce(t, order) \in Seq(Errands)
        BY <2>1, AnnounceType DEF TypeOK, StreamTypes
      <3>3. ResultOf(t) \in Result
        BY <1>3 DEF CancelPending, SetTask, ResultOf, Result, Terminal, Codes, TypeOK, TableTypes
      <3>4. <<CancelKids(parentChildren[t]), Notify(waiters[t], ResultOf(t))>> \in Seq(Errands)
        BY <3>3 DEF TypeOK, LinkTypes, WaitTypes, CancelKids, Notify, Errands
      <3> QED BY <3>1, <3>2, <3>4, ConcatProperties DEF Busy, TypeOK
    <2> QED BY <1>3, <2>1, <2>2, <2>3, <2>4 DEF CancelPending, EndRun, Busy, TypeOK,
               RunTypes, WaitTypes, StreamTypes, conns
  <1> QED BY <1>1, <1>2, <1>3 DEF Cancels

\* What an executor's result is mapped to.
LEMMA OutcomeTypes ==
  ASSUME NEW o \in Outcomes
  PROVE  /\ o.status \in Terminal /\ o.status \in Statuses /\ o.status # "running"
         /\ o.code \in Codes /\ o.code # "not_implemented"
  <1> USE DEF Terminal, Statuses, Codes
  <1>1. CASE o = [status |-> "completed", code |-> ""]
    BY <1>1
  <1>2. CASE o = [status |-> "killed", code |-> "task_cancelled"]
    BY <1>2
  <1>3. CASE o = [status |-> "failed", code |-> "task_execution_failed"]
    BY <1>3
  <1> QED BY <1>1, <1>2, <1>3 DEF Outcomes

\* Every step of the manager and of its callers preserves the types.
LEMMA TypeStep == TypeOK /\ [Next]_vars => TypeOK'
  <1> SUFFICES ASSUME TypeOK, [Next]_vars PROVE TypeOK'
    OBVIOUS
  <1> USE DEF Callers, Procs, tasks, specs, links, runs, log, conns, calls
  <1>1. ASSUME NEW t \in Tasks, RegisterExecution(t) PROVE TypeOK'
    BY <1>1 DEF RegisterExecution, TypeOK, TableTypes, LinkTypes, RunTypes,
                WaitTypes, LogTypes, StreamTypes
  <1>2. ASSUME NEW t \in Tasks, UnregisterExecution(t) PROVE TypeOK'
    BY <1>2 DEF UnregisterExecution, TypeOK, TableTypes, LinkTypes, RunTypes,
                WaitTypes, LogTypes, StreamTypes
  <1>3. ASSUME NEW t \in Tasks, NEW parent \in Tasks \cup {None}, Submit(t, parent)
        PROVE  TypeOK'
    <2>1. TableTypes'
      BY <1>3 DEF Submit, SetTask, TypeOK, TableTypes, Statuses, Codes
    <2>2. LinkTypes'
      BY <1>3, LinkType DEF Submit, TypeOK, LinkTypes
    <2>3. LogTypes'
      BY <1>3, <2>1, LogEventType DEF Submit, TypeOK
    <2>4. PICK order \in Orders(subscribers[t]) : Busy(t, Announce(t, order))
      BY <1>3 DEF Submit
    <2>5. Announce(t, order) \in Seq(Errands)
      BY <2>1, AnnounceType DEF TypeOK, StreamTypes
    <2>6. <<t, 0>> \in Goroutines
      BY RetriesAssumption DEF Goroutines, Attempts
    <2>7. RunTypes' /\ todo' \in [Procs -> Seq(Errands)]
      BY <1>3, <2>4, <2>5, <2>6 DEF Submit, Busy, TypeOK, RunTypes
    <2> QED BY <1>3, <2>1, <2>2, <2>3, <2>7 DEF Submit, TypeOK, WaitTypes, StreamTypes
  <1>4. ASSUME NEW c \in Callers, Enqueue(c) PROVE TypeOK'
    BY <1>4 DEF Enqueue, Spawn, TypeOK, TableTypes, LinkTypes, RunTypes, WaitTypes,
                LogTypes, StreamTypes
  <1>5. ASSUME NEW c \in Calls, Return(c) PROVE TypeOK'
    BY <1>5 DEF Return, TypeOK, TableTypes, LinkTypes, RunTypes, WaitTypes,
                LogTypes, StreamTypes
  <1>6. ASSUME NEW c \in Calls, Refuse(c) PROVE TypeOK'
    BY <1>6 DEF Refuse, TypeOK, TableTypes, LinkTypes, RunTypes, WaitTypes,
                LogTypes, StreamTypes
  <1>7. ASSUME NEW c \in Calls, NEW t \in Tasks, Retry(c, t) PROVE TypeOK'
    <2>1. attempt[t] + 1 \in Attempts
      <3>1. attempt[t] \in Attempts /\ attempt[t] < MaxRetries
        BY <1>7 DEF Retry, Retryable, TypeOK, TableTypes
      <3> QED BY <3>1, RetriesAssumption DEF Attempts
    <2>2. TableTypes'
      BY <1>7, <2>1 DEF Retry, Retryable, SetTask, TypeOK, TableTypes, Statuses, Codes
    <2>3. LogTypes'
      BY <1>7, <2>2, LogEventType DEF Retry, TypeOK
    <2>4. PICK order \in Orders(subscribers[t]) : Busy(c, Announce(t, order))
      BY <1>7 DEF Retry
    <2>5. Announce(t, order) \in Seq(Errands)
      BY <2>2, AnnounceType DEF TypeOK, StreamTypes
    <2>6. <<t, attempt[t] + 1>> \in Goroutines
      BY <2>1 DEF Goroutines
    <2>7. RunTypes' /\ todo' \in [Procs -> Seq(Errands)]
      BY <1>7, <2>4, <2>5, <2>6 DEF Retry, Busy, TypeOK, RunTypes
    <2> QED BY <1>7, <2>2, <2>3, <2>7 DEF Retry, TypeOK, LinkTypes, WaitTypes, StreamTypes
  <1>8. ASSUME NEW c \in Calls, NEW t \in Tasks, Cancel(c, t) PROVE TypeOK'
    BY <1>8, CancelsType, EmptySeq DEF Cancel
  <1>9. ASSUME NEW c \in Calls, NEW k \in Tasks, At(c, "cancelkids"), k \in Head(todo[c]).kids
        PROVE  OtherKids(c, k) \in Seq(Errands)
    <2>1. /\ Head(todo[c]) \in Errands
          /\ Head(todo[c]).do = "cancelkids"
          /\ Tail(todo[c]) \in Seq(Errands)
      BY <1>9, NextErrand DEF TypeOK
    <2>2. Head(todo[c]).kids \ {k} \in SUBSET Tasks
      BY <2>1, ErrandFields
    <2>3. <<CancelKids(Head(todo[c]).kids \ {k})>> \in Seq(Errands)
      BY <2>2 DEF CancelKids, Errands
    <2> QED BY <2>1, <2>3, ConcatProperties DEF OtherKids
  <1>10. ASSUME NEW c \in Calls, NEW k \in Tasks, CancelChild(c, k) PROVE TypeOK'
    BY <1>9, <1>10, CancelsType DEF CancelChild
  <1>11. ASSUME NEW c \in Calls, NEW k \in Tasks, SkipChild(c, k) PROVE TypeOK'
    BY <1>9, <1>11 DEF SkipChild, TypeOK, TableTypes, LinkTypes, RunTypes, WaitTypes,
                LogTypes, StreamTypes
  <1>12. ASSUME NEW c \in Calls, ChildrenDone(c) PROVE TypeOK'
    <2>1. Tail(todo[c]) \in Seq(Errands)
      BY <1>12, NextErrand DEF ChildrenDone, TypeOK
    <2> QED BY <1>12, <2>1 DEF ChildrenDone, TypeOK, TableTypes, LinkTypes, RunTypes,
                WaitTypes, LogTypes, StreamTypes
  <1>13. ASSUME NEW c \in Calls, CancelTheRun(c) PROVE TypeOK'
    <2>1. Head(todo[c]).run \in Goroutines \cup {None} /\ Tail(todo[c]) \in Seq(Errands)
      BY <1>13, NextErrand, ErrandFields DEF CancelTheRun, TypeOK
    <2> QED BY <1>13, <2>1 DEF CancelTheRun, TypeOK, TableTypes, LinkTypes, RunTypes,
                WaitTypes, LogTypes, StreamTypes
  <1>14. ASSUME NEW c \in Calls, NEW t \in Tasks, Wait(c, t) PROVE TypeOK'
    <2>1. <<WaitFor(t)>> \in Seq(Errands)
      BY DEF WaitFor, Errands
    <2> QED BY <1>14, <2>1 DEF Wait, Busy, TypeOK, TableTypes, LinkTypes, RunTypes,
                WaitTypes, LogTypes, StreamTypes
  <1>15. ASSUME NEW c \in Calls, At(c, "wait")
         PROVE  Head(todo[c]).task \in Tasks /\ Tail(todo[c]) \in Seq(Errands)
    BY <1>15, NextErrand, ErrandFields DEF TypeOK
  <1>16. ASSUME NEW c \in Calls, WaitAnswered(c) PROVE TypeOK'
    <2>1. Head(todo[c]).task \in Tasks /\ Tail(todo[c]) \in Seq(Errands)
      BY <1>15, <1>16 DEF WaitAnswered
    <2>2. inbox' \in [Calls -> Result \cup {None}]
      BY <1>16, <2>1 DEF WaitAnswered, IsTerminal, TypeOK, TableTypes, WaitTypes, Result
    <2> QED BY <1>16, <2>1, <2>2 DEF WaitAnswered, TypeOK, TableTypes, LinkTypes, RunTypes,
                WaitTypes, LogTypes, StreamTypes
  <1>17. ASSUME NEW c \in Calls, WaitRegistered(c) PROVE TypeOK'
    <2>1. Head(todo[c]).task \in Tasks /\ Tail(todo[c]) \in Seq(Errands)
      BY <1>15, <1>17 DEF WaitRegistered
    <2>2. <<Blocked(Head(todo[c]).task)>> \o Tail(todo[c]) \in Seq(Errands)
      BY <2>1, ConcatProperties DEF Blocked, Errands
    <2> QED BY <1>17, <2>1, <2>2 DEF WaitRegistered, TypeOK, TableTypes, LinkTypes, RunTypes,
                WaitTypes, LogTypes, StreamTypes
  <1>18. ASSUME NEW c \in Calls, WaitWoken(c) PROVE TypeOK'
    <2>1. Tail(todo[c]) \in Seq(Errands)
      BY <1>18, NextErrand DEF WaitWoken, TypeOK
    <2> QED BY <1>18, <2>1 DEF WaitWoken, TypeOK, TableTypes, LinkTypes, RunTypes,
                WaitTypes, LogTypes, StreamTypes
  <1>19. ASSUME NEW c \in Calls, WaitExpired(c) PROVE TypeOK'
    BY <1>19, EmptySeq DEF WaitExpired, TypeOK, TableTypes, LinkTypes, RunTypes,
                WaitTypes, LogTypes, StreamTypes
  <1>20. ASSUME NEW p \in Procs, NotifyWaiters(p) PROVE TypeOK'
    <2>1. /\ Head(todo[p]).result \in Result
          /\ Tail(todo[p]) \in Seq(Errands)
      BY <1>20, NextErrand, ErrandFields DEF NotifyWaiters, TypeOK
    <2> QED BY <1>20, <2>1 DEF NotifyWaiters, TypeOK, TableTypes, LinkTypes, RunTypes,
                WaitTypes, LogTypes, StreamTypes
  <1>21. ASSUME NEW p \in Procs, PersistEvent(p) PROVE TypeOK'
    <2>1. Head(todo[p]).event \in Event /\ Tail(todo[p]) \in Seq(Errands)
      BY <1>21, NextErrand, ErrandFields DEF PersistEvent, TypeOK
    <2>2. Head(todo[p]).event.task \in Tasks
      BY <2>1 DEF Event
    <2>3. LogTypes'
      BY <1>21, <2>1, <2>2, AppendProperties DEF PersistEvent, TypeOK, LogTypes
    <2> QED BY <1>21, <2>1, <2>3 DEF PersistEvent, TypeOK, TableTypes, LinkTypes, RunTypes,
                WaitTypes, StreamTypes
  <1>22. ASSUME NEW p \in Procs, PublishTo(p) PROVE TypeOK'
    <2>1. /\ Head(todo[p]).event \in Event
          /\ Head(todo[p]).to \in Subs
          /\ Tail(todo[p]) \in Seq(Errands)
      BY <1>22, NextErrand, ErrandFields DEF PublishTo, TypeOK
    <2>2. StreamTypes'
      <3> DEFINE s == Head(todo[p]).to
                 e == Head(todo[p]).event
      <3>1. stream[s] \in StreamType /\ stream[s].chan \in Seq(Event)
        BY <2>1 DEF TypeOK, StreamTypes, StreamType
      <3>2. [stream[s] EXCEPT !.chan = Append(stream[s].chan, e)] \in StreamType
        BY <2>1, <3>1, AppendProperties DEF StreamType
      <3>3. stream' = [stream EXCEPT ![s] = [stream[s] EXCEPT !.chan = Append(stream[s].chan, e)]]
        BY <1>22 DEF PublishTo
      <3> QED BY <1>22, <2>1, <3>2, <3>3 DEF PublishTo, TypeOK, StreamTypes
    <2> QED BY <1>22, <2>1, <2>2 DEF PublishTo, TypeOK, TableTypes, LinkTypes, RunTypes,
                WaitTypes, LogTypes
  <1>23. ASSUME NEW g \in Goroutines PROVE g[1] \in Tasks /\ g[2] \in Attempts
    BY <1>23 DEF Goroutines
  <1>24. ASSUME NEW g \in Goroutines, AttemptUnwired(g) PROVE TypeOK'
    <2>1. TableTypes'
      BY <1>23, <1>24 DEF AttemptUnwired, SetTask, TypeOK, TableTypes, Statuses, Codes
    <2>2. LinkTypes'
      BY <1>23, <1>24, DetachType DEF AttemptUnwired, TypeOK
    <2>3. ResultOf(g[1]) \in Result
      BY <1>23, <1>24 DEF AttemptUnwired, SetTask, ResultOf, Result, Terminal, Codes,
                          TypeOK, TableTypes
    <2>4. <<Notify(waiters[g[1]], ResultOf(g[1]))>> \in Seq(Errands)
      BY <1>23, <2>3 DEF TypeOK, WaitTypes, Notify, Errands
    <2> QED BY <1>23, <1>24, <2>1, <2>2, <2>4 DEF AttemptUnwired, TypeOK, RunTypes, WaitTypes,
                LogTypes, StreamTypes
  <1>25. ASSUME NEW g \in Goroutines, AttemptTooLate(g) PROVE TypeOK'
    BY <1>25 DEF AttemptTooLate, TypeOK, TableTypes, LinkTypes, RunTypes, WaitTypes,
                LogTypes, StreamTypes
  <1>26. ASSUME NEW g \in Goroutines, AttemptStart(g) PROVE TypeOK'
    <2>1. TableTypes'
      BY <1>23, <1>26 DEF AttemptStart, SetTask, TypeOK, TableTypes, Statuses, Codes
    <2>2. LogTypes'
      BY <1>23, <1>26, <2>1, LogEventType DEF AttemptStart, TypeOK
    <2>3. PICK order \in Orders(subscribers[g[1]]) :
            todo' = [todo EXCEPT ![g] = Announce(g[1], order)]
      BY <1>26 DEF AttemptStart
    <2>4. Announce(g[1], order) \in Seq(Errands)
      BY <1>23, <2>1, AnnounceType DEF TypeOK, StreamTypes
    <2> QED BY <1>23, <1>26, <2>1, <2>2, <2>3, <2>4 DEF AttemptStart, TypeOK, LinkTypes,
                RunTypes, WaitTypes, StreamTypes
  <1>27. ASSUME NEW g \in Goroutines, NEW o \in Outcomes, AttemptFinish(g, o) PROVE TypeOK'
    <2>1. o.status \in Terminal /\ o.status \in Statuses /\ o.code \in Codes
      BY <1>27, OutcomeTypes
    <2>2. TableTypes'
      BY <1>23, <1>27, <2>1 DEF AttemptFinish, SetTask, TypeOK, TableTypes
    <2>3. LinkTypes'
      BY <1>23, <1>27, DetachType DEF AttemptFinish, TypeOK
    <2>4. LogTypes'
      BY <1>23, <1>27, <2>2, LogEventType DEF AttemptFinish, TypeOK
    <2>5. PICK order \in Orders(subscribers[g[1]]) :
            todo' = [todo EXCEPT ![g] = Announce(g[1], order)
                                        \o <<Notify(waiters[g[1]], ResultOf(g[1]))>>]
      BY <1>27 DEF AttemptFinish
    <2>6. Announce(g[1], order) \in Seq(Errands)
      BY <1>23, <2>2, AnnounceType DEF TypeOK, StreamTypes
    <2>7. ResultOf(g[1]) \in Result
      BY <1>23, <1>27, <2>1 DEF AttemptFinish, SetTask, ResultOf, Result, TypeOK, TableTypes
    <2>8. <<Notify(waiters[g[1]], ResultOf(g[1]))>> \in Seq(Errands)
      BY <1>23, <2>7 DEF TypeOK, WaitTypes, Notify, Errands
    <2>9. todo' \in [Procs -> Seq(Errands)]
      BY <2>5, <2>6, <2>8, ConcatProperties DEF TypeOK
    <2> QED BY <1>23, <1>27, <2>2, <2>3, <2>4, <2>9 DEF AttemptFinish, EndRun, TypeOK, RunTypes,
                WaitTypes, StreamTypes
  <1>28. ASSUME NEW s \in Subs, NEW new \in StreamType, StreamStep(s, new) PROVE TypeOK'
    BY <1>28 DEF StreamStep, TypeOK, TableTypes, LinkTypes, RunTypes, WaitTypes,
                LogTypes, StreamTypes
  <1>29. ASSUME NEW s \in Subs, NEW t \in Tasks, Stream(s, t) PROVE TypeOK'
    BY <1>29, EmptySeq DEF Stream, Idle, StreamType, TypeOK, TableTypes, LinkTypes,
                RunTypes, WaitTypes, LogTypes, StreamTypes
  <1>30. ASSUME NEW s \in Subs, Deliver(s) PROVE TypeOK'
    <2> DEFINE x == stream[s]
    <2>1. x \in StreamType /\ x.hand \in Seq(Event) /\ x.hand # <<>> /\ x.out \in Seq(Event)
      BY <1>30 DEF Deliver, TypeOK, StreamTypes, StreamType
    <2>2. /\ Head(x.hand) \in Event
          /\ Tail(x.hand) \in Seq(Event)
          /\ Append(x.out, Head(x.hand)) \in Seq(Event)
      BY <2>1, HeadTailProperties, AppendProperties
    <2>3. PICK at \in {x.at, "leaving"} :
            StreamStep(s, [x EXCEPT !.hand = Tail(x.hand), !.out = Append(x.out, Head(x.hand)),
                                    !.at = at])
      BY <1>30 DEF Deliver
    <2>4. [x EXCEPT !.hand = Tail(x.hand), !.out = Append(x.out, Head(x.hand)), !.at = at]
             \in StreamType
      BY <2>1, <2>2 DEF StreamType
    <2> QED BY <1>28, <2>3, <2>4
  <1>31. ASSUME NEW s \in Subs, HistoryDone(s) PROVE TypeOK'
    <2>1. [stream[s] EXCEPT !.at = IF stream[s].live THEN "live" ELSE "leaving"] \in StreamType
      BY DEF TypeOK, StreamTypes, StreamType
    <2> QED BY <1>28, <1>31, <2>1 DEF HistoryDone
  <1>32. ASSUME NEW s \in Subs, Receive(s) PROVE TypeOK'
    <2>1. stream[s] \in StreamType /\ stream[s].chan \in Seq(Event) /\ stream[s].chan # <<>>
      BY <1>32 DEF Receive, TypeOK, StreamTypes, StreamType
    <2>2. <<Head(stream[s].chan)>> \in Seq(Event) /\ Tail(stream[s].chan) \in Seq(Event)
      BY <2>1, HeadTailProperties
    <2>3. [stream[s] EXCEPT !.hand = <<Head(stream[s].chan)>>, !.chan = Tail(stream[s].chan)]
             \in StreamType
      BY <2>1, <2>2 DEF StreamType
    <2> QED BY <1>28, <1>32, <2>3 DEF Receive
  <1>33. ASSUME NEW s \in Subs, StreamCtxDone(s) PROVE TypeOK'
    <2>1. [stream[s] EXCEPT !.at = "leaving"] \in StreamType
      BY DEF TypeOK, StreamTypes, StreamType
    <2> QED BY <1>28, <1>33, <2>1 DEF StreamCtxDone
  <1>34. ASSUME NEW s \in Subs, CloseStream(s) PROVE TypeOK'
    <2>1. StreamTypes'
      BY <1>34 DEF CloseStream, TypeOK, StreamTypes, StreamType
    <2> QED BY <1>34, <2>1 DEF CloseStream, TypeOK, TableTypes, LinkTypes, RunTypes, WaitTypes,
                LogTypes
  <1>35. CASE UNCHANGED vars
    BY <1>35 DEF vars, TypeOK, TableTypes, LinkTypes, RunTypes, WaitTypes, LogTypes, StreamTypes
  <1> QED
    BY <1>1, <1>2, <1>3, <1>4, <1>5, <1>6, <1>7, <1>8, <1>10, <1>11, <1>12, <1>13, <1>14, <1>16,
       <1>17, <1>18, <1>19, <1>20, <1>21, <1>22, <1>24, <1>25, <1>26, <1>27, <1>29, <1>30, <1>31,
       <1>32, <1>33, <1>34, <1>35
    DEF Next, Environment, Work, CallStep, ErrandStep, AttemptStep, StreamerStep, RetryRefused,
        CancelRefused

\* Every variable of the task manager has its type in every reachable state.
THEOREM TypeCorrect == SafeSpec => []TypeOK
  BY TypeInit, TypeStep, PTL DEF SafeSpec

-----------------------------------------------------------------------------
(* One execution at a time. *)

LEMMA AttemptsInit == Init => AttemptsInOrder
  <1> SUFFICES ASSUME Init PROVE AttemptsInOrder
    OBVIOUS
  <1>1. /\ status = [t \in Tasks |-> "absent"]
        /\ attempt = [t \in Tasks |-> 0]
        /\ runCancels = [t \in Tasks |-> None]
        /\ phase = [g \in Goroutines |-> "absent"]
        /\ spawn = [c \in Callers |-> None]
    BY DEF Init
  <1>2. \A t \in Tasks : \A a \in Attempts : <<t, a>> \in Goroutines /\ <<t, a>> # None
    BY NamesAssumption DEF Goroutines, Procs
  <1>3. 0 \in Attempts /\ \A a \in Attempts : ~(a < 0)
    BY RetriesAssumption DEF Attempts
  <1>4. AttemptsOrdered
    BY <1>1, <1>2, <1>3 DEF AttemptsOrdered
  <1>5. PhaseFitsStatus
    BY <1>1, <1>2, <1>3 DEF PhaseFitsStatus
  <1>6. SpawnsFit
    BY <1>1, <1>2 DEF SpawnsFit
  <1> QED BY <1>4, <1>5, <1>6 DEF AttemptsInOrder

\* A step that leaves statuses, attempts, goroutines and spawns alone.
LEMMA AttemptsFrame ==
  ASSUME AttemptsInOrder,
         UNCHANGED <<status, attempt, runCancels, phase, spawn>>,
         \A t \in Tasks : pc'[t] = "idle" => pc[t] = "idle"
  PROVE  AttemptsInOrder'
  BY DEF AttemptsInOrder, AttemptsOrdered, PhaseFitsStatus, SpawnsFit

\* Without a retry, only a pending or a running task changes its status.
LEMMA OnlyLiveMoves ==
  ASSUME NEW from \in Statuses, NEW to, from # to, CanMove(from, to, FALSE)
  PROVE  from \in {"pending", "running"}
  BY DEF CanMove, Allowed

\* A pending task is killed, and nothing else happens to it or its attempts.
LEMMA AttemptsKilled ==
  ASSUME TypeOK, AttemptsInOrder, NEW c \in Calls, NEW t \in Tasks, NEW rest,
         CancelPending(c, t, rest)
  PROVE  AttemptsInOrder'
  <1>1. /\ status' = [status EXCEPT ![t] = "killed"]
        /\ runCancels' = [runCancels EXCEPT ![t] = None]
        /\ pc' = [pc EXCEPT ![c] = "busy"]
        /\ UNCHANGED <<attempt, phase, spawn>>
    BY DEF CancelPending, EndRun, SetTask, Busy
  <1>2. status[t] = "pending"
    BY OnlyLiveMoves DEF CancelPending, TypeOK, TableTypes
  <1>3. c \notin Tasks
    BY NamesAssumption
  <1>4. AttemptsOrdered'
    BY <1>1 DEF AttemptsInOrder, AttemptsOrdered
  <1>5. PhaseFitsStatus'
    BY <1>1, <1>2, <1>3 DEF AttemptsInOrder, PhaseFitsStatus, TypeOK, TableTypes, RunTypes, Callers
  <1>6. SpawnsFit'
    BY <1>1, <1>2 DEF AttemptsInOrder, SpawnsFit, TypeOK, TableTypes
  <1> QED BY <1>4, <1>5, <1>6 DEF AttemptsInOrder

\* The goroutines of an attempt, and the attempts of a goroutine.
LEMMA GoroutineNames ==
  /\ \A t \in Tasks : \A a \in Attempts : <<t, a>> \in Goroutines
  /\ \A g \in Goroutines : g[1] \in Tasks /\ g[2] \in Attempts /\ g = <<g[1], g[2]>>
  /\ \A a \in Attempts : a \in Nat
  BY RetriesAssumption DEF Goroutines, Attempts

\* Submit makes attempt 0 of a task nobody has seen before.
LEMMA AttemptsSubmitted ==
  ASSUME TypeOK, AttemptsInOrder, NEW t \in Tasks, NEW parent \in Tasks \cup {None},
         Submit(t, parent)
  PROVE  AttemptsInOrder'
  <1>1. /\ pc[t] = "idle"
        /\ status' = [status EXCEPT ![t] = "pending"]
        /\ pc' = [pc EXCEPT ![t] = "busy"]
        /\ spawn' = [spawn EXCEPT ![t] = <<t, 0>>]
        /\ UNCHANGED <<attempt, runCancels, phase>>
    BY DEF Submit, SetTask, Busy, runs
  <1>2. status[t] = "absent" /\ attempt[t] = 0 /\ phase[<<t, 0>>] = "absent"
    BY <1>1 DEF AttemptsInOrder, PhaseFitsStatus
  <1>3. AttemptsOrdered'
    BY <1>1 DEF AttemptsInOrder, AttemptsOrdered
  <1>4. PhaseFitsStatus'
    BY <1>1, <1>2 DEF AttemptsInOrder, PhaseFitsStatus, TypeOK, TableTypes, RunTypes, Callers
  <1>5. SpawnsFit'
    <2>1. 0 \in Attempts
      BY RetriesAssumption DEF Attempts
    <2>2. \A c \in Callers : spawn[c] # <<t, 0>>
      BY <1>2, <2>1 DEF AttemptsInOrder, SpawnsFit
    <2>3. \A c \in Callers : \A k \in Tasks : \A a \in Attempts :
            spawn'[c] = <<k, a>> => /\ a = attempt'[k]
                                    /\ phase'[<<k, a>>] = "absent"
                                    /\ status'[k] \in {"pending", "killed"}
      <3> SUFFICES ASSUME NEW c \in Callers, NEW k \in Tasks, NEW a \in Attempts,
                          spawn'[c] = <<k, a>>
                   PROVE  /\ a = attempt'[k]
                          /\ phase'[<<k, a>>] = "absent"
                          /\ status'[k] \in {"pending", "killed"}
        OBVIOUS
      <3>1. CASE c = t
        BY <1>1, <1>2, <3>1 DEF TypeOK, RunTypes, TableTypes
      <3>2. CASE c # t
        BY <1>1, <3>2 DEF AttemptsInOrder, SpawnsFit, TypeOK, RunTypes, TableTypes
      <3> QED BY <3>1, <3>2
    <2> QED BY <1>1, <2>2, <2>3 DEF AttemptsInOrder, SpawnsFit, TypeOK, RunTypes, Callers
  <1> QED BY <1>3, <1>4, <1>5 DEF AttemptsInOrder

\* Retry makes the next attempt of a task whose last one is over.
LEMMA AttemptsRetried ==
  ASSUME TypeOK, AttemptsInOrder, NEW c \in Calls, NEW t \in Tasks, Retry(c, t)
  PROVE  AttemptsInOrder'
  <1> DEFINE n == attempt[t] + 1
  <1>1. /\ status[t] = "failed" /\ attempt[t] < MaxRetries
        /\ status' = [status EXCEPT ![t] = "pending"]
        /\ attempt' = [attempt EXCEPT ![t] = n]
        /\ pc' = [pc EXCEPT ![c] = "busy"]
        /\ spawn' = [spawn EXCEPT ![c] = <<t, n>>]
        /\ UNCHANGED <<runCancels, phase>>
    BY DEF Retry, Retryable, SetTask, Busy, runs
  <1>2. attempt[t] \in Attempts /\ n \in Attempts
    <2>1. attempt[t] \in Attempts
      BY DEF TypeOK, TableTypes
    <2> QED BY <1>1, <2>1, RetriesAssumption DEF Attempts
  <1>3. /\ phase[<<t, attempt[t]>>] = "finished"
        /\ phase[<<t, n>>] = "absent"
        /\ runCancels[t] = None
    BY <1>1, <1>2, GoroutineNames DEF AttemptsInOrder, AttemptsOrdered, PhaseFitsStatus
  <1>4. AttemptsOrdered'
    <2> SUFFICES ASSUME NEW k \in Tasks, NEW a \in Attempts
                 PROVE  /\ a > attempt'[k] => phase[<<k, a>>] = "absent"
                        /\ a < attempt'[k] => phase[<<k, a>>] = "finished"
      BY <1>1 DEF AttemptsOrdered
    <2>1. CASE k = t
      <3>1. attempt'[k] = n
        BY <1>1, <2>1 DEF TypeOK, TableTypes
      <3>2. a > n => a > attempt[t]
        BY <1>2, GoroutineNames
      <3>3. a < n => a < attempt[t] \/ a = attempt[t]
        BY <1>2, GoroutineNames
      <3> QED BY <1>3, <2>1, <3>1, <3>2, <3>3 DEF AttemptsInOrder, AttemptsOrdered
    <2>2. CASE k # t
      BY <1>1, <2>2 DEF AttemptsInOrder, AttemptsOrdered, TypeOK, TableTypes
    <2> QED BY <2>1, <2>2
  <1>5. PhaseFitsStatus'
    <2>1. c \notin Tasks
      BY NamesAssumption
    <2>2. pc[t] # "idle"
      BY <1>1 DEF AttemptsInOrder, PhaseFitsStatus
    <2> QED BY <1>1, <1>2, <1>3, <2>1, <2>2
            DEF AttemptsInOrder, PhaseFitsStatus, TypeOK, TableTypes, RunTypes, Callers
  <1>6. SpawnsFit'
    <2>1. \A d \in Callers : \A a \in Attempts : spawn[d] # <<t, a>>
      BY <1>1 DEF AttemptsInOrder, SpawnsFit
    <2>2. \A d \in Callers : \A k \in Tasks : \A a \in Attempts :
            spawn'[d] = <<k, a>> => /\ a = attempt'[k]
                                    /\ phase'[<<k, a>>] = "absent"
                                    /\ status'[k] \in {"pending", "killed"}
      <3> SUFFICES ASSUME NEW d \in Callers, NEW k \in Tasks, NEW a \in Attempts,
                          spawn'[d] = <<k, a>>
                   PROVE  /\ a = attempt'[k]
                          /\ phase'[<<k, a>>] = "absent"
                          /\ status'[k] \in {"pending", "killed"}
        OBVIOUS
      <3>1. CASE d = c
        BY <1>1, <1>3, <3>1 DEF TypeOK, RunTypes, TableTypes
      <3>2. CASE d # c
        <4>1. spawn[d] = <<k, a>> /\ k # t
          BY <1>1, <2>1, <3>2 DEF TypeOK, RunTypes
        <4> QED BY <1>1, <4>1 DEF AttemptsInOrder, SpawnsFit, TypeOK, TableTypes
      <3> QED BY <3>1, <3>2
    <2>3. spawn'[c] = <<t, n>>
      BY <1>1 DEF TypeOK, RunTypes, Callers
    <2>4. \A d \in Callers \ {c} : spawn'[d] = spawn[d] /\ spawn[d] # <<t, n>>
      BY <1>1, <1>2, <2>1 DEF TypeOK, RunTypes
    <2>5. \A d, e \in Callers : spawn'[d] = spawn'[e] /\ spawn'[d] # None => d = e
      BY <2>3, <2>4 DEF AttemptsInOrder, SpawnsFit
    <2> QED BY <2>2, <2>5 DEF SpawnsFit
  <1> QED BY <1>4, <1>5, <1>6 DEF AttemptsInOrder

\* enqueueTask spawns the goroutine of the current attempt.
LEMMA AttemptsEnqueued ==
  ASSUME TypeOK, AttemptsInOrder, NEW c \in Callers, Enqueue(c)
  PROVE  AttemptsInOrder'
  <1>1. /\ spawn[c] # None
        /\ phase' = [phase EXCEPT ![spawn[c]] = "spawned"]
        /\ pc' = [pc EXCEPT ![c] = "ok"]
        /\ spawn' = [spawn EXCEPT ![c] = None]
        /\ UNCHANGED <<status, attempt, runCancels>>
    BY DEF Enqueue, Spawn, tasks
  <1>2. PICK t \in Tasks, a \in Attempts : spawn[c] = <<t, a>>
    BY <1>1 DEF TypeOK, RunTypes, Goroutines
  <1>3. /\ a = attempt[t]
        /\ phase[<<t, a>>] = "absent"
        /\ status[t] \in {"pending", "killed"}
    BY <1>2 DEF AttemptsInOrder, SpawnsFit
  <1>4. \A k \in Tasks : \A b \in Attempts :
          phase'[<<k, b>>] = IF k = t /\ b = a THEN "spawned" ELSE phase[<<k, b>>]
    <2>1. phase' = [phase EXCEPT ![<<t, a>>] = "spawned"]
      BY <1>1, <1>2
    <2>2. phase \in [Goroutines -> {"absent", "spawned", "executing", "finished"}]
      BY DEF TypeOK, RunTypes
    <2> QED BY <2>1, <2>2, GoroutineNames
  <1>5. AttemptsOrdered'
    <2> SUFFICES ASSUME NEW k \in Tasks, NEW b \in Attempts
                 PROVE  /\ b > attempt[k] => phase'[<<k, b>>] = "absent"
                        /\ b < attempt[k] => phase'[<<k, b>>] = "finished"
      BY <1>1 DEF AttemptsOrdered
    <2>1. CASE k = t /\ b = a
      BY <1>3, <2>1, GoroutineNames
    <2>2. CASE ~(k = t /\ b = a)
      BY <1>4, <2>2 DEF AttemptsInOrder, AttemptsOrdered
    <2> QED BY <2>1, <2>2
  <1>6. PhaseFitsStatus'
    <2>1. \A k \in Tasks : attempt[k] \in Attempts
      BY DEF TypeOK, TableTypes
    <2> QED BY <1>1, <1>3, <1>4, <2>1
            DEF AttemptsInOrder, PhaseFitsStatus, TypeOK, RunTypes, Callers
  <1>7. SpawnsFit'
    <2>1. \A d \in Callers : \A k \in Tasks : \A b \in Attempts :
            spawn'[d] = <<k, b>> => /\ b = attempt'[k]
                                    /\ phase'[<<k, b>>] = "absent"
                                    /\ status'[k] \in {"pending", "killed"}
      <3> SUFFICES ASSUME NEW d \in Callers, NEW k \in Tasks, NEW b \in Attempts,
                          spawn'[d] = <<k, b>>
                   PROVE  /\ b = attempt'[k]
                          /\ phase'[<<k, b>>] = "absent"
                          /\ status'[k] \in {"pending", "killed"}
        OBVIOUS
      <3>1. d # c /\ spawn[d] = <<k, b>>
        BY <1>1, GoroutineNames, NamesAssumption DEF TypeOK, RunTypes, Procs
      <3>2. ~(k = t /\ b = a)
        BY <1>1, <1>2, <3>1 DEF AttemptsInOrder, SpawnsFit
      <3> QED BY <1>1, <1>4, <3>1, <3>2 DEF AttemptsInOrder, SpawnsFit
    <2> QED BY <1>1, <2>1 DEF AttemptsInOrder, SpawnsFit, TypeOK, RunTypes
  <1> QED BY <1>5, <1>6, <1>7 DEF AttemptsInOrder

\* A goroutine that has been spawned and is not over runs the current attempt.
LEMMA CurrentAttempt ==
  ASSUME TypeOK, AttemptsInOrder, NEW g \in Goroutines,
         phase[g] \in {"spawned", "executing"}
  PROVE  g[2] = attempt[g[1]] /\ g = <<g[1], attempt[g[1]]>>
  <1>1. g[1] \in Tasks /\ g[2] \in Attempts /\ g = <<g[1], g[2]>>
    BY GoroutineNames
  <1>2. g[2] \in Nat /\ attempt[g[1]] \in Nat
    BY <1>1, GoroutineNames DEF TypeOK, TableTypes
  <1>3. ~(g[2] > attempt[g[1]]) /\ ~(g[2] < attempt[g[1]])
    BY <1>1 DEF AttemptsInOrder, AttemptsOrdered
  <1> QED BY <1>1, <1>2, <1>3

\* The goroutine of the current attempt, and the task with it, moves on.
LEMMA AttemptsMoved ==
  ASSUME TypeOK, AttemptsInOrder,
         NEW g \in Goroutines, NEW st \in Terminal \cup {"running"},
         phase[g] \in {"spawned", "executing"},
         status' = [status EXCEPT ![g[1]] = st],
         phase' = [phase EXCEPT ![g] = IF st = "running" THEN "executing" ELSE "finished"],
         runCancels' = [runCancels EXCEPT ![g[1]] = IF st = "running" THEN g ELSE None],
         UNCHANGED <<attempt, spawn, pc>>
  PROVE  AttemptsInOrder'
  <1> DEFINE t == g[1]
             ph == IF st = "running" THEN "executing" ELSE "finished"
  <1>1. /\ t \in Tasks /\ attempt[t] \in Attempts
        /\ g = <<t, attempt[t]>>
    BY CurrentAttempt, GoroutineNames DEF TypeOK, TableTypes
  <1>2. \A k \in Tasks : \A b \in Attempts :
          phase'[<<k, b>>] = IF k = t /\ b = attempt[t] THEN ph ELSE phase[<<k, b>>]
    <2>1. phase' = [phase EXCEPT ![<<t, attempt[t]>>] = ph]
      BY <1>1
    <2>2. phase \in [Goroutines -> {"absent", "spawned", "executing", "finished"}]
      BY DEF TypeOK, RunTypes
    <2> QED BY <2>1, <2>2, GoroutineNames
  <1>3. AttemptsOrdered'
    <2> SUFFICES ASSUME NEW k \in Tasks, NEW b \in Attempts
                 PROVE  /\ b > attempt[k] => phase'[<<k, b>>] = "absent"
                        /\ b < attempt[k] => phase'[<<k, b>>] = "finished"
      BY DEF AttemptsOrdered
    <2>1. CASE k = t /\ b = attempt[t]
      BY <2>1, <1>1, GoroutineNames
    <2>2. CASE ~(k = t /\ b = attempt[t])
      BY <1>2, <2>2 DEF AttemptsInOrder, AttemptsOrdered
    <2> QED BY <2>1, <2>2
  <1>4. PhaseFitsStatus'
    <2> SUFFICES ASSUME NEW k \in Tasks
                 PROVE  /\ status'[k] = "absent" =>
                             attempt[k] = 0 /\ phase'[<<k, attempt[k]>>] = "absent"
                        /\ status'[k] = "pending" =>
                             phase'[<<k, attempt[k]>>] \in {"absent", "spawned"}
                        /\ status'[k] = "running" <=> phase'[<<k, attempt[k]>>] = "executing"
                        /\ status'[k] \in {"completed", "failed"} =>
                             phase'[<<k, attempt[k]>>] = "finished"
                        /\ pc[k] = "idle" => status'[k] = "absent"
                        /\ runCancels'[k] =
                             IF status'[k] = "running" THEN <<k, attempt[k]>> ELSE None
      BY DEF PhaseFitsStatus
    <2>1. attempt[k] \in Attempts
      BY DEF TypeOK, TableTypes
    <2>2. CASE k = t
      <3>1. status'[k] = st /\ phase'[<<k, attempt[k]>>] = ph
        BY <1>1, <1>2, <2>2 DEF TypeOK, TableTypes
      <3>2. runCancels'[k] = IF st = "running" THEN <<k, attempt[k]>> ELSE None
        BY <1>1, <2>2 DEF TypeOK, RunTypes
      <3>3. pc[k] # "idle"
        BY <1>1, <2>2 DEF AttemptsInOrder, PhaseFitsStatus
      <3> QED BY <3>1, <3>2, <3>3 DEF Terminal
    <2>3. CASE k # t
      <3>1. status'[k] = status[k] /\ phase'[<<k, attempt[k]>>] = phase[<<k, attempt[k]>>]
            /\ runCancels'[k] = runCancels[k]
        BY <1>1, <1>2, <2>1, <2>3 DEF TypeOK, TableTypes, RunTypes
      <3> QED BY <3>1 DEF AttemptsInOrder, PhaseFitsStatus
    <2> QED BY <2>2, <2>3
  <1>5. SpawnsFit'
    <2>1. \A c \in Callers : \A k \in Tasks : \A b \in Attempts :
            spawn[c] = <<k, b>> => k # t
      BY <1>1 DEF AttemptsInOrder, SpawnsFit
    <2>2. \A k \in Tasks : k # t => status'[k] = status[k]
      BY DEF TypeOK, TableTypes
    <2> QED BY <1>2, <2>1, <2>2 DEF AttemptsInOrder, SpawnsFit
  <1> QED BY <1>3, <1>4, <1>5 DEF AttemptsInOrder

\* The same for a goroutine that ends its attempt.
LEMMA AttemptsEnded ==
  ASSUME TypeOK, AttemptsInOrder,
         NEW g \in Goroutines, NEW st \in Terminal,
         phase[g] \in {"spawned", "executing"},
         status' = [status EXCEPT ![g[1]] = st],
         phase' = [phase EXCEPT ![g] = "finished"],
         runCancels' = [runCancels EXCEPT ![g[1]] = None],
         UNCHANGED <<attempt, spawn, pc>>
  PROVE  AttemptsInOrder'
  <1>1. st # "running"
    BY DEF Terminal
  <1>2. /\ phase' = [phase EXCEPT ![g] = IF st = "running" THEN "executing" ELSE "finished"]
        /\ runCancels' = [runCancels EXCEPT ![g[1]] = IF st = "running" THEN g ELSE None]
    BY <1>1
  <1> QED BY <1>2, AttemptsMoved

LEMMA AttemptsStep == TypeOK /\ AttemptsInOrder /\ [Next]_vars => AttemptsInOrder'
  <1> SUFFICES ASSUME TypeOK, AttemptsInOrder, [Next]_vars PROVE AttemptsInOrder'
    OBVIOUS
  <1> USE DEF tasks, specs, links, runs, log, conns, calls
  <1>1. ASSUME NEW t \in Tasks, RegisterExecution(t) \/ UnregisterExecution(t)
        PROVE  AttemptsInOrder'
    BY <1>1, AttemptsFrame DEF RegisterExecution, UnregisterExecution
  <1>2. ASSUME NEW t \in Tasks, NEW parent \in Tasks \cup {None}, Submit(t, parent)
        PROVE  AttemptsInOrder'
    BY <1>2, AttemptsSubmitted
  <1>3. ASSUME NEW c \in Callers, Enqueue(c) PROVE AttemptsInOrder'
    BY <1>3, AttemptsEnqueued
  <1>4. ASSUME NEW c \in Calls PROVE c \in Callers /\ c \notin Tasks
    BY <1>4, NamesAssumption DEF Callers
  <1>5. ASSUME NEW c \in Calls, NEW v \in {"busy", "ok", "error"}, pc' = [pc EXCEPT ![c] = v]
        PROVE  \A t \in Tasks : pc'[t] = "idle" => pc[t] = "idle"
    BY <1>4, <1>5 DEF TypeOK, RunTypes
  <1>6. ASSUME NEW c \in Calls, Return(c) \/ Refuse(c) \/ WaitExpired(c)
        PROVE  AttemptsInOrder'
    BY <1>5, <1>6, AttemptsFrame DEF Return, Refuse, WaitExpired
  <1>7. ASSUME NEW c \in Calls, NEW t \in Tasks, Retry(c, t) PROVE AttemptsInOrder'
    BY <1>7, AttemptsRetried
  <1>8. ASSUME NEW c \in Calls, NEW t \in Tasks, NEW rest, Cancels(c, t, rest)
        PROVE  AttemptsInOrder'
    <2>1. CASE CancelRunning(c, t, rest) \/ CancelKilled(c, t, rest)
      BY <1>5, <2>1, AttemptsFrame DEF CancelRunning, CancelKilled, Busy
    <2>2. CASE CancelPending(c, t, rest)
      BY <2>2, AttemptsKilled
    <2> QED BY <1>8, <2>1, <2>2 DEF Cancels
  <1>9. ASSUME NEW c \in Calls, NEW t \in Tasks,
               Cancel(c, t) \/ CancelChild(c, t) \/ Wait(c, t) \/ SkipChild(c, t)
        PROVE  AttemptsInOrder'
    BY <1>5, <1>8, <1>9, AttemptsFrame DEF Cancel, CancelChild, Wait, SkipChild, Busy
  <1>10. ASSUME NEW c \in Calls, \/ ChildrenDone(c) \/ CancelTheRun(c) \/ WaitAnswered(c)
                                 \/ WaitRegistered(c) \/ WaitWoken(c)
         PROVE  AttemptsInOrder'
    BY <1>10, AttemptsFrame
    DEF ChildrenDone, CancelTheRun, WaitAnswered, WaitRegistered, WaitWoken
  <1>11. ASSUME NEW p \in Procs, ErrandStep(p) PROVE AttemptsInOrder'
    BY <1>11, AttemptsFrame DEF ErrandStep, NotifyWaiters, PersistEvent, PublishTo
  <1>12. ASSUME NEW g \in Goroutines PROVE g[1] \in Tasks
    BY <1>12, GoroutineNames
  <1>13. ASSUME NEW g \in Goroutines, AttemptUnwired(g) PROVE AttemptsInOrder'
    <2>1. runCancels' = [runCancels EXCEPT ![g[1]] = None]
      BY <1>12, <1>13 DEF AttemptUnwired, AttemptsInOrder, PhaseFitsStatus, TypeOK, RunTypes
    <2>2. /\ phase[g] = "spawned"
          /\ status' = [status EXCEPT ![g[1]] = "failed"]
          /\ phase' = [phase EXCEPT ![g] = "finished"]
          /\ UNCHANGED <<attempt, spawn, pc>>
      BY <1>13 DEF AttemptUnwired, SetTask
    <2>3. "failed" \in Terminal
      BY DEF Terminal
    <2> QED BY <2>1, <2>2, <2>3, AttemptsEnded
  <1>14. ASSUME NEW g \in Goroutines, AttemptTooLate(g) PROVE AttemptsInOrder'
    <2> DEFINE t == g[1]
    <2>1. g = <<t, attempt[t]>> /\ phase[g] = "spawned" /\ status[t] # "pending"
      BY <1>14, CurrentAttempt DEF AttemptTooLate
    <2>2. status[t] = "killed"
      BY <1>12, <2>1 DEF AttemptsInOrder, PhaseFitsStatus, TypeOK, TableTypes, Statuses
    <2>3. runCancels[t] = None
      BY <1>12, <2>2 DEF AttemptsInOrder, PhaseFitsStatus
    <2>4. /\ UNCHANGED <<status, attempt, runCancels, spawn, pc>>
          /\ phase' = [phase EXCEPT ![g] = "finished"]
      BY <1>14 DEF AttemptTooLate
    <2>5. /\ status' = [status EXCEPT ![t] = "killed"]
          /\ runCancels' = [runCancels EXCEPT ![t] = None]
      BY <1>12, <2>2, <2>3, <2>4 DEF TypeOK, TableTypes, RunTypes
    <2>6. "killed" \in Terminal
      BY DEF Terminal
    <2> QED BY <2>1, <2>4, <2>5, <2>6, AttemptsEnded
  <1>15. ASSUME NEW g \in Goroutines, AttemptStart(g) PROVE AttemptsInOrder'
    BY <1>12, <1>15, AttemptsMoved DEF AttemptStart, SetTask, Statuses
  <1>16. ASSUME NEW g \in Goroutines, NEW o \in Outcomes, AttemptFinish(g, o)
         PROVE  AttemptsInOrder'
    <2>1. /\ phase[g] = "executing"
          /\ status' = [status EXCEPT ![g[1]] = o.status]
          /\ runCancels' = [runCancels EXCEPT ![g[1]] = None]
          /\ phase' = [phase EXCEPT ![g] = "finished"]
          /\ UNCHANGED <<attempt, spawn, pc>>
      BY <1>16 DEF AttemptFinish, EndRun, SetTask
    <2>2. o.status \in Terminal /\ o.status \in Statuses /\ o.status # "running"
      BY <1>16, OutcomeTypes
    <2> QED BY <2>1, <2>2, AttemptsEnded
  <1>17. ASSUME NEW s \in Subs, \/ \E t \in Tasks : Stream(s, t)
                                \/ StreamCtxDone(s) \/ StreamerStep(s)
         PROVE  AttemptsInOrder'
    BY <1>17, AttemptsFrame
    DEF Stream, StreamCtxDone, StreamerStep, Deliver, HistoryDone, Receive, CloseStream,
        StreamStep
  <1>18. CASE UNCHANGED vars
    BY <1>18, AttemptsFrame DEF vars
  <1> QED
    BY <1>1, <1>2, <1>3, <1>6, <1>7, <1>9, <1>10, <1>11, <1>13, <1>14, <1>15, <1>16, <1>17, <1>18
    DEF Next, Environment, Work, CallStep, AttemptStep, RetryRefused, CancelRefused, Callers

LEMMA AttemptsGiveExecuting ==
  ASSUME TypeOK, AttemptsInOrder
  PROVE  RunningMeansExecuting
  <1>1. ASSUME NEW g \in Goroutines, phase[g] = "executing"
        PROVE  /\ status[g[1]] = "running"
               /\ attempt[g[1]] = g[2]
               /\ runCancels[g[1]] = g
    <2>1. g[1] \in Tasks /\ g[2] = attempt[g[1]] /\ g = <<g[1], attempt[g[1]]>>
      BY <1>1, CurrentAttempt, GoroutineNames
    <2> QED BY <1>1, <2>1 DEF AttemptsInOrder, PhaseFitsStatus
  <1>2. ASSUME NEW t \in Tasks
        PROVE  /\ status[t] = "running" => phase[<<t, attempt[t]>>] = "executing"
               /\ runCancels[t] # None => status[t] = "running"
    BY DEF AttemptsInOrder, PhaseFitsStatus
  <1> QED BY <1>1, <1>2 DEF RunningMeansExecuting

\* Whatever is submitted, cancelled and retried, a task is running exactly
\* while the goroutine of its current attempt executes it, and no other does:
\* a result is never stored over a later attempt.
THEOREM OneExecution == SafeSpec => []RunningMeansExecuting
  <1>1. Init => TypeOK /\ AttemptsInOrder
    BY TypeInit, AttemptsInit
  <1>2. TypeOK /\ AttemptsInOrder /\ [Next]_vars => TypeOK' /\ AttemptsInOrder'
    BY TypeStep, AttemptsStep
  <1>3. TypeOK /\ AttemptsInOrder => RunningMeansExecuting
    BY AttemptsGiveExecuting
  <1> QED BY <1>1, <1>2, <1>3, PTL DEF SafeSpec

\* The attempts of a task are spawned one after the other, each when the one
\* before it is over, and by one call only.
THEOREM AttemptsKeepOrder == SafeSpec => []AttemptsInOrder
  <1>1. Init => TypeOK /\ AttemptsInOrder
    BY TypeInit, AttemptsInit
  <1>2. TypeOK /\ AttemptsInOrder /\ [Next]_vars => TypeOK' /\ AttemptsInOrder'
    BY TypeStep, AttemptsStep
  <1> QED BY <1>1, <1>2, PTL DEF SafeSpec

-----------------------------------------------------------------------------
(* Parents and children. *)

LEMMA LinksInit == Init => LinksMirror
  <1> SUFFICES ASSUME Init PROVE LinksMirror
    OBVIOUS
  <1>1. childParent = [t \in Tasks |-> None] /\ parentChildren = [t \in Tasks |-> {}]
    BY DEF Init
  <1>2. \A t \in Tasks : t # None
    BY NamesAssumption DEF Procs, Callers
  <1> QED BY <1>1, <1>2 DEF LinksMirror

\* A step that leaves the links, and the linked children, as they are.
LEMMA LinksFrame ==
  ASSUME LinksMirror, UNCHANGED <<links, parentTask>>,
         \A t \in Tasks : childParent[t] # None =>
                            status'[t] \in {"pending", "running"} /\ attempt'[t] = attempt[t]
  PROVE  LinksMirror'
  BY DEF LinksMirror, Live, links

\* A task is detached as it ends.
LEMMA LinksDetached ==
  ASSUME TypeOK, LinksMirror, NEW t \in Tasks, Detach(t), UNCHANGED <<attempt, parentTask>>,
         \A k \in Tasks \ {t} : status'[k] = status[k]
  PROVE  LinksMirror'
  <1>1. /\ childParent \in [Tasks -> Tasks \cup {None}]
        /\ parentChildren \in [Tasks -> SUBSET Tasks]
        /\ \A k \in Tasks : k # None
    BY NamesAssumption DEF TypeOK, LinkTypes, Procs, Callers
  <1>2. \A k \in Tasks : childParent'[k] =
            IF k = t \/ k \in parentChildren[t] THEN None ELSE childParent[k]
    BY <1>1 DEF Detach
  <1>3. \A p \in Tasks : parentChildren'[p] =
            IF p = t THEN {}
            ELSE IF p = childParent[t] THEN parentChildren[p] \ {t} ELSE parentChildren[p]
    BY <1>1 DEF Detach
  <1>4. ASSUME NEW k \in Tasks, NEW p \in Tasks
        PROVE  childParent'[k] = p <=> k \in parentChildren'[p]
    <2>1. childParent[k] = p <=> k \in parentChildren[p]
      BY DEF LinksMirror
    <2>2. childParent[k] = t <=> k \in parentChildren[t]
      BY DEF LinksMirror
    <2>3. CASE p = t
      BY <1>1, <1>2, <1>3, <2>2, <2>3
    <2>4. CASE p # t /\ k = t
      BY <1>1, <1>2, <1>3, <2>1, <2>4
    <2>5. CASE p # t /\ k # t
      <3>1. k \in parentChildren'[p] <=> k \in parentChildren[p]
        BY <1>3, <2>5
      <3>2. CASE k \in parentChildren[t]
        <4>1. childParent'[k] = None /\ childParent[k] = t
          BY <1>2, <2>2, <3>2
        <4> QED BY <1>1, <2>1, <2>5, <3>1, <4>1
      <3>3. CASE k \notin parentChildren[t]
        BY <1>2, <2>1, <2>5, <3>1, <3>3
      <3> QED BY <3>2, <3>3
    <2> QED BY <2>3, <2>4, <2>5
  <1>5. ASSUME NEW k \in Tasks, childParent'[k] # None
        PROVE  /\ status'[k] \in {"pending", "running"} /\ attempt'[k] = 0
               /\ childParent'[k] = parentTask'[k]
    BY <1>2, <1>5 DEF LinksMirror, Live
  <1> QED BY <1>4, <1>5 DEF LinksMirror, Live

\* A new child is linked to its parent.
LEMMA LinksSubmitted ==
  ASSUME TypeOK, AttemptsInOrder, LinksMirror, NEW t \in Tasks,
         NEW parent \in Tasks \cup {None}, Submit(t, parent)
  PROVE  LinksMirror'
  <1>1. /\ childParent \in [Tasks -> Tasks \cup {None}]
        /\ parentChildren \in [Tasks -> SUBSET Tasks]
        /\ \A k \in Tasks : k # None
    BY NamesAssumption DEF TypeOK, LinkTypes, Procs, Callers
  <1>2. status[t] = "absent" /\ attempt[t] = 0
    BY DEF Submit, AttemptsInOrder, PhaseFitsStatus
  <1>3. childParent[t] = None /\ \A p \in Tasks : t \notin parentChildren[p]
    BY <1>1, <1>2 DEF LinksMirror, Live
  <1>4. /\ status' = [status EXCEPT ![t] = "pending"]
        /\ parentTask' = [parentTask EXCEPT ![t] = parent]
        /\ UNCHANGED attempt
    BY DEF Submit, SetTask
  <1>5. /\ \A k \in Tasks : childParent'[k] = IF k = t THEN parent ELSE childParent[k]
        /\ \A p \in Tasks : parentChildren'[p] =
                              IF p = parent THEN parentChildren[p] \cup {t} ELSE parentChildren[p]
    <2>1. CASE parent = None
      BY <1>1, <1>3, <2>1 DEF Submit, links
    <2>2. CASE parent # None
      BY <1>1, <2>2 DEF Submit, Link
    <2> QED BY <2>1, <2>2
  <1>6. ASSUME NEW k \in Tasks, NEW p \in Tasks
        PROVE  childParent'[k] = p <=> k \in parentChildren'[p]
    <2>1. childParent[k] = p <=> k \in parentChildren[p]
      BY DEF LinksMirror
    <2>2. CASE k = t
      BY <1>1, <1>3, <1>5, <2>2
    <2>3. CASE k # t
      BY <1>1, <1>5, <2>1, <2>3
    <2> QED BY <2>2, <2>3
  <1>7. ASSUME NEW k \in Tasks, childParent'[k] # None
        PROVE  /\ status'[k] \in {"pending", "running"} /\ attempt'[k] = 0
               /\ childParent'[k] = parentTask'[k]
    <2>1. CASE k = t
      BY <1>2, <1>4, <1>5, <2>1 DEF TypeOK, TableTypes
    <2>2. CASE k # t
      BY <1>4, <1>5, <1>7, <2>2 DEF LinksMirror, Live, TypeOK, TableTypes
    <2> QED BY <2>1, <2>2
  <1> QED BY <1>6, <1>7 DEF LinksMirror, Live

LEMMA LinksStep ==
  TypeOK /\ AttemptsInOrder /\ LinksMirror /\ [Next]_vars => LinksMirror'
  <1> SUFFICES ASSUME TypeOK, AttemptsInOrder, LinksMirror, [Next]_vars PROVE LinksMirror'
    OBVIOUS
  <1> USE DEF tasks, specs, runs, log, conns, calls
  <1>1. ASSUME UNCHANGED <<status, attempt, parentTask, links>> PROVE LinksMirror'
    <2>1. \A t \in Tasks : childParent[t] # None =>
                status'[t] \in {"pending", "running"} /\ attempt'[t] = attempt[t]
      BY <1>1 DEF LinksMirror, Live
    <2> QED BY <1>1, <2>1, LinksFrame
  <1>2. ASSUME NEW t \in Tasks, RegisterExecution(t) \/ UnregisterExecution(t)
        PROVE  LinksMirror'
    BY <1>1, <1>2 DEF RegisterExecution, UnregisterExecution
  <1>3. ASSUME NEW t \in Tasks, NEW parent \in Tasks \cup {None}, Submit(t, parent)
        PROVE  LinksMirror'
    BY <1>3, LinksSubmitted
  <1>4. ASSUME NEW c \in Callers, Enqueue(c) PROVE LinksMirror'
    BY <1>1, <1>4 DEF Enqueue
  <1>5. ASSUME NEW c \in Calls, NEW t \in Tasks, Retry(c, t) PROVE LinksMirror'
    <2>1. /\ status[t] = "failed"
          /\ status' = [status EXCEPT ![t] = "pending"]
          /\ attempt' = [attempt EXCEPT ![t] = attempt[t] + 1]
          /\ UNCHANGED <<parentTask, links>>
      BY <1>5 DEF Retry, Retryable, SetTask
    <2>2. \A k \in Tasks : childParent[k] # None =>
                status'[k] \in {"pending", "running"} /\ attempt'[k] = attempt[k]
      BY <2>1 DEF LinksMirror, Live, TypeOK, TableTypes
    <2> QED BY <2>1, <2>2, LinksFrame
  <1>6. ASSUME NEW c \in Calls, NEW t \in Tasks, NEW rest, Cancels(c, t, rest)
        PROVE  LinksMirror'
    <2>1. CASE CancelRunning(c, t, rest) \/ CancelKilled(c, t, rest)
      BY <1>1, <2>1 DEF CancelRunning, CancelKilled
    <2>2. CASE CancelPending(c, t, rest)
      <3>1. /\ Detach(t)
            /\ UNCHANGED <<attempt, parentTask>>
            /\ status' = [status EXCEPT ![t] = "killed"]
        BY <2>2 DEF CancelPending, SetTask
      <3>2. \A k \in Tasks \ {t} : status'[k] = status[k]
        BY <3>1 DEF TypeOK, TableTypes
      <3> QED BY <3>1, <3>2, LinksDetached
    <2> QED BY <1>6, <2>1, <2>2 DEF Cancels
  <1>7. ASSUME NEW c \in Calls, NEW t \in Tasks,
               Cancel(c, t) \/ CancelChild(c, t) \/ Wait(c, t) \/ SkipChild(c, t)
        PROVE  LinksMirror'
    BY <1>1, <1>6, <1>7 DEF Cancel, CancelChild, Wait, SkipChild
  <1>8. ASSUME NEW c \in Calls, \/ ChildrenDone(c) \/ CancelTheRun(c) \/ WaitAnswered(c)
                                \/ WaitRegistered(c) \/ WaitWoken(c) \/ Return(c)
                                \/ Refuse(c) \/ WaitExpired(c)
        PROVE  LinksMirror'
    BY <1>1, <1>8 DEF ChildrenDone, CancelTheRun, WaitAnswered, WaitRegistered, WaitWoken,
                      Return, Refuse, WaitExpired
  <1>9. ASSUME NEW p \in Procs, ErrandStep(p) PROVE LinksMirror'
    BY <1>1, <1>9 DEF ErrandStep, NotifyWaiters, PersistEvent, PublishTo
  <1>10. ASSUME NEW g \in Goroutines, NEW st, Detach(g[1]), UNCHANGED <<attempt, parentTask>>,
                status' = [status EXCEPT ![g[1]] = st]
         PROVE  LinksMirror'
    <2>1. \A k \in Tasks \ {g[1]} : status'[k] = status[k]
      BY <1>10 DEF TypeOK, TableTypes
    <2> QED BY <1>10, <2>1, LinksDetached, GoroutineNames
  <1>11. ASSUME NEW g \in Goroutines, AttemptUnwired(g) PROVE LinksMirror'
    BY <1>10, <1>11 DEF AttemptUnwired, SetTask
  <1>12. ASSUME NEW g \in Goroutines, AttemptTooLate(g) PROVE LinksMirror'
    BY <1>1, <1>12 DEF AttemptTooLate
  <1>13. ASSUME NEW g \in Goroutines, AttemptStart(g) PROVE LinksMirror'
    <2>1. /\ status' = [status EXCEPT ![g[1]] = "running"]
          /\ UNCHANGED <<attempt, parentTask, links>>
      BY <1>13 DEF AttemptStart, SetTask
    <2>2. \A k \in Tasks : childParent[k] # None =>
                status'[k] \in {"pending", "running"} /\ attempt'[k] = attempt[k]
      BY <2>1 DEF LinksMirror, Live, TypeOK, TableTypes
    <2> QED BY <2>1, <2>2, LinksFrame
  <1>14. ASSUME NEW g \in Goroutines, NEW o \in Outcomes, AttemptFinish(g, o)
         PROVE  LinksMirror'
    BY <1>10, <1>14 DEF AttemptFinish, SetTask
  <1>15. ASSUME NEW s \in Subs, \/ \E t \in Tasks : Stream(s, t)
                                \/ StreamCtxDone(s) \/ StreamerStep(s)
         PROVE  LinksMirror'
    BY <1>1, <1>15
    DEF Stream, StreamCtxDone, StreamerStep, Deliver, HistoryDone, Receive, CloseStream,
        StreamStep
  <1>16. CASE UNCHANGED vars
    BY <1>1, <1>16 DEF vars
  <1> QED
    BY <1>2, <1>3, <1>4, <1>5, <1>7, <1>8, <1>9, <1>11, <1>12, <1>13, <1>14, <1>15, <1>16
    DEF Next, Environment, Work, CallStep, AttemptStep, RetryRefused, CancelRefused, Callers

\* The two maps of parent/child links always mirror each other, and hold only
\* children that are live and have never been retried.
THEOREM LinksAgree == SafeSpec => []LinksMirror
  <1>1. Init => TypeOK /\ AttemptsInOrder /\ LinksMirror
    BY TypeInit, AttemptsInit, LinksInit
  <1>2. TypeOK /\ AttemptsInOrder /\ LinksMirror /\ [Next]_vars
          => TypeOK' /\ AttemptsInOrder' /\ LinksMirror'
    BY TypeStep, AttemptsStep, LinksStep
  <1> QED BY <1>1, <1>2, PTL DEF SafeSpec

\* A task that has children has been submitted.
ParentKnown == \A t \in Tasks : parentTask[t] # None => pc[parentTask[t]] # "idle"

KidsInv == LiveChildrenLinked /\ ParentKnown

\* A step that leaves the links as they are, and brings no task to life.
LEMMA KidsFrame ==
  ASSUME TypeOK, KidsInv, UNCHANGED <<links, parentTask>>,
         \A t \in Tasks : status'[t] \in {"pending", "running"} /\ attempt'[t] = 0
                            => Live(t) /\ attempt[t] = 0,
         \A t \in Tasks : pc[t] # "idle" => pc'[t] # "idle"
  PROVE  KidsInv'
  BY DEF KidsInv, LiveChildrenLinked, ParentKnown, Live, links, TypeOK, TableTypes

\* A task is detached as it ends.
LEMMA KidsDetached ==
  ASSUME TypeOK, LinksMirror, KidsInv, NEW t \in Tasks, Detach(t), UNCHANGED <<attempt, parentTask>>,
         NEW st \in Terminal, status' = [status EXCEPT ![t] = st],
         \A k \in Tasks : pc[k] # "idle" => pc'[k] # "idle"
  PROVE  KidsInv'
  <1>1. /\ parentChildren \in [Tasks -> SUBSET Tasks]
        /\ parentTask \in [Tasks -> Tasks \cup {None}]
        /\ \A k \in Tasks : status'[k] = IF k = t THEN st ELSE status[k]
    BY DEF TypeOK, LinkTypes, TableTypes
  <1>2. ASSUME NEW k \in Tasks, NEW p \in Tasks, k # t, p # t, k \in parentChildren[p]
        PROVE  k \in parentChildren'[p]
    BY <1>1, <1>2 DEF Detach
  <1>3. LiveChildrenLinked'
    BY <1>1, <1>2 DEF KidsInv, LiveChildrenLinked, Live, Terminal
  <1>4. ParentKnown'
    BY <1>1 DEF KidsInv, ParentKnown
  <1> QED BY <1>3, <1>4 DEF KidsInv

LEMMA KidsSubmitted ==
  ASSUME TypeOK, AttemptsInOrder, LinksMirror, KidsInv, NEW t \in Tasks,
         NEW parent \in Tasks \cup {None}, Submit(t, parent)
  PROVE  KidsInv'
  <1>1. /\ parentChildren \in [Tasks -> SUBSET Tasks]
        /\ parentTask \in [Tasks -> Tasks \cup {None}]
        /\ pc \in [Callers -> {"idle", "busy", "ok", "error"}]
        /\ Tasks \subseteq Callers
        /\ \A k \in Tasks : k # None
    BY NamesAssumption DEF TypeOK, LinkTypes, TableTypes, RunTypes, Procs, Callers
  <1>2. /\ pc[t] = "idle" /\ (parent # None => pc[parent] = "ok")
        /\ \A k \in Tasks : status'[k] = IF k = t THEN "pending" ELSE status[k]
        /\ \A k \in Tasks : parentTask'[k] = IF k = t THEN parent ELSE parentTask[k]
        /\ \A k \in Tasks : pc'[k] = IF k = t THEN "busy" ELSE pc[k]
        /\ UNCHANGED attempt
    BY <1>1 DEF Submit, SetTask, Busy, Known, TypeOK, TableTypes
  <1>3. \A k \in Tasks, p \in Tasks : k \in parentChildren[p] \/ (k = t /\ p = parent)
                                        => k \in parentChildren'[p]
    <2>1. CASE parent = None
      BY <1>1, <2>1 DEF Submit, links
    <2>2. CASE parent # None
      BY <1>1, <2>2 DEF Submit, Link
    <2> QED BY <2>1, <2>2
  <1>4. \A k \in Tasks : parentTask[k] # t
    BY <1>1, <1>2 DEF KidsInv, ParentKnown
  <1>5. LiveChildrenLinked'
    BY <1>1, <1>2, <1>3, <1>4 DEF KidsInv, LiveChildrenLinked, Live
  <1>6. ParentKnown'
    BY <1>1, <1>2 DEF KidsInv, ParentKnown
  <1> QED BY <1>5, <1>6 DEF KidsInv

LEMMA KidsStep ==
  TypeOK /\ AttemptsInOrder /\ LinksMirror /\ KidsInv /\ [Next]_vars => KidsInv'
  <1> SUFFICES ASSUME TypeOK, AttemptsInOrder, LinksMirror, KidsInv, [Next]_vars PROVE KidsInv'
    OBVIOUS
  <1> USE DEF tasks, specs, runs, log, conns, calls
  <1>0. /\ pc \in [Callers -> {"idle", "busy", "ok", "error"}] /\ Tasks \subseteq Callers
        /\ Calls \subseteq Callers /\ Calls \cap Tasks = {}
    BY NamesAssumption DEF TypeOK, RunTypes, Callers
  <1>1. ASSUME UNCHANGED <<status, attempt, parentTask, links>>,
               \A t \in Tasks : pc[t] # "idle" => pc'[t] # "idle"
        PROVE  KidsInv'
    BY <1>1, KidsFrame DEF Live
  <1>2. ASSUME NEW c \in Callers, \/ pc' = pc
                                  \/ \E x \in {"busy", "ok", "error"} : pc' = [pc EXCEPT ![c] = x]
        PROVE  \A t \in Tasks : pc[t] # "idle" => pc'[t] # "idle"
    BY <1>0, <1>2
  <1>3. ASSUME NEW t \in Tasks, RegisterExecution(t) \/ UnregisterExecution(t)
        PROVE  KidsInv'
    BY <1>1, <1>3 DEF RegisterExecution, UnregisterExecution
  <1>4. ASSUME NEW t \in Tasks, NEW parent \in Tasks \cup {None}, Submit(t, parent)
        PROVE  KidsInv'
    BY <1>4, KidsSubmitted
  <1>5. ASSUME NEW c \in Callers, Enqueue(c) PROVE KidsInv'
    BY <1>1, <1>2, <1>5 DEF Enqueue
  <1>6. ASSUME NEW c \in Calls, NEW t \in Tasks, Retry(c, t) PROVE KidsInv'
    <2>1. /\ attempt' = [attempt EXCEPT ![t] = attempt[t] + 1]
          /\ status' = [status EXCEPT ![t] = "pending"]
          /\ UNCHANGED <<parentTask, links>>
          /\ pc' = [pc EXCEPT ![c] = "busy"]
      BY <1>6 DEF Retry, SetTask, Busy
    <2>2. \A k \in Tasks : status'[k] \in {"pending", "running"} /\ attempt'[k] = 0
                             => Live(k) /\ attempt[k] = 0
      BY <2>1, NamesAssumption DEF Live, TypeOK, TableTypes, Attempts
    <2> QED BY <1>0, <1>2, <2>1, <2>2, KidsFrame
  <1>7. ASSUME NEW c \in Calls, NEW t \in Tasks, NEW rest, Cancels(c, t, rest)
        PROVE  KidsInv'
    <2>1. \A k \in Tasks : pc[k] # "idle" => pc'[k] # "idle"
      BY <1>0, <1>2, <1>7 DEF Cancels, CancelRunning, CancelKilled, CancelPending, Busy
    <2>2. CASE CancelRunning(c, t, rest) \/ CancelKilled(c, t, rest)
      BY <1>1, <2>1, <2>2 DEF CancelRunning, CancelKilled
    <2>3. CASE CancelPending(c, t, rest)
      BY <2>1, <2>3, KidsDetached DEF CancelPending, SetTask, Terminal
    <2> QED BY <1>7, <2>2, <2>3 DEF Cancels
  <1>8. ASSUME NEW c \in Calls, NEW t \in Tasks,
               Cancel(c, t) \/ CancelChild(c, t) \/ Wait(c, t) \/ SkipChild(c, t)
        PROVE  KidsInv'
    BY <1>0, <1>1, <1>2, <1>7, <1>8 DEF Cancel, CancelChild, Wait, SkipChild, Busy
  <1>9. ASSUME NEW c \in Calls, \/ ChildrenDone(c) \/ CancelTheRun(c) \/ WaitAnswered(c)
                                \/ WaitRegistered(c) \/ WaitWoken(c) \/ Return(c)
                                \/ Refuse(c) \/ WaitExpired(c)
        PROVE  KidsInv'
    BY <1>0, <1>1, <1>2, <1>9 DEF ChildrenDone, CancelTheRun, WaitAnswered, WaitRegistered,
                                  WaitWoken, Return, Refuse, WaitExpired
  <1>10. ASSUME NEW p \in Procs, ErrandStep(p) PROVE KidsInv'
    BY <1>1, <1>10 DEF ErrandStep, NotifyWaiters, PersistEvent, PublishTo
  <1>11. ASSUME NEW g \in Goroutines, AttemptUnwired(g) PROVE KidsInv'
    BY <1>11, KidsDetached, GoroutineNames DEF AttemptUnwired, SetTask, Terminal
  <1>12. ASSUME NEW g \in Goroutines, AttemptTooLate(g) PROVE KidsInv'
    BY <1>1, <1>12 DEF AttemptTooLate
  <1>13. ASSUME NEW g \in Goroutines, AttemptStart(g) PROVE KidsInv'
    <2>1. /\ g[1] \in Tasks /\ status[g[1]] = "pending"
          /\ status' = [status EXCEPT ![g[1]] = "running"]
          /\ UNCHANGED <<attempt, parentTask, links, pc>>
      BY <1>13, GoroutineNames DEF AttemptStart, SetTask
    <2>2. \A k \in Tasks : status'[k] \in {"pending", "running"} /\ attempt'[k] = 0
                             => Live(k) /\ attempt[k] = 0
      BY <2>1 DEF Live, TypeOK, TableTypes
    <2> QED BY <2>1, <2>2, KidsFrame
  <1>14. ASSUME NEW g \in Goroutines, NEW o \in Outcomes, AttemptFinish(g, o)
         PROVE  KidsInv'
    BY <1>14, KidsDetached, GoroutineNames, OutcomeTypes DEF AttemptFinish, SetTask, Outcomes, Terminal
  <1>15. ASSUME NEW s \in Subs, \/ \E t \in Tasks : Stream(s, t)
                                \/ StreamCtxDone(s) \/ StreamerStep(s)
         PROVE  KidsInv'
    BY <1>1, <1>15
    DEF Stream, StreamCtxDone, StreamerStep, Deliver, HistoryDone, Receive, CloseStream,
        StreamStep
  <1>16. CASE UNCHANGED vars
    BY <1>1, <1>16 DEF vars
  <1> QED
    BY <1>3, <1>4, <1>5, <1>6, <1>8, <1>9, <1>10, <1>11, <1>12, <1>13, <1>14, <1>15, <1>16
    DEF Next, Environment, Work, CallStep, AttemptStep, RetryRefused, CancelRefused, Callers

\* A live task is among the children of its live parent, so that the parent's
\* Cancel reaches it, until one of the two is retried.
THEOREM LiveChildrenStayLinked == SafeSpec => []LiveChildrenLinked
  <1>1. Init => TypeOK /\ AttemptsInOrder /\ LinksMirror
    BY TypeInit, AttemptsInit, LinksInit
  <1>2. Init => KidsInv
    <2> SUFFICES ASSUME Init PROVE KidsInv
      OBVIOUS
    <2>1. \A t \in Tasks : parentTask[t] = None
      BY DEF Init
    <2> QED BY <2>1 DEF KidsInv, LiveChildrenLinked, ParentKnown
  <1>3. TypeOK /\ AttemptsInOrder /\ LinksMirror /\ [Next]_vars
          => TypeOK' /\ AttemptsInOrder' /\ LinksMirror'
    BY TypeStep, AttemptsStep, LinksStep
  <1>4. KidsInv => LiveChildrenLinked
    BY DEF KidsInv
  <1> QED BY <1>1, <1>2, <1>3, <1>4, KidsStep, PTL DEF SafeSpec

-----------------------------------------------------------------------------
(* The log of a task. *)

Unwired(t) == errorCode[t] = "not_implemented"

\* A task has events from its Submit on; the last one tells its status, or, if
\* its attempt found no executor, the status the task had before.
LastEventOK(t) ==
  LET n == Len(events[t])
  IN  /\ n = 0 <=> status[t] = "absent"
      /\ n > 0 => events[t][n].attempt = attempt[t]
      /\ n > 0 /\ ~Unwired(t) => events[t][n].status = status[t]
      /\ n > 0 /\ Unwired(t) => events[t][n].status = "pending" /\ status[t] = "failed"

MovesOK(t) ==
  \A i \in 2 .. Len(events[t]) :
    \/ CanMove(events[t][i-1].status, events[t][i].status, TRUE)
    \/ events[t][i-1].status = "pending" /\ events[t][i].attempt > events[t][i-1].attempt

EventsInv == \A t \in Tasks : LastEventOK(t) /\ MovesOK(t)

\* Nothing of the sort happens to task k.
LEMMA EventsSame ==
  ASSUME NEW k \in Tasks, LastEventOK(k), MovesOK(k), events'[k] = events[k],
         status'[k] = status[k], attempt'[k] = attempt[k], errorCode'[k] = errorCode[k]
  PROVE  LastEventOK(k)' /\ MovesOK(k)'
  BY DEF LastEventOK, MovesOK, Unwired

\* Task t moves, and an event is logged of it.
LEMMA EventsLogged ==
  ASSUME TypeOK, EventsInv, NEW t \in Tasks, LogEvent(t),
         NEW to, status' = [status EXCEPT ![t] = to], to # "absent",
         NEW code, errorCode' = [errorCode EXCEPT ![t] = code], code # "not_implemented",
         \A k \in Tasks \ {t} : attempt'[k] = attempt[k],
         \/ status[t] = "absent"
         \/ CanMove(status[t], to, FALSE) /\ status[t] # to /\ attempt'[t] = attempt[t]
         \/ status[t] = "failed" /\ to = "pending" /\ attempt'[t] = attempt[t] + 1
  PROVE  EventsInv'
  <1> DEFINE n == Len(events[t])
             e == NewEvent(t)
  <1>1. /\ events \in [Tasks -> Seq(Event)] /\ status \in [Tasks -> Statuses]
        /\ errorCode \in [Tasks -> Codes] /\ attempt \in [Tasks -> Attempts]
    BY DEF TypeOK, LogTypes, TableTypes
  <1>2. /\ status'[t] = to /\ errorCode'[t] = code
        /\ \A k \in Tasks \ {t} : status'[k] = status[k] /\ errorCode'[k] = errorCode[k]
                                  /\ events'[k] = events[k]
        /\ events'[t] = Append(events[t], e)
    BY <1>1 DEF LogEvent
  <1>3. e.status = to /\ e.attempt = attempt'[t]
    BY <1>2 DEF NewEvent
  <1> HIDE DEF e
  <1>4. /\ events[t] \in Seq(Event) /\ n \in Nat /\ Len(events'[t]) = n + 1 /\ events'[t][n + 1] = e
        /\ \A i \in 1 .. n : events'[t][i] = events[t][i]
    BY <1>1, <1>2
  <1>5. LastEventOK(t) /\ MovesOK(t)
    BY DEF EventsInv
  <1>6. LastEventOK(t)'
    BY <1>2, <1>3, <1>4 DEF LastEventOK, Unwired
  <1>7. n > 0 => \/ CanMove(events[t][n].status, to, TRUE)
                 \/ events[t][n].status = "pending" /\ attempt'[t] > events[t][n].attempt
    <2> SUFFICES ASSUME n > 0 PROVE \/ CanMove(events[t][n].status, to, TRUE)
                                    \/ events[t][n].status = "pending" /\ attempt'[t] > events[t][n].attempt
      OBVIOUS
    <2>1. status[t] # "absent" /\ events[t][n].attempt = attempt[t]
      BY <1>5 DEF LastEventOK
    <2>2. CASE ~Unwired(t)
      BY <1>5, <2>1, <2>2 DEF LastEventOK, CanMove
    <2>3. CASE Unwired(t)
      <3>1. events[t][n].status = "pending" /\ status[t] = "failed"
        BY <1>5, <2>3 DEF LastEventOK
      <3>2. ~(CanMove(status[t], to, FALSE) /\ status[t] # to)
        BY <3>1 DEF CanMove, Allowed
      <3>3. attempt[t] \in Int
        BY <1>1, NamesAssumption DEF Attempts
      <3>4. attempt'[t] = attempt[t] + 1
        BY <2>1, <3>2
      <3>5. attempt'[t] > events[t][n].attempt
        BY <2>1, <3>3, <3>4
      <3> QED BY <3>1, <3>5
    <2> QED BY <2>2, <2>3
  <1>8. MovesOK(t)'
    <2> SUFFICES ASSUME NEW i \in 2 .. n + 1
                 PROVE  \/ CanMove(events'[t][i-1].status, events'[t][i].status, TRUE)
                        \/ /\ events'[t][i-1].status = "pending"
                           /\ events'[t][i].attempt > events'[t][i-1].attempt
      BY <1>4 DEF MovesOK, CanMove
    <2>1. CASE i = n + 1
      <3>1. n > 0 /\ i - 1 = n /\ events'[t][i-1] = events[t][n] /\ events'[t][i] = e
        BY <1>4, <2>1
      <3> QED BY <1>3, <1>7, <3>1
    <2>2. CASE i # n + 1
      <3>1. i \in 2 .. n /\ i - 1 \in 1 .. n
        BY <1>4, <2>2
      <3>2. events'[t][i-1] = events[t][i-1] /\ events'[t][i] = events[t][i]
        BY <1>4, <3>1
      <3>3. \/ CanMove(events[t][i-1].status, events[t][i].status, TRUE)
            \/ events[t][i-1].status = "pending" /\ events[t][i].attempt > events[t][i-1].attempt
        BY <1>5, <3>1 DEF MovesOK
      <3> QED BY <3>2, <3>3
    <2> QED BY <2>1, <2>2
  <1>9. ASSUME NEW k \in Tasks, k # t PROVE LastEventOK(k)' /\ MovesOK(k)'
    BY <1>2, <1>9, EventsSame DEF EventsInv
  <1> QED BY <1>6, <1>8, <1>9 DEF EventsInv

LEMMA EventsStep == TypeOK /\ AttemptsInOrder /\ EventsInv /\ [Next]_vars => EventsInv'
  <1> SUFFICES ASSUME TypeOK, AttemptsInOrder, EventsInv, [Next]_vars PROVE EventsInv'
    OBVIOUS
  <1> USE DEF tasks, specs, runs, log, conns, calls
  <1>1. ASSUME UNCHANGED <<status, attempt, errorCode, events>> PROVE EventsInv'
    BY <1>1, EventsSame DEF EventsInv
  <1>2. ASSUME NEW t \in Tasks, RegisterExecution(t) \/ UnregisterExecution(t)
        PROVE  EventsInv'
    BY <1>1, <1>2 DEF RegisterExecution, UnregisterExecution
  <1>3. ASSUME NEW t \in Tasks, NEW parent \in Tasks \cup {None}, Submit(t, parent)
        PROVE  EventsInv'
    <2>1. status[t] = "absent"
      BY <1>3 DEF Submit, AttemptsInOrder, PhaseFitsStatus
    <2> QED BY <1>3, <2>1, EventsLogged DEF Submit, SetTask
  <1>4. ASSUME NEW c \in Callers, Enqueue(c) PROVE EventsInv'
    BY <1>1, <1>4 DEF Enqueue
  <1>5. ASSUME NEW c \in Calls, NEW t \in Tasks, Retry(c, t) PROVE EventsInv'
    <2>1. /\ LogEvent(t) /\ status' = [status EXCEPT ![t] = "pending"]
          /\ errorCode' = [errorCode EXCEPT ![t] = ""] /\ status[t] = "failed"
          /\ attempt' = [attempt EXCEPT ![t] = attempt[t] + 1]
      BY <1>5 DEF Retry, Retryable, SetTask
    <2>2. attempt'[t] = attempt[t] + 1 /\ \A k \in Tasks \ {t} : attempt'[k] = attempt[k]
      BY <2>1 DEF TypeOK, TableTypes
    <2> QED BY <2>1, <2>2, EventsLogged
  <1>6. ASSUME NEW c \in Calls, NEW t \in Tasks, NEW rest, Cancels(c, t, rest)
        PROVE  EventsInv'
    <2>1. CASE CancelRunning(c, t, rest) \/ CancelKilled(c, t, rest)
      BY <1>1, <2>1 DEF CancelRunning, CancelKilled
    <2>2. CASE CancelPending(c, t, rest)
      BY <2>2, EventsLogged DEF CancelPending, SetTask
    <2> QED BY <1>6, <2>1, <2>2 DEF Cancels
  <1>7. ASSUME NEW c \in Calls, NEW t \in Tasks,
               Cancel(c, t) \/ CancelChild(c, t) \/ Wait(c, t) \/ SkipChild(c, t)
        PROVE  EventsInv'
    BY <1>1, <1>6, <1>7 DEF Cancel, CancelChild, Wait, SkipChild
  <1>8. ASSUME NEW c \in Calls, \/ ChildrenDone(c) \/ CancelTheRun(c) \/ WaitAnswered(c)
                                \/ WaitRegistered(c) \/ WaitWoken(c) \/ Return(c)
                                \/ Refuse(c) \/ WaitExpired(c)
        PROVE  EventsInv'
    BY <1>1, <1>8 DEF ChildrenDone, CancelTheRun, WaitAnswered, WaitRegistered, WaitWoken,
                      Return, Refuse, WaitExpired
  <1>9. ASSUME NEW p \in Procs, ErrandStep(p) PROVE EventsInv'
    BY <1>1, <1>9 DEF ErrandStep, NotifyWaiters, PersistEvent, PublishTo
  <1>10. ASSUME NEW g \in Goroutines, AttemptUnwired(g) PROVE EventsInv'
    <2> DEFINE t == g[1]
    <2>1. /\ t \in Tasks /\ status[t] = "pending" /\ UNCHANGED <<attempt, events>>
          /\ status' = [status EXCEPT ![t] = "failed"]
          /\ errorCode' = [errorCode EXCEPT ![t] = "not_implemented"]
      BY <1>10, GoroutineNames DEF AttemptUnwired, SetTask
    <2>2. /\ status'[t] = "failed" /\ errorCode'[t] = "not_implemented"
          /\ \A k \in Tasks \ {t} : status'[k] = status[k] /\ errorCode'[k] = errorCode[k]
      BY <2>1 DEF TypeOK, TableTypes
    <2> HIDE DEF t
    <2>3. LastEventOK(t) /\ MovesOK(t)
      BY <2>1 DEF EventsInv
    <2>4. LastEventOK(t)'
      BY <2>1, <2>2, <2>3 DEF LastEventOK, Unwired
    <2>5. MovesOK(t)'
      BY <2>1, <2>3 DEF MovesOK
    <2>6. ASSUME NEW k \in Tasks, k # t PROVE LastEventOK(k)' /\ MovesOK(k)'
      BY <2>1, <2>2, <2>6, EventsSame DEF EventsInv
    <2> QED BY <2>4, <2>5, <2>6 DEF EventsInv
  <1>11. ASSUME NEW g \in Goroutines, AttemptTooLate(g) PROVE EventsInv'
    BY <1>1, <1>11 DEF AttemptTooLate
  <1>12. ASSUME NEW g \in Goroutines, AttemptStart(g) PROVE EventsInv'
    BY <1>12, EventsLogged, GoroutineNames DEF AttemptStart, SetTask
  <1>13. ASSUME NEW g \in Goroutines, NEW o \in Outcomes, AttemptFinish(g, o)
         PROVE  EventsInv'
    <2>1. o.status \in {"completed", "failed", "killed"} /\ o.code # "not_implemented"
      BY OutcomeTypes DEF Terminal
    <2> QED BY <1>13, <2>1, EventsLogged, GoroutineNames DEF AttemptFinish, SetTask
  <1>14. ASSUME NEW s \in Subs, \/ \E t \in Tasks : Stream(s, t)
                                \/ StreamCtxDone(s) \/ StreamerStep(s)
         PROVE  EventsInv'
    BY <1>1, <1>14
    DEF Stream, StreamCtxDone, StreamerStep, Deliver, HistoryDone, Receive, CloseStream,
        StreamStep
  <1>15. CASE UNCHANGED vars
    BY <1>1, <1>15 DEF vars
  <1> QED
    BY <1>2, <1>3, <1>4, <1>5, <1>7, <1>8, <1>9, <1>10, <1>11, <1>12, <1>13, <1>14, <1>15
    DEF Next, Environment, Work, CallStep, AttemptStep, RetryRefused, CancelRefused, Callers

\* The events of a task are a path through its lifecycle, one transition at a
\* time, that ends in the state the task is in (appendTaskEventLocked), but for
\* the failure of an attempt without an executor.
THEOREM EventsTellStatus == SafeSpec => []LogTellsStatus
  <1>1. Init => TypeOK /\ AttemptsInOrder
    BY TypeInit, AttemptsInit
  <1>2. Init => EventsInv
    <2> SUFFICES ASSUME Init, NEW t \in Tasks PROVE LastEventOK(t) /\ MovesOK(t)
      BY DEF EventsInv
    <2>1. events[t] = <<>> /\ Len(events[t]) = 0 /\ status[t] = "absent"
      BY DEF Init
    <2> QED BY <2>1 DEF LastEventOK, MovesOK
  <1>3. TypeOK /\ AttemptsInOrder /\ [Next]_vars => TypeOK' /\ AttemptsInOrder'
    BY TypeStep, AttemptsStep
  <1>4. EventsInv => LogTellsStatus
    BY DEF EventsInv, LastEventOK, MovesOK, Unwired, LogTellsStatus
  <1> QED BY <1>1, <1>2, <1>3, <1>4, EventsStep, PTL DEF SafeSpec

-----------------------------------------------------------------------------
(* The life of a task. *)

LEMMA LifecycleStep ==
  TypeOK /\ AttemptsInOrder /\ [Next]_vars => [Lifecycle!Next]_(Lifecycle!vars)
  <1> SUFFICES ASSUME TypeOK, AttemptsInOrder, [Next]_vars
               PROVE  [Lifecycle!Next]_(Lifecycle!vars)
    OBVIOUS
  <1> USE DEF tasks, specs, runs, log, conns, calls
  <1> DEFINE Step == [Lifecycle!Next]_(Lifecycle!vars)
  <1>1. ASSUME UNCHANGED <<status, attempt>> PROVE Step
    BY <1>1 DEF Lifecycle!vars
  <1>2. ASSUME NEW t \in Tasks, NEW parent \in Tasks \cup {None}, Submit(t, parent) PROVE Step
    <2>1. Lifecycle!Submit(t)
      BY <1>2 DEF Submit, SetTask, AttemptsInOrder, PhaseFitsStatus, Lifecycle!Submit,
                  Lifecycle!Move
    <2> QED BY <2>1 DEF Lifecycle!Next
  <1>3. ASSUME NEW c \in Calls, NEW t \in Tasks, Retry(c, t) PROVE Step
    <2>1. Lifecycle!Retry(t)
      BY <1>3 DEF Retry, Retryable, SetTask, Lifecycle!Retry
    <2> QED BY <2>1 DEF Lifecycle!Next
  <1>4. ASSUME NEW c \in Calls, NEW t \in Tasks, NEW rest, Cancels(c, t, rest) PROVE Step
    <2>1. CASE CancelRunning(c, t, rest) \/ CancelKilled(c, t, rest)
      BY <1>1, <2>1 DEF CancelRunning, CancelKilled
    <2>2. CASE CancelPending(c, t, rest)
      <3>1. status[t] = "pending"
        BY <2>2, OnlyLiveMoves DEF CancelPending, TypeOK, TableTypes
      <3>2. Lifecycle!Discard(t)
        BY <2>2, <3>1 DEF CancelPending, SetTask, Lifecycle!Discard, Lifecycle!Move
      <3> QED BY <3>2 DEF Lifecycle!Next, Lifecycle!Progress
    <2> QED BY <1>4, <2>1, <2>2 DEF Cancels
  <1>5. ASSUME NEW c \in Calls, NEW t \in Tasks,
               Cancel(c, t) \/ CancelChild(c, t) \/ Wait(c, t) \/ SkipChild(c, t)
        PROVE  Step
    BY <1>1, <1>4, <1>5 DEF Cancel, CancelChild, Wait, SkipChild
  <1>6. ASSUME NEW c \in Calls, \/ ChildrenDone(c) \/ CancelTheRun(c) \/ WaitAnswered(c)
                                \/ WaitRegistered(c) \/ WaitWoken(c) \/ Return(c)
                                \/ Refuse(c) \/ WaitExpired(c)
        PROVE  Step
    BY <1>1, <1>6 DEF ChildrenDone, CancelTheRun, WaitAnswered, WaitRegistered, WaitWoken,
                      Return, Refuse, WaitExpired
  <1>7. ASSUME NEW p \in Procs, ErrandStep(p) PROVE Step
    BY <1>1, <1>7 DEF ErrandStep, NotifyWaiters, PersistEvent, PublishTo
  <1>8. ASSUME NEW g \in Goroutines PROVE g[1] \in Tasks
    BY <1>8, GoroutineNames
  <1>9. ASSUME NEW g \in Goroutines, AttemptUnwired(g) PROVE Step
    <2>1. Lifecycle!Discard(g[1])
      BY <1>9 DEF AttemptUnwired, SetTask, Lifecycle!Discard, Lifecycle!Move
    <2> QED BY <1>8, <2>1 DEF Lifecycle!Next, Lifecycle!Progress
  <1>10. ASSUME NEW g \in Goroutines, AttemptStart(g) PROVE Step
    <2>1. Lifecycle!Start(g[1])
      BY <1>10 DEF AttemptStart, SetTask, Lifecycle!Start, Lifecycle!Move
    <2> QED BY <1>8, <2>1 DEF Lifecycle!Next, Lifecycle!Progress
  <1>11. ASSUME NEW g \in Goroutines, NEW o \in Outcomes, AttemptFinish(g, o) PROVE Step
    <2>1. o.status \in Terminal
      BY OutcomeTypes
    <2>2. Lifecycle!Finish(g[1])
      BY <1>11, <2>1 DEF AttemptFinish, SetTask, Terminal, Lifecycle!Terminal,
                         Lifecycle!Finish, Lifecycle!Move
    <2> QED BY <1>8, <2>2 DEF Lifecycle!Next, Lifecycle!Progress
  <1>12. ASSUME NEW s \in Subs, \/ \E t \in Tasks : Stream(s, t)
                                \/ StreamCtxDone(s) \/ StreamerStep(s)
         PROVE  Step
    BY <1>1, <1>12
    DEF Stream, StreamCtxDone, StreamerStep, Deliver, HistoryDone, Receive, CloseStream,
        StreamStep
  <1>13. ASSUME \/ \E t \in Tasks : RegisterExecution(t) \/ UnregisterExecution(t)
                \/ \E c \in Callers : Enqueue(c)
                \/ \E g \in Goroutines : AttemptTooLate(g)
                \/ UNCHANGED vars
         PROVE  Step
    BY <1>1, <1>13 DEF RegisterExecution, UnregisterExecution, Enqueue, AttemptTooLate, vars
  <1> QED
    BY <1>2, <1>3, <1>5, <1>6, <1>7, <1>9, <1>10, <1>11, <1>12, <1>13
    DEF Next, Environment, Work, CallStep, AttemptStep, RetryRefused, CancelRefused, Callers

\* A task never leaves the life TaskLifecycle describes, for any number of
\* tasks, calls, streams and retries: a completed or a killed task stays so,
\* and a failed one comes back only as its next attempt.
THEOREM LifecycleKept == SafeSpec => KeepsToLifecycle
  <1>1. Init => Lifecycle!Init
    BY DEF Init, Lifecycle!Init
  <1>2. Init => TypeOK /\ AttemptsInOrder
    BY TypeInit, AttemptsInit
  <1>3. TypeOK /\ AttemptsInOrder /\ [Next]_vars => TypeOK' /\ AttemptsInOrder'
    BY TypeStep, AttemptsStep
  <1> QED BY <1>1, <1>2, <1>3, LifecycleStep, PTL DEF SafeSpec, KeepsToLifecycle, Lifecycle!SafeSpec

-----------------------------------------------------------------------------
(* What a step does to the errands that send events to streams. *)

\* A process that has not begun, or has been spawned only, has nothing to do.
IdleFit ==
  /\ \A c \in Callers : pc[c] = "idle" => todo[c] = <<>>
  /\ \A g \in Goroutines : phase[g] \in {"absent", "spawned"} => todo[g] = <<>>

\* The i-th errand of p sends an event to s.
Sends(p, i, s) == todo[p][i].do = "publish" /\ todo[p][i].to = s

\* No event is sent by these errands.
Silent(errands) == \A i \in 1 .. Len(errands) : errands[i].do # "publish"

\* A process sends the events it has to send before it does anything else.
SendsFirst ==
  \A p \in Procs : \A i \in 1 .. Len(todo[p]) :
    todo[p][i].do = "publish" => \A j \in 1 .. i : todo[p][j].do = "publish"

ErrandsInv == IdleFit /\ SendsFirst

LEMMA SilentParts ==
  ASSUME NEW a \in Seq(Errands), NEW b \in Seq(Errands)
  PROVE  /\ Silent(a) /\ Silent(b) => Silent(a \o b)
         /\ Silent(a) /\ a # <<>> => Silent(Tail(a))
         /\ a \o b \in Seq(Errands) /\ Len(a \o b) = Len(a) + Len(b)
         /\ \A i \in 1 .. Len(a) + Len(b) : (a \o b)[i] = IF i <= Len(a) THEN a[i] ELSE b[i - Len(a)]
  <1>1. /\ a \o b \in Seq(Errands) /\ Len(a \o b) = Len(a) + Len(b) /\ Len(a) \in Nat /\ Len(b) \in Nat
        /\ \A i \in 1 .. Len(a) + Len(b) : (a \o b)[i] = IF i <= Len(a) THEN a[i] ELSE b[i - Len(a)]
    BY ConcatProperties, LenProperties
  <1>2. ASSUME Silent(a), Silent(b), NEW i \in 1 .. Len(a \o b) PROVE (a \o b)[i].do # "publish"
    <2>1. CASE i <= Len(a)
      <3>1. i \in 1 .. Len(a) /\ (a \o b)[i] = a[i]  BY <1>1, <2>1
      <3>2. QED BY <1>2, <3>1 DEF Silent
    <2>2. CASE ~(i <= Len(a))
      <3>1. i - Len(a) \in 1 .. Len(b) /\ (a \o b)[i] = b[i - Len(a)]  BY <1>1, <2>2
      <3>2. QED BY <1>2, <3>1 DEF Silent
    <2> QED BY <2>1, <2>2
  <1>3. ASSUME Silent(a), a # <<>>, NEW i \in 1 .. Len(Tail(a)) PROVE Tail(a)[i].do # "publish"
    <2>1. Tail(a)[i] = a[i + 1] /\ i + 1 \in 1 .. Len(a)
      BY <1>3
    <2> QED BY <1>3, <2>1 DEF Silent
  <1> QED BY <1>1, <1>2, <1>3 DEF Silent

\* Without an event to send first a process has none to send.
LEMMA SilentProcess ==
  ASSUME TypeOK, SendsFirst, NEW p \in Procs, ~At(p, "publish")
  PROVE  Silent(todo[p])
  <1> SUFFICES ASSUME NEW i \in 1 .. Len(todo[p]), todo[p][i].do = "publish" PROVE FALSE
    BY DEF Silent
  <1>1. todo[p] \in Seq(Errands)
    BY DEF TypeOK
  <1>2. todo[p][1].do = "publish" /\ todo[p] # <<>> /\ Head(todo[p]) = todo[p][1]
    BY <1>1 DEF SendsFirst
  <1> QED BY <1>2 DEF At

\* A step leaves the sends as they are ...
SameSends ==
  \A p \in Procs : todo'[p] = todo[p] \/ (Silent(todo[p]) /\ Silent(todo'[p]))

KnownStay == \A t \in Tasks : pc[t] = "ok" => pc'[t] = "ok"

Quiet == /\ UNCHANGED <<events, attempt, stream, subscribers>>
         /\ \A t \in Tasks : \/ status'[t] = status[t]
                             \/ status[t] = "pending" /\ status'[t] = "failed"
         /\ SameSends

\* ... or logs an event of t, which p has to send ...
Loud(p, t) ==
  /\ LogEvent(t)
  /\ UNCHANGED <<stream, subscribers>>
  /\ \A k \in Tasks \ {t} : status'[k] = status[k] /\ attempt'[k] = attempt[k]
  /\ Silent(todo[p])
  /\ \E order \in Orders(subscribers[t]), rest \in Seq(Errands) :
       todo' = [todo EXCEPT ![p] = Announce(t, order) \o rest] /\ Silent(rest)

\* ... because the task has been submitted, retried, started or ended ...
Moves(p, t) ==
  \/ pc[t] = "idle" /\ status[t] = "absent" /\ attempt'[t] = attempt[t]
  \/ attempt'[t] = attempt[t] + 1
  \/ /\ attempt'[t] = attempt[t]
     /\ status[t] = "pending"
     /\ status'[t] = "killed" \/ (status'[t] = "running" /\ p = <<t, attempt[t]>>)
  \/ /\ attempt'[t] = attempt[t]
     /\ status[t] = "running" /\ p = <<t, attempt[t]>>
     /\ status'[t] \in Terminal

\* ... or sends one, or is one of a stream.
StreamMoves == /\ UNCHANGED <<events, attempt, status, todo>>
               /\ \E s \in Subs : \/ \E t \in Tasks : Stream(s, t)
                                  \/ StreamerStep(s) \/ StreamCtxDone(s)

Kinds == \/ Quiet
         \/ \E p \in Procs, t \in Tasks : Loud(p, t) /\ Moves(p, t)
         \/ \E p \in Procs : PublishTo(p)
         \/ StreamMoves

LEMMA SameSendsBy ==
  ASSUME TypeOK, SendsFirst, NEW p \in Procs, ~At(p, "publish"), NEW r,
         Silent(r), todo' = [todo EXCEPT ![p] = r]
  PROVE  SameSends
  BY SilentProcess DEF SameSends, TypeOK

\* The call has nothing to send and cancels t.
LEMMA CancelsKind ==
  ASSUME TypeOK, ErrandsInv, NEW c \in Calls, NEW t \in Tasks, NEW rest \in Seq(Errands),
         ~At(c, "publish"), Silent(rest), Cancels(c, t, rest)
  PROVE  Kinds
  <1>0. c \in Procs
    BY DEF Procs, Callers
  <1>1. CASE CancelRunning(c, t, rest)
    <2> DEFINE X == <<CancelRun(runCancels[t]), CancelKids(parentChildren[t]), WaitFor(t)>>
    <2>1. X \in Seq(Errands)
      BY DEF TypeOK, RunTypes, LinkTypes, CancelRun, CancelKids, WaitFor, Errands
    <2>2. Silent(X)
      BY DEF Silent, CancelRun, CancelKids, WaitFor
    <2>3. todo' = [todo EXCEPT ![c] = X \o rest] /\ UNCHANGED <<tasks, log, conns>>
      BY <1>1 DEF CancelRunning, Busy
    <2> HIDE DEF X
    <2>4. Silent(X \o rest)
      BY <2>1, <2>2, SilentParts
    <2>5. SameSends
      BY <1>0, <2>3, <2>4, SameSendsBy DEF ErrandsInv
    <2> QED BY <2>3, <2>5 DEF Kinds, Quiet, tasks, log, conns
  <1>2. CASE CancelKilled(c, t, rest)
    <2> DEFINE X == <<CancelKids(parentChildren[t])>>
    <2>1. X \in Seq(Errands)
      BY DEF TypeOK, LinkTypes, CancelKids, Errands
    <2>2. Silent(X)
      BY DEF Silent, CancelKids
    <2>3. todo' = [todo EXCEPT ![c] = X \o rest] /\ UNCHANGED <<tasks, log, conns>>
      BY <1>2 DEF CancelKilled, Busy
    <2> HIDE DEF X
    <2>4. Silent(X \o rest)
      BY <2>1, <2>2, SilentParts
    <2>5. SameSends
      BY <1>0, <2>3, <2>4, SameSendsBy DEF ErrandsInv
    <2> QED BY <2>3, <2>5 DEF Kinds, Quiet, tasks, log, conns
  <1>3. CASE CancelPending(c, t, rest)
    <2> DEFINE Y == <<CancelKids(parentChildren[t]), Notify(waiters[t], ResultOf(t))>>
    <2>1. PICK order \in Orders(subscribers[t]) :
            todo' = [todo EXCEPT ![c] = Announce(t, order) \o Y \o rest]
      BY <1>3 DEF CancelPending, Busy
    <2>2. ResultOf(t) \in Result
      BY <1>3 DEF CancelPending, SetTask, ResultOf, Result, Terminal, Codes, TypeOK, TableTypes
    <2>3. Y \in Seq(Errands)
      BY <2>2 DEF TypeOK, LinkTypes, WaitTypes, CancelKids, Notify, Errands
    <2>4. Silent(Y)
      BY DEF Silent, CancelKids, Notify
    <2>5. TableTypes'
      BY <1>3 DEF CancelPending, SetTask, TypeOK, TableTypes, specs, Statuses, Codes
    <2>6. Announce(t, order) \in Seq(Errands)
      BY <2>5, AnnounceType DEF TypeOK, StreamTypes
    <2> HIDE DEF Y
    <2>7. Announce(t, order) \o Y \o rest = Announce(t, order) \o (Y \o rest)
      BY <2>3, <2>6, ConcatAssociative
    <2>8. Silent(Y \o rest) /\ Y \o rest \in Seq(Errands)
      BY <2>3, <2>4, SilentParts
    <2>9. status[t] = "pending"
      BY <1>3, OnlyLiveMoves DEF CancelPending, TypeOK, TableTypes
    <2>10. Silent(todo[c])
      BY <1>0, SilentProcess DEF ErrandsInv
    <2>11. /\ LogEvent(t) /\ UNCHANGED <<stream, subscribers, attempt>>
           /\ status' = [status EXCEPT ![t] = "killed"]
      BY <1>3 DEF CancelPending, SetTask, conns
    <2>12. Loud(c, t)
      BY <2>1, <2>7, <2>8, <2>10, <2>11 DEF Loud, TypeOK, TableTypes
    <2>13. Moves(c, t)
      BY <2>9, <2>11 DEF Moves, TypeOK, TableTypes
    <2> QED BY <1>0, <2>12, <2>13 DEF Kinds
  <1> QED BY <1>1, <1>2, <1>3 DEF Cancels

\* Processes stay as idle as they are, unless they get something to do.
LEMMA IdleKept ==
  ASSUME IdleFit,
         \A c \in Callers : pc'[c] = "idle" => pc[c] = "idle",
         \A g \in Goroutines : phase'[g] \in {"absent", "spawned"} => phase[g] \in {"absent", "spawned"},
         \A p \in Procs : \/ todo'[p] = todo[p]
                          \/ todo[p] # <<>>
                          \/ p \in Callers /\ pc'[p] # "idle"
                          \/ p \in Goroutines /\ phase'[p] \notin {"absent", "spawned"}
  PROVE  IdleFit'
  BY NamesAssumption DEF IdleFit, Procs

LEMMA CancelsIdle ==
  ASSUME TypeOK, IdleFit, NEW c \in Calls, NEW t \in Tasks, NEW rest, Cancels(c, t, rest)
  PROVE  IdleFit'
  <1>1. PICK errands : Busy(c, errands)
    BY DEF Cancels, CancelRunning, CancelKilled, CancelPending
  <1>2. phase' = phase
    BY DEF Cancels, CancelRunning, CancelKilled, CancelPending, runs
  <1>3. c \in Callers /\ c \in Procs
    BY DEF Callers, Procs
  <1> QED BY <1>1, <1>2, <1>3, IdleKept DEF Busy, TypeOK, RunTypes

\* An errand is run only by who has one.
LEMMA ErrandIdle ==
  ASSUME TypeOK, IdleFit, NEW p \in Procs, NEW k, At(p, k), NEW r,
         todo' = [todo EXCEPT ![p] = r], UNCHANGED phase,
         \A c \in Callers : pc'[c] = "idle" => pc[c] = "idle"
  PROVE  IdleFit'
  <1>1. todo[p] # <<>>
    BY DEF At
  <1> QED BY <1>1, IdleKept DEF TypeOK

LEMMA AttemptIdle ==
  ASSUME TypeOK, IdleFit, NEW g \in Goroutines, NEW r, UNCHANGED pc,
         \/ todo' = [todo EXCEPT ![g] = r]
         \/ UNCHANGED todo,
         NEW k \in {"executing", "finished"}, phase' = [phase EXCEPT ![g] = k]
  PROVE  IdleFit'
  BY IdleKept DEF TypeOK, RunTypes, Procs

LEMMA IdleStep == TypeOK /\ AttemptsInOrder /\ IdleFit /\ [Next]_vars => IdleFit'
  <1> SUFFICES ASSUME TypeOK, AttemptsInOrder, IdleFit, [Next]_vars PROVE IdleFit'
    OBVIOUS
  <1> USE DEF tasks, specs, links, runs, log, conns, calls
  <1>0. /\ \A c \in Calls : c \in Callers /\ c \in Procs
        /\ \A t \in Tasks : t \in Callers /\ t \in Procs
        /\ \A g \in Goroutines : g \in Procs
    BY DEF Callers, Procs
  <1>1. ASSUME NEW c \in Callers, NEW errands, Busy(c, errands), UNCHANGED phase PROVE IdleFit'
    BY <1>1, IdleKept DEF Busy, TypeOK, RunTypes, Procs
  <1>2. ASSUME UNCHANGED <<todo, phase, pc>> PROVE IdleFit'
    BY <1>2, IdleKept
  <1>3. ASSUME NEW t \in Tasks, NEW parent \in Tasks \cup {None}, Submit(t, parent) PROVE IdleFit'
    BY <1>0, <1>1, <1>3 DEF Submit
  <1>4. ASSUME NEW c \in Callers, Enqueue(c) PROVE IdleFit'
    <2>1. PICK t \in Tasks, a \in Attempts : spawn[c] = <<t, a>>
      BY <1>4 DEF Enqueue, TypeOK, RunTypes, Goroutines
    <2>2. phase[<<t, a>>] = "absent" /\ <<t, a>> \in Goroutines
      BY <2>1, GoroutineNames DEF AttemptsInOrder, SpawnsFit
    <2>3. phase' = [phase EXCEPT ![<<t, a>>] = "spawned"] /\ pc' = [pc EXCEPT ![c] = "ok"] /\ UNCHANGED todo
      BY <1>4, <2>1 DEF Enqueue, Spawn
    <2> QED BY <2>2, <2>3, IdleKept DEF TypeOK, RunTypes
  <1>5. ASSUME NEW c \in Calls, Return(c) \/ Refuse(c) PROVE IdleFit'
    <2>1. PICK k \in {"ok", "error"} : pc' = [pc EXCEPT ![c] = k] /\ UNCHANGED <<todo, phase>>
      BY <1>5 DEF Return, Refuse
    <2> QED BY <1>0, <2>1, IdleKept DEF TypeOK, RunTypes
  <1>6. ASSUME NEW c \in Calls, NEW t \in Tasks, Retry(c, t) \/ Wait(c, t) PROVE IdleFit'
    BY <1>0, <1>1, <1>6 DEF Retry, Wait
  <1>7. ASSUME NEW c \in Calls, NEW t \in Tasks, Cancel(c, t) \/ CancelChild(c, t) PROVE IdleFit'
    BY <1>7, CancelsIdle DEF Cancel, CancelChild
  <1>8. ASSUME NEW c \in Calls, NEW k \in Tasks, SkipChild(c, k) PROVE IdleFit'
    BY <1>0, <1>8, ErrandIdle DEF SkipChild
  <1>9. ASSUME NEW c \in Calls, ChildrenDone(c) PROVE IdleFit'
    BY <1>0, <1>9, ErrandIdle DEF ChildrenDone
  <1>10. ASSUME NEW c \in Calls, CancelTheRun(c) PROVE IdleFit'
    BY <1>0, <1>10, ErrandIdle DEF CancelTheRun
  <1>11. ASSUME NEW c \in Calls, WaitAnswered(c) \/ WaitRegistered(c) PROVE IdleFit'
    BY <1>0, <1>11, ErrandIdle DEF WaitAnswered, WaitRegistered
  <1>12. ASSUME NEW c \in Calls, WaitWoken(c) PROVE IdleFit'
    BY <1>0, <1>12, ErrandIdle DEF WaitWoken
  <1>13. ASSUME NEW c \in Calls, WaitExpired(c) PROVE IdleFit'
    <2>1. \A d \in Callers : pc'[d] = "idle" => pc[d] = "idle"
      BY <1>0, <1>13 DEF WaitExpired, TypeOK, RunTypes
    <2> QED BY <1>0, <1>13, <2>1, ErrandIdle DEF WaitExpired
  <1>14. ASSUME NEW p \in Procs, ErrandStep(p) PROVE IdleFit'
    BY <1>14, ErrandIdle DEF ErrandStep, NotifyWaiters, PersistEvent, PublishTo
  <1>15. ASSUME NEW g \in Goroutines, AttemptStep(g) PROVE IdleFit'
    <2>1. CASE AttemptUnwired(g)
      BY <2>1, AttemptIdle DEF AttemptUnwired
    <2>2. CASE AttemptTooLate(g)
      BY <2>2, AttemptIdle DEF AttemptTooLate
    <2>3. CASE AttemptStart(g)
      <3>1. PICK r : todo' = [todo EXCEPT ![g] = r]
        BY <2>3 DEF AttemptStart
      <3> QED BY <2>3, <3>1, AttemptIdle DEF AttemptStart
    <2>4. ASSUME NEW o \in Outcomes, AttemptFinish(g, o) PROVE IdleFit'
      <3>1. PICK r : todo' = [todo EXCEPT ![g] = r]
        BY <2>4 DEF AttemptFinish
      <3> QED BY <2>4, <3>1, AttemptIdle DEF AttemptFinish
    <2> QED BY <1>15, <2>1, <2>2, <2>3, <2>4 DEF AttemptStep
  <1>16. ASSUME NEW s \in Subs, StreamerStep(s) \/ StreamCtxDone(s) \/ (\E t \in Tasks : Stream(s, t))
         PROVE  IdleFit'
    BY <1>2, <1>16 DEF StreamerStep, Deliver, HistoryDone, Receive, CloseStream, StreamCtxDone,
                       Stream, StreamStep
  <1>17. ASSUME NEW t \in Tasks, RegisterExecution(t) \/ UnregisterExecution(t) PROVE IdleFit'
    BY <1>2, <1>17 DEF RegisterExecution, UnregisterExecution
  <1>18. CASE UNCHANGED vars
    BY <1>2, <1>18 DEF vars
  <1> QED
    BY <1>0, <1>3, <1>4, <1>5, <1>6, <1>7, <1>8, <1>9, <1>10, <1>11, <1>12, <1>13, <1>14, <1>15, <1>16, <1>17, <1>18
    DEF Next, Environment, Work, CallStep, RetryRefused, CancelRefused

\* A call has a list of errands without events before it, and another after.
LEMMA QuietCall ==
  ASSUME TypeOK, ErrandsInv, NEW p \in Procs, ~At(p, "publish"), NEW r, Silent(r),
         todo' = [todo EXCEPT ![p] = r],
         UNCHANGED <<status, attempt, events, stream, subscribers>>
  PROVE  Kinds
  BY SameSendsBy DEF Kinds, Quiet, ErrandsInv

LEMMA QuietTail ==
  ASSUME TypeOK, ErrandsInv, NEW p \in Procs, NEW k, k # "publish", At(p, k),
         todo' = [todo EXCEPT ![p] = Tail(@)],
         UNCHANGED <<status, attempt, events, stream, subscribers>>
  PROVE  Kinds
  <1>1. ~At(p, "publish") /\ todo[p] # <<>> /\ todo[p] \in Seq(Errands)
    BY DEF At, TypeOK
  <1>2. Silent(Tail(todo[p]))
    BY <1>1, SilentParts, SilentProcess DEF ErrandsInv
  <1> QED BY <1>1, <1>2, QuietCall

LEMMA LoudBy ==
  ASSUME TypeOK, ErrandsInv, NEW p \in Procs, NEW t \in Tasks, todo[p] = <<>>, LogEvent(t),
         UNCHANGED <<stream, subscribers>>,
         \A k \in Tasks \ {t} : status'[k] = status[k] /\ attempt'[k] = attempt[k],
         NEW order \in Orders(subscribers[t]), Announce(t, order) \in Seq(Errands),
         NEW rest \in Seq(Errands), Silent(rest),
         todo' = [todo EXCEPT ![p] = Announce(t, order) \o rest]
  PROVE  Loud(p, t)
  <1>1. Silent(todo[p])
    BY DEF Silent
  <1> QED BY <1>1 DEF Loud

\* Every step is of one of these kinds.
LEMMA StepKinds == TypeOK /\ AttemptsInOrder /\ ErrandsInv /\ [Next]_vars => Kinds
  <1> SUFFICES ASSUME TypeOK, AttemptsInOrder, ErrandsInv, [Next]_vars PROVE Kinds
    OBVIOUS
  <1> USE DEF tasks, specs, links, runs, log, conns, calls
  <1>0. /\ \A c \in Calls : c \in Callers /\ c \in Procs
        /\ \A t \in Tasks : t \in Callers /\ t \in Procs
        /\ \A g \in Goroutines : g \in Procs /\ g[1] \in Tasks
        /\ \A p \in Procs : todo[p] \in Seq(Errands)
        /\ \A p \in Procs : todo[p] = <<>> => ~At(p, "publish")
        /\ <<>> \in Seq(Errands) /\ Silent(<<>>)
    BY GoroutineNames DEF Callers, Procs, At, TypeOK, Silent
  <1>1. ASSUME UNCHANGED <<status, attempt, events, stream, subscribers, todo>> PROVE Kinds
    BY <1>1 DEF Kinds, Quiet, SameSends
  <1>3. ASSUME NEW t \in Tasks, NEW parent \in Tasks \cup {None}, Submit(t, parent) PROVE Kinds
    <2>1. PICK order \in Orders(subscribers[t]) : todo' = [todo EXCEPT ![t] = Announce(t, order)]
      BY <1>3 DEF Submit, Busy
    <2>2. TableTypes'
      BY <1>3 DEF Submit, SetTask, TypeOK, TableTypes, Statuses, Codes
    <2>3. Announce(t, order) \in Seq(Errands)
      BY <2>2, AnnounceType DEF TypeOK, StreamTypes
    <2>4. Announce(t, order) = Announce(t, order) \o <<>>
      BY <2>3, ConcatEmptySeq
    <2>5. /\ LogEvent(t) /\ UNCHANGED <<stream, subscribers, attempt>>
          /\ status' = [status EXCEPT ![t] = "pending"] /\ pc[t] = "idle"
      BY <1>3 DEF Submit, SetTask
    <2>6. todo[t] = <<>>
      BY <1>0, <2>5 DEF ErrandsInv, IdleFit
    <2>7. \A k \in Tasks \ {t} : status'[k] = status[k] /\ attempt'[k] = attempt[k]
      BY <2>5 DEF TypeOK, TableTypes
    <2>8. todo' = [todo EXCEPT ![t] = Announce(t, order) \o <<>>]
      BY <2>1, <2>4
    <2>9. Loud(t, t)
      BY <1>0, <2>3, <2>5, <2>6, <2>7, <2>8, LoudBy
    <2>10. status[t] = "absent"
      BY <2>5 DEF AttemptsInOrder, PhaseFitsStatus
    <2> QED BY <1>0, <2>5, <2>9, <2>10 DEF Kinds, Moves
  <1>4. ASSUME NEW c \in Callers, Enqueue(c) PROVE Kinds
    BY <1>1, <1>4 DEF Enqueue
  <1>5. ASSUME NEW c \in Calls, Return(c) \/ Refuse(c) PROVE Kinds
    BY <1>1, <1>5 DEF Return, Refuse
  <1>6. ASSUME NEW c \in Calls, NEW t \in Tasks, Retry(c, t) PROVE Kinds
    <2>1. PICK order \in Orders(subscribers[t]) : todo' = [todo EXCEPT ![c] = Announce(t, order)]
      BY <1>6 DEF Retry, Busy
    <2>2. TableTypes'
      <3>1. attempt[t] \in Attempts /\ attempt[t] < MaxRetries
        BY <1>6 DEF Retry, Retryable, TypeOK, TableTypes
      <3>2. attempt[t] + 1 \in Attempts
        BY <3>1, RetriesAssumption DEF Attempts
      <3> QED BY <1>6, <3>2 DEF Retry, SetTask, TypeOK, TableTypes, Statuses, Codes
    <2>3. Announce(t, order) \in Seq(Errands)
      BY <2>2, AnnounceType DEF TypeOK, StreamTypes
    <2>4. Announce(t, order) = Announce(t, order) \o <<>>
      BY <2>3, ConcatEmptySeq
    <2>5. /\ LogEvent(t) /\ UNCHANGED <<stream, subscribers>> /\ pc[c] = "idle"
          /\ status' = [status EXCEPT ![t] = "pending"]
          /\ attempt' = [attempt EXCEPT ![t] = attempt[t] + 1]
      BY <1>6 DEF Retry, SetTask
    <2>6. todo[c] = <<>>
      BY <1>0, <2>5 DEF ErrandsInv, IdleFit
    <2>7. \A k \in Tasks \ {t} : status'[k] = status[k] /\ attempt'[k] = attempt[k]
      BY <2>5 DEF TypeOK, TableTypes
    <2>8. todo' = [todo EXCEPT ![c] = Announce(t, order) \o <<>>]
      BY <2>1, <2>4
    <2>9. Loud(c, t)
      BY <1>0, <2>3, <2>5, <2>6, <2>7, <2>8, LoudBy
    <2>10. Moves(c, t)
      BY <2>5 DEF Moves, TypeOK, TableTypes
    <2> QED BY <1>0, <2>9, <2>10 DEF Kinds
  <1>7. ASSUME NEW c \in Calls, NEW t \in Tasks, Cancel(c, t) PROVE Kinds
    <2>1. todo[c] = <<>>
      BY <1>0, <1>7 DEF Cancel, ErrandsInv, IdleFit
    <2> QED BY <1>0, <1>7, <2>1, CancelsKind DEF Cancel
  <1>8. ASSUME NEW c \in Calls, NEW k \in Tasks, At(c, "cancelkids"), k \in Head(todo[c]).kids
        PROVE  /\ OtherKids(c, k) \in Seq(Errands) /\ Silent(OtherKids(c, k))
               /\ ~At(c, "publish")
    <2>1. ~At(c, "publish") /\ todo[c] # <<>>
      BY <1>8 DEF At
    <2>2. Silent(Tail(todo[c])) /\ Tail(todo[c]) \in Seq(Errands)
      BY <1>0, <2>1, SilentParts, SilentProcess DEF ErrandsInv
    <2>3. Head(todo[c]) \in Errands /\ Head(todo[c]).do = "cancelkids"
      BY <1>0, <1>8, NextErrand DEF TypeOK
    <2>4. Head(todo[c]).kids \ {k} \in SUBSET Tasks
      BY <2>3, ErrandFields
    <2>5. <<CancelKids(Head(todo[c]).kids \ {k})>> \in Seq(Errands)
      BY <2>4 DEF CancelKids, Errands
    <2>6. Silent(<<CancelKids(Head(todo[c]).kids \ {k})>>)
      BY DEF Silent, CancelKids
    <2> QED BY <2>1, <2>2, <2>5, <2>6, SilentParts DEF OtherKids
  <1>9. ASSUME NEW c \in Calls, NEW k \in Tasks, CancelChild(c, k) PROVE Kinds
    BY <1>8, <1>9, CancelsKind DEF CancelChild
  <1>10. ASSUME NEW c \in Calls, NEW k \in Tasks, SkipChild(c, k) PROVE Kinds
    BY <1>0, <1>8, <1>10, QuietCall DEF SkipChild
  <1>11. ASSUME NEW c \in Calls, ChildrenDone(c) PROVE Kinds
    BY <1>0, <1>11, QuietTail DEF ChildrenDone
  <1>12. ASSUME NEW c \in Calls, CancelTheRun(c) PROVE Kinds
    BY <1>0, <1>12, QuietTail DEF CancelTheRun
  <1>13. ASSUME NEW c \in Calls, NEW t \in Tasks, Wait(c, t) PROVE Kinds
    <2>1. todo[c] = <<>>
      BY <1>0, <1>13 DEF Wait, ErrandsInv, IdleFit
    <2>2. Silent(<<WaitFor(t)>>)
      BY DEF Silent, WaitFor
    <2> QED BY <1>0, <1>13, <2>1, <2>2, QuietCall DEF Wait, Busy
  <1>14. ASSUME NEW c \in Calls, WaitAnswered(c) PROVE Kinds
    BY <1>0, <1>14, QuietTail DEF WaitAnswered
  <1>15. ASSUME NEW c \in Calls, WaitRegistered(c) PROVE Kinds
    <2>1. ~At(c, "publish") /\ todo[c] # <<>>
      BY <1>15 DEF WaitRegistered, At
    <2>2. Silent(Tail(todo[c])) /\ Tail(todo[c]) \in Seq(Errands)
      BY <1>0, <2>1, SilentParts, SilentProcess DEF ErrandsInv
    <2>3. Head(todo[c]).task \in Tasks
      BY <1>0, <1>15, NextErrand, ErrandFields DEF WaitRegistered, TypeOK
    <2>4. <<Blocked(Head(todo[c]).task)>> \in Seq(Errands) /\ Silent(<<Blocked(Head(todo[c]).task)>>)
      BY <2>3 DEF Silent, Blocked, Errands
    <2>5. Silent(<<Blocked(Head(todo[c]).task)>> \o Tail(todo[c]))
      BY <2>2, <2>4, SilentParts
    <2> QED BY <1>0, <1>15, <2>1, <2>5, QuietCall DEF WaitRegistered
  <1>16. ASSUME NEW c \in Calls, WaitWoken(c) PROVE Kinds
    BY <1>0, <1>16, QuietTail DEF WaitWoken
  <1>17. ASSUME NEW c \in Calls, WaitExpired(c) PROVE Kinds
    <2>1. ~At(c, "publish")
      BY <1>17 DEF WaitExpired, At
    <2> QED BY <1>0, <1>17, <2>1, QuietCall DEF WaitExpired
  <1>18. ASSUME NEW p \in Procs, ErrandStep(p) PROVE Kinds
    <2>1. CASE NotifyWaiters(p)
      BY <2>1, QuietTail DEF NotifyWaiters
    <2>2. CASE PersistEvent(p)
      BY <2>2, QuietTail DEF PersistEvent
    <2> QED BY <1>18, <2>1, <2>2 DEF ErrandStep, Kinds
  <1>19. ASSUME NEW g \in Goroutines, AttemptUnwired(g) PROVE Kinds
    <2>1. todo[g] = <<>>
      BY <1>19 DEF AttemptUnwired, ErrandsInv, IdleFit
    <2>2. Silent(<<Notify(waiters[g[1]], ResultOf(g[1]))>>)
      BY DEF Silent, Notify
    <2>3. SameSends
      BY <1>0, <1>19, <2>1, <2>2, SameSendsBy DEF AttemptUnwired, ErrandsInv
    <2>4. /\ status' = [status EXCEPT ![g[1]] = "failed"] /\ status[g[1]] = "pending"
          /\ UNCHANGED <<events, attempt, stream, subscribers>>
      BY <1>19 DEF AttemptUnwired, SetTask
    <2> QED BY <1>0, <2>3, <2>4 DEF Kinds, Quiet, TypeOK, TableTypes
  <1>20. ASSUME NEW g \in Goroutines, AttemptTooLate(g) PROVE Kinds
    BY <1>1, <1>20 DEF AttemptTooLate
  <1>21. ASSUME NEW g \in Goroutines, AttemptStart(g) PROVE Kinds
    <2> DEFINE t == g[1]
    <2>1. PICK order \in Orders(subscribers[t]) : todo' = [todo EXCEPT ![g] = Announce(t, order)]
      BY <1>21 DEF AttemptStart
    <2>2. TableTypes'
      BY <1>0, <1>21 DEF AttemptStart, SetTask, TypeOK, TableTypes, Statuses, Codes
    <2>3. Announce(t, order) \in Seq(Errands)
      BY <1>0, <2>2, AnnounceType DEF TypeOK, StreamTypes
    <2>4. Announce(t, order) = Announce(t, order) \o <<>>
      BY <2>3, ConcatEmptySeq
    <2>5. /\ LogEvent(t) /\ UNCHANGED <<stream, subscribers, attempt>>
          /\ status' = [status EXCEPT ![t] = "running"] /\ status[t] = "pending"
      BY <1>21 DEF AttemptStart, SetTask
    <2>6. todo[g] = <<>>
      BY <1>21 DEF AttemptStart, ErrandsInv, IdleFit
    <2>7. \A k \in Tasks \ {t} : status'[k] = status[k] /\ attempt'[k] = attempt[k]
      BY <1>0, <2>5 DEF TypeOK, TableTypes
    <2>8. todo' = [todo EXCEPT ![g] = Announce(t, order) \o <<>>]
      BY <2>1, <2>4
    <2>9. Loud(g, t)
      BY <1>0, <2>3, <2>5, <2>6, <2>7, <2>8, LoudBy
    <2>10. g = <<t, attempt[t]>>
      BY <1>21, CurrentAttempt, GoroutineNames DEF AttemptStart
    <2>11. Moves(g, t)
      BY <1>0, <2>5, <2>10 DEF Moves, TypeOK, TableTypes
    <2> QED BY <1>0, <2>9, <2>11 DEF Kinds
  <1>22. ASSUME NEW g \in Goroutines, NEW o \in Outcomes, AttemptFinish(g, o) PROVE Kinds
    <2> DEFINE t == g[1]
               Y == <<Notify(waiters[t], ResultOf(t))>>
    <2>1. PICK order \in Orders(subscribers[t]) : todo' = [todo EXCEPT ![g] = Announce(t, order) \o Y]
      BY <1>22 DEF AttemptFinish
    <2>0. o.status \in Terminal /\ o.status \in Statuses /\ o.code \in Codes
      BY <1>22, OutcomeTypes
    <2>2. TableTypes'
      BY <1>0, <2>0, <1>22 DEF AttemptFinish, SetTask, TypeOK, TableTypes, Statuses, Codes
    <2>3. Announce(t, order) \in Seq(Errands)
      BY <1>0, <2>2, AnnounceType DEF TypeOK, StreamTypes
    <2>4. ResultOf(t) \in Result
      BY <1>0, <2>0, <1>22 DEF AttemptFinish, SetTask, ResultOf, Result, TypeOK, TableTypes
    <2>5. /\ LogEvent(t) /\ UNCHANGED <<stream, subscribers, attempt>> /\ todo[g] = <<>>
          /\ status' = [status EXCEPT ![t] = o.status] /\ status[t] = "running"
      BY <1>22 DEF AttemptFinish, SetTask
    <2>6. Y \in Seq(Errands) /\ Silent(Y)
      BY <1>0, <2>4 DEF Notify, Errands, TypeOK, WaitTypes, Silent
    <2>7. \A k \in Tasks \ {t} : status'[k] = status[k] /\ attempt'[k] = attempt[k]
      BY <1>0, <2>5 DEF TypeOK, TableTypes
    <2> HIDE DEF Y
    <2>9. Loud(g, t)
      BY <1>0, <2>1, <2>3, <2>5, <2>6, <2>7, LoudBy
    <2>10. g = <<t, attempt[t]>>
      BY <1>22, CurrentAttempt, GoroutineNames DEF AttemptFinish
    <2>11. Moves(g, t)
      BY <1>0, <2>0, <2>5, <2>10 DEF Moves, TypeOK, TableTypes
    <2> QED BY <1>0, <2>9, <2>11 DEF Kinds
  <1>23. ASSUME NEW s \in Subs, StreamerStep(s) \/ StreamCtxDone(s) \/ (\E t \in Tasks : Stream(s, t))
         PROVE  Kinds
    <2>1. UNCHANGED <<events, attempt, status, todo>>
      BY <1>23 DEF StreamerStep, Deliver, HistoryDone, Receive, CloseStream, StreamCtxDone,
                       Stream, StreamStep
    <2> QED BY <1>23, <2>1 DEF Kinds, StreamMoves
  <1>24. ASSUME NEW t \in Tasks, RegisterExecution(t) \/ UnregisterExecution(t) PROVE Kinds
    BY <1>1, <1>24 DEF RegisterExecution, UnregisterExecution
  <1>25. CASE UNCHANGED vars
    BY <1>1, <1>25 DEF vars
  <1> QED
    BY <1>0, <1>3, <1>4, <1>5, <1>6, <1>7, <1>9, <1>10, <1>11, <1>12, <1>13, <1>14, <1>15, <1>16, <1>17,
       <1>18, <1>19, <1>20, <1>21, <1>22, <1>23, <1>24, <1>25
    DEF Next, Environment, Work, CallStep, AttemptStep, RetryRefused, CancelRefused

\* An iteration order of a set meets each of its members.
LEMMA OrderMeetsAll ==
  ASSUME NEW S \in SUBSET Subs, NEW order \in Orders(S), NEW s \in S
  PROVE  \E i \in 1 .. Cardinality(S) : order[i] = s
  <1> DEFINE n == Cardinality(S)
  <1>1. IsFiniteSet(S) /\ n \in Nat
    BY FS_Subset, FS_CardinalityType, SubsAssumption
  <1>2. order \in [1 .. n -> S] /\ \A i, j \in 1 .. n : order[i] = order[j] => i = j
    BY DEF Orders
  <1>3. IsFiniteSet(1 .. n) /\ Cardinality(1 .. n) = n
    BY <1>1, FS_Interval
  <1>4. order \in Injection(1 .. n, S)
    BY <1>2 DEF Injection, IsInjective
  <1>5. order \in Surjection(1 .. n, S)
    BY <1>1, <1>3, <1>4, FS_Injection
  <1> QED BY <1>5 DEF Surjection

\* The first n errands send the new event of t to its n subscribers, in some order.
Announcing(p, t, n, order) ==
  /\ n \in Nat /\ n <= Len(todo'[p])
  /\ \A i \in 1 .. n : todo'[p][i] = Publish(NewEvent(t), order[i])
  /\ \A i \in 1 .. n : order[i] \in subscribers[t]
  /\ \A i, j \in 1 .. n : order[i] = order[j] => i = j
  /\ \A s \in subscribers[t] : \E i \in 1 .. n : order[i] = s
  /\ \A i \in 1 .. Len(todo'[p]) : i > n => todo'[p][i].do # "publish"
  /\ \A q \in Procs : q # p => todo'[q] = todo[q]

LEMMA LoudSends ==
  ASSUME TypeOK, TypeOK', NEW p \in Procs, NEW t \in Tasks, Loud(p, t)
  PROVE  \E n, order : Announcing(p, t, n, order)
  <1>1. PICK order \in Orders(subscribers[t]), rest \in Seq(Errands) :
          todo' = [todo EXCEPT ![p] = Announce(t, order) \o rest] /\ Silent(rest)
    BY DEF Loud
  <1> DEFINE n == Cardinality(subscribers[t])
             e == NewEvent(t)
             sends == [i \in DOMAIN order |-> Publish(e, order[i])]
             a == Announce(t, order)
  <1>2. subscribers[t] \in SUBSET Subs
    BY DEF TypeOK, StreamTypes
  <1>3. n \in Nat /\ order \in [1 .. n -> subscribers[t]]
        /\ \A i, j \in 1 .. n : order[i] = order[j] => i = j
    BY <1>2, FS_Subset, FS_CardinalityType, SubsAssumption DEF Orders
  <1>4. a \in Seq(Errands)
    BY <1>2, AnnounceType DEF TypeOK
  <1>5. /\ a = sends \o <<Persist(e)>>
        /\ sends = [i \in 1 .. n |-> Publish(e, order[i])]
    BY <1>3 DEF Announce
  <1> HIDE DEF a, e, sends, n
  <1>6. /\ Len(a) = n + 1 /\ a[n + 1] = Persist(e)
        /\ \A i \in 1 .. n : a[i] = Publish(e, order[i])
    BY <1>3, <1>5
  <1>7. todo'[p] = a \o rest /\ \A q \in Procs : q # p => todo'[q] = todo[q]
    BY <1>1 DEF TypeOK, a
  <1>8. /\ Len(todo'[p]) = Len(a) + Len(rest) /\ Len(rest) \in Nat
        /\ \A i \in 1 .. Len(a) + Len(rest) : todo'[p][i] = IF i <= Len(a) THEN a[i] ELSE rest[i - Len(a)]
    BY <1>4, <1>7, SilentParts, LenProperties
  <1>9. ASSUME NEW i \in 1 .. Len(todo'[p]), i > n PROVE todo'[p][i].do # "publish"
    <2>1. CASE i = n + 1
      <3>1. todo'[p][i] = Persist(e)
        BY <1>3, <1>6, <1>8, <2>1
      <3> QED BY <3>1 DEF Persist
    <2>2. CASE i # n + 1
      <3>1. i - Len(a) \in 1 .. Len(rest) /\ todo'[p][i] = rest[i - Len(a)]
        BY <1>3, <1>6, <1>8, <1>9, <2>2
      <3> QED BY <1>1, <3>1 DEF Silent
    <2> QED BY <2>1, <2>2
  <1>10. ASSUME NEW i \in 1 .. n PROVE todo'[p][i] = Publish(e, order[i])
    BY <1>3, <1>6, <1>8
  <1>11. \A s \in subscribers[t] : \E i \in 1 .. n : order[i] = s
    BY <1>2, OrderMeetsAll DEF n
  <1>12. n <= Len(todo'[p]) /\ \A i \in 1 .. n : order[i] \in subscribers[t]
    BY <1>3, <1>6, <1>8
  <1>13. Announcing(p, t, n, order)
    BY <1>3, <1>7, <1>9, <1>10, <1>11, <1>12 DEF Announcing, e
  <1> QED BY <1>13

\* What a process has left when it has sent an event.
LEMMA AfterSend ==
  ASSUME TypeOK, NEW p \in Procs, PublishTo(p)
  PROVE  LET e == todo[p][1].event
             s == todo[p][1].to
         IN  /\ Sends(p, 1, s) /\ e \in Event /\ s \in Subs /\ 1 \in 1 .. Len(todo[p])
             /\ \A q \in Procs : q # p => todo'[q] = todo[q]
             /\ Len(todo'[p]) = Len(todo[p]) - 1
             /\ \A i \in 1 .. Len(todo'[p]) : i + 1 \in 1 .. Len(todo[p]) /\ todo'[p][i] = todo[p][i + 1]
             /\ UNCHANGED <<events, attempt, status, subscribers>>
             /\ stream' = [stream EXCEPT ![s].chan = Append(@, e)]
  <1>1. todo[p] # <<>> /\ todo[p] \in Seq(Errands) /\ Head(todo[p]) = todo[p][1] /\ todo[p][1].do = "publish"
        /\ Len(todo[p]) \in Nat \ {0}
    BY DEF PublishTo, At, TypeOK
  <1>2. todo'[p] = Tail(todo[p]) /\ \A q \in Procs : q # p => todo'[q] = todo[q]
    BY DEF PublishTo, TypeOK
  <1>3. /\ Len(todo'[p]) = Len(todo[p]) - 1
        /\ \A i \in 1 .. Len(todo'[p]) : i + 1 \in 1 .. Len(todo[p]) /\ todo'[p][i] = todo[p][i + 1]
    BY <1>1, <1>2
  <1>4. todo[p][1].event \in Event /\ todo[p][1].to \in Subs
    BY <1>1, ErrandFields
  <1>5. /\ UNCHANGED <<events, attempt, status, subscribers>>
        /\ stream' = [stream EXCEPT ![todo[p][1].to].chan = Append(@, todo[p][1].event)]
    BY <1>1 DEF PublishTo, tasks, log
  <1> QED BY <1>1, <1>2, <1>3, <1>4, <1>5 DEF Sends

-----------------------------------------------------------------------------
LEMMA ErrandsStep == TypeOK /\ TypeOK' /\ AttemptsInOrder /\ ErrandsInv /\ [Next]_vars => ErrandsInv'
  <1> SUFFICES ASSUME TypeOK, TypeOK', AttemptsInOrder, ErrandsInv, [Next]_vars PROVE SendsFirst'
    BY IdleStep DEF ErrandsInv
  <1>1. Kinds
    BY StepKinds
  <1>2. SendsFirst
    BY DEF ErrandsInv
  <1>3. \A p \in Procs : todo[p] \in Seq(Errands) /\ Len(todo[p]) \in Nat
    BY LenProperties DEF TypeOK
  <1>4. CASE Quiet
    BY <1>2, <1>4 DEF Quiet, SameSends, SendsFirst, Silent
  <1>5. ASSUME NEW p \in Procs, NEW t \in Tasks, Loud(p, t) PROVE SendsFirst'
    <2>1. PICK n, order : Announcing(p, t, n, order)
      BY <1>5, LoudSends
    <2>2. ASSUME NEW i \in 1 .. Len(todo'[p]), todo'[p][i].do = "publish", NEW j \in 1 .. i
          PROVE  todo'[p][j].do = "publish"
      <3>1. j \in 1 .. n
        BY <2>1, <2>2 DEF Announcing
      <3>2. todo'[p][j] = Publish(NewEvent(t), order[j])
        BY <2>1, <3>1 DEF Announcing
      <3> QED BY <3>2 DEF Publish
    <2>3. \A q \in Procs : q # p => todo'[q] = todo[q]
      BY <2>1 DEF Announcing
    <2>4. ASSUME NEW q \in Procs, NEW i \in 1 .. Len(todo'[q]), todo'[q][i].do = "publish", NEW j \in 1 .. i
          PROVE  todo'[q][j].do = "publish"
      <3>1. CASE q = p
        BY <2>2, <2>4, <3>1
      <3>2. CASE q # p
        BY <1>2, <2>3, <2>4, <3>2 DEF SendsFirst
      <3> QED BY <3>1, <3>2
    <2> QED BY <2>4 DEF SendsFirst
  <1>6. ASSUME NEW p \in Procs, PublishTo(p) PROVE SendsFirst'
    <2>1. ASSUME NEW i \in 1 .. Len(todo'[p]), todo'[p][i].do = "publish", NEW j \in 1 .. i
          PROVE  todo'[p][j].do = "publish"
      <3>1. j \in 1 .. Len(todo'[p]) /\ j + 1 \in 1 .. i + 1
        BY <1>3, <1>6, <2>1, AfterSend
      <3>2. /\ i + 1 \in 1 .. Len(todo[p]) /\ j + 1 \in 1 .. i + 1
            /\ todo'[p][i] = todo[p][i + 1] /\ todo'[p][j] = todo[p][j + 1]
        BY <1>6, <2>1, <3>1, AfterSend
      <3> QED BY <1>2, <2>1, <3>2 DEF SendsFirst
    <2>2. \A q \in Procs : q # p => todo'[q] = todo[q]
      BY <1>6, AfterSend
    <2> QED BY <1>2, <2>1, <2>2 DEF SendsFirst
  <1>7. CASE StreamMoves
    BY <1>2, <1>7 DEF StreamMoves, SendsFirst
  <1> QED BY <1>1, <1>4, <1>5, <1>6, <1>7 DEF Kinds

LEMMA ErrandsInit == Init => ErrandsInv
  <1> SUFFICES ASSUME Init PROVE ErrandsInv
    OBVIOUS
  <1>1. \A p \in Procs : todo[p] = <<>> /\ Len(todo[p]) = 0
    BY DEF Init
  <1> QED BY <1>1 DEF ErrandsInv, IdleFit, SendsFirst, Procs

\* A task that is known stays so.
LEMMA KnownStays == TypeOK /\ [Next]_vars => KnownStay
  <1> SUFFICES ASSUME TypeOK, [Next]_vars, NEW t \in Tasks, pc[t] = "ok" PROVE pc'[t] = "ok"
    BY DEF KnownStay
  <1> USE DEF calls, TypeOK, RunTypes, Callers
  <1>0. t \notin Calls /\ t \in Callers
    BY NamesAssumption
  <1>1. ASSUME NEW k \in Tasks, NEW parent \in Tasks \cup {None}, Submit(k, parent) PROVE pc'[t] = "ok"
    BY <1>1 DEF Submit, Busy
  <1>2. ASSUME NEW c \in Callers, Enqueue(c) PROVE pc'[t] = "ok"
    BY <1>2 DEF Enqueue
  <1>3. ASSUME NEW c \in Calls, NEW k \in Tasks, NEW rest, Cancels(c, k, rest) PROVE pc'[t] = "ok"
    BY <1>0, <1>3 DEF Cancels, CancelRunning, CancelKilled, CancelPending, Busy
  <1>4. ASSUME NEW c \in Calls, NEW k \in Tasks,
               \/ Retry(c, k) \/ Cancel(c, k) \/ CancelChild(c, k) \/ Wait(c, k) \/ SkipChild(c, k)
        PROVE  pc'[t] = "ok"
    BY <1>0, <1>3, <1>4 DEF Retry, Cancel, CancelChild, Wait, SkipChild, Busy
  <1>5. ASSUME NEW c \in Calls, \/ ChildrenDone(c) \/ CancelTheRun(c) \/ WaitAnswered(c)
                                \/ WaitRegistered(c) \/ WaitWoken(c) \/ Return(c)
                                \/ Refuse(c) \/ WaitExpired(c)
        PROVE  pc'[t] = "ok"
    BY <1>0, <1>5 DEF ChildrenDone, CancelTheRun, WaitAnswered, WaitRegistered, WaitWoken,
                      Return, Refuse, WaitExpired
  <1>6. ASSUME NEW p \in Procs, ErrandStep(p) PROVE pc'[t] = "ok"
    BY <1>6 DEF ErrandStep, NotifyWaiters, PersistEvent, PublishTo
  <1>7. ASSUME NEW g \in Goroutines, AttemptStep(g) PROVE pc'[t] = "ok"
    BY <1>7 DEF AttemptStep, AttemptUnwired, AttemptTooLate, AttemptStart, AttemptFinish
  <1>8. ASSUME NEW s \in Subs, StreamerStep(s) \/ StreamCtxDone(s) \/ (\E k \in Tasks : Stream(s, k))
        PROVE  pc'[t] = "ok"
    BY <1>8 DEF StreamerStep, Deliver, HistoryDone, Receive, CloseStream, StreamCtxDone,
                Stream, StreamStep
  <1>9. ASSUME NEW k \in Tasks, RegisterExecution(k) \/ UnregisterExecution(k) PROVE pc'[t] = "ok"
    BY <1>9 DEF RegisterExecution, UnregisterExecution
  <1>10. CASE UNCHANGED vars
    BY <1>10 DEF vars
  <1> QED
    BY <1>1, <1>2, <1>4, <1>5, <1>6, <1>7, <1>8, <1>9, <1>10
    DEF Next, Environment, Work, CallStep, RetryRefused, CancelRefused

\* The first element of b may as well be the last of a.
LEMMA HandOver ==
  ASSUME NEW S, NEW a \in Seq(S), NEW b \in Seq(S), b # <<>>
  PROVE  Append(a, Head(b)) \o Tail(b) = a \o b
  <1>1. /\ Head(b) = b[1] /\ Head(b) \in S /\ Tail(b) \in Seq(S) /\ Len(Tail(b)) = Len(b) - 1
        /\ Len(a) \in Nat /\ Len(b) \in Nat
        /\ \A i \in 1 .. Len(Tail(b)) : Tail(b)[i] = b[i + 1]
    BY HeadTailProperties, LenProperties
  <1>2. Append(a, Head(b)) \in Seq(S) /\ Len(Append(a, Head(b))) = Len(a) + 1
        /\ Append(a, Head(b))[Len(a) + 1] = b[1]
        /\ \A i \in 1 .. Len(a) : Append(a, Head(b))[i] = a[i]
    BY <1>1, AppendProperties
  <1> DEFINE x == Append(a, Head(b))
             y == Tail(b)
  <1>3. /\ x \o y \in Seq(S) /\ Len(x \o y) = Len(a) + Len(b)
        /\ \A i \in 1 .. Len(a) + Len(b) : (x \o y)[i] = IF i <= Len(a) + 1 THEN x[i] ELSE y[i - (Len(a) + 1)]
    BY <1>1, <1>2, ConcatProperties
  <1>4. /\ a \o b \in Seq(S) /\ Len(a \o b) = Len(a) + Len(b)
        /\ \A i \in 1 .. Len(a) + Len(b) : (a \o b)[i] = IF i <= Len(a) THEN a[i] ELSE b[i - Len(a)]
    BY ConcatProperties
  <1> HIDE DEF x, y
  <1>5. ASSUME NEW i \in 1 .. Len(a) + Len(b) PROVE (x \o y)[i] = (a \o b)[i]
    <2>1. CASE i <= Len(a)
      BY <1>1, <1>2, <1>3, <1>4, <2>1 DEF x
    <2>2. CASE i = Len(a) + 1
      <3>1. (x \o y)[i] = x[i] /\ x[i] = b[1]
        BY <1>1, <1>2, <1>3, <2>2 DEF x
      <3>2. (a \o b)[i] = b[1]
        BY <1>1, <1>4, <2>2
      <3> QED BY <3>1, <3>2
    <2>3. CASE i > Len(a) + 1
      <3>1. i - (Len(a) + 1) \in 1 .. Len(Tail(b)) /\ (i - (Len(a) + 1)) + 1 = i - Len(a)
        BY <1>1, <2>3
      <3>2. y[i - (Len(a) + 1)] = b[i - Len(a)]
        BY <1>1, <3>1 DEF y
      <3> QED BY <1>1, <1>3, <1>4, <2>3, <3>2
    <2>4. i <= Len(a) \/ i = Len(a) + 1 \/ i > Len(a) + 1
      BY <1>1
    <2> QED BY <2>1, <2>2, <2>3, <2>4
  <1>6. x \o y = a \o b
    BY <1>3, <1>4, <1>5, SeqEqual
  <1> QED BY <1>6 DEF x, y

\* What a stream shows is in it, on its way out, or waits in its channel.
LEMMA SeenParts ==
  ASSUME TypeOK, NEW s \in Subs
  PROVE  /\ stream[s] \in StreamType /\ Seen(s) \in Seq(Event) /\ Len(Seen(s)) \in Nat
         /\ stream[s].out \in Seq(Event) /\ stream[s].hand \in Seq(Event) /\ stream[s].chan \in Seq(Event)
         /\ stream[s].task \in Tasks \cup {None}
         /\ Seen(s) = (stream[s].out \o stream[s].hand) \o stream[s].chan
  <1>1. /\ stream[s] \in StreamType
        /\ stream[s].out \in Seq(Event) /\ stream[s].hand \in Seq(Event) /\ stream[s].chan \in Seq(Event)
        /\ stream[s].task \in Tasks \cup {None}
    BY DEF TypeOK, StreamTypes, StreamType
  <1>2. Seen(s) \in Seq(Event) /\ Seen(s) = (stream[s].out \o stream[s].hand) \o stream[s].chan
    BY <1>1, ConcatProperties DEF Seen
  <1> QED BY <1>1, <1>2, LenProperties

\* A stream's own steps neither add to what it shows nor take away from it.
ShowsTheSame ==
  /\ \A s \in Subs : /\ Seen(s)' = Seen(s) /\ stream'[s].task = stream[s].task
                     /\ stream'[s].at = "idle" <=> stream[s].at = "idle"
  /\ \A t \in Tasks : subscribers'[t] \subseteq subscribers[t]

LEMMA ShowsTheSameBy ==
  ASSUME TypeOK, NEW s \in Subs, NEW new, stream' = [stream EXCEPT ![s] = new],
         new.task = stream[s].task, new.at = "idle" <=> stream[s].at = "idle",
         (new.out \o new.hand) \o new.chan = (stream[s].out \o stream[s].hand) \o stream[s].chan,
         \A t \in Tasks : subscribers'[t] \subseteq subscribers[t]
  PROVE  ShowsTheSame
  <1>1. stream'[s] = new /\ \A r \in Subs : r # s => stream'[r] = stream[r]
    BY DEF TypeOK, StreamTypes
  <1>2. Seen(s)' = Seen(s)
    BY <1>1 DEF Seen
  <1>3. ASSUME NEW r \in Subs, r # s PROVE Seen(r)' = Seen(r)
    BY <1>1, <1>3 DEF Seen
  <1> QED BY <1>1, <1>2, <1>3 DEF ShowsTheSame

LEMMA StreamKinds ==
  ASSUME TypeOK, NEW s \in Subs, StreamerStep(s) \/ StreamCtxDone(s)
  PROVE  ShowsTheSame
  <1> DEFINE x == stream[s]
  <1>1. /\ x \in StreamType /\ x.out \in Seq(Event) /\ x.hand \in Seq(Event) /\ x.chan \in Seq(Event)
    BY SeenParts
  <1>2. ASSUME UNCHANGED subscribers PROVE \A t \in Tasks : subscribers'[t] \subseteq subscribers[t]
    BY <1>2
  <1>3. CASE Deliver(s)
    <2>1. PICK k \in {x.at, "leaving"} :
            stream' = [stream EXCEPT ![s] = [x EXCEPT !.hand = Tail(x.hand), !.out = Append(x.out, Head(x.hand)),
                                                      !.at = k]]
      BY <1>3 DEF Deliver, StreamStep
    <2> DEFINE new == [x EXCEPT !.hand = Tail(x.hand), !.out = Append(x.out, Head(x.hand)), !.at = k]
    <2>2. x.at \in {"replay", "live"} /\ x.hand # <<>> /\ UNCHANGED subscribers
      BY <1>3 DEF Deliver, StreamStep
    <2>3. /\ new.hand = Tail(x.hand) /\ new.out = Append(x.out, Head(x.hand)) /\ new.chan = x.chan
          /\ new.task = x.task /\ new.at = k
      BY <1>1 DEF StreamType
    <2>4. new.at # "idle" /\ x.at # "idle"
      BY <2>2, <2>3
    <2>5. Append(x.out, Head(x.hand)) \o Tail(x.hand) = x.out \o x.hand
      BY <1>1, <2>2, HandOver
    <2> HIDE DEF new
    <2>6. stream' = [stream EXCEPT ![s] = new]
      BY <2>1 DEF new
    <2> HIDE DEF x
    <2> QED BY <1>2, <2>2, <2>3, <2>4, <2>5, <2>6, ShowsTheSameBy DEF x
  <1>4. CASE HistoryDone(s)
    <2>1. PICK k \in {"live", "leaving"} : stream' = [stream EXCEPT ![s] = [x EXCEPT !.at = k]]
      BY <1>4 DEF HistoryDone, StreamStep
    <2> DEFINE new == [x EXCEPT !.at = k]
    <2>2. x.at # "idle" /\ UNCHANGED subscribers
      BY <1>4 DEF HistoryDone, StreamStep
    <2>3. new.hand = x.hand /\ new.out = x.out /\ new.chan = x.chan /\ new.task = x.task /\ new.at = k
      BY <1>1 DEF StreamType
    <2> HIDE DEF new
    <2>6. stream' = [stream EXCEPT ![s] = new]
      BY <2>1 DEF new
    <2> HIDE DEF x
    <2> QED BY <1>2, <2>1, <2>2, <2>3, <2>6, ShowsTheSameBy DEF x
  <1>5. CASE Receive(s)
    <2> DEFINE new == [x EXCEPT !.hand = <<Head(x.chan)>>, !.chan = Tail(x.chan)]
    <2>1. stream' = [stream EXCEPT ![s] = new]
      BY <1>5 DEF Receive, StreamStep
    <2>2. x.at = "live" /\ x.hand = <<>> /\ x.chan # <<>> /\ UNCHANGED subscribers
      BY <1>5 DEF Receive, StreamStep
    <2>3. /\ new.hand = <<Head(x.chan)>> /\ new.out = x.out /\ new.chan = Tail(x.chan)
          /\ new.task = x.task /\ new.at = x.at
      BY <1>1 DEF StreamType
    <2>4. Head(x.chan) \in Event
      BY <1>1, <2>2, HeadTailProperties
    <2>5. new.out \o new.hand = Append(x.out, Head(x.chan)) /\ x.out \o x.hand = x.out
      BY <1>1, <2>2, <2>3, <2>4, AppendIsConcat, ConcatEmptySeq
    <2>6. Append(x.out, Head(x.chan)) \o Tail(x.chan) = x.out \o x.chan
      BY <1>1, <2>2, HandOver
    <2> HIDE DEF new, x
    <2> QED BY <1>2, <2>1, <2>2, <2>3, <2>5, <2>6, ShowsTheSameBy DEF x
  <1>6. CASE CloseStream(s)
    <2> DEFINE new == [x EXCEPT !.at = "closed"]
    <2>1. stream' = [stream EXCEPT ![s] = new] /\ x.at = "leaving"
      BY <1>6 DEF CloseStream
    <2>2. \A t \in Tasks : subscribers'[t] \subseteq subscribers[t]
      BY <1>6 DEF CloseStream, TypeOK, StreamTypes
    <2>3. new.hand = x.hand /\ new.out = x.out /\ new.chan = x.chan /\ new.task = x.task /\ new.at = "closed"
      BY <1>1 DEF StreamType
    <2> HIDE DEF new, x
    <2> QED BY <2>1, <2>2, <2>3, ShowsTheSameBy DEF x
  <1>7. CASE StreamCtxDone(s)
    <2> DEFINE new == [x EXCEPT !.at = "leaving"]
    <2>1. stream' = [stream EXCEPT ![s] = new] /\ x.at # "idle" /\ UNCHANGED subscribers
      BY <1>7 DEF StreamCtxDone, StreamStep
    <2>3. new.hand = x.hand /\ new.out = x.out /\ new.chan = x.chan /\ new.task = x.task /\ new.at = "leaving"
      BY <1>1 DEF StreamType
    <2> HIDE DEF new, x
    <2> QED BY <1>2, <2>1, <2>3, ShowsTheSameBy DEF x
  <1> QED BY <1>3, <1>4, <1>5, <1>6, <1>7 DEF StreamerStep

\* A reader that begins to stream t is shown all of its log.
LEMMA StreamBegins ==
  ASSUME TypeOK, NEW s \in Subs, NEW t \in Tasks, Stream(s, t)
  PROVE  /\ stream[s].at = "idle" /\ pc[t] = "ok"
         /\ stream'[s].task = t /\ stream'[s].at = "replay" /\ Seen(s)' = events[t]
         /\ \A r \in Subs : r # s => stream'[r] = stream[r] /\ Seen(r)' = Seen(r)
         /\ \A k \in Tasks : \/ subscribers'[k] = subscribers[k]
                             \/ k = t /\ subscribers'[k] = subscribers[k] \cup {s}
  <1> DEFINE new == [Idle EXCEPT !.task = t, !.at = "replay", !.live = ~IsTerminal(status[t]), !.hand = events[t]]
  <1>1. stream[s].at = "idle" /\ pc[t] = "ok" /\ stream' = [stream EXCEPT ![s] = new]
    BY DEF Stream, Known
  <1>2. new.task = t /\ new.at = "replay" /\ new.out = <<>> /\ new.chan = <<>> /\ new.hand = events[t]
    BY DEF Idle
  <1> HIDE DEF new
  <1>3. stream'[s] = new /\ \A r \in Subs : r # s => stream'[r] = stream[r]
    BY <1>1 DEF TypeOK, StreamTypes
  <1>4. (<<>> \o events[t]) \o <<>> = events[t]
    BY ConcatEmptySeq DEF TypeOK, LogTypes
  <1>5. Seen(s)' = events[t]
    BY <1>2, <1>3, <1>4 DEF Seen
  <1>6. \A r \in Subs : r # s => Seen(r)' = Seen(r)
    BY <1>3 DEF Seen
  <1>7. \A k \in Tasks : \/ subscribers'[k] = subscribers[k]
                         \/ k = t /\ subscribers'[k] = subscribers[k] \cup {s}
    BY DEF Stream, TypeOK, StreamTypes
  <1> QED BY <1>1, <1>2, <1>3, <1>5, <1>6, <1>7

\* An event that is sent to s comes after what s has been shown.
LEMMA SendShows ==
  ASSUME TypeOK, NEW s \in Subs, NEW e \in Event, stream' = [stream EXCEPT ![s].chan = Append(@, e)]
  PROVE  /\ Seen(s)' = Append(Seen(s), e)
         /\ Len(Seen(s)') = Len(Seen(s)) + 1
         /\ Seen(s)'[Len(Seen(s)) + 1] = e
         /\ \A k \in 1 .. Len(Seen(s)) : Seen(s)'[k] = Seen(s)[k]
         /\ \A r \in Subs : r # s => Seen(r)' = Seen(r)
         /\ \A r \in Subs : stream'[r].task = stream[r].task /\ stream'[r].at = stream[r].at
  <1> DEFINE x == stream[s]
             new == [x EXCEPT !.chan = Append(x.chan, e)]
             a == x.out \o x.hand
  <1>1. /\ x \in StreamType /\ x.chan \in Seq(Event) /\ a \in Seq(Event)
        /\ Seen(s) = a \o x.chan /\ Seen(s) \in Seq(Event)
    BY SeenParts, ConcatProperties
  <1>2. new.out = x.out /\ new.hand = x.hand /\ new.chan = Append(x.chan, e) /\ new.task = x.task /\ new.at = x.at
    BY <1>1 DEF StreamType
  <1>3. stream'[s] = new /\ \A r \in Subs : r # s => stream'[r] = stream[r]
    <2>1. stream' = [stream EXCEPT ![s] = new]
      OBVIOUS
    <2> HIDE DEF new
    <2> QED BY <2>1 DEF TypeOK, StreamTypes
  <1>4. Seen(s)' = a \o Append(x.chan, e)
    BY <1>2, <1>3 DEF Seen
  <1> HIDE DEF new, a, x
  <1>5. Append(x.chan, e) = x.chan \o <<e>> /\ <<e>> \in Seq(Event)
    BY <1>1, AppendIsConcat
  <1>6. a \o (x.chan \o <<e>>) = (a \o x.chan) \o <<e>>
    <2>1. \A u, v, w \in Seq(Event) : u \o (v \o w) = (u \o v) \o w
      BY ConcatAssociative
    <2> QED BY <1>1, <1>5, <2>1, Zenon
  <1>7. Seen(s)' = Append(Seen(s), e)
    BY <1>1, <1>4, <1>5, <1>6, AppendIsConcat
  <1>8. /\ Len(Seen(s)') = Len(Seen(s)) + 1 /\ Seen(s)'[Len(Seen(s)) + 1] = e
        /\ \A k \in 1 .. Len(Seen(s)) : Seen(s)'[k] = Seen(s)[k]
    BY <1>1, <1>7, AppendProperties
  <1>9. \A r \in Subs : r # s => Seen(r)' = Seen(r)
    BY <1>3 DEF Seen
  <1>10. \A r \in Subs : stream'[r].task = stream[r].task /\ stream'[r].at = stream[r].at
    BY <1>2, <1>3 DEF x
  <1> QED BY <1>7, <1>8, <1>9, <1>10

-----------------------------------------------------------------------------
(* No event is shown twice. *)

\* A stream has a task, which is known, once it has begun, and shows nothing
\* before; only streams of t are among t's subscribers.
SubsFit ==
  /\ \A s \in Subs : stream[s].at = "idle" <=> stream[s].task = None
  /\ \A s \in Subs : stream[s].at = "idle" => Seen(s) = <<>>
  /\ \A t \in Tasks : \A s \in subscribers[t] : stream[s].task = t
  /\ \A s \in Subs : stream[s].task # None => pc[stream[s].task] = "ok"

\* Offsets are places in the log.
OffsetsFit ==
  \A t \in Tasks : \A i \in 1 .. Len(events[t]) : events[t][i].offset = i - 1

\* An event on its way to s is in the log of the task of s, and is not shown yet.
SendsFit ==
  \A p \in Procs : \A i \in 1 .. Len(todo[p]) : \A s \in Subs :
    Sends(p, i, s) =>
      /\ todo[p][i].event.task = stream[s].task
      /\ todo[p][i].event.offset < Len(events[stream[s].task])
      /\ \A k \in 1 .. Len(Seen(s)) : Seen(s)[k].offset # todo[p][i].event.offset

SeenFit ==
  \A s \in Subs : \A k \in 1 .. Len(Seen(s)) : Seen(s)[k].offset < Len(events[stream[s].task])

\* Each event is on its way to s once at most.
SendsOnce ==
  \A s \in Subs : \A p, q \in Procs : \A i \in 1 .. Len(todo[p]) : \A j \in 1 .. Len(todo[q]) :
    Sends(p, i, s) /\ Sends(q, j, s) /\ todo[p][i].event.offset = todo[q][j].event.offset
      => p = q /\ i = j

OnceInv == SubsFit /\ OffsetsFit /\ SendsFit /\ SeenFit /\ SendsOnce /\ StreamShowsOnce

\* What is sent is one of the errands there were before the step.
LEMMA SendsKept ==
  ASSUME SameSends, NEW p \in Procs, NEW s, NEW i \in 1 .. Len(todo'[p]), Sends(p, i, s)'
  PROVE  todo'[p] = todo[p] /\ i \in 1 .. Len(todo[p]) /\ Sends(p, i, s)
  BY DEF SameSends, Silent, Sends

\* The log and the streams stay, and so do the sends.
LEMMA OnceKept ==
  ASSUME TypeOK, OnceInv, KnownStay, SameSends, ShowsTheSame, UNCHANGED events
  PROVE  OnceInv'
  <1>0. \A s \in Subs : stream[s].task \in Tasks \cup {None}
    BY SeenParts
  <1>1. SubsFit'
    <2>1. SubsFit /\ ShowsTheSame
      BY DEF OnceInv
    <2>2. /\ \A s \in Subs : stream'[s].at = "idle" <=> stream'[s].task = None
          /\ \A s \in Subs : stream'[s].at = "idle" => Seen(s)' = <<>>
      BY <2>1 DEF SubsFit, ShowsTheSame
    <2>3. ASSUME NEW t \in Tasks, NEW s \in subscribers'[t] PROVE stream'[s].task = t
      <3>1. s \in subscribers[t] /\ s \in Subs
        BY <2>1, <2>3 DEF ShowsTheSame, TypeOK, StreamTypes
      <3> QED BY <2>1, <3>1 DEF SubsFit, ShowsTheSame
    <2>4. ASSUME NEW s \in Subs, stream'[s].task # None PROVE pc'[stream'[s].task] = "ok"
      BY <1>0, <2>1, <2>4 DEF SubsFit, ShowsTheSame, KnownStay
    <2> QED BY <2>2, <2>3, <2>4 DEF SubsFit
  <1>2. OffsetsFit'
    BY DEF OnceInv, OffsetsFit
  <1>3. SendsFit'
    <2> SUFFICES ASSUME NEW p \in Procs, NEW i \in 1 .. Len(todo'[p]), NEW s \in Subs, Sends(p, i, s)'
                 PROVE  /\ todo'[p][i].event.task = stream'[s].task
                        /\ todo'[p][i].event.offset < Len(events'[stream'[s].task])
                        /\ \A k \in 1 .. Len(Seen(s)') : Seen(s)'[k].offset # todo'[p][i].event.offset
      BY DEF SendsFit
    <2>1. todo'[p] = todo[p] /\ i \in 1 .. Len(todo[p]) /\ Sends(p, i, s)
      BY SendsKept
    <2>2. stream'[s].task = stream[s].task /\ Seen(s)' = Seen(s)
      BY DEF ShowsTheSame
    <2> QED BY <2>1, <2>2 DEF OnceInv, SendsFit
  <1>4. SeenFit'
    BY DEF OnceInv, SeenFit, ShowsTheSame
  <1>5. SendsOnce'
    <2> SUFFICES ASSUME NEW s \in Subs, NEW p \in Procs, NEW q \in Procs,
                        NEW i \in 1 .. Len(todo'[p]), NEW j \in 1 .. Len(todo'[q]),
                        Sends(p, i, s)', Sends(q, j, s)', todo'[p][i].event.offset = todo'[q][j].event.offset
                 PROVE  p = q /\ i = j
      BY DEF SendsOnce
    <2>1. /\ todo'[p] = todo[p] /\ i \in 1 .. Len(todo[p]) /\ Sends(p, i, s)
          /\ todo'[q] = todo[q] /\ j \in 1 .. Len(todo[q]) /\ Sends(q, j, s)
      BY SendsKept
    <2> QED BY <2>1 DEF OnceInv, SendsOnce
  <1>6. StreamShowsOnce'
    BY DEF OnceInv, StreamShowsOnce, ShowsTheSame
  <1> QED BY <1>1, <1>2, <1>3, <1>4, <1>5, <1>6 DEF OnceInv

\* An event of t is logged, and p is to send it to the subscribers.
LEMMA OnceLogged ==
  ASSUME TypeOK, TypeOK', OnceInv, KnownStay, NEW p \in Procs, NEW t \in Tasks, Loud(p, t)
  PROVE  OnceInv'
  <1>0. PICK n, order : Announcing(p, t, n, order)
    BY LoudSends
  <1> DEFINE e == NewEvent(t)
             N == Len(events[t])
  <1>1. /\ N \in Nat /\ e.task = t /\ e.offset = N /\ Len(events'[t]) = N + 1
        /\ events'[t][N + 1] = e /\ \A i \in 1 .. N : events'[t][i] = events[t][i]
        /\ \A k \in Tasks \ {t} : events'[k] = events[k]
    <2>1. events' = [events EXCEPT ![t] = Append(events[t], e)] /\ events[t] \in Seq(Event)
          /\ events \in [Tasks -> Seq(Event)]
      BY DEF Loud, LogEvent, TypeOK, LogTypes
    <2>2. e.task = t /\ e.offset = N
      BY DEF NewEvent
    <2> HIDE DEF e
    <2> QED BY <2>1, <2>2
  <1>2. /\ UNCHANGED <<stream, subscribers>> /\ \A s \in Subs : Seen(s)' = Seen(s)
        /\ \A s \in Subs : stream[s].task \in Tasks \cup {None}
    BY SeenParts DEF Loud, Seen
  <1>3. \A k \in Tasks : Len(events[k]) \in Nat /\ Len(events'[k]) \in Nat /\ Len(events[k]) <= Len(events'[k])
    <2>1. \A k \in Tasks : Len(events[k]) \in Nat
      BY LenProperties DEF TypeOK, LogTypes
    <2>2. \A k \in Tasks : k = t \/ events'[k] = events[k]
      BY <1>1
    <2>3. ASSUME NEW k \in Tasks PROVE Len(events'[k]) = Len(events[k]) \/ Len(events'[k]) = Len(events[k]) + 1
      BY <1>1, <2>2
    <2> QED BY <2>1, <2>3
  <1>4. ASSUME NEW s \in Subs, NEW k \in 1 .. Len(Seen(s)) PROVE Seen(s)[k].offset \in Nat
    <2>1. Seen(s)[k] \in Event
      BY SeenParts, ElementOfSeq
    <2> QED BY <2>1 DEF Event
  <1>5. \A s \in Subs : stream[s].task = None => Seen(s) = <<>> /\ Len(Seen(s)) = 0
    BY DEF OnceInv, SubsFit
  \* A send after the step was one before it, or is one of p's new ones.
  <1>6. ASSUME NEW q \in Procs, NEW i \in 1 .. Len(todo'[q]), NEW s \in Subs, Sends(q, i, s)'
        PROVE  \/ q # p /\ todo'[q] = todo[q] /\ Sends(q, i, s)
               \/ q = p /\ i \in 1 .. n /\ order[i] = s /\ todo'[q][i].event = e /\ stream[s].task = t
    <2>1. CASE q # p
      BY <1>0, <1>6, <2>1 DEF Announcing, Sends
    <2>2. CASE q = p
      <3>1. i \in 1 .. n
        BY <1>0, <1>6, <2>2 DEF Announcing, Sends
      <3>2. todo'[p][i] = Publish(e, order[i])
        BY <1>0, <3>1 DEF Announcing
      <3>3. todo'[p][i].event = e /\ order[i] = s
        BY <1>6, <2>2, <3>2 DEF Publish, Sends
      <3>4. s \in subscribers[t]
        BY <1>0, <3>1, <3>3 DEF Announcing
      <3> QED BY <2>2, <3>1, <3>3, <3>4 DEF OnceInv, SubsFit
    <2> QED BY <2>1, <2>2
  <1> HIDE DEF e
  <1>7. SubsFit'
    BY <1>2 DEF OnceInv, SubsFit, KnownStay
  <1>8. OffsetsFit'
    BY <1>1 DEF OnceInv, OffsetsFit
  <1>9. SeenFit'
    <2> SUFFICES ASSUME NEW s \in Subs, NEW k \in 1 .. Len(Seen(s))
                 PROVE  Seen(s)[k].offset < Len(events'[stream[s].task])
      BY <1>2 DEF SeenFit
    <2>1. stream[s].task \in Tasks
      BY <1>2, <1>5
    <2>2. Seen(s)[k].offset < Len(events[stream[s].task])
      BY DEF OnceInv, SeenFit
    <2> QED BY <1>3, <1>4, <2>1, <2>2
  <1>10. SendsFit'
    <2> SUFFICES ASSUME NEW q \in Procs, NEW i \in 1 .. Len(todo'[q]), NEW s \in Subs, Sends(q, i, s)'
                 PROVE  /\ todo'[q][i].event.task = stream[s].task
                        /\ todo'[q][i].event.offset < Len(events'[stream[s].task])
                        /\ \A k \in 1 .. Len(Seen(s)) : Seen(s)[k].offset # todo'[q][i].event.offset
      BY <1>2 DEF SendsFit
    <2>1. CASE q # p /\ todo'[q] = todo[q] /\ Sends(q, i, s)
      <3>1. /\ todo[q][i].event.task = stream[s].task
            /\ todo[q][i].event.offset < Len(events[stream[s].task])
            /\ \A k \in 1 .. Len(Seen(s)) : Seen(s)[k].offset # todo[q][i].event.offset
        BY <2>1 DEF OnceInv, SendsFit
      <3>2. todo[q][i].event.offset \in Nat /\ todo[q][i].event.task \in Tasks
        <4>1. todo[q][i] \in Errands /\ todo[q][i].do = "publish"
          BY <2>1, ElementOfSeq DEF TypeOK, Sends
        <4>2. todo[q][i].event \in Event
          BY <4>1, ErrandFields
        <4> QED BY <4>2 DEF Event
      <3> QED BY <1>3, <2>1, <3>1, <3>2
    <2>2. CASE todo'[q][i].event = e /\ stream[s].task = t
      <3>1. \A k \in 1 .. Len(Seen(s)) : Seen(s)[k].offset < N
        BY <2>2 DEF OnceInv, SeenFit
      <3> QED BY <1>1, <1>4, <2>2, <3>1
    <2> QED BY <1>6, <2>1, <2>2
  <1>11. SendsOnce'
    <2> SUFFICES ASSUME NEW s \in Subs, NEW q \in Procs, NEW r \in Procs,
                        NEW i \in 1 .. Len(todo'[q]), NEW j \in 1 .. Len(todo'[r]),
                        Sends(q, i, s)', Sends(r, j, s)', todo'[q][i].event.offset = todo'[r][j].event.offset
                 PROVE  q = r /\ i = j
      BY DEF SendsOnce
    <2>1. ASSUME NEW o \in Procs, NEW l \in 1 .. Len(todo[o]), Sends(o, l, s), stream[s].task = t
          PROVE  todo[o][l].event.offset # N
      <3>1. todo[o][l].event.offset < N
        BY <2>1 DEF OnceInv, SendsFit
      <3> QED BY <1>1, <3>1
    <2>2. CASE q # p /\ r # p
      BY <1>6, <2>2 DEF OnceInv, SendsOnce
    <2>3. CASE q = p /\ r = p
      BY <1>0, <1>6, <2>3 DEF Announcing
    <2>4. CASE q = p /\ r # p
      BY <1>1, <1>6, <2>1, <2>4
    <2>5. CASE q # p /\ r = p
      BY <1>1, <1>6, <2>1, <2>5
    <2> QED BY <2>2, <2>3, <2>4, <2>5
  <1>12. StreamShowsOnce'
    BY <1>2 DEF OnceInv, StreamShowsOnce
  <1> QED BY <1>7, <1>8, <1>9, <1>10, <1>11, <1>12 DEF OnceInv

\* The event of a send is one of the log of a task.
LEMMA SendsEvent ==
  ASSUME TypeOK, NEW p \in Procs, NEW i \in 1 .. Len(todo[p]), NEW s, Sends(p, i, s)
  PROVE  todo[p][i].event \in Event /\ todo[p][i].event.task \in Tasks /\ todo[p][i].event.offset \in Nat
  <1>1. todo[p][i] \in Errands /\ todo[p][i].do = "publish"
    BY ElementOfSeq DEF TypeOK, Sends
  <1>2. todo[p][i].event \in Event
    BY <1>1, ErrandFields
  <1> QED BY <1>2 DEF Event

\* p sends an event to a stream.
LEMMA OnceSent ==
  ASSUME TypeOK, TypeOK', OnceInv, KnownStay, NEW p \in Procs, PublishTo(p)
  PROVE  OnceInv'
  <1>0. PICK s \in Subs, e \in Event : s = todo[p][1].to /\ e = todo[p][1].event
    BY AfterSend
  <1> DEFINE n == Len(Seen(s))
  <1>1. /\ Sends(p, 1, s) /\ e \in Event /\ s \in Subs /\ 1 \in 1 .. Len(todo[p])
        /\ \A q \in Procs : q # p => todo'[q] = todo[q]
        /\ Len(todo'[p]) = Len(todo[p]) - 1
        /\ \A i \in 1 .. Len(todo'[p]) : i + 1 \in 1 .. Len(todo[p]) /\ todo'[p][i] = todo[p][i + 1]
        /\ UNCHANGED <<events, attempt, status, subscribers>>
        /\ stream' = [stream EXCEPT ![s].chan = Append(@, e)]
    BY <1>0, AfterSend
  <1>2. /\ n \in Nat /\ Len(Seen(s)') = n + 1 /\ Seen(s)'[n + 1] = e
        /\ \A k \in 1 .. n : Seen(s)'[k] = Seen(s)[k]
        /\ \A r \in Subs : r # s => Seen(r)' = Seen(r)
        /\ \A r \in Subs : stream'[r].task = stream[r].task /\ stream'[r].at = stream[r].at
    BY <1>1, SendShows, SeenParts
  <1>3. /\ e.task = stream[s].task /\ e.offset < Len(events[stream[s].task]) /\ e.task \in Tasks
        /\ \A k \in 1 .. n : Seen(s)[k].offset # e.offset
    BY <1>0, <1>1, SendsEvent DEF OnceInv, SendsFit
  <1> HIDE DEF n
  \* A send after the step was another one before it.
  <1>4. ASSUME NEW q \in Procs, NEW i \in 1 .. Len(todo'[q]), NEW r \in Subs, Sends(q, i, r)'
        PROVE  \E j \in 1 .. Len(todo[q]) :
                 /\ j = (IF q = p THEN i + 1 ELSE i) /\ todo'[q][i] = todo[q][j] /\ Sends(q, j, r)
                 /\ r = s => todo[q][j].event.offset # e.offset
    <2> DEFINE j == IF q = p THEN i + 1 ELSE i
    <2>1. j \in 1 .. Len(todo[q]) /\ todo'[q][i] = todo[q][j] /\ ~(q = p /\ j = 1)
      BY <1>1
    <2> HIDE DEF j
    <2>2. Sends(q, j, r)
      BY <1>4, <2>1 DEF Sends
    <2>3. r = s => todo[q][j].event.offset # e.offset
      BY <1>0, <1>1, <2>1, <2>2 DEF OnceInv, SendsOnce
    <2> QED BY <2>1, <2>2, <2>3 DEF j
  <1>5. SubsFit'
    <2>1. stream[s].at # "idle"
      BY <1>1, <1>3, NamesAssumption DEF OnceInv, SubsFit, Procs, Callers
    <2>2. ASSUME NEW r \in Subs PROVE /\ stream'[r].at = "idle" <=> stream'[r].task = None
                                      /\ stream'[r].at = "idle" => Seen(r)' = <<>>
      BY <1>1, <1>2, <2>1 DEF OnceInv, SubsFit
    <2>3. ASSUME NEW t \in Tasks, NEW r \in subscribers'[t] PROVE stream'[r].task = t
      BY <1>1, <1>2 DEF OnceInv, SubsFit, TypeOK, StreamTypes
    <2>4. ASSUME NEW r \in Subs, stream'[r].task # None PROVE pc'[stream'[r].task] = "ok"
      <3>1. stream[r].task \in Tasks /\ stream[r].task = stream'[r].task
        BY <1>2, <2>4, SeenParts
      <3> QED BY <2>4, <3>1 DEF OnceInv, SubsFit, KnownStay
    <2> QED BY <2>2, <2>3, <2>4 DEF SubsFit
  <1>6. OffsetsFit'
    BY <1>1 DEF OnceInv, OffsetsFit
  <1>7. SeenFit'
    <2> SUFFICES ASSUME NEW r \in Subs, NEW k \in 1 .. Len(Seen(r)')
                 PROVE  Seen(r)'[k].offset < Len(events[stream[r].task])
      BY <1>1, <1>2 DEF SeenFit
    <2>1. CASE r # s
      BY <1>2, <2>1 DEF OnceInv, SeenFit
    <2>2. CASE r = s /\ k = n + 1
      BY <1>2, <1>3, <2>2
    <2>3. CASE r = s /\ k # n + 1
      <3>1. k \in 1 .. n /\ Seen(s)'[k] = Seen(s)[k]
        BY <1>2, <2>3
      <3> QED BY <1>1, <2>3, <3>1 DEF OnceInv, SeenFit, n
    <2> QED BY <2>1, <2>2, <2>3
  <1>8. SendsFit'
    <2> SUFFICES ASSUME NEW q \in Procs, NEW i \in 1 .. Len(todo'[q]), NEW r \in Subs, Sends(q, i, r)'
                 PROVE  /\ todo'[q][i].event.task = stream[r].task
                        /\ todo'[q][i].event.offset < Len(events[stream[r].task])
                        /\ \A k \in 1 .. Len(Seen(r)') : Seen(r)'[k].offset # todo'[q][i].event.offset
      BY <1>1, <1>2 DEF SendsFit
    <2>1. PICK j \in 1 .. Len(todo[q]) : /\ todo'[q][i] = todo[q][j] /\ Sends(q, j, r)
                                         /\ r = s => todo[q][j].event.offset # e.offset
      BY <1>4
    <2>2. /\ todo[q][j].event.task = stream[r].task
          /\ todo[q][j].event.offset < Len(events[stream[r].task])
          /\ \A k \in 1 .. Len(Seen(r)) : Seen(r)[k].offset # todo[q][j].event.offset
      BY <2>1 DEF OnceInv, SendsFit
    <2>3. ASSUME NEW k \in 1 .. Len(Seen(r)') PROVE Seen(r)'[k].offset # todo[q][j].event.offset
      <3>1. CASE r # s
        BY <1>2, <2>2, <3>1
      <3>2. CASE r = s /\ k = n + 1
        BY <1>2, <2>1, <3>2
      <3>3. CASE r = s /\ k # n + 1
        <4>1. k \in 1 .. n /\ Seen(s)'[k] = Seen(s)[k]
          BY <1>2, <3>3
        <4> QED BY <2>2, <3>3, <4>1 DEF n
      <3> QED BY <3>1, <3>2, <3>3
    <2> QED BY <2>1, <2>2, <2>3
  <1>9. SendsOnce'
    <2> SUFFICES ASSUME NEW r \in Subs, NEW q \in Procs, NEW o \in Procs,
                        NEW i \in 1 .. Len(todo'[q]), NEW j \in 1 .. Len(todo'[o]),
                        Sends(q, i, r)', Sends(o, j, r)', todo'[q][i].event.offset = todo'[o][j].event.offset
                 PROVE  q = o /\ i = j
      BY DEF SendsOnce
    <2>1. PICK k \in 1 .. Len(todo[q]) :
            k = (IF q = p THEN i + 1 ELSE i) /\ todo'[q][i] = todo[q][k] /\ Sends(q, k, r)
      BY <1>4
    <2>2. PICK l \in 1 .. Len(todo[o]) :
            l = (IF o = p THEN j + 1 ELSE j) /\ todo'[o][j] = todo[o][l] /\ Sends(o, l, r)
      BY <1>4
    <2>3. q = o /\ k = l
      BY <2>1, <2>2 DEF OnceInv, SendsOnce
    <2> QED BY <2>1, <2>2, <2>3
  <1>10. StreamShowsOnce'
    <2> SUFFICES ASSUME NEW r \in Subs, NEW i \in 1 .. Len(Seen(r)'), NEW j \in 1 .. Len(Seen(r)'),
                        Seen(r)'[i].offset = Seen(r)'[j].offset
                 PROVE  i = j
      BY DEF StreamShowsOnce
    <2>1. CASE r # s
      BY <1>2, <2>1 DEF OnceInv, StreamShowsOnce
    <2>2. ASSUME r = s, NEW k \in 1 .. Len(Seen(r)'), k # n + 1 PROVE k \in 1 .. n /\ Seen(r)'[k] = Seen(s)[k]
      BY <1>2, <2>2
    <2>3. CASE r = s /\ i # n + 1 /\ j # n + 1
      <3>1. i \in 1 .. n /\ j \in 1 .. n /\ Seen(s)[i].offset = Seen(s)[j].offset
        BY <2>2, <2>3
      <3> QED BY <1>1, <3>1 DEF OnceInv, StreamShowsOnce, n
    <2>4. CASE r = s /\ i = n + 1 /\ j # n + 1
      BY <1>2, <1>3, <2>2, <2>4
    <2>5. CASE r = s /\ i # n + 1 /\ j = n + 1
      BY <1>2, <1>3, <2>2, <2>5
    <2> QED BY <2>1, <2>3, <2>4, <2>5
  <1> QED BY <1>5, <1>6, <1>7, <1>8, <1>9, <1>10 DEF OnceInv

\* A reader begins to stream t.
LEMMA OnceBegun ==
  ASSUME TypeOK, OnceInv, KnownStay, NEW s \in Subs, NEW t \in Tasks, Stream(s, t),
         UNCHANGED <<events, todo>>
  PROVE  OnceInv'
  <1>1. /\ stream[s].at = "idle" /\ pc[t] = "ok"
        /\ stream'[s].task = t /\ stream'[s].at = "replay" /\ Seen(s)' = events[t]
        /\ \A r \in Subs : r # s => stream'[r] = stream[r] /\ Seen(r)' = Seen(r)
        /\ \A k \in Tasks : \/ subscribers'[k] = subscribers[k]
                            \/ k = t /\ subscribers'[k] = subscribers[k] \cup {s}
    BY StreamBegins
  <1>2. stream[s].task = None /\ None \notin Tasks
    BY <1>1, NamesAssumption DEF OnceInv, SubsFit, Procs, Callers
  \* Nothing was on its way to s.
  <1>3. ASSUME NEW q \in Procs, NEW i \in 1 .. Len(todo[q]), Sends(q, i, s) PROVE FALSE
    <2>1. todo[q][i].event.task = None
      BY <1>2, <1>3 DEF OnceInv, SendsFit
    <2> QED BY <1>2, <1>3, <2>1, SendsEvent
  <1>5. SubsFit'
    <2>1. ASSUME NEW r \in Subs PROVE /\ stream'[r].at = "idle" <=> stream'[r].task = None
                                      /\ stream'[r].at = "idle" => Seen(r)' = <<>>
      BY <1>1, <1>2 DEF OnceInv, SubsFit
    <2>2. ASSUME NEW k \in Tasks, NEW r \in subscribers'[k] PROVE stream'[r].task = k
      <3>1. CASE r = s
        <4>1. s \notin subscribers[k]
          BY <1>2 DEF OnceInv, SubsFit
        <4> QED BY <1>1, <2>2, <3>1, <4>1
      <3>2. CASE r # s
        <4>1. r \in subscribers[k] /\ r \in Subs
          BY <1>1, <2>2, <3>2 DEF TypeOK, StreamTypes
        <4> QED BY <1>1, <3>2, <4>1 DEF OnceInv, SubsFit
      <3> QED BY <3>1, <3>2
    <2>3. ASSUME NEW r \in Subs, stream'[r].task # None PROVE pc'[stream'[r].task] = "ok"
      <3>1. CASE r = s
        BY <1>1, <3>1 DEF KnownStay
      <3>2. CASE r # s
        <4>1. stream[r].task \in Tasks /\ stream'[r] = stream[r]
          BY <1>1, <2>3, <3>2, SeenParts
        <4> QED BY <2>3, <4>1 DEF OnceInv, SubsFit, KnownStay
      <3> QED BY <3>1, <3>2
    <2> QED BY <2>1, <2>2, <2>3 DEF SubsFit
  <1>6. OffsetsFit'
    BY DEF OnceInv, OffsetsFit
  <1>7. events[t] \in Seq(Event) /\ Len(events[t]) \in Nat
        /\ \A k \in 1 .. Len(events[t]) : events[t][k].offset = k - 1
    BY LenProperties DEF TypeOK, LogTypes, OnceInv, OffsetsFit
  <1>8. SeenFit'
    <2> SUFFICES ASSUME NEW r \in Subs, NEW k \in 1 .. Len(Seen(r)')
                 PROVE  Seen(r)'[k].offset < Len(events[stream'[r].task])
      BY DEF SeenFit
    <2>1. CASE r = s
      BY <1>1, <1>7, <2>1
    <2>2. CASE r # s
      BY <1>1, <2>2 DEF OnceInv, SeenFit
    <2> QED BY <2>1, <2>2
  <1>9. SendsFit'
    <2> SUFFICES ASSUME NEW q \in Procs, NEW i \in 1 .. Len(todo[q]), NEW r \in Subs, Sends(q, i, r)
                 PROVE  /\ todo[q][i].event.task = stream'[r].task
                        /\ todo[q][i].event.offset < Len(events[stream'[r].task])
                        /\ \A k \in 1 .. Len(Seen(r)') : Seen(r)'[k].offset # todo[q][i].event.offset
      BY DEF SendsFit, Sends
    <2>1. r # s
      BY <1>3
    <2> QED BY <1>1, <2>1 DEF OnceInv, SendsFit
  <1>10. SendsOnce'
    BY DEF OnceInv, SendsOnce, Sends
  <1>11. StreamShowsOnce'
    <2> SUFFICES ASSUME NEW r \in Subs, NEW i \in 1 .. Len(Seen(r)'), NEW j \in 1 .. Len(Seen(r)'),
                        Seen(r)'[i].offset = Seen(r)'[j].offset
                 PROVE  i = j
      BY DEF StreamShowsOnce
    <2>1. CASE r = s
      BY <1>1, <1>7, <2>1
    <2>2. CASE r # s
      BY <1>1, <2>2 DEF OnceInv, StreamShowsOnce
    <2> QED BY <2>1, <2>2
  <1> QED BY <1>5, <1>6, <1>8, <1>9, <1>10, <1>11 DEF OnceInv

LEMMA OnceStep ==
  TypeOK /\ TypeOK' /\ AttemptsInOrder /\ ErrandsInv /\ OnceInv /\ [Next]_vars => OnceInv'
  <1> SUFFICES ASSUME TypeOK, TypeOK', AttemptsInOrder, ErrandsInv, OnceInv, [Next]_vars PROVE OnceInv'
    OBVIOUS
  <1>1. Kinds /\ KnownStay
    BY StepKinds, KnownStays
  <1>2. CASE Quiet
    <2>1. SameSends /\ UNCHANGED <<events, stream, subscribers>>
      BY <1>2 DEF Quiet
    <2>2. ShowsTheSame
      BY <2>1 DEF ShowsTheSame, Seen
    <2> QED BY <1>1, <2>1, <2>2, OnceKept
  <1>3. ASSUME NEW p \in Procs, NEW t \in Tasks, Loud(p, t) PROVE OnceInv'
    BY <1>1, <1>3, OnceLogged
  <1>4. ASSUME NEW p \in Procs, PublishTo(p) PROVE OnceInv'
    BY <1>1, <1>4, OnceSent
  <1>5. CASE StreamMoves
    <2>1. UNCHANGED <<events, todo>> /\ SameSends
      BY <1>5 DEF StreamMoves, SameSends
    <2>2. ASSUME NEW s \in Subs, NEW t \in Tasks, Stream(s, t) PROVE OnceInv'
      BY <1>1, <2>1, <2>2, OnceBegun
    <2>3. ASSUME NEW s \in Subs, StreamerStep(s) \/ StreamCtxDone(s) PROVE OnceInv'
      BY <1>1, <2>1, <2>3, StreamKinds, OnceKept
    <2> QED BY <1>5, <2>2, <2>3 DEF StreamMoves
  <1> QED BY <1>1, <1>2, <1>3, <1>4, <1>5 DEF Kinds

LEMMA OnceInit == Init => OnceInv
  <1> SUFFICES ASSUME Init PROVE OnceInv
    OBVIOUS
  <1>1. /\ \A s \in Subs : stream[s] = Idle
        /\ \A t \in Tasks : subscribers[t] = {} /\ events[t] = <<>> /\ Len(events[t]) = 0
        /\ \A p \in Procs : todo[p] = <<>> /\ Len(todo[p]) = 0
    BY DEF Init
  <1>2. \A s \in Subs : stream[s].task = None /\ stream[s].at = "idle" /\ Seen(s) = <<>> /\ Len(Seen(s)) = 0
    <2>1. Idle.task = None /\ Idle.at = "idle" /\ Idle.out = <<>> /\ Idle.hand = <<>> /\ Idle.chan = <<>>
      BY DEF Idle
    <2>2. (<<>> \o <<>>) \o <<>> = <<>> /\ Len(<<>>) = 0
      BY ConcatEmptySeq, EmptySeq
    <2>3. ASSUME NEW s \in Subs PROVE stream[s].task = None /\ stream[s].at = "idle" /\ Seen(s) = <<>>
      BY <1>1, <2>1, <2>2 DEF Seen
    <2> QED BY <2>2, <2>3
  <1> QED BY <1>1, <1>2 DEF OnceInv, SubsFit, OffsetsFit, SendsFit, SeenFit, SendsOnce, StreamShowsOnce

\* No reader is shown an event twice, neither from the history nor live, though
\* events are sent to streams outside the lock by whoever logged them.
THEOREM StreamsShowOnce == SafeSpec => []StreamShowsOnce
  <1>1. Init => TypeOK /\ AttemptsInOrder /\ ErrandsInv /\ OnceInv
    BY TypeInit, AttemptsInit, ErrandsInit, OnceInit
  <1>2. TypeOK /\ AttemptsInOrder /\ ErrandsInv /\ OnceInv /\ [Next]_vars
          => TypeOK' /\ AttemptsInOrder' /\ ErrandsInv' /\ OnceInv'
    BY TypeStep, AttemptsStep, ErrandsStep, OnceStep
  <1>3. OnceInv => StreamShowsOnce
    BY DEF OnceInv
  <1> QED BY <1>1, <1>2, <1>3, PTL DEF SafeSpec

-----------------------------------------------------------------------------
(* Events are shown in order. *)

\* What s shows are the first events of its task.
ShowsPrefix(s) ==
  /\ Len(Seen(s)) <= Len(events[stream[s].task])
  /\ \A k \in 1 .. Len(Seen(s)) : Seen(s)[k] = events[stream[s].task][k]

\* The event p is to send to s is the last one of the task t of s, and the
\* only one s has not got; until p has sent it t does not move.
LastToSend(p, i, s, t) ==
  /\ status[t] \notin {"absent", "pending"}
  /\ status[t] = "running" => p = <<t, 0>>
  /\ todo[p][i].event = events[t][Len(events[t])]
  /\ Len(Seen(s)) = Len(events[t]) - 1

FlightFit ==
  \A p \in Procs : \A i \in 1 .. Len(todo[p]) : \A s \in Subs :
    Sends(p, i, s) /\ attempt[stream[s].task] = 0 => LastToSend(p, i, s, stream[s].task)

\* Nothing is on its way to s.
Reached(s) == \A p \in Procs : \A i \in 1 .. Len(todo[p]) : ~ Sends(p, i, s)

CaughtUp ==
  \A t \in Tasks : \A s \in subscribers[t] :
    attempt[t] = 0 /\ Reached(s) => Len(Seen(s)) = Len(events[t])

InOrder == \A s \in Subs : stream[s].task # None /\ attempt[stream[s].task] = 0 => ShowsPrefix(s)

OrderInv == FlightFit /\ CaughtUp /\ InOrder

LEMMA OrderGives == TypeOK /\ InOrder => StreamInOrder
  <1> SUFFICES ASSUME TypeOK, InOrder, NEW s \in Subs, stream[s].task # None, attempt[stream[s].task] = 0
               PROVE  Seen(s) = SubSeq(events[stream[s].task], 1, Len(Seen(s)))
    BY DEF StreamInOrder
  <1> DEFINE n == Len(Seen(s))
             l == events[stream[s].task]
  <1>1. Seen(s) \in Seq(Event) /\ n \in Nat /\ stream[s].task \in Tasks
    BY SeenParts
  <1>2. n <= Len(l) /\ \A k \in 1 .. n : Seen(s)[k] = l[k]
    BY DEF InOrder, ShowsPrefix
  <1>3. l \in Seq(Event) /\ Len(l) \in Nat /\ \A i \in 1 .. n : l[i] \in Event
    <2>1. l \in Seq(Event) /\ Len(l) \in Nat
      BY <1>1, LenProperties DEF TypeOK, LogTypes
    <2> QED BY <1>1, <1>2, <2>1, ElementOfSeq
  <1> HIDE DEF l, n
  <1>4. /\ SubSeq(l, 1, n) \in Seq(Event) /\ Len(SubSeq(l, 1, n)) = n
        /\ \A i \in 1 .. n : SubSeq(l, 1, n)[i] = l[i]
    <2>1. /\ SubSeq(l, 1, n) \in Seq(Event) /\ Len(SubSeq(l, 1, n)) = IF 1 <= n THEN n - 1 + 1 ELSE 0
          /\ \A i \in 1 .. n - 1 + 1 : SubSeq(l, 1, n)[i] = l[1 + i - 1]
      BY <1>1, <1>3, SubSeqProperties
    <2> QED BY <1>1, <2>1
  <1>5. Seen(s) = SubSeq(l, 1, n)
    BY <1>1, <1>2, <1>4, SeqEqual DEF n
  <1> QED BY <1>5 DEF l, n

\* Where a stream that is sent something is.
LEMMA SendsTo ==
  ASSUME TypeOK, OnceInv, NEW p \in Procs, NEW i \in 1 .. Len(todo[p]), NEW s \in Subs, Sends(p, i, s)
  PROVE  /\ stream[s].task \in Tasks /\ todo[p][i].event.task = stream[s].task
         /\ todo[p][i].event \in Event
  BY SendsEvent DEF OnceInv, SendsFit

LEMMA SubscriberTask ==
  ASSUME TypeOK, OnceInv, NEW t \in Tasks, NEW s \in subscribers[t]
  PROVE  s \in Subs /\ stream[s].task = t
  BY DEF TypeOK, StreamTypes, OnceInv, SubsFit

LEMMA OrderKept ==
  ASSUME TypeOK, OnceInv, OrderInv, SameSends, ShowsTheSame, UNCHANGED <<events, attempt>>,
         \A t \in Tasks : status'[t] = status[t] \/ (status[t] = "pending" /\ status'[t] = "failed")
  PROVE  OrderInv'
  <1>1. \A s \in Subs : stream'[s].task = stream[s].task /\ Seen(s)' = Seen(s)
    BY DEF ShowsTheSame
  <1>2. FlightFit'
    <2> SUFFICES ASSUME NEW p \in Procs, NEW i \in 1 .. Len(todo'[p]), NEW s \in Subs, Sends(p, i, s)',
                        attempt'[stream'[s].task] = 0
                 PROVE  LastToSend(p, i, s, stream[s].task)'
      BY <1>1 DEF FlightFit, LastToSend
    <2>1. todo'[p] = todo[p] /\ i \in 1 .. Len(todo[p]) /\ Sends(p, i, s)
      BY SendsKept
    <2>2. LastToSend(p, i, s, stream[s].task) /\ stream[s].task \in Tasks
      BY <1>1, <2>1, SendsTo DEF OrderInv, FlightFit
    <2> QED BY <1>1, <2>1, <2>2 DEF LastToSend
  <1>3. CaughtUp'
    <2> SUFFICES ASSUME NEW t \in Tasks, NEW s \in subscribers'[t], attempt'[t] = 0, Reached(s)'
                 PROVE  Len(Seen(s)') = Len(events'[t])
      BY DEF CaughtUp
    <2>1. s \in subscribers[t]
      BY DEF ShowsTheSame
    <2>2. Reached(s)
      BY DEF Reached, SameSends, Sends, Silent
    <2> QED BY <1>1, <2>1, <2>2, SubscriberTask DEF OrderInv, CaughtUp
  <1>4. InOrder'
    BY <1>1 DEF OrderInv, InOrder, ShowsPrefix
  <1> QED BY <1>2, <1>3, <1>4 DEF OrderInv

\* While t is at its first attempt none of its events is on its way when the next one is logged.
LEMMA OrderLogged ==
  ASSUME TypeOK, TypeOK', OnceInv, OrderInv, NEW p \in Procs, NEW t \in Tasks, Loud(p, t), Moves(p, t)
  PROVE  OrderInv'
  <1>0. PICK n, order : Announcing(p, t, n, order)
    BY LoudSends
  <1> DEFINE e == NewEvent(t)
             N == Len(events[t])
  <1>1. /\ N \in Nat /\ Len(events'[t]) = N + 1
        /\ events'[t][N + 1] = e /\ \A i \in 1 .. N : events'[t][i] = events[t][i]
        /\ \A k \in Tasks \ {t} : events'[k] = events[k]
    <2>1. events' = [events EXCEPT ![t] = Append(events[t], e)] /\ events[t] \in Seq(Event)
          /\ events \in [Tasks -> Seq(Event)]
      BY DEF Loud, LogEvent, TypeOK, LogTypes
    <2> HIDE DEF e
    <2> QED BY <2>1
  <1> HIDE DEF e
  <1>2. /\ UNCHANGED <<stream, subscribers>> /\ \A s \in Subs : Seen(s)' = Seen(s)
        /\ \A s \in Subs : stream[s].task \in Tasks \cup {None} /\ Len(Seen(s)) \in Nat
        /\ \A k \in Tasks \ {t} : status'[k] = status[k] /\ attempt'[k] = attempt[k]
        /\ Silent(todo[p])
    BY SeenParts DEF Loud, Seen
  <1>3. attempt[t] \in Nat /\ attempt'[t] \in Nat
    BY RetriesAssumption DEF TypeOK, TableTypes, Attempts
  \* t has subscribers, and stays at its first attempt
  <1>4. ASSUME attempt'[t] = 0, NEW s \in subscribers[t]
        PROVE  /\ attempt[t] = 0 /\ status[t] \in {"pending", "running"}
               /\ status'[t] \notin {"absent", "pending"} /\ (status'[t] = "running" => p = <<t, 0>>)
               /\ (status[t] = "running" => p = <<t, 0>>)
    <2>1. stream[s].task = t /\ s \in Subs
      BY SubscriberTask
    <2>2. pc[t] # "idle"
      BY <2>1, NamesAssumption DEF OnceInv, SubsFit, Procs, Callers
    <2>3. attempt[t] = 0
      BY <1>3, <1>4, <2>2 DEF Moves
    <2> QED BY <1>3, <1>4, <2>2, <2>3 DEF Moves, Terminal
  \* and then nothing is on its way to them
  <1>5. ASSUME attempt'[t] = 0, NEW s \in Subs, stream[s].task = t, NEW q \in Procs,
               NEW i \in 1 .. Len(todo[q]), Sends(q, i, s)
        PROVE  FALSE
    <2>1. q # p
      BY <1>2, <1>5 DEF Silent, Sends
    <2>2. attempt[t] = 0 /\ LastToSend(q, i, s, t)
      <3>1. pc[t] # "idle"
        BY <1>5, NamesAssumption DEF OnceInv, SubsFit, Procs, Callers
      <3>2. attempt[t] = 0
        BY <1>3, <1>5, <3>1 DEF Moves
      <3> QED BY <1>5, <3>2 DEF OrderInv, FlightFit
    <2>3. status[t] = "running" /\ p = <<t, 0>>
      BY <1>3, <1>5, <2>2 DEF LastToSend, Moves
    <2> QED BY <2>1, <2>2, <2>3 DEF LastToSend
  <1>6. ASSUME NEW q \in Procs, NEW i \in 1 .. Len(todo'[q]), NEW s \in Subs, Sends(q, i, s)'
        PROVE  \/ q # p /\ todo'[q] = todo[q] /\ Sends(q, i, s) /\ i \in 1 .. Len(todo[q])
               \/ q = p /\ todo'[q][i].event = e /\ s \in subscribers[t] /\ stream[s].task = t
    <2>1. CASE q # p
      BY <1>0, <1>6, <2>1 DEF Announcing, Sends
    <2>2. CASE q = p
      <3>1. i \in 1 .. n
        BY <1>0, <1>6, <2>2 DEF Announcing, Sends
      <3>2. todo'[p][i] = Publish(e, order[i])
        BY <1>0, <3>1 DEF Announcing, e
      <3>3. todo'[p][i].event = e /\ order[i] = s
        BY <1>6, <2>2, <3>2 DEF Publish, Sends
      <3>4. s \in subscribers[t]
        BY <1>0, <3>1, <3>3 DEF Announcing
      <3> QED BY <2>2, <3>3, <3>4, SubscriberTask
    <2> QED BY <2>1, <2>2
  <1>7. FlightFit'
    <2> SUFFICES ASSUME NEW q \in Procs, NEW i \in 1 .. Len(todo'[q]), NEW s \in Subs, Sends(q, i, s)',
                        attempt'[stream[s].task] = 0
                 PROVE  LastToSend(q, i, s, stream[s].task)'
      BY <1>2 DEF FlightFit, LastToSend
    <2>1. CASE q # p
      <3>1. todo'[q] = todo[q] /\ Sends(q, i, s) /\ i \in 1 .. Len(todo[q])
        BY <1>6, <2>1
      <3>2. stream[s].task \in Tasks /\ stream[s].task # t
        BY <1>5, <3>1, SendsTo
      <3>3. LastToSend(q, i, s, stream[s].task)
        BY <1>2, <3>1, <3>2 DEF OrderInv, FlightFit
      <3> QED BY <1>1, <1>2, <3>1, <3>2, <3>3 DEF LastToSend
    <2>2. CASE q = p
      <3>1. todo'[q][i].event = e /\ s \in subscribers[t] /\ stream[s].task = t
        BY <1>6, <2>2
      <3>2. /\ attempt[t] = 0 /\ status'[t] \notin {"absent", "pending"}
            /\ status'[t] = "running" => p = <<t, 0>>
        BY <1>4, <3>1
      <3>3. Reached(s)
        BY <1>5, <3>1 DEF Reached
      <3>4. Len(Seen(s)) = N
        BY <3>1, <3>2, <3>3 DEF OrderInv, CaughtUp
      <3> QED BY <1>1, <1>2, <2>2, <3>1, <3>2, <3>4 DEF LastToSend
    <2> QED BY <2>1, <2>2
  <1>8. CaughtUp'
    <2> SUFFICES ASSUME NEW k \in Tasks, NEW s \in subscribers[k], attempt'[k] = 0, Reached(s)'
                 PROVE  Len(Seen(s)) = Len(events'[k])
      BY <1>2, SubscriberTask DEF CaughtUp
    <2>1. s \in Subs /\ stream[s].task = k
      BY SubscriberTask
    <2>2. CASE k = t
      <3>1. PICK i \in 1 .. n : order[i] = s
        BY <1>0, <2>2 DEF Announcing
      <3>2. todo'[p][i] = Publish(NewEvent(t), s) /\ i \in 1 .. Len(todo'[p])
        BY <1>0, <3>1 DEF Announcing
      <3>3. Sends(p, i, s)'
        BY <3>2 DEF Sends, Publish
      <3> QED BY <3>2, <3>3 DEF Reached
    <2>3. CASE k # t
      <3>1. Reached(s)
        <4> SUFFICES ASSUME NEW q \in Procs, NEW i \in 1 .. Len(todo[q]), Sends(q, i, s) PROVE FALSE
          BY DEF Reached
        <4>1. q # p
          BY <1>2 DEF Silent, Sends
        <4>2. todo'[q] = todo[q]
          BY <1>0, <4>1 DEF Announcing
        <4> QED BY <4>2 DEF Reached, Sends
      <3> QED BY <1>1, <1>2, <2>1, <2>3, <3>1 DEF OrderInv, CaughtUp
    <2> QED BY <2>2, <2>3
  <1>9. InOrder'
    <2> SUFFICES ASSUME NEW s \in Subs, stream[s].task # None, attempt'[stream[s].task] = 0
                 PROVE  /\ Len(Seen(s)) <= Len(events'[stream[s].task])
                        /\ \A k \in 1 .. Len(Seen(s)) : Seen(s)[k] = events'[stream[s].task][k]
      BY <1>2 DEF InOrder, ShowsPrefix
    <2>1. stream[s].task \in Tasks /\ pc[stream[s].task] = "ok"
      BY <1>2 DEF OnceInv, SubsFit
    <2>2. attempt[stream[s].task] = 0
      BY <1>2, <1>3, <2>1 DEF Moves
    <2>3. ShowsPrefix(s)
      BY <2>1, <2>2 DEF OrderInv, InOrder
    <2> QED BY <1>1, <1>2, <2>1, <2>3 DEF ShowsPrefix
  <1> QED BY <1>7, <1>8, <1>9 DEF OrderInv

\* p sends the last event of a stream's task, the one the stream has not got.
LEMMA OrderSent ==
  ASSUME TypeOK, OnceInv, OrderInv, NEW p \in Procs, PublishTo(p)
  PROVE  OrderInv'
  <1>0. PICK s \in Subs, e \in Event : s = todo[p][1].to /\ e = todo[p][1].event
    BY AfterSend
  <1> DEFINE n == Len(Seen(s))
             t == stream[s].task
  <1>1. /\ Sends(p, 1, s) /\ 1 \in 1 .. Len(todo[p])
        /\ \A q \in Procs : q # p => todo'[q] = todo[q]
        /\ Len(todo'[p]) = Len(todo[p]) - 1
        /\ \A i \in 1 .. Len(todo'[p]) : i + 1 \in 1 .. Len(todo[p]) /\ todo'[p][i] = todo[p][i + 1]
        /\ UNCHANGED <<events, attempt, status, subscribers>>
        /\ stream' = [stream EXCEPT ![s].chan = Append(@, e)]
    BY <1>0, AfterSend
  <1>2. /\ n \in Nat /\ Len(Seen(s)') = n + 1 /\ Seen(s)'[n + 1] = e
        /\ \A k \in 1 .. n : Seen(s)'[k] = Seen(s)[k]
        /\ \A r \in Subs : r # s => Seen(r)' = Seen(r)
        /\ \A r \in Subs : stream'[r].task = stream[r].task /\ stream'[r].at = stream[r].at
    BY <1>1, SendShows, SeenParts
  <1>3. t \in Tasks /\ Len(events[t]) \in Nat
    BY <1>1, SendsTo, LenProperties DEF TypeOK, LogTypes
  <1>4. attempt[t] = 0 => e = events[t][Len(events[t])] /\ n = Len(events[t]) - 1
    BY <1>0, <1>1 DEF OrderInv, FlightFit, LastToSend
  \* A send after the step was another one before it, and not to s while t is at its first attempt.
  <1>5. ASSUME NEW q \in Procs, NEW i \in 1 .. Len(todo'[q]), NEW r \in Subs, Sends(q, i, r)'
        PROVE  \E j \in 1 .. Len(todo[q]) :
                 /\ todo'[q][i] = todo[q][j] /\ Sends(q, j, r)
                 /\ r = s => attempt[t] # 0
    <2> DEFINE j == IF q = p THEN i + 1 ELSE i
    <2>1. j \in 1 .. Len(todo[q]) /\ todo'[q][i] = todo[q][j] /\ ~(q = p /\ j = 1)
      BY <1>1
    <2> HIDE DEF j
    <2>2. Sends(q, j, r)
      BY <1>5, <2>1 DEF Sends
    <2>3. ASSUME r = s, attempt[t] = 0 PROVE FALSE
      <3>1. todo[q][j].event = events[t][Len(events[t])]
        BY <2>1, <2>2, <2>3 DEF OrderInv, FlightFit, LastToSend
      <3>2. todo[q][j].event.offset = todo[p][1].event.offset
        BY <1>0, <1>4, <2>3, <3>1
      <3> QED BY <1>1, <2>1, <2>2, <2>3, <3>2 DEF OnceInv, SendsOnce
    <2> QED BY <2>1, <2>2, <2>3
  <1> HIDE DEF n, t
  <1>6. FlightFit'
    <2> SUFFICES ASSUME NEW q \in Procs, NEW i \in 1 .. Len(todo'[q]), NEW r \in Subs, Sends(q, i, r)',
                        attempt[stream[r].task] = 0
                 PROVE  LastToSend(q, i, r, stream[r].task)'
      BY <1>1, <1>2 DEF FlightFit, LastToSend
    <2>1. PICK j \in 1 .. Len(todo[q]) : /\ todo'[q][i] = todo[q][j] /\ Sends(q, j, r)
                                         /\ r = s => attempt[t] # 0
      BY <1>5
    <2>2. r # s
      BY <2>1 DEF t
    <2>3. LastToSend(q, j, r, stream[r].task)
      BY <2>1 DEF OrderInv, FlightFit
    <2>4. stream'[r].task = stream[r].task /\ Seen(r)' = Seen(r)
      BY <1>2, <2>2
    <2> QED BY <1>1, <2>1, <2>3, <2>4 DEF LastToSend
  <1>7. CaughtUp'
    <2> SUFFICES ASSUME NEW k \in Tasks, NEW r \in subscribers[k], attempt[k] = 0, Reached(r)'
                 PROVE  Len(Seen(r)') = Len(events[k])
      BY <1>1 DEF CaughtUp
    <2>1. r \in Subs /\ stream[r].task = k
      BY SubscriberTask
    <2>2. CASE r = s
      <3>1. t = k /\ attempt[t] = 0 /\ n + 1 = Len(events[t])
        BY <1>2, <1>3, <1>4, <2>1, <2>2 DEF t
      <3> QED BY <1>2, <2>2, <3>1
    <2>3. CASE r # s
      <3>1. Reached(r)
        <4> SUFFICES ASSUME NEW q \in Procs, NEW i \in 1 .. Len(todo[q]), Sends(q, i, r) PROVE FALSE
          BY DEF Reached
        <4>1. CASE q # p
          BY <1>1, <4>1 DEF Reached, Sends
        <4>2. CASE q = p
          <5>1. i # 1
            BY <1>0, <2>3, <4>2 DEF Sends
          <5>2. i - 1 \in 1 .. Len(todo'[p]) /\ todo'[p][i - 1] = todo[p][(i - 1) + 1] /\ (i - 1) + 1 = i
            <6>1. Len(todo[p]) \in Nat
              BY LenProperties DEF TypeOK
            <6>2. i - 1 \in 1 .. Len(todo'[p])
              BY <1>1, <4>2, <5>1, <6>1
            <6> QED BY <1>1, <6>2
          <5>3. Sends(p, i - 1, r)'
            BY <4>2, <5>2 DEF Sends
          <5> QED BY <5>2, <5>3 DEF Reached
        <4> QED BY <4>1, <4>2
      <3> QED BY <1>2, <2>1, <2>3, <3>1 DEF OrderInv, CaughtUp
    <2> QED BY <2>2, <2>3
  <1>8. InOrder'
    <2> SUFFICES ASSUME NEW r \in Subs, stream[r].task # None, attempt[stream[r].task] = 0
                 PROVE  /\ Len(Seen(r)') <= Len(events[stream[r].task])
                        /\ \A k \in 1 .. Len(Seen(r)') : Seen(r)'[k] = events[stream[r].task][k]
      BY <1>1, <1>2 DEF InOrder, ShowsPrefix
    <2>1. ShowsPrefix(r)
      BY DEF OrderInv, InOrder
    <2>2. CASE r # s
      BY <1>2, <2>1, <2>2 DEF ShowsPrefix
    <2>3. CASE r = s
      <3>1. n + 1 = Len(events[t]) /\ e = events[t][n + 1]
        BY <1>3, <1>4, <2>3 DEF t
      <3>2. ASSUME NEW k \in 1 .. n + 1 PROVE Seen(s)'[k] = events[t][k]
        <4>1. CASE k = n + 1
          BY <1>2, <3>1, <4>1
        <4>2. CASE k # n + 1
          <5>1. k \in 1 .. n
            BY <1>2, <4>2
          <5> QED BY <1>2, <2>1, <2>3, <5>1 DEF ShowsPrefix, n, t
        <4> QED BY <4>1, <4>2
      <3> QED BY <1>2, <1>3, <2>3, <3>1, <3>2 DEF t
    <2> QED BY <2>2, <2>3
  <1> QED BY <1>6, <1>7, <1>8 DEF OrderInv

\* A reader begins to stream t, and is shown its whole log.
LEMMA OrderBegun ==
  ASSUME TypeOK, OnceInv, OrderInv, NEW s \in Subs, NEW t \in Tasks, Stream(s, t),
         UNCHANGED <<events, todo, attempt, status>>
  PROVE  OrderInv'
  <1>1. /\ stream[s].at = "idle"
        /\ stream'[s].task = t /\ Seen(s)' = events[t]
        /\ \A r \in Subs : r # s => stream'[r] = stream[r] /\ Seen(r)' = Seen(r)
        /\ \A k \in Tasks : \/ subscribers'[k] = subscribers[k]
                            \/ k = t /\ subscribers'[k] = subscribers[k] \cup {s}
    BY StreamBegins
  <1>2. stream[s].task = None /\ None \notin Tasks
    BY <1>1, NamesAssumption DEF OnceInv, SubsFit, Procs, Callers
  <1>3. \A q \in Procs : \A i \in 1 .. Len(todo[q]) : ~ Sends(q, i, s)
    BY <1>2, SendsTo
  <1>4. FlightFit'
    <2> SUFFICES ASSUME NEW q \in Procs, NEW i \in 1 .. Len(todo[q]), NEW r \in Subs, Sends(q, i, r),
                        attempt[stream'[r].task] = 0
                 PROVE  LastToSend(q, i, r, stream[r].task)'
      BY DEF FlightFit, LastToSend, Sends
    <2>1. r # s
      BY <1>3
    <2> QED BY <1>1, <2>1 DEF OrderInv, FlightFit, LastToSend
  <1>5. CaughtUp'
    <2> SUFFICES ASSUME NEW k \in Tasks, NEW r \in subscribers'[k], attempt[k] = 0, Reached(r)'
                 PROVE  Len(Seen(r)') = Len(events[k])
      BY DEF CaughtUp
    <2>1. CASE r = s
      <3>1. s \notin subscribers[k]
        BY <1>2, SubscriberTask
      <3> QED BY <1>1, <2>1, <3>1
    <2>2. CASE r # s
      <3>1. r \in subscribers[k]
        BY <1>1, <2>2
      <3>2. Reached(r)
        BY DEF Reached, Sends
      <3>3. r \in Subs
        BY <3>1, SubscriberTask
      <3> QED BY <1>1, <2>2, <3>1, <3>2, <3>3 DEF OrderInv, CaughtUp
    <2> QED BY <2>1, <2>2
  <1>6. InOrder'
    <2> SUFFICES ASSUME NEW r \in Subs, stream'[r].task # None, attempt[stream'[r].task] = 0
                 PROVE  ShowsPrefix(r)'
      BY DEF InOrder
    <2>1. CASE r = s
      <3>1. Len(events[t]) \in Nat
        BY LenProperties DEF TypeOK, LogTypes
      <3> QED BY <1>1, <2>1, <3>1 DEF ShowsPrefix
    <2>2. CASE r # s
      BY <1>1, <2>2 DEF OrderInv, InOrder, ShowsPrefix
    <2> QED BY <2>1, <2>2
  <1> QED BY <1>4, <1>5, <1>6 DEF OrderInv

LEMMA OrderStep ==
  TypeOK /\ TypeOK' /\ AttemptsInOrder /\ ErrandsInv /\ OnceInv /\ OrderInv /\ [Next]_vars => OrderInv'
  <1> SUFFICES ASSUME TypeOK, TypeOK', AttemptsInOrder, ErrandsInv, OnceInv, OrderInv, [Next]_vars
               PROVE  OrderInv'
    OBVIOUS
  <1>1. Kinds
    BY StepKinds
  <1>2. CASE Quiet
    <2>1. ShowsTheSame
      BY <1>2 DEF Quiet, ShowsTheSame, Seen
    <2> QED BY <1>2, <2>1, OrderKept DEF Quiet
  <1>3. ASSUME NEW p \in Procs, NEW t \in Tasks, Loud(p, t), Moves(p, t) PROVE OrderInv'
    BY <1>3, OrderLogged
  <1>4. ASSUME NEW p \in Procs, PublishTo(p) PROVE OrderInv'
    BY <1>4, OrderSent
  <1>5. CASE StreamMoves
    <2>1. UNCHANGED <<events, todo, attempt, status>> /\ SameSends
      BY <1>5 DEF StreamMoves, SameSends
    <2>2. ASSUME NEW s \in Subs, NEW t \in Tasks, Stream(s, t) PROVE OrderInv'
      BY <2>1, <2>2, OrderBegun
    <2>3. ASSUME NEW s \in Subs, StreamerStep(s) \/ StreamCtxDone(s) PROVE OrderInv'
      BY <2>1, <2>3, StreamKinds, OrderKept
    <2> QED BY <1>5, <2>2, <2>3 DEF StreamMoves
  <1> QED BY <1>1, <1>2, <1>3, <1>4, <1>5 DEF Kinds

LEMMA OrderInit == Init => OrderInv
  <1> SUFFICES ASSUME Init PROVE OrderInv
    OBVIOUS
  <1>1. /\ \A s \in Subs : stream[s].task = None
        /\ \A t \in Tasks : subscribers[t] = {}
        /\ \A p \in Procs : todo[p] = <<>> /\ Len(todo[p]) = 0
    BY DEF Init, Idle
  <1> QED BY <1>1 DEF OrderInv, FlightFit, CaughtUp, InOrder

\* A reader of the stream of a task that has not been retried is shown the
\* task's events from the first on, in order, with none missing: no event is
\* logged while one logged before is still on its way.
THEOREM StreamsKeepOrder == SafeSpec => []StreamInOrder
  <1> DEFINE Inv == TypeOK /\ AttemptsInOrder /\ ErrandsInv /\ OnceInv /\ OrderInv
  <1>1. Init => Inv
    BY TypeInit, AttemptsInit, ErrandsInit, OnceInit, OrderInit
  <1>2. Inv /\ [Next]_vars => Inv'
    BY TypeStep, AttemptsStep, ErrandsStep, OnceStep, OrderStep
  <1>3. Inv => StreamInOrder
    BY OrderGives DEF OrderInv
  <1> QED BY <1>1, <1>2, <1>3, PTL DEF SafeSpec

-----------------------------------------------------------------------------
(* No waiter is forgotten. *)

\* A task that is known, or that is waited for, exists; who is blocked does
\* nothing before it is woken.
Submitted == \A t \in Tasks : pc[t] # "idle" => status[t] # "absent"

ErrandsFit ==
  \A p \in Procs : \A i \in 1 .. Len(todo[p]) :
    /\ todo[p][i].do = "blocked" => i = 1
    /\ todo[p][i].do = "wait" => status[todo[p][i].task] # "absent"

WaitInv == IdleFit /\ Submitted /\ ErrandsFit /\ NoLostWaiter

\* None of these errands is to wait for a task that does not exist, or is blocked ...
Clean(errands) ==
  \A i \in 1 .. Len(errands) :
    /\ errands[i].do # "blocked"
    /\ errands[i].do = "wait" => status'[errands[i].task] # "absent"

\* ... and all the waiters to be notified by old are to be notified by these.
Carries(errands, old) ==
  \A i \in 1 .. Len(old) :
    old[i].do = "notify" => \E j \in 1 .. Len(errands) : errands[j] = old[i]

Wakes(errands, c) == \E j \in 1 .. Len(errands) : errands[j].do = "notify" /\ c \in errands[j].who

\* What makes sure that c, who is blocked, is woken.
Expected(c) ==
  \/ inbox[c] # None
  \/ c \in waiters[Head(todo[c]).task] /\ Live(Head(todo[c]).task)
  \/ \E p \in Procs : Wakes(todo[p], c)

LEMMA WaitersExpected == NoLostWaiter <=> \A c \in Calls : At(c, "blocked") => Expected(c)
  BY DEF NoLostWaiter, Expected, Wakes

NeverAbsent == \A t \in Tasks : status[t] # "absent" => status'[t] # "absent"

LEMMA StaysSubmitted == TypeOK /\ AttemptsInOrder /\ [Next]_vars => NeverAbsent
  <1> SUFFICES ASSUME TypeOK, AttemptsInOrder, [Next]_vars, NEW t \in Tasks, status[t] # "absent"
               PROVE  status'[t] # "absent"
    BY DEF NeverAbsent
  <1>1. [Lifecycle!Next]_(Lifecycle!vars)
    BY LifecycleStep
  <1>2. status \in [Tasks -> Statuses]
    BY DEF TypeOK, TableTypes
  <1> QED BY <1>1, <1>2 DEF Lifecycle!Next, Lifecycle!vars, Lifecycle!Submit, Lifecycle!Retry, Lifecycle!Progress,
          Lifecycle!Start, Lifecycle!Finish, Lifecycle!Discard, Lifecycle!Move, Lifecycle!Terminal

LEMMA CleanParts ==
  ASSUME NEW a \in Seq(Errands), NEW b \in Seq(Errands), NEW old, NEW c
  PROVE  /\ a \o b \in Seq(Errands)
         /\ Clean(a) /\ Clean(b) => Clean(a \o b)
         /\ Carries(b, old) => Carries(a \o b, old)
         /\ Wakes(a, c) \/ Wakes(b, c) => Wakes(a \o b, c)
  <1>1. /\ a \o b \in Seq(Errands) /\ Len(a \o b) = Len(a) + Len(b) /\ Len(a) \in Nat /\ Len(b) \in Nat
        /\ \A i \in 1 .. Len(a) + Len(b) : (a \o b)[i] = IF i <= Len(a) THEN a[i] ELSE b[i - Len(a)]
    BY SilentParts, LenProperties
  <1> DEFINE ab == a \o b
  <1>2. \A i \in 1 .. Len(ab) : \/ i \in 1 .. Len(a) /\ ab[i] = a[i]
                                \/ i - Len(a) \in 1 .. Len(b) /\ ab[i] = b[i - Len(a)]
    BY <1>1
  <1>3. \A i \in 1 .. Len(a) : i \in 1 .. Len(ab) /\ ab[i] = a[i]
    BY <1>1
  <1>4. ASSUME NEW i \in 1 .. Len(b) PROVE Len(a) + i \in 1 .. Len(ab) /\ ab[Len(a) + i] = b[i]
    <2>1. Len(a) + i \in 1 .. Len(a) + Len(b) /\ ~(Len(a) + i <= Len(a)) /\ (Len(a) + i) - Len(a) = i
      BY <1>1
    <2> QED BY <1>1, <2>1
  <1>5. ab \in Seq(Errands)
    BY <1>1
  <1> HIDE DEF ab
  <1>6. Clean(a) /\ Clean(b) => Clean(ab)
    BY <1>2 DEF Clean
  <1>7. Carries(b, old) => Carries(ab, old)
    BY <1>4 DEF Carries
  <1>8. Wakes(a, c) \/ Wakes(b, c) => Wakes(ab, c)
    BY <1>3, <1>4 DEF Wakes
  <1> QED BY <1>5, <1>6, <1>7, <1>8 DEF ab

\* What is left after the errand that was at the head.
LEMMA CleanTail ==
  ASSUME TypeOK, ErrandsFit, NeverAbsent, NEW p \in Procs, todo[p] # <<>>
  PROVE  /\ Tail(todo[p]) \in Seq(Errands) /\ Clean(Tail(todo[p]))
         /\ ~ At(p, "notify") => Carries(Tail(todo[p]), todo[p])
  <1> DEFINE x == todo[p]
  <1>1. /\ x \in Seq(Errands) /\ Tail(x) \in Seq(Errands) /\ Len(x) \in Nat /\ Len(Tail(x)) = Len(x) - 1
        /\ \A i \in 1 .. Len(Tail(x)) : i + 1 \in 1 .. Len(x) /\ Tail(x)[i] = x[i + 1]
        /\ Head(x) = x[1]
    <2>1. x \in Seq(Errands) /\ Len(x) \in Nat
      BY LenProperties DEF TypeOK
    <2>2. Tail(x) \in Seq(Errands) /\ Len(Tail(x)) = Len(x) - 1 /\ \A i \in 1 .. Len(Tail(x)) : Tail(x)[i] = x[i + 1]
      BY <2>1, HeadTailProperties
    <2> QED BY <2>1, <2>2
  <1>2. ASSUME NEW i \in 1 .. Len(Tail(x))
        PROVE  /\ Tail(x)[i].do # "blocked"
               /\ Tail(x)[i].do = "wait" => status'[Tail(x)[i].task] # "absent"
    <2>1. i + 1 \in 1 .. Len(x) /\ Tail(x)[i] = x[i + 1] /\ i + 1 # 1
      BY <1>1
    <2>2. x[i + 1].do = "wait" => x[i + 1].task \in Tasks
      BY <1>1, <2>1, ElementOfSeq, ErrandFields
    <2> QED BY <2>1, <2>2 DEF ErrandsFit, NeverAbsent
  <1>3. ASSUME ~ At(p, "notify"), NEW i \in 1 .. Len(x), x[i].do = "notify"
        PROVE  \E j \in 1 .. Len(Tail(x)) : Tail(x)[j] = x[i]
    <2>1. i # 1
      BY <1>1, <1>3 DEF At
    <2>2. i - 1 \in 1 .. Len(Tail(x)) /\ (i - 1) + 1 = i
      BY <1>1, <2>1
    <2> QED BY <1>1, <2>2
  <1> QED BY <1>1, <1>2, <1>3 DEF Clean, Carries

\* p gets a list r of errands.
LEMMA WaitersKept ==
  ASSUME TypeOK, ErrandsFit, NoLostWaiter, NeverAbsent, NEW p \in Procs, NEW r \in Seq(Errands),
         todo' = [todo EXCEPT ![p] = r], Clean(r), Carries(r, todo[p]),
         \A c \in Calls : c # p => inbox'[c] = inbox[c],
         \A t \in Tasks : \A c \in waiters[t] :
           Live(t) => (c \in waiters'[t] /\ Live(t)') \/ Wakes(r, c)
  PROVE  ErrandsFit' /\ NoLostWaiter'
  <1>1. todo'[p] = r /\ \A q \in Procs : q # p => todo'[q] = todo[q]
    BY DEF TypeOK
  <1>2. \A q \in Procs : \A i \in 1 .. Len(todo[q]) : todo[q][i].do \in {"wait", "blocked"} => todo[q][i].task \in Tasks
    BY ElementOfSeq, ErrandFields DEF TypeOK
  <1>3. ErrandsFit'
    BY <1>1, <1>2 DEF ErrandsFit, Clean, NeverAbsent
  <1>4. ASSUME NEW c \in Calls, At(c, "blocked")'
        PROVE  Expected(c)'
    <2>0. c \in Procs
      BY DEF Procs, Callers
    <2>1. c # p
      <3> SUFFICES ASSUME c = p PROVE FALSE
        OBVIOUS
      <3>1. r # <<>> /\ Head(r).do = "blocked" /\ Head(r) = r[1] /\ 1 \in 1 .. Len(r)
        BY <1>1, <1>4 DEF At
      <3> QED BY <3>1 DEF Clean
    <2>2. todo'[c] = todo[c] /\ inbox'[c] = inbox[c] /\ At(c, "blocked")
      BY <1>1, <1>4, <2>0, <2>1 DEF At
    <2>3. CASE inbox[c] # None
      BY <2>2, <2>3 DEF Expected
    <2>4. CASE c \in waiters[Head(todo[c]).task] /\ Live(Head(todo[c]).task)
      <3>1. PICK t \in Tasks : t = Head(todo[c]).task
        BY <2>0, <2>2, NextErrand, ErrandFields DEF TypeOK
      <3>2. (c \in waiters'[t] /\ Live(t)') \/ Wakes(r, c)
        BY <2>4, <3>1
      <3>3. CASE Wakes(r, c)
        BY <1>1, <3>3 DEF Wakes, Expected
      <3>4. CASE c \in waiters'[t] /\ Live(t)'
        BY <2>2, <3>1, <3>4 DEF Expected, Live
      <3> QED BY <3>2, <3>3, <3>4
    <2>5. ASSUME NEW q \in Procs, Wakes(todo[q], c) PROVE Expected(c)'
      <3>1. CASE q = p
        BY <1>1, <2>5, <3>1 DEF Carries, Wakes, Expected
      <3>2. CASE q # p
        BY <1>1, <2>5, <3>2 DEF Wakes, Expected
      <3> QED BY <3>1, <3>2
    <2> QED BY <2>2, <2>3, <2>4, <2>5, WaitersExpected DEF Expected
  <1>5. NoLostWaiter' <=> \A c \in Calls : At(c, "blocked")' => Expected(c)'
    BY DEF NoLostWaiter, Expected, Wakes
  <1> QED BY <1>3, <1>4, <1>5

LEMMA AnnounceClean ==
  ASSUME TypeOK, TypeOK', NEW t \in Tasks, NEW order \in Orders(subscribers[t])
  PROVE  Announce(t, order) \in Seq(Errands) /\ Clean(Announce(t, order))
  <1> DEFINE e == NewEvent(t)
             sends == [i \in DOMAIN order |-> Publish(e, order[i])]
             last == <<Persist(e)>>
  <1>1. subscribers[t] \in SUBSET Subs
    BY DEF TypeOK, StreamTypes
  <1>2. e \in Event
    BY NewEventType DEF TypeOK
  <1>3. DOMAIN order = 1 .. Len(order) /\ Len(order) \in Nat /\ \A i \in DOMAIN order : order[i] \in Subs
    BY <1>1, OrderIsSequence, LenProperties
  <1>4. \A i \in 1 .. Len(order) : Publish(e, order[i]) \in Errands
    BY <1>2, <1>3 DEF Publish, Errands
  <1>5. sends \in Seq(Errands) /\ Len(sends) = Len(order) /\ \A i \in 1 .. Len(order) : sends[i] = Publish(e, order[i])
    BY <1>3, <1>4
  <1>6. last \in Seq(Errands)
    BY <1>2 DEF Persist, Errands
  <1>7. Clean(last)
    BY DEF Clean, Persist
  <1>8. Clean(sends)
    BY <1>5 DEF Clean, Publish
  <1>9. Announce(t, order) = sends \o last
    BY DEF Announce
  <1> HIDE DEF sends, last
  <1> QED BY <1>5, <1>6, <1>7, <1>8, <1>9, CleanParts

\* A task that begins to be known has been submitted.
LEMMA SubmittedStep == TypeOK /\ NeverAbsent /\ Submitted /\ [Next]_vars => Submitted'
  <1> SUFFICES ASSUME TypeOK, NeverAbsent, Submitted, [Next]_vars, NEW t \in Tasks, pc[t] = "idle", pc'[t] # "idle"
               PROVE  status'[t] # "absent"
    BY DEF Submitted, NeverAbsent
  <1> USE DEF calls, TypeOK, RunTypes, Callers
  <1>0. t \notin Calls /\ t \in Callers
    BY NamesAssumption
  <1>1. ASSUME NEW k \in Tasks, NEW parent \in Tasks \cup {None}, Submit(k, parent) PROVE status'[t] # "absent"
    <2>1. k = t /\ status' = [status EXCEPT ![k] = "pending"]
      BY <1>1 DEF Submit, SetTask, Busy
    <2> QED BY <2>1 DEF TableTypes
  <1>2. ASSUME NEW c \in Callers, Enqueue(c) PROVE FALSE
    BY <1>2 DEF Enqueue
  <1>3. ASSUME NEW c \in Calls, NEW k \in Tasks, NEW rest, Cancels(c, k, rest) PROVE FALSE
    BY <1>0, <1>3 DEF Cancels, CancelRunning, CancelKilled, CancelPending, Busy
  <1>4. ASSUME NEW c \in Calls, NEW k \in Tasks,
               \/ Retry(c, k) \/ Cancel(c, k) \/ CancelChild(c, k) \/ Wait(c, k) \/ SkipChild(c, k)
        PROVE  FALSE
    BY <1>0, <1>3, <1>4 DEF Retry, Cancel, CancelChild, Wait, SkipChild, Busy
  <1>5. ASSUME NEW c \in Calls, \/ ChildrenDone(c) \/ CancelTheRun(c) \/ WaitAnswered(c)
                                \/ WaitRegistered(c) \/ WaitWoken(c) \/ Return(c)
                                \/ Refuse(c) \/ WaitExpired(c)
        PROVE  FALSE
    BY <1>0, <1>5 DEF ChildrenDone, CancelTheRun, WaitAnswered, WaitRegistered, WaitWoken,
                      Return, Refuse, WaitExpired
  <1>6. ASSUME NEW p \in Procs, ErrandStep(p) PROVE FALSE
    BY <1>6 DEF ErrandStep, NotifyWaiters, PersistEvent, PublishTo
  <1>7. ASSUME NEW g \in Goroutines, AttemptStep(g) PROVE FALSE
    BY <1>7 DEF AttemptStep, AttemptUnwired, AttemptTooLate, AttemptStart, AttemptFinish
  <1>8. ASSUME NEW s \in Subs, StreamerStep(s) \/ StreamCtxDone(s) \/ (\E k \in Tasks : Stream(s, k))
        PROVE  FALSE
    BY <1>8 DEF StreamerStep, Deliver, HistoryDone, Receive, CloseStream, StreamCtxDone,
                Stream, StreamStep
  <1>9. ASSUME NEW k \in Tasks, RegisterExecution(k) \/ UnregisterExecution(k) PROVE FALSE
    BY <1>9 DEF RegisterExecution, UnregisterExecution
  <1>10. CASE UNCHANGED vars
    BY <1>10 DEF vars
  <1> QED
    BY <1>1, <1>2, <1>4, <1>5, <1>6, <1>7, <1>8, <1>9, <1>10
    DEF Next, Environment, Work, CallStep, RetryRefused, CancelRefused

\* p has the rest of its errands to run, and the tables stay as they are.
LEMMA WaitersTail ==
  ASSUME TypeOK, ErrandsFit, NoLostWaiter, NeverAbsent, NEW p \in Procs, NEW k, At(p, k), k # "notify",
         todo' = [todo EXCEPT ![p] = Tail(@)], UNCHANGED <<status, waiters>>,
         \A c \in Calls : c # p => inbox'[c] = inbox[c]
  PROVE  ErrandsFit' /\ NoLostWaiter'
  <1>1. todo[p] # <<>> /\ ~ At(p, "notify")
    BY DEF At
  <1>2. Tail(todo[p]) \in Seq(Errands) /\ Clean(Tail(todo[p])) /\ Carries(Tail(todo[p]), todo[p])
    BY <1>1, CleanTail
  <1> QED BY <1>2, WaitersKept DEF Live

\* c cancels t, and goes on with rest.
LEMMA WaitersCancel ==
  ASSUME TypeOK, TypeOK', ErrandsFit, NoLostWaiter, NeverAbsent, NEW c \in Calls, NEW t \in Tasks,
         NEW rest \in Seq(Errands), Clean(rest), Carries(rest, todo[c]), Cancels(c, t, rest)
  PROVE  ErrandsFit' /\ NoLostWaiter'
  <1>0. c \in Procs
    BY DEF Procs, Callers
  <1>1. CASE CancelRunning(c, t, rest)
    <2> DEFINE X == <<CancelRun(runCancels[t]), CancelKids(parentChildren[t]), WaitFor(t)>>
    <2>1. X \in Seq(Errands)
      BY DEF TypeOK, RunTypes, LinkTypes, CancelRun, CancelKids, WaitFor, Errands
    <2>2. todo' = [todo EXCEPT ![c] = X \o rest] /\ UNCHANGED <<status, waiters, inbox>> /\ status[t] = "running"
      BY <1>1 DEF CancelRunning, Busy, tasks
    <2>3. Clean(X)
      BY <2>2 DEF Clean, CancelRun, CancelKids, WaitFor
    <2> HIDE DEF X
    <2>4. X \o rest \in Seq(Errands) /\ Clean(X \o rest) /\ Carries(X \o rest, todo[c])
      BY <2>1, <2>3, CleanParts
    <2> QED BY <1>0, <2>2, <2>4, WaitersKept DEF Live
  <1>2. CASE CancelKilled(c, t, rest)
    <2> DEFINE X == <<CancelKids(parentChildren[t])>>
    <2>1. X \in Seq(Errands)
      BY DEF TypeOK, LinkTypes, CancelKids, Errands
    <2>2. todo' = [todo EXCEPT ![c] = X \o rest] /\ UNCHANGED <<status, waiters, inbox>>
      BY <1>2 DEF CancelKilled, Busy, tasks
    <2>3. Clean(X)
      BY DEF Clean, CancelKids
    <2> HIDE DEF X
    <2>4. X \o rest \in Seq(Errands) /\ Clean(X \o rest) /\ Carries(X \o rest, todo[c])
      BY <2>1, <2>3, CleanParts
    <2> QED BY <1>0, <2>2, <2>4, WaitersKept DEF Live
  <1>3. CASE CancelPending(c, t, rest)
    <2> DEFINE Y == <<CancelKids(parentChildren[t]), Notify(waiters[t], ResultOf(t))>>
    <2>1. PICK order \in Orders(subscribers[t]) :
            todo' = [todo EXCEPT ![c] = Announce(t, order) \o Y \o rest]
      BY <1>3 DEF CancelPending, Busy
    <2>2. ResultOf(t) \in Result
      BY <1>3 DEF CancelPending, SetTask, ResultOf, Result, Terminal, Codes, TypeOK, TableTypes
    <2>3. Y \in Seq(Errands)
      BY <2>2 DEF TypeOK, LinkTypes, WaitTypes, CancelKids, Notify, Errands
    <2>4. Clean(Y)
      BY DEF Clean, CancelKids, Notify
    <2>5. ASSUME NEW d \in waiters[t] PROVE Wakes(Y, d)
      <3>1. Len(Y) = 2 /\ Y[2] = Notify(waiters[t], ResultOf(t))
        OBVIOUS
      <3> HIDE DEF Y
      <3>2. 2 \in 1 .. Len(Y) /\ Y[2].do = "notify" /\ Y[2].who = waiters[t]
        BY <3>1 DEF Notify
      <3> QED BY <2>5, <3>2 DEF Wakes
    <2> HIDE DEF Y
    <2>6. Announce(t, order) \in Seq(Errands) /\ Clean(Announce(t, order))
      BY AnnounceClean
    <2>7. /\ Y \o rest \in Seq(Errands) /\ Clean(Y \o rest) /\ Carries(Y \o rest, todo[c])
          /\ \A d \in waiters[t] : Wakes(Y \o rest, d)
      BY <2>3, <2>4, <2>5, CleanParts
    <2> DEFINE r == Announce(t, order) \o (Y \o rest)
    <2>8. r \in Seq(Errands) /\ Clean(r) /\ Carries(r, todo[c]) /\ \A d \in waiters[t] : Wakes(r, d)
      BY <2>6, <2>7, CleanParts
    <2>9. Announce(t, order) \o Y \o rest = r
      BY <2>3, <2>6, ConcatAssociative
    <2> HIDE DEF r
    <2>10. /\ todo' = [todo EXCEPT ![c] = r] /\ UNCHANGED inbox
           /\ waiters' = [waiters EXCEPT ![t] = {}] /\ status' = [status EXCEPT ![t] = "killed"]
      BY <1>3, <2>1, <2>9 DEF CancelPending, SetTask
    <2>11. ASSUME NEW k \in Tasks, NEW d \in waiters[k], Live(k)
           PROVE  (d \in waiters'[k] /\ Live(k)') \/ Wakes(r, d)
      BY <2>8, <2>10, <2>11 DEF Live, TypeOK, TableTypes, WaitTypes
    <2> QED BY <1>0, <2>8, <2>10, <2>11, WaitersKept
  <1> QED BY <1>1, <1>2, <1>3 DEF Cancels

\* An attempt or a call that announces the change of a task that was not live, or stays so.
LEMMA WaitersAnnounce ==
  ASSUME TypeOK, TypeOK', ErrandsFit, NoLostWaiter, NeverAbsent, NEW p \in Procs, todo[p] = <<>>,
         NEW t \in Tasks, NEW order \in Orders(subscribers[t]),
         todo' = [todo EXCEPT ![p] = Announce(t, order)], UNCHANGED <<waiters, inbox>>,
         NEW to \in {"pending", "running"}, status' = [status EXCEPT ![t] = to]
  PROVE  ErrandsFit' /\ NoLostWaiter'
  <1>1. Announce(t, order) \in Seq(Errands) /\ Clean(Announce(t, order))
    BY AnnounceClean
  <1>2. Carries(Announce(t, order), todo[p])
    BY DEF Carries
  <1>3. ASSUME NEW k \in Tasks, Live(k) PROVE Live(k)'
    BY <1>3 DEF Live, TypeOK, TableTypes
  <1> QED BY <1>1, <1>2, <1>3, WaitersKept

\* A goroutine ends t, and has its waiters to wake.
LEMMA WaitersEnded ==
  ASSUME TypeOK, TypeOK', ErrandsFit, NoLostWaiter, NeverAbsent, NEW p \in Procs, todo[p] = <<>>,
         NEW t \in Tasks, NEW before \in Seq(Errands), Clean(before), ResultOf(t) \in Result,
         todo' = [todo EXCEPT ![p] = before \o <<Notify(waiters[t], ResultOf(t))>>],
         UNCHANGED inbox, waiters' = [waiters EXCEPT ![t] = {}],
         \A k \in Tasks \ {t} : status'[k] = status[k]
  PROVE  ErrandsFit' /\ NoLostWaiter'
  <1> DEFINE Y == <<Notify(waiters[t], ResultOf(t))>>
             r == before \o Y
  <1>1. Y \in Seq(Errands)
    BY DEF TypeOK, WaitTypes, Notify, Errands
  <1>2. Clean(Y)
    BY DEF Clean, Notify
  <1>3. ASSUME NEW d \in waiters[t] PROVE Wakes(Y, d)
    <2>1. Len(Y) = 1 /\ Y[1] = Notify(waiters[t], ResultOf(t))
      OBVIOUS
    <2> HIDE DEF Y
    <2>2. 1 \in 1 .. Len(Y) /\ Y[1].do = "notify" /\ Y[1].who = waiters[t]
      BY <2>1 DEF Notify
    <2> QED BY <1>3, <2>2 DEF Wakes
  <1> HIDE DEF Y
  <1>4. r \in Seq(Errands) /\ Clean(r) /\ \A d \in waiters[t] : Wakes(r, d)
    BY <1>1, <1>2, <1>3, CleanParts
  <1>5. Carries(r, todo[p])
    BY DEF Carries
  <1>6. todo' = [todo EXCEPT ![p] = r]
    BY DEF Y
  <1> HIDE DEF r
  <1>7. ASSUME NEW k \in Tasks, NEW d \in waiters[k], Live(k)
        PROVE  (d \in waiters'[k] /\ Live(k)') \/ Wakes(r, d)
    BY <1>4, <1>7 DEF Live, TypeOK, WaitTypes
  <1> QED BY <1>4, <1>5, <1>6, <1>7, WaitersKept

LEMMA WaitersNotified ==
  ASSUME TypeOK, ErrandsFit, NoLostWaiter, NeverAbsent, NEW p \in Procs, NotifyWaiters(p)
  PROVE  ErrandsFit' /\ NoLostWaiter'
  <1> DEFINE x == todo[p]
  <1>1. /\ x # <<>> /\ Head(x).do = "notify" /\ Head(x).result \in Result
        /\ x \in Seq(Errands) /\ Head(x) = x[1] /\ Len(x) \in Nat
    <2>1. x # <<>> /\ Head(x).do = "notify" /\ x \in Seq(Errands)
      BY DEF NotifyWaiters, At, TypeOK
    <2>2. Head(x) \in Errands /\ Head(x) = x[1] /\ Len(x) \in Nat
      BY <2>1, HeadTailProperties, LenProperties
    <2> QED BY <2>1, <2>2, ErrandFields
  <1>2. /\ todo'[p] = Tail(x) /\ \A q \in Procs : q # p => todo'[q] = todo[q]
        /\ \A c \in Calls : inbox'[c] = IF c \in Head(x).who THEN Head(x).result ELSE inbox[c]
        /\ UNCHANGED <<status, waiters>>
    BY DEF NotifyWaiters, TypeOK, tasks
  <1>3. None \notin Result
    BY ResultsAssumption
  <1>4. Clean(Tail(x)) /\ Tail(x) \in Seq(Errands)
    BY <1>1, CleanTail
  <1>5. \A q \in Procs : \A i \in 1 .. Len(todo[q]) : todo[q][i].do \in {"wait", "blocked"} => todo[q][i].task \in Tasks
    BY ElementOfSeq, ErrandFields DEF TypeOK
  <1>6. ErrandsFit'
    <2> SUFFICES ASSUME NEW q \in Procs, NEW i \in 1 .. Len(todo'[q])
                 PROVE  /\ todo'[q][i].do = "blocked" => i = 1
                        /\ todo'[q][i].do = "wait" => status'[todo'[q][i].task] # "absent"
      BY DEF ErrandsFit
    <2>1. CASE q # p
      BY <1>2, <2>1 DEF ErrandsFit
    <2>2. CASE q = p
      BY <1>2, <1>4, <2>2 DEF Clean
    <2> QED BY <2>1, <2>2
  <1>7. ASSUME NEW c \in Calls, At(c, "blocked")' PROVE Expected(c)'
    <2>0. c \in Procs
      BY DEF Procs, Callers
    <2>1. c # p
      <3> SUFFICES ASSUME c = p PROVE FALSE
        OBVIOUS
      <3>1. Tail(x) # <<>> /\ Head(Tail(x)).do = "blocked"
        BY <1>2, <1>7 DEF At
      <3>2. Head(Tail(x)) = Tail(x)[1] /\ 1 \in 1 .. Len(Tail(x))
        BY <1>4, <3>1
      <3> QED BY <1>4, <3>1, <3>2 DEF Clean
    <2>2. todo'[c] = todo[c] /\ At(c, "blocked")
      BY <1>2, <1>7, <2>0, <2>1 DEF At
    <2>3. CASE inbox[c] # None \/ c \in Head(x).who
      BY <1>1, <1>2, <1>3, <2>3 DEF Expected
    <2>4. CASE c \in waiters[Head(todo[c]).task] /\ Live(Head(todo[c]).task)
      BY <1>2, <2>2, <2>4 DEF Expected, Live
    <2>5. ASSUME NEW q \in Procs, NEW i \in 1 .. Len(todo[q]), todo[q][i].do = "notify", c \in todo[q][i].who,
                 c \notin Head(x).who
          PROVE  Expected(c)'
      <3>1. CASE q = p
        <4>1. i # 1
          BY <1>1, <2>5, <3>1
        <4>2. i - 1 \in 1 .. Len(Tail(x)) /\ Tail(x)[i - 1] = x[i]
          BY <1>1, <2>5, <3>1, <4>1
        <4>3. i - 1 \in 1 .. Len(todo'[p]) /\ todo'[p][i - 1].do = "notify" /\ c \in todo'[p][i - 1].who
          BY <1>2, <2>5, <3>1, <4>2
        <4> QED BY <4>3 DEF Expected, Wakes
      <3>2. CASE q # p
        BY <1>2, <2>5, <3>2 DEF Expected, Wakes
      <3> QED BY <3>1, <3>2
    <2> QED BY <2>2, <2>3, <2>4, <2>5, WaitersExpected DEF Expected, Wakes
  <1>8. NoLostWaiter' <=> \A c \in Calls : At(c, "blocked")' => Expected(c)'
    BY DEF NoLostWaiter, Expected, Wakes
  <1> QED BY <1>6, <1>7, <1>8

\* c registers with a task that lives, and is blocked.
LEMMA WaitersRegistered ==
  ASSUME TypeOK, ErrandsFit, NoLostWaiter, NeverAbsent, NEW c \in Calls, WaitRegistered(c)
  PROVE  ErrandsFit' /\ NoLostWaiter'
  <1>0. c \in Procs
    BY DEF Procs, Callers
  <1>1. PICK t \in Tasks : t = Head(todo[c]).task
    BY <1>0, NextErrand, ErrandFields DEF WaitRegistered, TypeOK
  <1> DEFINE x == todo[c]
             r == <<Blocked(t)>> \o Tail(x)
  <1>2. /\ x # <<>> /\ Head(x).do = "wait" /\ x \in Seq(Errands) /\ Head(x) = x[1] /\ Len(x) \in Nat /\ 1 \in 1 .. Len(x)
    BY <1>0 DEF WaitRegistered, At, TypeOK
  <1>3. /\ todo'[c] = r /\ \A q \in Procs : q # c => todo'[q] = todo[q]
        /\ waiters' = [waiters EXCEPT ![t] = @ \cup {c}]
        /\ \A d \in Calls : d # c => inbox'[d] = inbox[d]
        /\ UNCHANGED status /\ ~ IsTerminal(status[t])
    BY <1>0, <1>1 DEF WaitRegistered, TypeOK, WaitTypes, tasks
  <1>4. Live(t)
    <2>1. status[t] # "absent" /\ status[t] \in Statuses
      BY <1>0, <1>1, <1>2 DEF ErrandsFit, TypeOK, TableTypes
    <2> QED BY <1>3, <2>1 DEF Live, IsTerminal, Terminal, Statuses
  <1>5. /\ Clean(Tail(x)) /\ Tail(x) \in Seq(Errands) /\ Len(Tail(x)) = Len(x) - 1
        /\ Carries(Tail(x), x)
    <2>1. ~ At(c, "notify")
      BY <1>2 DEF At
    <2> QED BY <1>0, <1>2, <2>1, CleanTail
  <1>6. /\ r # <<>> /\ Head(r) = Blocked(t) /\ Len(r) = Len(x) /\ r[1] = Blocked(t)
        /\ \A i \in 2 .. Len(r) : i - 1 \in 1 .. Len(Tail(x)) /\ r[i] = Tail(x)[i - 1]
        /\ \A i \in 1 .. Len(Tail(x)) : i + 1 \in 1 .. Len(r) /\ r[i + 1] = Tail(x)[i]
    <2>1. <<Blocked(t)>> \in Seq(Errands)
      BY DEF Blocked, Errands
    <2> QED BY <1>2, <1>5, <2>1
  <1>7. \A q \in Procs : \A i \in 1 .. Len(todo[q]) : todo[q][i].do \in {"wait", "blocked"} => todo[q][i].task \in Tasks
    BY ElementOfSeq, ErrandFields DEF TypeOK
  <1> HIDE DEF r, x
  <1>8. ErrandsFit'
    <2> SUFFICES ASSUME NEW q \in Procs, NEW i \in 1 .. Len(todo'[q])
                 PROVE  /\ todo'[q][i].do = "blocked" => i = 1
                        /\ todo'[q][i].do = "wait" => status'[todo'[q][i].task] # "absent"
      BY DEF ErrandsFit
    <2>1. CASE q # c
      BY <1>3, <2>1 DEF ErrandsFit
    <2>2. CASE q = c /\ i = 1
      BY <1>3, <1>6, <2>2 DEF Blocked
    <2>3. CASE q = c /\ i # 1
      <3>1. i \in 2 .. Len(r)
        BY <1>2, <1>3, <1>6, <2>3
      <3>2. i - 1 \in 1 .. Len(Tail(x)) /\ todo'[q][i] = Tail(x)[i - 1]
        BY <1>3, <1>6, <2>3, <3>1
      <3> QED BY <1>5, <3>2 DEF Clean
    <2> QED BY <2>1, <2>2, <2>3
  <1>9. ASSUME NEW d \in Calls, At(d, "blocked")' PROVE Expected(d)'
    <2>0. d \in Procs
      BY DEF Procs, Callers
    <2>1. CASE d = c
      <3>1. Head(todo'[c]).task = t
        BY <1>3, <1>6 DEF Blocked
      <3>2. c \in waiters'[t] /\ Live(t)'
        BY <1>3, <1>4 DEF Live, TypeOK, WaitTypes
      <3> QED BY <2>1, <3>1, <3>2 DEF Expected
    <2>2. CASE d # c
      <3>1. todo'[d] = todo[d] /\ At(d, "blocked") /\ inbox'[d] = inbox[d]
        BY <1>3, <1>9, <2>0, <2>2 DEF At
      <3>2. CASE inbox[d] # None
        BY <3>1, <3>2 DEF Expected
      <3>3. CASE d \in waiters[Head(todo[d]).task] /\ Live(Head(todo[d]).task)
        <4>1. PICK k \in Tasks : k = Head(todo[d]).task
          BY <2>0, <3>1, NextErrand, ErrandFields DEF TypeOK
        <4>2. d \in waiters'[k] /\ Live(k)'
          BY <1>3, <3>3, <4>1 DEF Live, TypeOK, WaitTypes
        <4> QED BY <3>1, <4>1, <4>2 DEF Expected
      <3>4. ASSUME NEW q \in Procs, NEW i \in 1 .. Len(todo[q]), todo[q][i].do = "notify", d \in todo[q][i].who
            PROVE  Expected(d)'
        <4>1. CASE q # c
          BY <1>3, <3>4, <4>1 DEF Expected, Wakes
        <4>2. CASE q = c
          <5>1. PICK j \in 1 .. Len(Tail(x)) : Tail(x)[j] = todo[q][i]
            BY <1>5, <3>4, <4>2 DEF Carries, x
          <5>2. j + 1 \in 1 .. Len(todo'[c]) /\ todo'[c][j + 1] = todo[q][i]
            BY <1>3, <1>6, <5>1
          <5> QED BY <1>0, <3>4, <5>2 DEF Expected, Wakes
        <4> QED BY <4>1, <4>2
      <3> QED BY <3>1, <3>2, <3>3, <3>4, WaitersExpected DEF Expected, Wakes
    <2> QED BY <2>1, <2>2
  <1>10. NoLostWaiter' <=> \A d \in Calls : At(d, "blocked")' => Expected(d)'
    BY DEF NoLostWaiter, Expected, Wakes
  <1> QED BY <1>8, <1>9, <1>10

LEMMA WaitStep ==
  ASSUME Expiring \cap Calls = {}
  PROVE  TypeOK /\ TypeOK' /\ AttemptsInOrder /\ WaitInv /\ [Next]_vars => WaitInv'
  <1> SUFFICES ASSUME TypeOK, TypeOK', AttemptsInOrder, WaitInv, [Next]_vars
               PROVE  ErrandsFit' /\ NoLostWaiter'
    BY IdleStep, StaysSubmitted, SubmittedStep DEF WaitInv
  <1> USE DEF tasks, runs, log, conns, calls
  <1> DEFINE Kept == ErrandsFit' /\ NoLostWaiter'
  <1>0. /\ NeverAbsent /\ IdleFit /\ ErrandsFit /\ NoLostWaiter
        /\ \A c \in Calls : c \in Callers /\ c \in Procs
        /\ \A t \in Tasks : t \in Callers /\ t \in Procs
        /\ \A g \in Goroutines : g \in Procs /\ g[1] \in Tasks
        /\ <<>> \in Seq(Errands) /\ Clean(<<>>) /\ \A p \in Procs : todo[p] = <<>> => Carries(<<>>, todo[p])
    <2>1. Clean(<<>>) /\ \A p \in Procs : todo[p] = <<>> => Carries(<<>>, todo[p])
      BY DEF Clean, Carries
    <2> QED BY <2>1, GoroutineNames, StaysSubmitted, EmptySeq DEF Callers, Procs, WaitInv
  <1>1. ASSUME UNCHANGED <<status, waiters, todo, inbox>> PROVE Kept
    BY <1>0, <1>1 DEF ErrandsFit, NoLostWaiter, At, Live
  <1>2. ASSUME NEW t \in Tasks, NEW parent \in Tasks \cup {None}, Submit(t, parent) PROVE Kept
    <2>1. PICK order \in Orders(subscribers[t]) : todo' = [todo EXCEPT ![t] = Announce(t, order)]
      BY <1>2 DEF Submit, Busy
    <2>2. /\ status' = [status EXCEPT ![t] = "pending"] /\ UNCHANGED <<waiters, inbox>> /\ todo[t] = <<>>
      BY <1>0, <1>2 DEF Submit, SetTask, IdleFit
    <2> QED BY <1>0, <2>1, <2>2, WaitersAnnounce
  <1>3. ASSUME NEW c \in Callers, Enqueue(c) PROVE Kept
    BY <1>1, <1>3 DEF Enqueue
  <1>4. ASSUME NEW c \in Calls, Return(c) \/ Refuse(c) PROVE Kept
    BY <1>1, <1>4 DEF Return, Refuse
  <1>5. ASSUME NEW c \in Calls, NEW t \in Tasks, Retry(c, t) PROVE Kept
    <2>1. PICK order \in Orders(subscribers[t]) : todo' = [todo EXCEPT ![c] = Announce(t, order)]
      BY <1>5 DEF Retry, Busy
    <2>2. /\ status' = [status EXCEPT ![t] = "pending"] /\ UNCHANGED <<waiters, inbox>> /\ todo[c] = <<>>
      BY <1>0, <1>5 DEF Retry, SetTask, IdleFit
    <2> QED BY <1>0, <2>1, <2>2, WaitersAnnounce
  <1>6. ASSUME NEW c \in Calls, NEW t \in Tasks, Cancel(c, t) PROVE Kept
    <2>1. todo[c] = <<>>
      BY <1>0, <1>6 DEF Cancel, IdleFit
    <2> QED BY <1>0, <1>6, <2>1, WaitersCancel DEF Cancel
  \* What is left of c's errands when it takes up the child k.
  <1>7. ASSUME NEW c \in Calls, NEW k \in Tasks, At(c, "cancelkids"), k \in Head(todo[c]).kids
        PROVE  OtherKids(c, k) \in Seq(Errands) /\ Clean(OtherKids(c, k)) /\ Carries(OtherKids(c, k), todo[c])
    <2>1. ~At(c, "notify") /\ todo[c] # <<>>
      BY <1>7 DEF At
    <2>2. Tail(todo[c]) \in Seq(Errands) /\ Clean(Tail(todo[c])) /\ Carries(Tail(todo[c]), todo[c])
      BY <1>0, <2>1, CleanTail
    <2>3. Head(todo[c]) \in Errands /\ Head(todo[c]).do = "cancelkids"
      BY <1>0, <1>7, NextErrand DEF TypeOK
    <2>4. Head(todo[c]).kids \ {k} \in SUBSET Tasks
      BY <2>3, ErrandFields
    <2>5. <<CancelKids(Head(todo[c]).kids \ {k})>> \in Seq(Errands)
      BY <2>4 DEF CancelKids, Errands
    <2>6. Clean(<<CancelKids(Head(todo[c]).kids \ {k})>>)
      BY DEF Clean, CancelKids
    <2> QED BY <2>2, <2>5, <2>6, CleanParts DEF OtherKids
  <1>8. ASSUME NEW c \in Calls, NEW k \in Tasks, CancelChild(c, k) PROVE Kept
    BY <1>0, <1>7, <1>8, WaitersCancel DEF CancelChild
  <1>9. ASSUME NEW c \in Calls, NEW k \in Tasks, SkipChild(c, k) PROVE Kept
    <2>1. OtherKids(c, k) \in Seq(Errands) /\ Clean(OtherKids(c, k)) /\ Carries(OtherKids(c, k), todo[c])
      BY <1>7, <1>9 DEF SkipChild
    <2>2. todo' = [todo EXCEPT ![c] = OtherKids(c, k)] /\ UNCHANGED <<status, waiters, inbox>>
      BY <1>9 DEF SkipChild
    <2> QED BY <1>0, <2>1, <2>2, WaitersKept DEF Live
  <1>10. ASSUME NEW c \in Calls, ChildrenDone(c) PROVE Kept
    BY <1>0, <1>10, WaitersTail DEF ChildrenDone
  <1>11. ASSUME NEW c \in Calls, CancelTheRun(c) PROVE Kept
    BY <1>0, <1>11, WaitersTail DEF CancelTheRun
  <1>12. ASSUME NEW c \in Calls, NEW t \in Tasks, Wait(c, t) PROVE Kept
    <2>1. /\ todo[c] = <<>> /\ todo' = [todo EXCEPT ![c] = <<WaitFor(t)>>] /\ UNCHANGED <<status, waiters, inbox>>
          /\ pc[t] # "idle"
      BY <1>0, <1>12 DEF Wait, Busy, IdleFit, Known
    <2>2. status'[t] # "absent"
      BY <2>1 DEF WaitInv, Submitted
    <2>3. Clean(<<WaitFor(t)>>) /\ <<WaitFor(t)>> \in Seq(Errands)
      BY <2>2 DEF Clean, WaitFor, Errands
    <2>4. Carries(<<WaitFor(t)>>, todo[c])
      BY <2>1 DEF Carries
    <2> QED BY <1>0, <2>1, <2>3, <2>4, WaitersKept DEF Live
  <1>13. ASSUME NEW c \in Calls, WaitAnswered(c) PROVE Kept
    <2>1. \A d \in Calls : d # c => inbox'[d] = inbox[d]
      BY <1>13 DEF WaitAnswered, TypeOK, WaitTypes
    <2> QED BY <1>0, <1>13, <2>1, WaitersTail DEF WaitAnswered
  <1>14. ASSUME NEW c \in Calls, WaitRegistered(c) PROVE Kept
    BY <1>0, <1>14, WaitersRegistered
  <1>15. ASSUME NEW c \in Calls, WaitWoken(c) PROVE Kept
    BY <1>0, <1>15, WaitersTail DEF WaitWoken
  <1>16. ASSUME NEW c \in Calls, WaitExpired(c) PROVE Kept
    BY <1>16 DEF WaitExpired
  <1>17. ASSUME NEW p \in Procs, ErrandStep(p) PROVE Kept
    <2>1. CASE NotifyWaiters(p)
      BY <1>0, <2>1, WaitersNotified
    <2>2. CASE PersistEvent(p)
      BY <1>0, <2>2, WaitersTail DEF PersistEvent
    <2>3. CASE PublishTo(p)
      BY <1>0, <2>3, WaitersTail DEF PublishTo
    <2> QED BY <1>17, <2>1, <2>2, <2>3 DEF ErrandStep
  <1>18. ASSUME NEW g \in Goroutines, AttemptUnwired(g) PROVE Kept
    <2> DEFINE t == g[1]
               Y == <<Notify(waiters[t], ResultOf(t))>>
    <2>1. /\ todo[g] = <<>> /\ todo' = [todo EXCEPT ![g] = Y]
          /\ UNCHANGED inbox /\ waiters' = [waiters EXCEPT ![t] = {}]
          /\ status' = [status EXCEPT ![t] = "failed"]
      BY <1>0, <1>18 DEF AttemptUnwired, SetTask, IdleFit
    <2>2. ResultOf(t) \in Result
      BY <1>0, <1>18 DEF AttemptUnwired, SetTask, ResultOf, Result, Terminal, Codes, TypeOK, TableTypes
    <2>3. Y \in Seq(Errands)
      BY <1>0, <2>2 DEF Notify, Errands, TypeOK, WaitTypes
    <2> HIDE DEF Y
    <2>4. Y = <<>> \o Y
      BY <2>3, ConcatEmptySeq
    <2>5. todo' = [todo EXCEPT ![g] = <<>> \o Y]
      BY <2>1, <2>4
    <2>6. \A k \in Tasks \ {t} : status'[k] = status[k]
      BY <1>0, <2>1 DEF TypeOK, TableTypes
    <2> QED BY <1>0, <2>1, <2>2, <2>5, <2>6, WaitersEnded DEF Y
  <1>19. ASSUME NEW g \in Goroutines, AttemptTooLate(g) PROVE Kept
    BY <1>1, <1>19 DEF AttemptTooLate
  <1>20. ASSUME NEW g \in Goroutines, AttemptStart(g) PROVE Kept
    <2> DEFINE t == g[1]
    <2>1. PICK order \in Orders(subscribers[t]) : todo' = [todo EXCEPT ![g] = Announce(t, order)]
      BY <1>20 DEF AttemptStart
    <2>2. /\ status' = [status EXCEPT ![t] = "running"] /\ UNCHANGED <<waiters, inbox>> /\ todo[g] = <<>>
      BY <1>0, <1>20 DEF AttemptStart, SetTask, IdleFit
    <2> QED BY <1>0, <2>1, <2>2, WaitersAnnounce
  <1>21. ASSUME NEW g \in Goroutines, NEW o \in Outcomes, AttemptFinish(g, o) PROVE Kept
    <2> DEFINE t == g[1]
    <2>1. PICK order \in Orders(subscribers[t]) :
            todo' = [todo EXCEPT ![g] = Announce(t, order) \o <<Notify(waiters[t], ResultOf(t))>>]
      BY <1>21 DEF AttemptFinish
    <2>2. o.status \in Terminal /\ o.code \in Codes
      BY <1>21, OutcomeTypes
    <2>3. ResultOf(t) \in Result
      BY <1>0, <1>21, <2>2 DEF AttemptFinish, SetTask, ResultOf, Result, TypeOK, TableTypes
    <2>4. /\ todo[g] = <<>> /\ UNCHANGED inbox /\ waiters' = [waiters EXCEPT ![t] = {}]
          /\ status' = [status EXCEPT ![t] = o.status]
      BY <1>21 DEF AttemptFinish, SetTask
    <2>5. \A k \in Tasks \ {t} : status'[k] = status[k]
      BY <1>0, <2>4 DEF TypeOK, TableTypes
    <2>6. Announce(t, order) \in Seq(Errands) /\ Clean(Announce(t, order))
      BY <1>0, AnnounceClean
    <2> QED BY <1>0, <2>1, <2>3, <2>4, <2>5, <2>6, WaitersEnded
  <1>22. ASSUME NEW s \in Subs, \/ \E t \in Tasks : Stream(s, t)
                                \/ StreamCtxDone(s) \/ StreamerStep(s)
         PROVE  Kept
    BY <1>1, <1>22
    DEF Stream, StreamCtxDone, StreamerStep, Deliver, HistoryDone, Receive, CloseStream,
        StreamStep
  <1>23. ASSUME NEW t \in Tasks, RegisterExecution(t) \/ UnregisterExecution(t) PROVE Kept
    BY <1>1, <1>23 DEF RegisterExecution, UnregisterExecution
  <1>24. CASE UNCHANGED vars
    BY <1>1, <1>24 DEF vars
  <1> QED
    BY <1>0, <1>2, <1>3, <1>4, <1>5, <1>6, <1>8, <1>9, <1>10, <1>11, <1>12, <1>13, <1>14, <1>15, <1>16,
       <1>17, <1>18, <1>19, <1>20, <1>21, <1>22, <1>23, <1>24
    DEF Next, Environment, Work, CallStep, AttemptStep, RetryRefused, CancelRefused

\* Whoever is blocked in Wait is in the table of a task that lives, or its
\* result is on the way, however calls, retries and cancellations interleave -
\* as long as the contexts of the callers do not end.
THEOREM NoWaiterLost ==
  ASSUME Expiring \cap Calls = {}
  PROVE  SafeSpec => []NoLostWaiter
  <1>1. Init => TypeOK /\ AttemptsInOrder
    BY TypeInit, AttemptsInit
  <1>2. Init => WaitInv
    <2> SUFFICES ASSUME Init PROVE WaitInv
      OBVIOUS
    <2>1. \A p \in Procs : todo[p] = <<>> /\ Len(todo[p]) = 0
      BY DEF Init
    <2>2. \A t \in Tasks : pc[t] = "idle"
      BY DEF Init, Callers
    <2>3. IdleFit
      BY ErrandsInit DEF ErrandsInv
    <2> QED BY <2>1, <2>2, <2>3 DEF WaitInv, Submitted, ErrandsFit, NoLostWaiter, At, Procs, Callers
  <1>3. TypeOK /\ AttemptsInOrder /\ [Next]_vars => TypeOK' /\ AttemptsInOrder'
    BY TypeStep, AttemptsStep
  <1>4. TypeOK /\ TypeOK' /\ AttemptsInOrder /\ WaitInv /\ [Next]_vars => WaitInv'
    BY WaitStep
  <1>5. WaitInv => NoLostWaiter
    BY DEF WaitInv
  <1> QED BY <1>1, <1>2, <1>3, <1>4, <1>5, PTL DEF SafeSpec
=============================================================================
