------------------------ MODULE SubAgentQuotaProofs ------------------------
(***************************************************************************)
(* The slots of a quota key are accounted for, and never overrun, whatever *)
(* the tasks, the keys and the limits.                                     *)
(***************************************************************************)
EXTENDS SubAgentQuota, FiniteSetTheorems, TLAPS

Roles == {"watcher", "caller"}

\* What the task manager's steps do to a task's type.
LEMMA ManagerTypes ==
  ASSUME TypeOK, NEW t \in Tasks,
         TaskManager!Submit(t) \/ TaskManager!Progress(t) \/ TaskManager!Retry(t)
  PROVE  /\ status' \in [Tasks -> TaskManager!Statuses]
         /\ attempt' \in [Tasks -> 0 .. MaxRetries]
  <1>1. CASE TaskManager!Retry(t)
    <2>1. attempt[t] \in 0 .. MaxRetries  BY DEF TypeOK
    <2>2. attempt[t] + 1 \in 0 .. MaxRetries
      BY <1>1, <2>1, RetriesAssumption DEF TaskManager!Retry
    <2> QED BY <1>1, <2>2 DEF TypeOK, TaskManager!Retry, TaskManager!Statuses
  <1>2. CASE TaskManager!Submit(t)
    BY <1>2 DEF TypeOK, TaskManager!Submit, TaskManager!Move, TaskManager!Statuses
  <1>3. CASE TaskManager!Progress(t)
    BY <1>3 DEF TypeOK, TaskManager!Progress, TaskManager!Start, TaskManager!Discard,
                TaskManager!Finish, TaskManager!Move, TaskManager!Statuses, TaskManager!Terminal
  <1> QED BY <1>1, <1>2, <1>3

\* The holders of a key are finitely many.
LEMMA HoldersFinite ==
  ASSUME NEW k \in Keys
  PROVE  IsFiniteSet(Holders(k)) /\ Cardinality(Holders(k)) \in Nat
  <1>1. Holders(k) \subseteq Tasks  BY DEF Holders
  <1> QED BY <1>1, TasksAssumption, FS_Subset, FS_CardinalityType

\* A step that changes neither who holds a slot nor the counts.
LEMMA SameHolders ==
  ASSUME SlotsAccounted, inUse' = inUse, \A t \in Tasks : Holding(t)' = Holding(t),
         NEW k \in Keys
  PROVE  inUse'[k] = Cardinality(Holders(k)')
  <1>1. Holders(k)' = Holders(k)  BY DEF Holders
  <1> QED BY <1>1 DEF SlotsAccounted

\* A step in which t gets a slot.
LEMMA OneMoreHolder ==
  ASSUME SlotsAccounted, NEW t \in Tasks, ~Holding(t), Holding(t)',
         inUse' = [inUse EXCEPT ![KeyOf[t]] = @ + 1],
         \A u \in Tasks \ {t} : Holding(u)' = Holding(u),
         NEW k \in Keys
  PROVE  inUse'[k] = Cardinality(Holders(k)') /\ inUse'[k] \in Nat
  <1>1. inUse[k] = Cardinality(Holders(k)) /\ inUse \in [Keys -> Nat]
    BY DEF SlotsAccounted, TypeOK
  <1>2. CASE k = KeyOf[t]
    <2>1. Holders(k)' = Holders(k) \cup {t} /\ t \notin Holders(k)  BY <1>2 DEF Holders
    <2>2. Cardinality(Holders(k) \cup {t}) = Cardinality(Holders(k)) + 1
      BY <2>1, HoldersFinite, FS_AddElement
    <2>3. inUse'[k] = inUse[k] + 1  BY <1>1, <1>2
    <2> QED BY <1>1, <2>1, <2>2, <2>3, HoldersFinite
  <1>3. CASE k # KeyOf[t]
    <2>1. Holders(k)' = Holders(k)  BY <1>3 DEF Holders
    <2> QED BY <1>1, <1>3, <2>1
  <1> QED BY <1>2, <1>3

\* A step in which t gives its slot back.
LEMMA OneHolderLess ==
  ASSUME SlotsAccounted, NEW t \in Tasks, Holding(t), ~(Holding(t)'), Release(KeyOf[t]),
         \A u \in Tasks \ {t} : Holding(u)' = Holding(u),
         NEW k \in Keys
  PROVE  inUse'[k] = Cardinality(Holders(k)') /\ inUse'[k] \in Nat
  <1>1. inUse[k] = Cardinality(Holders(k)) /\ inUse \in [Keys -> Nat]
    BY DEF SlotsAccounted, TypeOK
  <1>2. CASE k = KeyOf[t]
    <2>1. Holders(k)' = Holders(k) \ {t} /\ t \in Holders(k)  BY <1>2 DEF Holders
    <2>2. Cardinality(Holders(k) \ {t}) = Cardinality(Holders(k)) - 1
      BY <2>1, HoldersFinite, FS_RemoveElement
    <2>3. IsFiniteSet(Holders(k) \ {t})  BY HoldersFinite, FS_RemoveElement
    <2>4. Cardinality(Holders(k) \ {t}) \in Nat  BY <2>3, FS_CardinalityType
    <2>5. inUse'[k] = IF inUse[k] <= 1 THEN 0 ELSE inUse[k] - 1  BY <1>1, <1>2 DEF Release
    <2>6. inUse[k] \in Nat  BY <1>1
    <2> QED BY <1>1, <2>1, <2>2, <2>4, <2>5, <2>6
  <1>3. CASE k # KeyOf[t]
    <2>1. Holders(k)' = Holders(k)  BY <1>3 DEF Holders
    <2> QED BY <1>1, <1>3, <2>1 DEF Release
  <1> QED BY <1>2, <1>3

\* The invariant holds before the first Spawn.
LEMMA AccountsInit == Init => SlotsAccounted
  <1> SUFFICES ASSUME Init PROVE SlotsAccounted  OBVIOUS
  <1>1. TypeOK
    BY RetriesAssumption DEF Init, TypeOK, TaskManager!Init, TaskManager!Statuses
  <1>2. ASSUME NEW t \in Tasks PROVE OneSlot(t) /\ ~Holding(t)
    BY DEF Init, OneSlot, Holding, Givers
  <1>3. ASSUME NEW k \in Keys PROVE inUse[k] = Cardinality(Holders(k))
    <2>1. Holders(k) = {}  BY <1>2 DEF Holders
    <2> QED BY <2>1, FS_EmptySet DEF Init
  <1> QED BY <1>1, <1>2, <1>3 DEF SlotsAccounted

\* Every step keeps it.
LEMMA AccountsKept == SlotsAccounted /\ [Next]_vars => SlotsAccounted'
  <1> SUFFICES ASSUME SlotsAccounted, [Next]_vars PROVE SlotsAccounted'  OBVIOUS
  <1>0. TypeOK /\ \A t \in Tasks : OneSlot(t)  BY DEF SlotsAccounted
  <1>k. \A t \in Tasks : KeyOf[t] \in Keys /\ KeyOf[t] # None  BY KeysAssumption
  <1> USE DEF Goto, GiveAt, Roles, Givers
  <1>1. ASSUME NEW t \in Tasks, Acquire(t) PROVE SlotsAccounted'
    <2>1. \A u \in Tasks : OneSlot(u)'  BY <1>0, <1>1 DEF Acquire, OneSlot, TypeOK
    <2>2. ~Holding(t) /\ Holding(t)'
      BY <1>0, <1>1, <1>k DEF Acquire, OneSlot, Holding, TypeOK
    <2>3. \A u \in Tasks \ {t} : Holding(u)' = Holding(u)
      BY <1>0, <1>1 DEF Acquire, Holding, TypeOK
    <2>4. inUse' = [inUse EXCEPT ![KeyOf[t]] = @ + 1]  BY <1>1 DEF Acquire
    <2>5. \A k \in Keys : inUse'[k] = Cardinality(Holders(k)') /\ inUse'[k] \in Nat
      BY <2>2, <2>3, <2>4, OneMoreHolder
    <2>6. TypeOK'  BY <1>0, <1>1, <2>5, <2>4 DEF Acquire, TypeOK, manager
    <2> QED BY <2>1, <2>5, <2>6 DEF SlotsAccounted
  <1>2. ASSUME NEW t \in Tasks, Refuse(t) PROVE SlotsAccounted'
    <2>1. \A u \in Tasks : OneSlot(u)' /\ Holding(u)' = Holding(u)
      BY <1>0, <1>2 DEF Refuse, OneSlot, Holding, TypeOK
    <2>2. TypeOK'  BY <1>0, <1>2 DEF Refuse, TypeOK, manager
    <2>3. inUse' = inUse  BY <1>2 DEF Refuse
    <2> QED BY <2>1, <2>2, <2>3, SameHolders DEF SlotsAccounted
  <1>3. ASSUME NEW t \in Tasks, Submit(t) PROVE SlotsAccounted'
    <2>1. \A u \in Tasks : OneSlot(u)' /\ Holding(u)' = Holding(u)
      BY <1>0, <1>3 DEF Submit, OneSlot, Holding, TypeOK
    <2>2. TypeOK'
      BY <1>0, <1>3, ManagerTypes DEF Submit, TypeOK
    <2>3. inUse' = inUse  BY <1>3 DEF Submit
    <2> QED BY <2>1, <2>2, <2>3, SameHolders DEF SlotsAccounted
  <1>4. ASSUME NEW t \in Tasks, SubmitFailed(t) PROVE SlotsAccounted'
    <2>1. \A u \in Tasks : OneSlot(u)'  BY <1>0, <1>4 DEF SubmitFailed, OneSlot, TypeOK
    <2>2. Holding(t) /\ ~(Holding(t)')
      BY <1>0, <1>4 DEF SubmitFailed, OneSlot, Holding, TypeOK
    <2>3. \A u \in Tasks \ {t} : Holding(u)' = Holding(u)
      BY <1>0, <1>4 DEF SubmitFailed, Holding, TypeOK
    <2>4. Release(KeyOf[t])  BY <1>4 DEF SubmitFailed
    <2>5. \A k \in Keys : inUse'[k] = Cardinality(Holders(k)') /\ inUse'[k] \in Nat
      BY <2>2, <2>3, <2>4, OneHolderLess
    <2>6. TypeOK'  BY <1>0, <1>4, <2>5, <2>4 DEF SubmitFailed, TypeOK, manager, Release
    <2> QED BY <2>1, <2>5, <2>6 DEF SlotsAccounted
  <1>5. ASSUME NEW t \in Tasks, Record(t) PROVE SlotsAccounted'
    <2>1. \A u \in Tasks : OneSlot(u)' /\ Holding(u)' = Holding(u)
      BY <1>0, <1>5, <1>k DEF Record, OneSlot, Holding, TypeOK
    <2>2. TypeOK'  BY <1>0, <1>5, <1>k DEF Record, TypeOK, manager
    <2>3. inUse' = inUse  BY <1>5 DEF Record
    <2> QED BY <2>1, <2>2, <2>3, SameHolders DEF SlotsAccounted
  <1>6. ASSUME NEW t \in Tasks, TaskMoves(t) PROVE SlotsAccounted'
    <2>1. \A u \in Tasks : OneSlot(u)' /\ Holding(u)' = Holding(u)
      BY <1>0, <1>6 DEF TaskMoves, OneSlot, Holding
    <2>2. TypeOK'  BY <1>0, <1>6, ManagerTypes DEF TaskMoves, TypeOK
    <2>3. inUse' = inUse  BY <1>6 DEF TaskMoves
    <2> QED BY <2>1, <2>2, <2>3, SameHolders DEF SlotsAccounted
  <1>7. ASSUME NEW t \in Tasks, Wait(t) \/ WaitExpires(t) \/ CheckTerminal(t)
        PROVE  SlotsAccounted'
    <2> DEFINE c == <<t, "caller">>
    <2>0. /\ UNCHANGED <<spawner, quotaKeys>>
          /\ spawner[t] = "spawned" \/ giver[c] # "idle"
          /\ giver[c] # "releasing"
          /\ \E at \in {"idle", "waiting", "expired", "ended"} : giver' = [giver EXCEPT ![c] = at]
      BY <1>0, <1>7 DEF Wait, WaitExpires, CheckTerminal, AfterError
    <2>1. c \in Givers  OBVIOUS
    <2>2. giver'[c] \notin {"releasing"} /\ \A h \in Givers : h # c => giver'[h] = giver[h]
      BY <1>0, <2>0, <2>1 DEF TypeOK
    <2>3. ASSUME NEW u \in Tasks PROVE OneSlot(u)' /\ Holding(u)' = Holding(u)
      <3>1. CASE u = t
        <4>1. spawner[t] = "spawned"  BY <1>0, <2>0 DEF OneSlot
        <4> QED BY <1>0, <2>0, <2>2, <3>1, <4>1 DEF OneSlot, Holding
      <3>2. CASE u # t
        BY <1>0, <2>0, <2>2, <3>2 DEF OneSlot, Holding
      <3> QED BY <3>1, <3>2
    <2>4. TypeOK'
      BY <1>0, <1>7 DEF Wait, WaitExpires, CheckTerminal, AfterError, TypeOK, manager
    <2>5. inUse' = inUse  BY <1>7 DEF Wait, WaitExpires, CheckTerminal
    <2> QED BY <2>3, <2>4, <2>5, SameHolders DEF SlotsAccounted
  <1>8. ASSUME NEW g \in Givers, WaitReturns(g) PROVE SlotsAccounted'
    <2>1. \A u \in Tasks : OneSlot(u)' /\ Holding(u)' = Holding(u)
      BY <1>0, <1>8 DEF WaitReturns, OneSlot, Holding, TypeOK
    <2>2. TypeOK'  BY <1>0, <1>8 DEF WaitReturns, TypeOK, manager
    <2>3. inUse' = inUse  BY <1>8 DEF WaitReturns
    <2> QED BY <2>1, <2>2, <2>3, SameHolders DEF SlotsAccounted
  <1>9. ASSUME NEW g \in Givers, TakeKey(g) PROVE SlotsAccounted'
    <2> DEFINE t == g[1]
    <2>0. t \in Tasks /\ (g = <<t, "watcher">> \/ g = <<t, "caller">>)  OBVIOUS
    <2>1. \A u \in Tasks : OneSlot(u)' /\ Holding(u)' = Holding(u)
      <3>1. CASE quotaKeys[t] = None
        <4>1. giver' = [giver EXCEPT ![g] = "done"] /\ UNCHANGED <<spawner, quotaKeys>>
          BY <1>9, <3>1 DEF TakeKey
        <4> QED BY <1>0, <1>9, <2>0, <4>1 DEF TakeKey, OneSlot, Holding, TypeOK
      <3>2. CASE quotaKeys[t] # None
        <4>1. /\ giver' = [giver EXCEPT ![g] = "releasing"]
              /\ quotaKeys' = [quotaKeys EXCEPT ![t] = None]
              /\ UNCHANGED spawner
          BY <1>9, <3>2 DEF TakeKey, Forget
        <4>2. giver[<<t, "watcher">>] # "releasing" /\ giver[<<t, "caller">>] # "releasing"
          BY <1>0, <2>0, <3>2 DEF OneSlot
        <4>3. quotaKeys'[t] = None /\ giver'[g] = "releasing"  BY <1>0, <2>0, <4>1 DEF TypeOK
        <4>4. \A u \in Tasks : u # t => quotaKeys'[u] = quotaKeys[u]
          BY <1>0, <4>1 DEF TypeOK
        <4>5. \A h \in Givers : h # g => giver'[h] = giver[h]  BY <1>0, <4>1 DEF TypeOK
        <4>6. OneSlot(t)' /\ Holding(t)' = Holding(t)
          BY <1>0, <2>0, <3>2, <4>1, <4>2, <4>3, <4>5 DEF OneSlot, Holding
        <4>7. \A u \in Tasks : u # t => OneSlot(u)' /\ Holding(u)' = Holding(u)
          BY <1>0, <2>0, <4>1, <4>4, <4>5 DEF OneSlot, Holding
        <4> QED BY <4>6, <4>7
      <3> QED BY <3>1, <3>2
    <2>2. TypeOK'  BY <1>0, <1>9 DEF TakeKey, Forget, TypeOK, manager
    <2>3. inUse' = inUse  BY <1>9 DEF TakeKey
    <2> QED BY <2>1, <2>2, <2>3, SameHolders DEF SlotsAccounted
  <1>10. ASSUME NEW g \in Givers, GiveBack(g) PROVE SlotsAccounted'
    <2> DEFINE t == g[1]
    <2>0. t \in Tasks /\ (g = <<t, "watcher">> \/ g = <<t, "caller">>)  OBVIOUS
    <2>1. \A u \in Tasks : OneSlot(u)'  BY <1>0, <1>10 DEF GiveBack, OneSlot, TypeOK
    <2>2. Holding(t) /\ ~(Holding(t)')
      BY <1>0, <1>10, <2>0 DEF GiveBack, OneSlot, Holding, TypeOK
    <2>3. \A u \in Tasks \ {t} : Holding(u)' = Holding(u)
      BY <1>0, <1>10, <2>0 DEF GiveBack, Holding, TypeOK
    <2>4. Release(KeyOf[t])  BY <1>10 DEF GiveBack
    <2>5. \A k \in Keys : inUse'[k] = Cardinality(Holders(k)') /\ inUse'[k] \in Nat
      BY <2>0, <2>2, <2>3, <2>4, OneHolderLess
    <2>6. TypeOK'  BY <1>0, <1>10, <2>5, <2>4 DEF GiveBack, TypeOK, manager, Release
    <2> QED BY <2>1, <2>5, <2>6 DEF SlotsAccounted
  <1>11. CASE UNCHANGED vars
    <2>1. \A u \in Tasks : OneSlot(u)' /\ Holding(u)' = Holding(u)
      BY <1>0, <1>11 DEF vars, OneSlot, Holding
    <2>2. TypeOK' /\ inUse' = inUse  BY <1>0, <1>11 DEF vars, TypeOK
    <2> QED BY <2>1, <2>2, SameHolders DEF SlotsAccounted
  <1> QED BY <1>1, <1>2, <1>3, <1>4, <1>5, <1>6, <1>7, <1>8, <1>9, <1>10, <1>11
          DEF Next, SpawnStep, GiverStep

\* Slots are never lost or given back twice: the count of every key is the
\* number of tasks that hold one of its slots.
THEOREM SlotsNeverLost == SafeSpec => []SlotsAccounted
  BY AccountsInit, AccountsKept, PTL DEF SafeSpec

-----------------------------------------------------------------------------
\* No count passes its limit.
WithinLimit == \A k \in Keys : inUse[k] <= Limit[k]

LEMMA LimitKept == SlotsAccounted /\ WithinLimit /\ [Next]_vars => WithinLimit'
  <1> SUFFICES ASSUME SlotsAccounted, WithinLimit, [Next]_vars, NEW k \in Keys
               PROVE  inUse'[k] <= Limit[k]
    BY DEF WithinLimit
  <1>0. inUse \in [Keys -> Nat] /\ inUse[k] <= Limit[k] /\ Limit[k] \in Nat \ {0}
    BY LimitAssumption DEF SlotsAccounted, TypeOK, WithinLimit
  <1>k. \A t \in Tasks : KeyOf[t] \in Keys  BY KeysAssumption
  <1>1. ASSUME NEW t \in Tasks, Acquire(t) PROVE inUse'[k] <= Limit[k]
    BY <1>0, <1>1, <1>k DEF Acquire, HasRoom
  <1>2. ASSUME NEW t \in Tasks, Release(KeyOf[t]) PROVE inUse'[k] <= Limit[k]
    BY <1>0, <1>2, <1>k DEF Release
  <1>3. CASE UNCHANGED inUse  BY <1>0, <1>3
  <1>4. ASSUME NEW t \in Tasks, SpawnStep(t) PROVE inUse'[k] <= Limit[k]
    BY <1>1, <1>2, <1>3, <1>4 DEF SpawnStep, Refuse, Submit, SubmitFailed, Record
  <1>5. ASSUME NEW g \in Givers, GiverStep(g) PROVE inUse'[k] <= Limit[k]
    <2>1. g[1] \in Tasks  BY DEF Givers
    <2> QED BY <1>2, <1>3, <1>5, <2>1 DEF GiverStep, WaitReturns, TakeKey, GiveBack
  <1>6. ASSUME NEW t \in Tasks, TaskMoves(t) \/ Wait(t) \/ WaitExpires(t) \/ CheckTerminal(t)
        PROVE  inUse'[k] <= Limit[k]
    BY <1>3, <1>6 DEF TaskMoves, Wait, WaitExpires, CheckTerminal
  <1> QED BY <1>3, <1>4, <1>5, <1>6 DEF Next, vars

\* A key never has more holders than its limit.
THEOREM QuotaNeverExceeded == SafeSpec => []QuotaKept
  <1>1. Init => WithinLimit  BY LimitAssumption DEF Init, WithinLimit
  <1>2. SlotsAccounted /\ WithinLimit => QuotaKept
    BY DEF SlotsAccounted, WithinLimit, QuotaKept
  <1> QED BY <1>1, <1>2, LimitKept, SlotsNeverLost, PTL DEF SafeSpec

-----------------------------------------------------------------------------
\* Why a task holds its slot in its first attempt: nobody takes its key before
\* that has ended.
Over(t) == Ended(t) \/ attempt[t] > 0

KeyUntilEnd(t) ==
  /\ spawner[t] \in {"idle", "acquired", "refused"} => status[t] = "absent"
  /\ spawner[t] = "spawned" /\ quotaKeys[t] = None => Over(t)
  /\ \A r \in Roles : giver[<<t, r>>] \in {"ended", "releasing", "done"} => Over(t)

KeysUntilEnd == \A t \in Tasks : KeyUntilEnd(t)

\* The first attempt does not come back.
LEMMA OverIsFinal ==
  ASSUME TypeOK, NEW u \in Tasks, Over(u), NEW t \in Tasks,
         TaskManager!Submit(t) \/ TaskManager!Progress(t) \/ TaskManager!Retry(t)
  PROVE  Over(u)'
  <1>1. attempt[u] \in Nat  BY RetriesAssumption DEF TypeOK
  <1>2. CASE TaskManager!Retry(t)
    <2>1. attempt'[u] > 0 \/ (u # t /\ attempt'[u] = attempt[u] /\ status'[u] = status[u])
      BY <1>1, <1>2, RetriesAssumption DEF TaskManager!Retry, TypeOK
    <2> QED BY <2>1 DEF Over, Ended
  <1>3. CASE ~TaskManager!Retry(t)
    <2>1. UNCHANGED attempt /\ (status'[u] = status[u] \/ status[u] \notin TaskManager!Terminal)
      BY <1>3 DEF TypeOK, TaskManager!Submit, TaskManager!Progress, TaskManager!Start,
         TaskManager!Discard, TaskManager!Finish, TaskManager!Move, TaskManager!Terminal
    <2> QED BY <2>1 DEF Over, Ended
  <1> QED BY <1>2, <1>3

LEMMA KeysUntilEndKept ==
  ASSUME SlotsAccounted, KeysUntilEnd, [Next]_vars
  PROVE  KeysUntilEnd'
  <1>0. TypeOK /\ \A t \in Tasks : OneSlot(t) /\ KeyUntilEnd(t)
    BY DEF SlotsAccounted, KeysUntilEnd
  <1>k. \A t \in Tasks : KeyOf[t] # None  BY KeysAssumption
  <1> SUFFICES ASSUME NEW u \in Tasks PROVE KeyUntilEnd(u)'
    BY DEF KeysUntilEnd
  <1> USE DEF Goto, GiveAt, Roles, Givers
  <1>1. ASSUME NEW t \in Tasks, Submit(t) PROVE KeyUntilEnd(u)'
    <2>1. Over(u) => Over(u)'  BY <1>0, <1>1, OverIsFinal DEF Submit
    <2>2. u # t => status'[u] = status[u]
      BY <1>0, <1>1 DEF Submit, TaskManager!Submit, TaskManager!Move, TypeOK
    <2> QED BY <1>0, <1>1, <2>1, <2>2 DEF Submit, KeyUntilEnd, Over, Ended, TypeOK
  <1>2. ASSUME NEW t \in Tasks, TaskMoves(t) PROVE KeyUntilEnd(u)'
    <2>1. Over(u) => Over(u)'  BY <1>0, <1>2, OverIsFinal DEF TaskMoves
    <2>2. status[u] = "absent" => status'[u] = "absent"
      BY <1>0, <1>2 DEF TaskMoves, TaskManager!Progress, TaskManager!Start, TypeOK,
         TaskManager!Discard, TaskManager!Finish, TaskManager!Move, TaskManager!Retry
    <2> QED BY <1>0, <1>2, <2>1, <2>2 DEF TaskMoves, KeyUntilEnd
  <1>3. ASSUME NEW t \in Tasks, Acquire(t) \/ Refuse(t) \/ SubmitFailed(t)
        PROVE  KeyUntilEnd(u)'
    BY <1>0, <1>3
    DEF Acquire, Refuse, SubmitFailed, KeyUntilEnd, Over, Ended, TypeOK, manager
  <1>4. ASSUME NEW t \in Tasks, Record(t) PROVE KeyUntilEnd(u)'
    BY <1>0, <1>4, <1>k DEF Record, KeyUntilEnd, Over, Ended, TypeOK, manager
  <1>5. ASSUME NEW t \in Tasks, Wait(t) \/ WaitExpires(t) \/ CheckTerminal(t)
        PROVE  KeyUntilEnd(u)'
    BY <1>0, <1>5
    DEF Wait, WaitExpires, CheckTerminal, AfterError, KeyUntilEnd, Over, Ended, TypeOK, manager
  <1>6. ASSUME NEW g \in Givers, GiverStep(g) PROVE KeyUntilEnd(u)'
    <2> DEFINE t == g[1]
    <2>0. t \in Tasks /\ (g = <<t, "watcher">> \/ g = <<t, "caller">>)  OBVIOUS
    <2>1. CASE WaitReturns(g)
      BY <1>0, <2>0, <2>1 DEF WaitReturns, KeyUntilEnd, Over, Ended, TypeOK, manager
    <2>2. CASE TakeKey(g)
      BY <1>0, <2>0, <2>2 DEF TakeKey, Forget, KeyUntilEnd, Over, Ended, TypeOK, manager
    <2>3. CASE GiveBack(g)
      BY <1>0, <2>0, <2>3 DEF GiveBack, KeyUntilEnd, Over, Ended, TypeOK, manager
    <2> QED BY <1>6, <2>1, <2>2, <2>3 DEF GiverStep
  <1>7. CASE UNCHANGED vars  BY <1>0, <1>7 DEF vars, manager, KeyUntilEnd, Over, Ended
  <1> QED BY <1>1, <1>2, <1>3, <1>4, <1>5, <1>6, <1>7 DEF Next, SpawnStep

\* A task that has not been retried holds its slot as long as it lives.
THEOREM LivingHold == SafeSpec => []LiveTasksHold
  <1>1. Init => KeysUntilEnd
    BY DEF Init, KeysUntilEnd, KeyUntilEnd, TaskManager!Init, Givers, Roles
  <1>2. SlotsAccounted /\ KeysUntilEnd /\ [Next]_vars => KeysUntilEnd'
    BY KeysUntilEndKept
  <1>3. SlotsAccounted /\ KeysUntilEnd => LiveTasksHold
    BY DEF SlotsAccounted, TypeOK, KeysUntilEnd, KeyUntilEnd, LiveTasksHold, InFirstAttempt, Holding, Live, Over,
           Ended, TaskManager!Terminal
  <1> QED BY <1>1, <1>2, <1>3, SlotsNeverLost, PTL DEF SafeSpec

\* So no more of them live under one key than its limit, however callers give
\* up and whichever goroutine gives the slots back.
THEOREM QuotaBoundsLiveTasks == SafeSpec => []NoOverrun
  <1>1. ASSUME QuotaKept, LiveTasksHold PROVE NoOverrun
    <2> SUFFICES ASSUME NEW k \in Keys
                 PROVE  Cardinality({t \in Tasks : KeyOf[t] = k /\ InFirstAttempt(t)}) <= Limit[k]
      BY DEF NoOverrun
    <2> DEFINE L == {t \in Tasks : KeyOf[t] = k /\ InFirstAttempt(t)}
    <2>1. L \subseteq Holders(k)  BY <1>1 DEF LiveTasksHold, Holders, InFirstAttempt
    <2>2. IsFiniteSet(Holders(k)) /\ Cardinality(Holders(k)) \in Nat  BY HoldersFinite
    <2>3. IsFiniteSet(L) /\ Cardinality(L) <= Cardinality(Holders(k))
      BY <2>1, <2>2, FS_Subset
    <2>4. Cardinality(L) \in Nat  BY <2>3, FS_CardinalityType
    <2>5. Cardinality(Holders(k)) <= Limit[k]  BY <1>1 DEF QuotaKept
    <2>6. Limit[k] \in Nat  BY LimitAssumption
    <2> QED BY <2>2, <2>3, <2>4, <2>5, <2>6
  <1> QED BY <1>1, QuotaNeverExceeded, LivingHold, PTL
=============================================================================
