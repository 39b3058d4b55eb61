------------------------- MODULE StorageLockProofs -------------------------
(***************************************************************************)
(* The semaphores of a process are safe whatever fails, and the lock file  *)
(* is when nothing does.                                                   *)
(***************************************************************************)
EXTENDS StorageLock, FiniteSetTheorems, TLAPS

-----------------------------------------------------------------------------
(* Within a process. *)

\* What EntriesShared and OnePerProcess rest on: an entry belongs to one
\* process, its semaphore is taken iff one of its users is past it, and the
\* entry that an idle call may make has not been used.
SemaphoreInv ==
  /\ EntriesShared
  /\ NoTwoPassed
  /\ \A c \in Calls : entry[c] # None => /\ UsesEntry(c)
                                         /\ ProcessOf[entry[c]] = ProcessOf[c]
                                         /\ pc[entry[c]] # "idle"
  /\ \A c \in Calls : pc[c] \in Passed => sem[entry[c]]
  /\ \A p \in Processes : table[p] # None => /\ ProcessOf[table[p]] = p
                                             /\ pc[table[p]] # "idle"
  /\ \A p \in Processes : table[p] # None /\ sem[table[p]] =>
                            \E c \in Calls : pc[c] \in Passed /\ entry[c] = table[p]
  /\ \A e \in Calls : pc[e] = "idle" => refCount[e] = 0 /\ ~sem[e]

\* The users of an entry are finitely many.
LEMMA UsersFinite ==
  ASSUME NEW e \in Calls
  PROVE  IsFiniteSet(Users(e)) /\ Cardinality(Users(e)) \in Nat
  <1>1. Users(e) \subseteq Calls  BY DEF Users
  <1> QED BY <1>1, CallsAssumption, FS_Subset, FS_CardinalityType

\* Nothing is used before the first call.
LEMMA SemaphoreInit == Init => SemaphoreInv
  <1> SUFFICES ASSUME Init PROVE SemaphoreInv  OBVIOUS
  <1>1. TypeOK  BY DEF Init, TypeOK
  <1>2. EntriesShared  BY <1>1 DEF Init, EntriesShared, UsesEntry, Passed
  <1>3. NoTwoPassed  BY DEF Init, NoTwoPassed, Passed
  <1> QED BY <1>2, <1>3 DEF Init, SemaphoreInv, UsesEntry, Passed

\* What is left of the invariant by a step that changes no use of any entry.
LEMMA SameUsers ==
  ASSUME SemaphoreInv, TypeOK', UNCHANGED <<table, entry, refCount>>,
         \A d \in Calls : /\ UsesEntry(d)' <=> UsesEntry(d)
                          /\ pc'[d] = "idle" <=> pc[d] = "idle"
  PROVE  /\ EntriesShared'
         /\ \A d \in Calls : entry'[d] # None => /\ UsesEntry(d)'
                                                 /\ ProcessOf[entry'[d]] = ProcessOf[d]
                                                 /\ pc'[entry'[d]] # "idle"
         /\ \A p \in Processes : table'[p] # None => /\ ProcessOf[table'[p]] = p
                                                     /\ pc'[table'[p]] # "idle"
  <1>1. TypeOK  BY DEF SemaphoreInv, EntriesShared
  <1>2. \A e \in Calls : Users(e)' = Users(e)  BY DEF Users
  <1>3. \A d \in Calls : UsesEntry(d)' => entry'[d] # None /\ table'[ProcessOf[d]] = entry'[d]
    BY DEF SemaphoreInv, EntriesShared
  <1>4. ASSUME NEW p \in Processes, table'[p] # None
        PROVE  refCount'[table'[p]] = Cardinality(Users(table[p])') /\ refCount'[table'[p]] > 0
    <2>1. table[p] \in Calls  BY <1>1, <1>4 DEF TypeOK
    <2> QED BY <1>2, <1>4, <2>1 DEF SemaphoreInv, EntriesShared
  <1>5. EntriesShared'  BY <1>3, <1>4 DEF EntriesShared
  <1>6. \A d \in Calls : entry'[d] # None => /\ UsesEntry(d)'
                                             /\ ProcessOf[entry'[d]] = ProcessOf[d]
                                             /\ pc'[entry'[d]] # "idle"
    BY <1>1 DEF SemaphoreInv, TypeOK
  <1>7. \A p \in Processes : table'[p] # None => /\ ProcessOf[table'[p]] = p
                                                 /\ pc'[table'[p]] # "idle"
    BY <1>1 DEF SemaphoreInv, TypeOK
  <1> QED BY <1>5, <1>6, <1>7

\* A call that only moves among the states past the semaphore, as all steps of
\* the file lock do, or none that moves at all.
LEMMA PassedMoves ==
  ASSUME SemaphoreInv, UNCHANGED memory, TypeOK',
         \A d \in Calls : \/ pc'[d] = pc[d]
                          \/ pc'[d] \in Passed /\ pc[d] \in Passed
  PROVE  SemaphoreInv'
  <1>1. /\ \A d \in Calls : /\ pc'[d] \in Passed <=> pc[d] \in Passed
                            /\ UsesEntry(d)' <=> UsesEntry(d)
                            /\ pc'[d] = "idle" <=> pc[d] = "idle"
        /\ UNCHANGED <<table, entry, sem, refCount>>
    BY DEF Passed, UsesEntry, memory
  <1>2. NoTwoPassed'  BY <1>1 DEF SemaphoreInv, NoTwoPassed
  <1>3. \A d \in Calls : pc'[d] \in Passed => sem'[entry'[d]]  BY <1>1 DEF SemaphoreInv
  <1>4. \A p \in Processes : table'[p] # None /\ sem'[table'[p]] =>
                               \E d \in Calls : pc'[d] \in Passed /\ entry'[d] = table'[p]
    BY <1>1 DEF SemaphoreInv
  <1>5. \A e \in Calls : pc'[e] = "idle" => refCount'[e] = 0 /\ ~sem'[e]
    BY <1>1 DEF SemaphoreInv
  <1> QED BY <1>1, <1>2, <1>3, <1>4, <1>5, SameUsers DEF SemaphoreInv

\* A call passes the semaphore of its process.
LEMMA TakeSemKeeps ==
  ASSUME SemaphoreInv, NEW c \in Calls, TakeSem(c)
  PROVE  SemaphoreInv'
  <1>1. TypeOK  BY DEF SemaphoreInv, EntriesShared
  <1>2. /\ pc[c] = "queued" /\ ~sem[entry[c]] /\ pc' = [pc EXCEPT ![c] = "opening"]
        /\ sem' = [sem EXCEPT ![entry[c]] = TRUE]
        /\ UNCHANGED <<table, entry, refCount, file, stale>>
    BY DEF TakeSem, At, Goto, disk
  <1>3. /\ UsesEntry(c) /\ entry[c] # None /\ entry[c] \in Calls
        /\ table[ProcessOf[c]] = entry[c]
    BY <1>1, <1>2 DEF SemaphoreInv, EntriesShared, UsesEntry, TypeOK
  <1>4. TypeOK'  BY <1>1, <1>2 DEF TypeOK
  <1>5. \A d \in Calls : /\ UsesEntry(d)' <=> UsesEntry(d)
                         /\ pc'[d] = "idle" <=> pc[d] = "idle"
                         /\ pc'[d] \in Passed <=> (d = c \/ pc[d] \in Passed)
    BY <1>1, <1>2 DEF TypeOK, UsesEntry, Passed
  <1>6. \A d \in Calls : ProcessOf[d] = ProcessOf[c] => pc[d] \notin Passed
    <2> SUFFICES ASSUME NEW d \in Calls, ProcessOf[d] = ProcessOf[c], pc[d] \in Passed PROVE FALSE
      OBVIOUS
    <2>1. entry[d] = entry[c]  BY <1>3 DEF SemaphoreInv, EntriesShared, UsesEntry
    <2> QED BY <1>2, <2>1 DEF SemaphoreInv
  <1>7. NoTwoPassed'  BY <1>5, <1>6 DEF SemaphoreInv, NoTwoPassed
  <1>8. \A x \in Calls : sem'[x] <=> (x = entry[c] \/ sem[x])  BY <1>1, <1>2 DEF TypeOK
  <1>9. \A d \in Calls : pc'[d] \in Passed => sem'[entry'[d]]
    <2> SUFFICES ASSUME NEW d \in Calls, pc'[d] \in Passed PROVE sem'[entry'[d]]  OBVIOUS
    <2>1. entry[d] # None /\ entry[d] \in Calls
      BY <1>1, <1>3, <1>5 DEF SemaphoreInv, EntriesShared, UsesEntry, TypeOK
    <2> QED BY <1>2, <1>5, <1>8, <2>1 DEF SemaphoreInv
  <1>10. \A p \in Processes : table'[p] # None /\ sem'[table'[p]] =>
                                \E d \in Calls : pc'[d] \in Passed /\ entry'[d] = table'[p]
    <2> SUFFICES ASSUME NEW p \in Processes, table[p] # None, sem'[table[p]]
                 PROVE  \E d \in Calls : pc'[d] \in Passed /\ entry[d] = table[p]
      BY <1>2
    <2>1. table[p] \in Calls  BY <1>1 DEF TypeOK
    <2> QED BY <1>5, <1>8, <2>1 DEF SemaphoreInv
  <1>11. \A e \in Calls : pc'[e] = "idle" => refCount'[e] = 0 /\ ~sem'[e]
    <2>1. pc[entry[c]] # "idle"  BY <1>3 DEF SemaphoreInv
    <2> QED BY <1>2, <1>5, <1>8, <2>1 DEF SemaphoreInv
  <1> QED BY <1>2, <1>4, <1>5, <1>7, <1>9, <1>10, <1>11, SameUsers DEF SemaphoreInv

\* A call leaves the queue, because its context has ended.
LEMMA QueueCtxDoneKeeps ==
  ASSUME SemaphoreInv, NEW c \in Calls, QueueCtxDone(c)
  PROVE  SemaphoreInv'
  <1>1. TypeOK  BY DEF SemaphoreInv, EntriesShared
  <1>2. /\ pc[c] = "queued" /\ pc' = [pc EXCEPT ![c] = "releasing"]
        /\ UNCHANGED <<table, entry, sem, refCount, file, stale>>
    BY DEF QueueCtxDone, At, Goto, memory, disk
  <1>3. TypeOK'  BY <1>1, <1>2 DEF TypeOK
  <1>4. \A d \in Calls : /\ UsesEntry(d)' <=> UsesEntry(d)
                         /\ pc'[d] = "idle" <=> pc[d] = "idle"
                         /\ pc'[d] \in Passed <=> pc[d] \in Passed
    BY <1>1, <1>2 DEF TypeOK, UsesEntry, Passed
  <1>5. NoTwoPassed'  BY <1>4 DEF SemaphoreInv, NoTwoPassed
  <1>6. /\ \A d \in Calls : pc'[d] \in Passed => sem'[entry'[d]]
        /\ \A p \in Processes : table'[p] # None /\ sem'[table'[p]] =>
                                  \E d \in Calls : pc'[d] \in Passed /\ entry'[d] = table'[p]
        /\ \A e \in Calls : pc'[e] = "idle" => refCount'[e] = 0 /\ ~sem'[e]
    BY <1>2, <1>4 DEF SemaphoreInv
  <1> QED BY <1>2, <1>3, <1>4, <1>5, <1>6, SameUsers DEF SemaphoreInv

\* The one call past the semaphore frees it.
LEMMA FreeSemKeeps ==
  ASSUME SemaphoreInv, NEW c \in Calls, FreeSem(c)
  PROVE  SemaphoreInv'
  <1>1. TypeOK  BY DEF SemaphoreInv, EntriesShared
  <1>2. /\ pc[c] = "freeing" /\ pc' = [pc EXCEPT ![c] = "releasing"]
        /\ sem' = [sem EXCEPT ![entry[c]] = FALSE]
        /\ UNCHANGED <<table, entry, refCount, file, stale>>
    BY DEF FreeSem, At, Goto, disk
  <1>3. pc[c] \in Passed /\ UsesEntry(c) /\ entry[c] # None /\ entry[c] \in Calls
    BY <1>1, <1>2 DEF SemaphoreInv, EntriesShared, UsesEntry, Passed, TypeOK
  <1>4. TypeOK'  BY <1>1, <1>2 DEF TypeOK
  <1>5. \A d \in Calls : /\ UsesEntry(d)' <=> UsesEntry(d)
                         /\ pc'[d] = "idle" <=> pc[d] = "idle"
                         /\ pc'[d] \in Passed <=> (d # c /\ pc[d] \in Passed)
    BY <1>1, <1>2 DEF TypeOK, UsesEntry, Passed
  <1>6. NoTwoPassed'  BY <1>5 DEF SemaphoreInv, NoTwoPassed
  <1>7. \A x \in Calls : sem'[x] <=> (x # entry[c] /\ sem[x])  BY <1>1, <1>2 DEF TypeOK
  <1>8. \A d \in Calls : pc'[d] \in Passed => sem'[entry'[d]]
    <2> SUFFICES ASSUME NEW d \in Calls, pc'[d] \in Passed PROVE sem'[entry[d]]
      BY <1>2
    <2>1. d # c /\ pc[d] \in Passed  BY <1>5
    <2>2. ProcessOf[d] # ProcessOf[c]  BY <1>3, <2>1 DEF SemaphoreInv, NoTwoPassed
    <2>3. entry[d] # None /\ entry[d] \in Calls
      BY <1>1, <2>1 DEF SemaphoreInv, EntriesShared, UsesEntry, TypeOK
    <2>4. entry[d] # entry[c]  BY <1>3, <2>2, <2>3 DEF SemaphoreInv
    <2> QED BY <1>7, <2>1, <2>3, <2>4 DEF SemaphoreInv
  <1>9. \A p \in Processes : table'[p] # None /\ sem'[table'[p]] =>
                                \E d \in Calls : pc'[d] \in Passed /\ entry'[d] = table'[p]
    <2> SUFFICES ASSUME NEW p \in Processes, table[p] # None, sem'[table[p]]
                 PROVE  \E d \in Calls : pc'[d] \in Passed /\ entry[d] = table[p]
      BY <1>2
    <2>1. table[p] \in Calls  BY <1>1 DEF TypeOK
    <2>2. table[p] # entry[c] /\ sem[table[p]]  BY <1>7, <2>1
    <2> QED BY <1>5, <2>2 DEF SemaphoreInv
  <1>10. \A e \in Calls : pc'[e] = "idle" => refCount'[e] = 0 /\ ~sem'[e]
    BY <1>2, <1>5, <1>7 DEF SemaphoreInv
  <1> QED BY <1>2, <1>4, <1>5, <1>6, <1>8, <1>9, <1>10, SameUsers DEF SemaphoreInv

\* A call joins the users of its process's entry.
LEMMA AcquireKeeps ==
  ASSUME SemaphoreInv, NEW c \in Calls, AcquireEntry(c)
  PROVE  SemaphoreInv'
  <1> DEFINE p == ProcessOf[c]
  <1>1. TypeOK /\ p \in Processes /\ Entry(c) \in Calls
    BY ProcessAssumption DEF SemaphoreInv, EntriesShared, TypeOK, Entry
  <1> SUFFICES ASSUME NEW e \in Calls, e = Entry(c) PROVE SemaphoreInv'
    BY <1>1
  <1>2. /\ pc[c] = "idle" /\ pc' = [pc EXCEPT ![c] = "queued"]
        /\ table' = [table EXCEPT ![p] = e] /\ entry' = [entry EXCEPT ![c] = e]
        /\ refCount' = [refCount EXCEPT ![e] = @ + 1] /\ sem' = sem
        /\ file' = file /\ stale' = stale
    BY DEF AcquireEntry, At, Goto, disk
  <1>3. /\ pc'[c] = "queued" /\ entry'[c] = e /\ table'[p] = e
        /\ \A d \in Calls \ {c} : pc'[d] = pc[d] /\ entry'[d] = entry[d]
        /\ \A q \in Processes \ {p} : table'[q] = table[q]
        /\ \A d \in Calls \ {e} : refCount'[d] = refCount[d]
        /\ refCount'[e] = refCount[e] + 1
    BY <1>1, <1>2 DEF TypeOK
  <1>4. TypeOK'
    <2>1. refCount[e] + 1 \in Nat  BY <1>1 DEF TypeOK
    <2> QED BY <1>1, <1>2, <2>1 DEF TypeOK
  <1>5. entry[c] = None  BY <1>2 DEF SemaphoreInv, UsesEntry, Passed
  <1>6. table[p] # None => e = table[p]  BY DEF Entry
  <1>7. table[p] = None => e = c  BY DEF Entry
  <1>8. \A d \in Calls : /\ pc'[d] \in Passed <=> pc[d] \in Passed
                         /\ UsesEntry(d)' <=> (d = c \/ UsesEntry(d))
    BY <1>2, <1>3 DEF UsesEntry, Passed
  <1>9. \A d \in Calls : UsesEntry(d) => d # c  BY <1>2 DEF UsesEntry, Passed
  <1>10. ProcessOf[e] = p /\ (e # c => pc[e] # "idle")
    BY <1>1, <1>6, <1>7 DEF SemaphoreInv
  <1>11. Users(e)' = Users(e) \cup {c} /\ c \notin Users(e)
    BY <1>1, <1>3, <1>8, <1>9 DEF Users
  <1>12. \A x \in Calls : x # e => Users(x)' = Users(x)
    BY <1>1, <1>3, <1>8, <1>9 DEF Users
  <1>13. table[p] = None => Users(e) = {}
    <2> SUFFICES ASSUME table[p] = None, NEW d \in Users(e) PROVE FALSE  OBVIOUS
    <2>1. d \in Calls /\ entry[d] = c  BY <1>7 DEF Users
    <2>2. pc[c] # "idle"  BY <2>1, CallsAssumption DEF SemaphoreInv
    <2> QED BY <1>2, <2>2
  <1>14. refCount[e] = Cardinality(Users(e))
    <2>1. CASE table[p] = None
      BY <1>2, <1>7, <1>13, <2>1, FS_EmptySet DEF SemaphoreInv
    <2>2. CASE table[p] # None
      BY <1>1, <1>6, <2>2 DEF SemaphoreInv, EntriesShared
    <2> QED BY <2>1, <2>2
  <1>15. refCount'[e] = Cardinality(Users(e)') /\ refCount'[e] > 0
    <2>1. Cardinality(Users(e) \cup {c}) = Cardinality(Users(e)) + 1
      BY <1>1, <1>11, UsersFinite, FS_AddElement
    <2>2. Cardinality(Users(e)) \in Nat  BY <1>1, UsersFinite
    <2> QED BY <1>3, <1>11, <1>14, <2>1, <2>2
  <1>16. \A q \in Processes : table[q] # None /\ q # p => table[q] \in Calls /\ table[q] # e
    BY <1>1, <1>10 DEF SemaphoreInv, TypeOK
  <1>17. EntriesShared'
    <2>1. ASSUME NEW d \in Calls, UsesEntry(d)'
          PROVE  entry'[d] # None /\ table'[ProcessOf[d]] = entry'[d]
      <3>1. CASE d = c  BY <1>1, <1>3, <3>1, CallsAssumption
      <3>2. CASE d # c
        <4>1. UsesEntry(d)  BY <1>8, <2>1, <3>2
        <4>2. entry[d] # None /\ table[ProcessOf[d]] = entry[d]
          BY <4>1 DEF SemaphoreInv, EntriesShared
        <4>3. ProcessOf[d] \in Processes  BY ProcessAssumption
        <4> QED BY <1>3, <1>6, <3>2, <4>2, <4>3
      <3> QED BY <3>1, <3>2
    <2>2. ASSUME NEW q \in Processes, NEW x \in Calls, table'[q] = x
          PROVE  refCount'[x] = Cardinality(Users(x)') /\ refCount'[x] > 0
      <3>1. CASE q = p  BY <1>3, <1>15, <2>2, <3>1
      <3>2. CASE q # p
        <4>1. table[q] = x /\ x # None  BY <1>3, <2>2, <3>2, CallsAssumption
        <4>2. x # e  BY <1>16, <3>2, <4>1
        <4>3. refCount[x] = Cardinality(Users(x)) /\ refCount[x] > 0
          BY <4>1 DEF SemaphoreInv, EntriesShared
        <4> QED BY <1>3, <1>12, <4>2, <4>3
      <3> QED BY <3>1, <3>2
    <2>3. ASSUME NEW q \in Processes, table'[q] # None
          PROVE  (refCount[table[q]] = Cardinality(Users(table[q])) /\ refCount[table[q]] > 0)'
      <3>1. PICK x \in Calls : table'[q] = x  BY <1>4, <2>3 DEF TypeOK
      <3>2. Users(x)' = Users(table[q])'  BY <3>1 DEF Users
      <3> QED BY <2>2, <3>1, <3>2
    <2> QED BY <1>4, <2>1, <2>3 DEF EntriesShared
  <1>18. NoTwoPassed'  BY <1>8 DEF SemaphoreInv, NoTwoPassed
  <1>19. \A d \in Calls : entry'[d] # None => /\ UsesEntry(d)'
                                              /\ ProcessOf[entry'[d]] = ProcessOf[d]
                                              /\ pc'[entry'[d]] # "idle"
    <2> SUFFICES ASSUME NEW d \in Calls, entry'[d] # None
                 PROVE  UsesEntry(d)' /\ ProcessOf[entry'[d]] = ProcessOf[d] /\ pc'[entry'[d]] # "idle"
      OBVIOUS
    <2>1. CASE d = c  BY <1>1, <1>3, <1>8, <1>10, <2>1
    <2>2. CASE d # c
      <3>1. entry'[d] = entry[d] /\ entry[d] \in Calls  BY <1>1, <1>3, <2>2 DEF TypeOK
      <3>2. UsesEntry(d) /\ ProcessOf[entry[d]] = ProcessOf[d] /\ pc[entry[d]] # "idle"
        BY <3>1 DEF SemaphoreInv
      <3> QED BY <1>2, <1>3, <1>8, <3>1, <3>2
    <2> QED BY <2>1, <2>2
  <1>20. \A d \in Calls : pc'[d] \in Passed => sem'[entry'[d]]
    BY <1>2, <1>3, <1>8 DEF SemaphoreInv, Passed
  <1>21. \A q \in Processes : table'[q] # None => ProcessOf[table'[q]] = q /\ pc'[table'[q]] # "idle"
    <2> SUFFICES ASSUME NEW q \in Processes, table'[q] # None
                 PROVE  ProcessOf[table'[q]] = q /\ pc'[table'[q]] # "idle"
      OBVIOUS
    <2>1. CASE q = p  BY <1>1, <1>3, <1>10, <2>1
    <2>2. CASE q # p
      <3>1. table'[q] = table[q] /\ table[q] \in Calls  BY <1>3, <1>16, <2>2
      <3>2. ProcessOf[table[q]] = q /\ pc[table[q]] # "idle"
        BY <1>3, <2>2 DEF SemaphoreInv
      <3> QED BY <1>2, <1>3, <3>1, <3>2
    <2> QED BY <2>1, <2>2
  <1>22. \A q \in Processes : table'[q] # None /\ sem'[table'[q]] =>
                                \E d \in Calls : pc'[d] \in Passed /\ entry'[d] = table'[q]
    <2> SUFFICES ASSUME NEW q \in Processes, table'[q] # None, sem'[table'[q]]
                 PROVE  \E d \in Calls : pc'[d] \in Passed /\ entry'[d] = table'[q]
      OBVIOUS
    <2>1. table[q] = None => q = p /\ ~sem[e]
      BY <1>1, <1>2, <1>3, <1>7 DEF SemaphoreInv
    <2>2. table[q] # None /\ table'[q] = table[q]  BY <1>2, <1>3, <1>6, <2>1
    <2>3. PICK d \in Calls : pc[d] \in Passed /\ entry[d] = table[q]
      BY <1>2, <2>2 DEF SemaphoreInv
    <2>4. d # c  BY <1>2, <2>3 DEF Passed
    <2> QED BY <1>3, <2>2, <2>3, <2>4
  <1>23. \A d \in Calls : pc'[d] = "idle" => refCount'[d] = 0 /\ ~sem'[d]
    <2> SUFFICES ASSUME NEW d \in Calls, pc'[d] = "idle" PROVE refCount'[d] = 0 /\ ~sem'[d]
      OBVIOUS
    <2>1. d # c /\ pc[d] = "idle"  BY <1>3
    <2>2. d # e  BY <1>10, <2>1
    <2> QED BY <1>2, <1>3, <2>1, <2>2 DEF SemaphoreInv
  <1> QED BY <1>17, <1>18, <1>19, <1>20, <1>21, <1>22, <1>23 DEF SemaphoreInv

\* A call gives its use of the entry up, and the last one deletes it.
LEMMA ReleaseKeeps ==
  ASSUME SemaphoreInv, NEW c \in Calls, ReleaseEntry(c)
  PROVE  SemaphoreInv'
  <1> DEFINE p == ProcessOf[c]
  <1>1. TypeOK /\ p \in Processes
    BY ProcessAssumption DEF SemaphoreInv, EntriesShared
  <1>2. pc[c] = "releasing" /\ UsesEntry(c)  BY DEF ReleaseEntry, At, UsesEntry
  <1>3. entry[c] # None /\ entry[c] \in Calls /\ table[p] = entry[c]
    BY <1>1, <1>2 DEF SemaphoreInv, EntriesShared, TypeOK
  <1> SUFFICES ASSUME NEW e \in Calls, e = entry[c] PROVE SemaphoreInv'
    BY <1>3
  <1>4. /\ pc' = [pc EXCEPT ![c] = "done"] /\ entry' = [entry EXCEPT ![c] = None]
        /\ refCount' = [refCount EXCEPT ![e] = @ - 1]
        /\ table' = IF Unused(e) THEN [table EXCEPT ![p] = None] ELSE table
        /\ sem' = sem /\ file' = file /\ stale' = stale
    BY <1>3 DEF ReleaseEntry, Goto, disk
  <1>5. refCount[e] = Cardinality(Users(e)) /\ refCount[e] > 0
    BY <1>1, <1>3 DEF SemaphoreInv, EntriesShared
  <1>6. TypeOK'
    <2>1. refCount[e] - 1 \in Nat  BY <1>1, <1>5 DEF TypeOK
    <2> QED BY <1>1, <1>4, <2>1 DEF TypeOK
  <1>7. /\ \A d \in Calls \ {c} : pc'[d] = pc[d] /\ entry'[d] = entry[d]
        /\ \A q \in Processes \ {p} : table'[q] = table[q]
        /\ \A d \in Calls \ {e} : refCount'[d] = refCount[d]
        /\ refCount'[e] = refCount[e] - 1
        /\ pc'[c] = "done" /\ entry'[c] = None
    BY <1>1, <1>4 DEF TypeOK
  <1>8. \A d \in Calls : /\ pc'[d] \in Passed <=> pc[d] \in Passed
                         /\ UsesEntry(d)' <=> (d # c /\ UsesEntry(d))
                         /\ pc'[d] = "idle" <=> pc[d] = "idle"
    BY <1>2, <1>7 DEF UsesEntry, Passed
  <1>9. Users(e)' = Users(e) \ {c} /\ c \in Users(e)
    BY <1>2, <1>3, <1>7, <1>8 DEF Users
  <1>10. \A x \in Calls : x # e => Users(x)' = Users(x)
    BY <1>3, <1>7, <1>8 DEF Users
  <1>11. refCount'[e] = Cardinality(Users(e)')
    <2>1. Cardinality(Users(e) \ {c}) = Cardinality(Users(e)) - 1
      BY <1>9, UsersFinite, FS_RemoveElement
    <2> QED BY <1>5, <1>7, <1>9, <2>1
  <1>12. ASSUME Unused(e) PROVE \A d \in Calls : d # c => entry[d] # e
    <2> SUFFICES ASSUME NEW d \in Calls, d # c, entry[d] = e PROVE FALSE  OBVIOUS
    <2>1. d \in Users(e)'
      BY <1>3, <1>7, <1>8 DEF SemaphoreInv, Users
    <2>2. refCount'[e] = 0
      BY <1>1, <1>5, <1>7, <1>12 DEF Unused, TypeOK
    <2>3. IsFiniteSet(Users(e) \ {c})  BY UsersFinite, FS_RemoveElement
    <2>4. Users(e)' = {}  BY <1>9, <1>11, <2>2, <2>3, FS_EmptySet
    <2> QED BY <2>1, <2>4
  <1>13. ASSUME ~Unused(e) PROVE refCount'[e] > 0
    <2>1. CASE sem[e]
      <3>1. PICK d \in Calls : pc[d] \in Passed /\ entry[d] = e
        BY <1>1, <1>3, <2>1 DEF SemaphoreInv
      <3>2. d # c  BY <1>2, <3>1 DEF Passed
      <3>3. d \in Users(e)'
        BY <1>7, <1>8, <3>1, <3>2 DEF Users, UsesEntry
      <3>4. IsFiniteSet(Users(e) \ {c}) /\ Cardinality(Users(e) \ {c}) \in Nat
        BY UsersFinite, FS_RemoveElement, FS_CardinalityType
      <3>5. Cardinality(Users(e) \ {c}) # 0  BY <1>9, <3>3, <3>4, FS_EmptySet
      <3> QED BY <1>9, <1>11, <3>4, <3>5
    <2>2. CASE ~sem[e]
      BY <1>1, <1>5, <1>7, <1>13, <2>2 DEF Unused, TypeOK
    <2> QED BY <2>1, <2>2
  <1>14. \A q \in Processes : q # p /\ table[q] # None => table[q] \in Calls /\ table[q] # e
    BY <1>1, <1>3 DEF SemaphoreInv, TypeOK
  <1>15. \A q \in Processes : table'[q] # None => table'[q] = table[q] /\ (q = p => ~Unused(e))
    BY <1>1, <1>4, <1>7 DEF TypeOK
  <1>16. EntriesShared'
    <2>1. ASSUME NEW d \in Calls, UsesEntry(d)'
          PROVE  entry'[d] # None /\ table'[ProcessOf[d]] = entry'[d]
      <3>1. d # c /\ UsesEntry(d)  BY <1>8, <2>1
      <3>2. entry[d] # None /\ table[ProcessOf[d]] = entry[d] /\ ProcessOf[d] \in Processes
        BY <3>1, ProcessAssumption DEF SemaphoreInv, EntriesShared
      <3>3. CASE ProcessOf[d] = p
        <4>1. ~Unused(e)  BY <1>3, <1>12, <3>1, <3>2, <3>3
        <4> QED BY <1>4, <1>7, <3>1, <3>2, <4>1
      <3>4. CASE ProcessOf[d] # p  BY <1>7, <3>1, <3>2, <3>4
      <3> QED BY <3>3, <3>4
    <2>2. ASSUME NEW q \in Processes, NEW x \in Calls, table'[q] = x
          PROVE  refCount'[x] = Cardinality(Users(x)') /\ refCount'[x] > 0
      <3>1. x # None /\ table[q] = x  BY <1>15, <2>2, CallsAssumption
      <3>2. CASE q = p
        <4>1. x = e /\ ~Unused(e)  BY <1>3, <1>15, <2>2, <3>1, <3>2
        <4> QED BY <1>11, <1>13, <4>1
      <3>3. CASE q # p
        <4>1. x # e  BY <1>14, <3>1, <3>3
        <4>2. refCount[x] = Cardinality(Users(x)) /\ refCount[x] > 0
          BY <3>1 DEF SemaphoreInv, EntriesShared
        <4> QED BY <1>7, <1>10, <4>1, <4>2
      <3> QED BY <3>2, <3>3
    <2>3. ASSUME NEW q \in Processes, table'[q] # None
          PROVE  (refCount[table[q]] = Cardinality(Users(table[q])) /\ refCount[table[q]] > 0)'
      <3>1. PICK x \in Calls : table'[q] = x  BY <1>6, <2>3 DEF TypeOK
      <3>2. Users(x)' = Users(table[q])'  BY <3>1 DEF Users
      <3> QED BY <2>2, <3>1, <3>2
    <2> QED BY <1>6, <2>1, <2>3 DEF EntriesShared
  <1>17. NoTwoPassed'  BY <1>8 DEF SemaphoreInv, NoTwoPassed
  <1>18. \A d \in Calls : entry'[d] # None => /\ UsesEntry(d)'
                                              /\ ProcessOf[entry'[d]] = ProcessOf[d]
                                              /\ pc'[entry'[d]] # "idle"
    <2> SUFFICES ASSUME NEW d \in Calls, entry'[d] # None
                 PROVE  UsesEntry(d)' /\ ProcessOf[entry'[d]] = ProcessOf[d] /\ pc'[entry'[d]] # "idle"
      OBVIOUS
    <2>1. d # c /\ entry'[d] = entry[d] /\ entry[d] \in Calls  BY <1>1, <1>7 DEF TypeOK
    <2> QED BY <1>8, <2>1 DEF SemaphoreInv
  <1>19. \A d \in Calls : pc'[d] \in Passed => sem'[entry'[d]]
    BY <1>2, <1>4, <1>7, <1>8 DEF SemaphoreInv, Passed
  <1>20. \A q \in Processes : table'[q] # None => ProcessOf[table'[q]] = q /\ pc'[table'[q]] # "idle"
    BY <1>1, <1>8, <1>15 DEF SemaphoreInv, TypeOK
  <1>21. \A q \in Processes : table'[q] # None /\ sem'[table'[q]] =>
                                \E d \in Calls : pc'[d] \in Passed /\ entry'[d] = table'[q]
    <2> SUFFICES ASSUME NEW q \in Processes, table'[q] # None, sem'[table'[q]]
                 PROVE  \E d \in Calls : pc'[d] \in Passed /\ entry'[d] = table'[q]
      OBVIOUS
    <2>1. table'[q] = table[q] /\ table[q] # None /\ sem[table[q]]  BY <1>4, <1>15
    <2>2. PICK d \in Calls : pc[d] \in Passed /\ entry[d] = table[q]  BY <2>1 DEF SemaphoreInv
    <2>3. d # c  BY <1>2, <2>2 DEF Passed
    <2> QED BY <1>7, <1>8, <2>1, <2>2, <2>3
  <1>22. \A d \in Calls : pc'[d] = "idle" => refCount'[d] = 0 /\ ~sem'[d]
    <2>1. pc[e] # "idle"  BY <1>3 DEF SemaphoreInv
    <2> QED BY <1>4, <1>7, <1>8, <2>1 DEF SemaphoreInv
  <1> QED BY <1>16, <1>17, <1>18, <1>19, <1>20, <1>21, <1>22 DEF SemaphoreInv

\* A process dies with its table and all its calls.
LEMMA CrashKeeps ==
  ASSUME SemaphoreInv, NEW p \in Processes, Crash(p)
  PROVE  SemaphoreInv'
  <1>1. TypeOK  BY DEF SemaphoreInv, EntriesShared
  <1>2. /\ pc' = [c \in Calls |-> IF ProcessOf[c] = p THEN "dead" ELSE pc[c]]
        /\ table' = [table EXCEPT ![p] = None]
        /\ entry' = [c \in Calls |-> IF ProcessOf[c] = p THEN None ELSE entry[c]]
        /\ UNCHANGED <<sem, refCount, file, stale>>
    BY DEF Crash, disk
  <1>3. TypeOK'  BY <1>1, <1>2 DEF TypeOK
  <1>4. \A d \in Calls : /\ UsesEntry(d)' <=> (ProcessOf[d] # p /\ UsesEntry(d))
                         /\ pc'[d] \in Passed <=> (ProcessOf[d] # p /\ pc[d] \in Passed)
                         /\ pc'[d] = "idle" => pc[d] = "idle"
                         /\ entry'[d] # None => ProcessOf[d] # p /\ entry'[d] = entry[d]
                         /\ ProcessOf[d] # p => pc'[d] = pc[d] /\ entry'[d] = entry[d]
    BY <1>2 DEF UsesEntry, Passed
  <1>5. \A q \in Processes : table'[q] # None => q # p /\ table'[q] = table[q]
    BY <1>1, <1>2 DEF TypeOK
  <1>6. \A q \in Processes : q # p => table'[q] = table[q]  BY <1>1, <1>2 DEF TypeOK
  <1>7. \A x \in Calls : ProcessOf[x] # p => Users(x)' = Users(x)
    <2> SUFFICES ASSUME NEW x \in Calls, ProcessOf[x] # p, NEW d \in Calls
                 PROVE  (entry'[d] = x /\ UsesEntry(d)') <=> (entry[d] = x /\ UsesEntry(d))
      BY DEF Users
    <2>1. x # None  BY CallsAssumption
    <2>2. entry[d] = x => ProcessOf[d] # p  BY <2>1 DEF SemaphoreInv
    <2> QED BY <1>4, <2>1, <2>2
  <1>8. EntriesShared'
    <2>1. \A d \in Calls : UsesEntry(d)' => entry'[d] # None /\ table'[ProcessOf[d]] = entry'[d]
      BY <1>4, <1>6, ProcessAssumption DEF SemaphoreInv, EntriesShared
    <2>2. ASSUME NEW q \in Processes, table'[q] # None
          PROVE  (refCount[table[q]] = Cardinality(Users(table[q])) /\ refCount[table[q]] > 0)'
      <3>1. PICK x \in Calls : table'[q] = x  BY <1>3, <2>2 DEF TypeOK
      <3>2. table[q] = x /\ q # p  BY <1>5, <2>2, <3>1
      <3>3. ProcessOf[x] # p  BY <2>2, <3>1, <3>2 DEF SemaphoreInv
      <3>4. Users(x)' = Users(table[q])'  BY <3>1 DEF Users
      <3>5. refCount[x] = Cardinality(Users(x)) /\ refCount[x] > 0
        BY <2>2, <3>1, <3>2 DEF SemaphoreInv, EntriesShared
      <3> QED BY <1>2, <1>7, <3>1, <3>3, <3>4, <3>5
    <2> QED BY <1>3, <2>1, <2>2 DEF EntriesShared
  <1>9. NoTwoPassed'  BY <1>4 DEF SemaphoreInv, NoTwoPassed
  <1>10. \A d \in Calls : entry'[d] # None => /\ UsesEntry(d)'
                                              /\ ProcessOf[entry'[d]] = ProcessOf[d]
                                              /\ pc'[entry'[d]] # "idle"
    BY <1>1, <1>4 DEF SemaphoreInv, TypeOK
  <1>11. \A d \in Calls : pc'[d] \in Passed => sem'[entry'[d]]
    BY <1>2, <1>4 DEF SemaphoreInv
  <1>12. \A q \in Processes : table'[q] # None => ProcessOf[table'[q]] = q /\ pc'[table'[q]] # "idle"
    BY <1>1, <1>4, <1>5 DEF SemaphoreInv, TypeOK
  <1>13. \A q \in Processes : table'[q] # None /\ sem'[table'[q]] =>
                                \E d \in Calls : pc'[d] \in Passed /\ entry'[d] = table'[q]
    <2> SUFFICES ASSUME NEW q \in Processes, table'[q] # None, sem'[table'[q]]
                 PROVE  \E d \in Calls : pc'[d] \in Passed /\ entry'[d] = table'[q]
      OBVIOUS
    <2>1. q # p /\ table'[q] = table[q] /\ sem[table[q]] /\ table[q] # None /\ table[q] \in Calls
      BY <1>1, <1>2, <1>5 DEF TypeOK
    <2>2. PICK d \in Calls : pc[d] \in Passed /\ entry[d] = table[q]  BY <2>1 DEF SemaphoreInv
    <2>3. ProcessOf[d] = q  BY <2>1, <2>2 DEF SemaphoreInv
    <2> QED BY <1>4, <2>1, <2>2, <2>3
  <1>14. \A e \in Calls : pc'[e] = "idle" => refCount'[e] = 0 /\ ~sem'[e]
    BY <1>2, <1>4 DEF SemaphoreInv
  <1> QED BY <1>8, <1>9, <1>10, <1>11, <1>12, <1>13, <1>14 DEF SemaphoreInv

\* The lock file and its time change no semaphore.
LEMMA FileStepKeeps ==
  ASSUME SemaphoreInv, NEW c \in Calls, FileStep(c) \/ Heartbeat(c)
  PROVE  SemaphoreInv'
  <1>1. TypeOK  BY DEF SemaphoreInv, EntriesShared
  <1>2. UNCHANGED memory
    BY DEF FileStep, Create, Exists, Write, WriteFails, Stat, Reclaim, Poll, FileLockFails,
           Unlock, Unlink, Heartbeat, memory
  <1>3. file' \in Calls \cup {None} /\ stale' \in BOOLEAN
    BY <1>1 DEF TypeOK, FileStep, Create, Exists, Write, WriteFails, Stat, Reclaim, Poll,
           FileLockFails, Unlock, Unlink, Heartbeat, Unlinked, Removed, disk
  <1>4. \/ pc' = pc
        \/ pc[c] \in Passed /\ \E at \in Passed : pc' = [pc EXCEPT ![c] = at]
    BY DEF FileStep, Create, Exists, Write, WriteFails, Stat, Reclaim, Poll, FileLockFails,
           Unlock, Unlink, Heartbeat, At, Goto, Passed
  <1>5. TypeOK'  BY <1>1, <1>2, <1>3, <1>4 DEF TypeOK, memory, Passed
  <1>6. \A d \in Calls : \/ pc'[d] = pc[d]
                         \/ pc'[d] \in Passed /\ pc[d] \in Passed
    BY <1>1, <1>4 DEF TypeOK
  <1> QED BY <1>2, <1>5, <1>6, PassedMoves

\* Every step keeps the semaphores in order.
LEMMA SemaphoreKept == SemaphoreInv /\ [Next]_vars => SemaphoreInv'
  <1> SUFFICES ASSUME SemaphoreInv, [Next]_vars PROVE SemaphoreInv'  OBVIOUS
  <1>1. ASSUME NEW c \in Calls, MemoryStep(c) PROVE SemaphoreInv'
    BY <1>1, AcquireKeeps, TakeSemKeeps, QueueCtxDoneKeeps, FreeSemKeeps, ReleaseKeeps
       DEF MemoryStep
  <1>2. ASSUME NEW c \in Calls, FileStep(c) \/ Heartbeat(c) PROVE SemaphoreInv'
    BY <1>2, FileStepKeeps
  <1>3. CASE GoStale
    <2>1. TypeOK'  BY <1>3 DEF SemaphoreInv, EntriesShared, TypeOK, GoStale, memory
    <2>2. UNCHANGED memory /\ pc' = pc  BY <1>3 DEF GoStale
    <2> QED BY <2>1, <2>2, PassedMoves
  <1>4. CASE UNCHANGED vars
    <2>1. TypeOK'
      BY <1>4 DEF SemaphoreInv, EntriesShared, TypeOK, vars, memory, disk
    <2>2. UNCHANGED memory /\ pc' = pc  BY <1>4 DEF vars
    <2> QED BY <2>1, <2>2, PassedMoves
  <1>5. ASSUME NEW p \in Processes, Crash(p) PROVE SemaphoreInv'  BY <1>5, CrashKeeps
  <1> QED BY <1>1, <1>2, <1>3, <1>4, <1>5 DEF Next

\* The table of every process is in order, whatever fails ...
THEOREM EntriesAreShared == SafeSpec => []EntriesShared
  <1>1. SemaphoreInv => EntriesShared  BY DEF SemaphoreInv
  <1> QED BY <1>1, SemaphoreInit, SemaphoreKept, PTL DEF SafeSpec

\* ... so that the goroutines of a process exclude each other even when the
\* lock file does not.
THEOREM ProcessExcludes == SafeSpec => []OnePerProcess
  <1>1. SemaphoreInv => OnePerProcess  BY DEF SemaphoreInv, OnePerProcess, SemaphoreBack
  <1> QED BY <1>1, SemaphoreInit, SemaphoreKept, PTL DEF SafeSpec

-----------------------------------------------------------------------------
(* Between processes, when none dies or stands still and no file operation   *)
(* fails: then the file is never stale, and it is that of the one call past  *)
(* its creation.                                                             *)

Healthy == Crashable = {} /\ Stallable = {} /\ ~FsMayFail

FileInv ==
  /\ TypeOK
  /\ ~stale
  /\ \A c \in Calls : /\ pc[c] \in {"created", "holding", "unlinking"} <=> file = c
                      /\ pc[c] \notin {"removing", "dead"}

LEMMA FileInit == Init => FileInv
  <1> SUFFICES ASSUME Init PROVE FileInv  OBVIOUS
  <1>1. TypeOK  BY DEF Init, TypeOK
  <1>2. \A c \in Calls : pc[c] = "idle" /\ file # c  BY CallsAssumption DEF Init
  <1> QED BY <1>1, <1>2 DEF Init, FileInv

LEMMA FileKept ==
  ASSUME Healthy, SemaphoreInv, SemaphoreInv', FileInv, [Next]_vars
  PROVE  FileInv'
  <1>0. TypeOK /\ TypeOK' /\ None \notin Calls
    BY CallsAssumption DEF SemaphoreInv, EntriesShared
  <1> USE DEF At, Goto
  <1>1. ASSUME NEW c \in Calls, MemoryStep(c) PROVE FileInv'
    BY <1>0, <1>1 DEF FileInv, MemoryStep, AcquireEntry, TakeSem, QueueCtxDone, FreeSem,
                      ReleaseEntry, TypeOK, disk
  <1>2. ASSUME NEW c \in Calls, Create(c) \/ Write(c) \/ Unlock(c) PROVE FileInv'
    BY <1>0, <1>2 DEF FileInv, Create, Write, Unlock, TypeOK, disk
  <1>3. ASSUME NEW c \in Calls, Unlink(c) PROVE FileInv'
    BY <1>0, <1>3 DEF Healthy, FileInv, Unlink, Unlinked, Removed, TypeOK
  <1>4. ASSUME NEW c \in Calls, Exists(c) \/ Poll(c) \/ FileLockFails(c) PROVE FileInv'
    BY <1>0, <1>4 DEF Healthy, FileInv, Exists, Poll, FileLockFails, TypeOK, disk
  <1>5. ASSUME NEW c \in Calls, Stat(c) PROVE FileInv'
    BY <1>0, <1>5 DEF FileInv, Stat, IsStale, TypeOK, disk
  <1>6. ASSUME NEW c \in Calls PROVE ~WriteFails(c) /\ ~Reclaim(c)
    BY DEF Healthy, FileInv, WriteFails, Reclaim
  <1>7. ASSUME NEW c \in Calls, Heartbeat(c) PROVE FileInv'
    BY <1>0, <1>7 DEF FileInv, Heartbeat
  <1>8. ~GoStale
    BY <1>0 DEF Healthy, FileInv, GoStale, KeepsFresh, TypeOK
  <1>9. \A p \in Processes : ~Crash(p)  BY DEF Healthy, Crash
  <1>10. CASE UNCHANGED vars  BY <1>0, <1>10 DEF FileInv, vars, disk
  <1> QED BY <1>1, <1>2, <1>3, <1>4, <1>5, <1>6, <1>7, <1>8, <1>9, <1>10 DEF Next, FileStep

\* A lock file never goes stale under a holder, so no two calls hold the lock.
THEOREM LockExcludes == ASSUME Healthy PROVE SafeSpec => []OneHolder
  <1>1. SemaphoreInv /\ SemaphoreInv' /\ FileInv /\ [Next]_vars => FileInv'  BY FileKept
  <1>2. FileInv => OneHolder  BY DEF FileInv, OneHolder, At
  <1> QED BY <1>1, <1>2, FileInit, SemaphoreInit, SemaphoreKept, PTL DEF SafeSpec

\* The lock file always has its owner.
THEOREM FileIsOwned == ASSUME Healthy PROVE SafeSpec => []FileHasOwner
  <1>1. SemaphoreInv /\ SemaphoreInv' /\ FileInv /\ [Next]_vars => FileInv'  BY FileKept
  <1>2. FileInv => FileHasOwner  BY DEF FileInv, FileHasOwner, TypeOK
  <1> QED BY <1>1, <1>2, FileInit, SemaphoreInit, SemaphoreKept, PTL DEF SafeSpec

\* Every step is one of the mutex's, or none.
LEMMA StepIsMutexStep ==
  ASSUME Healthy, SemaphoreInv, FileInv, FileInv', [Next]_vars
  PROVE  [Lock!Next]_places
  <1>0. TypeOK  BY DEF FileInv
  <1> DEFINE Moves(c, from, to) == pc[c] \in from /\ \E at \in to : pc' = [pc EXCEPT ![c] = at]
             Waiting == {"queued", "opening", "stating", "removing", "polling", "created"}
             Left == {"unlinking", "freeing", "releasing", "done"}
  <1>1. ASSUME pc' = pc PROVE UNCHANGED places  BY <1>1 DEF places
  <1>2. ASSUME NEW c \in Calls, Moves(c, Waiting, Waiting) \/ Moves(c, Left, Left)
        PROVE  UNCHANGED places
    BY <1>0, <1>2 DEF places, PlaceAt, TypeOK
  <1>p. ASSUME NEW c \in Calls, NEW at, pc' = [pc EXCEPT ![c] = at]
        PROVE  places' = [places EXCEPT ![c] = PlaceAt[at]]
    BY <1>0, <1>p DEF places, TypeOK
  <1>q. \A c \in Calls : places[c] = PlaceAt[pc[c]]  BY DEF places
  <1>r. /\ PlaceAt["idle"] = "out" /\ PlaceAt["holding"] = "in"
        /\ \A at \in Waiting : PlaceAt[at] = "waiting"
        /\ \A at \in Left : PlaceAt[at] = "left"
    BY DEF PlaceAt
  <1>3. ASSUME NEW c \in Calls, Moves(c, {"idle"}, Waiting) PROVE Lock!Ask(c)
    <2>1. places[c] = "out" /\ places' = [places EXCEPT ![c] = "waiting"]
      <3>1. PICK at \in Waiting : pc' = [pc EXCEPT ![c] = at]  BY <1>3
      <3>2. places' = [places EXCEPT ![c] = PlaceAt[at]]  BY <3>1, <1>p
      <3> QED BY <1>3, <1>q, <1>r, <3>2
    <2> QED BY <2>1 DEF Lock!Ask, Lock!Goes
  <1>4. ASSUME NEW c \in Calls, Moves(c, Waiting, Left) PROVE Lock!GiveUp(c)
    <2>1. places[c] = "waiting" /\ places' = [places EXCEPT ![c] = "left"]
      <3>1. PICK at \in Left : pc' = [pc EXCEPT ![c] = at]  BY <1>4
      <3>2. places' = [places EXCEPT ![c] = PlaceAt[at]]  BY <3>1, <1>p
      <3> QED BY <1>4, <1>q, <1>r, <3>2
    <2> QED BY <2>1 DEF Lock!GiveUp, Lock!Goes
  <1>5. ASSUME NEW c \in Calls, Moves(c, {"holding"}, Left) PROVE Lock!Leave(c)
    <2>1. places[c] = "in" /\ places' = [places EXCEPT ![c] = "left"]
      <3>1. PICK at \in Left : pc' = [pc EXCEPT ![c] = at]  BY <1>5
      <3>2. places' = [places EXCEPT ![c] = PlaceAt[at]]  BY <3>1, <1>p
      <3> QED BY <1>5, <1>q, <1>r, <3>2
    <2> QED BY <2>1 DEF Lock!Leave, Lock!Goes
  <1>6. ASSUME NEW c \in Calls, Write(c) PROVE Lock!Enter(c)
    <2>1. pc[c] = "created" /\ pc' = [pc EXCEPT ![c] = "holding"]
      BY <1>6 DEF Write, At, Goto
    <2>2. \A d \in Calls : pc[d] # "holding"  BY <2>1 DEF FileInv
    <2>3. \A d \in Calls : places[d] # "in"
      BY <1>0, <2>2 DEF places, PlaceAt, TypeOK
    <2>4. places[c] = "waiting" /\ places' = [places EXCEPT ![c] = "in"]
      <3>1. places' = [places EXCEPT ![c] = PlaceAt["holding"]]  BY <2>1, <1>p
      <3>2. places[c] = PlaceAt["created"]  BY <2>1, <1>q
      <3> QED BY <1>r, <3>1, <3>2
    <2> QED BY <2>3, <2>4 DEF Lock!Enter, Lock!Goes
  <1>7. ASSUME NEW c \in Calls, MemoryStep(c) PROVE [Lock!Next]_places
    <2>1. \/ Moves(c, {"idle"}, Waiting) \/ Moves(c, Waiting, Waiting)
          \/ Moves(c, Waiting, Left) \/ Moves(c, Left, Left)
      BY <1>7 DEF MemoryStep, AcquireEntry, TakeSem, QueueCtxDone, FreeSem, ReleaseEntry,
                  At, Goto
    <2> QED BY <1>2, <1>3, <1>4, <2>1 DEF Lock!Next
  <1>8. ASSUME NEW c \in Calls, FileStep(c) PROVE [Lock!Next]_places
    <2>1. \/ Moves(c, Waiting, Waiting) \/ Moves(c, Waiting, Left) \/ Moves(c, Left, Left)
          \/ Moves(c, {"holding"}, Left) \/ Write(c)
      BY <1>8 DEF FileStep, Create, Exists, WriteFails, Stat, Reclaim, Poll, FileLockFails,
                  Unlock, Unlink, At, Goto
    <2> QED BY <1>2, <1>4, <1>5, <1>6, <2>1 DEF Lock!Next
  <1>9. ASSUME NEW c \in Calls, Heartbeat(c) PROVE pc' = pc  BY <1>9 DEF Heartbeat
  <1>10. CASE GoStale  BY <1>1, <1>10 DEF GoStale
  <1>11. \A p \in Processes : ~Crash(p)  BY DEF Healthy, Crash
  <1>12. CASE UNCHANGED vars  BY <1>1, <1>12 DEF vars
  <1> QED BY <1>1, <1>7, <1>8, <1>9, <1>10, <1>11, <1>12 DEF Next

\* A healthy lock keeps to Mutex, step by step.
THEOREM KeepsToMutex == ASSUME Healthy PROVE SafeSpec => Lock!SafeSpec
  <1>1. SemaphoreInv /\ SemaphoreInv' /\ FileInv /\ [Next]_vars => FileInv'  BY FileKept
  <1>2. Init => Lock!Init  BY DEF Init, Lock!Init, places, PlaceAt
  <1>3. SemaphoreInv /\ FileInv /\ FileInv' /\ [Next]_vars => [Lock!Next]_places
    BY StepIsMutexStep
  <1> QED BY <1>1, <1>2, <1>3, FileInit, SemaphoreInit, SemaphoreKept, PTL
          DEF SafeSpec, Lock!SafeSpec
=============================================================================
