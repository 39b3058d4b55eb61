-------------------------- MODULE AgentTurnsProofs --------------------------
(***************************************************************************)
(* Calls that must not run beside others never do, whatever the model asks *)
(* for, in whichever order calls come back, and wherever a run ends.  And  *)
(* calls and results stay together and in order in the conversation, in    *)
(* memory, on disk and in what the model is sent, through whatever is      *)
(* appended, left out when it is saved, compacted or cut short.            *)
(***************************************************************************)
EXTENDS AgentTurns, FiniteSetTheorems, SequenceTheorems, WellFoundedInduction, TLAPS

\* What a group may be of: calls of ts from f on, not too many, and either one or
\* all parallelizable.
Contiguous(G, ts, f) ==
  /\ f \in G
  /\ \A c \in G : \A d \in f..c : d \in G
  /\ \A c \in G : c \in f..Len(ts) /\ c < f + MaxParallel
  /\ G # {f} => \A c \in G : ts[c] \in Parallelizable

\* A group is that.
LEMMA GroupContiguous ==
  ASSUME NEW ts \in Requests, NEW f \in 1..Len(ts)
  PROVE  Contiguous(GroupFrom(ts, f), ts, f)
  <1>1. ts \in Seq(Tools) /\ Len(ts) \in Nat /\ MaxParallel \in Nat \ {0}
    BY ToolsAssumption
  <1>2. CASE ts[f] \notin Parallelizable
    BY <1>1, <1>2 DEF GroupFrom, Contiguous
  <1>3. CASE ts[f] \in Parallelizable
    BY <1>1, <1>3 DEF GroupFrom, Contiguous
  <1> QED BY <1>2, <1>3

\* The k numbers from f on.
LEMMA IntervalFinite ==
  ASSUME NEW f \in Nat, NEW k \in Nat
  PROVE  IsFiniteSet(f..(f + k - 1)) /\ Cardinality(f..(f + k - 1)) = k
  <1> DEFINE b == f + k - 1
  <1>1. b \in Int /\ f \in Int  OBVIOUS
  <1>2. IsFiniteSet(f..b) /\ Cardinality(f..b) = IF f > b THEN 0 ELSE b - f + 1
    BY <1>1, FS_Interval
  <1>3. (IF f > b THEN 0 ELSE b - f + 1) = k  OBVIOUS
  <1> QED BY <1>2, <1>3

\* A group is an interval, and as long as it has members.
LEMMA GroupIsInterval ==
  ASSUME NEW ts \in Requests, NEW f \in 1..Len(ts), NEW G, G = GroupFrom(ts, f)
  PROVE  /\ IsFiniteSet(G) /\ Cardinality(G) \in 1..MaxParallel
         /\ G = f..(f + Cardinality(G) - 1)
         /\ f + Cardinality(G) \in 2..(Len(ts) + 1)
  <1>1. ts \in Seq(Tools) /\ Len(ts) \in Nat /\ MaxParallel \in Nat \ {0} /\ f \in Nat
    BY ToolsAssumption
  <1>2. Contiguous(G, ts, f)  BY GroupContiguous
  <1> DEFINE cap == f..(f + MaxParallel - 1)
             n == Cardinality(G)
  <1>3. G \subseteq cap
    <2> SUFFICES ASSUME NEW c \in G  PROVE c \in cap  OBVIOUS
    <2>1. c \in f..Len(ts) /\ c < f + MaxParallel  BY <1>2 DEF Contiguous
    <2> QED BY <1>1, <2>1
  <1>4. IsFiniteSet(cap) /\ Cardinality(cap) = MaxParallel  BY <1>1, IntervalFinite
  <1>5. IsFiniteSet(G) /\ n <= MaxParallel  BY <1>3, <1>4, FS_Subset
  <1>6. n \in Nat  BY <1>5, FS_CardinalityType
  <1>7. n # 0  BY <1>2, <1>5, FS_EmptySet DEF Contiguous
  <1> HIDE DEF n
  <1>8. f + n \notin G
    <2> SUFFICES ASSUME f + n \in G  PROVE FALSE  OBVIOUS
    <2>1. f..(f + n) \subseteq G  BY <1>2 DEF Contiguous
    <2>2. Cardinality(f..(f + n)) = n + 1  BY <1>1, <1>6, FS_Interval
    <2>3. Cardinality(f..(f + n)) <= n  BY <2>1, <1>5, FS_Subset DEF n
    <2> QED BY <1>6, <2>2, <2>3
  <1>9. G \subseteq f..(f + n - 1)
    <2> SUFFICES ASSUME NEW c \in G  PROVE c \in f..(f + n - 1)  OBVIOUS
    <2>1. c \in f..Len(ts) /\ \A d \in f..c : d \in G  BY <1>2 DEF Contiguous
    <2>2. f + n \notin f..c  BY <1>8, <2>1
    <2> QED BY <1>1, <1>6, <2>1, <2>2
  <1>10. Cardinality(f..(f + n - 1)) = n /\ IsFiniteSet(f..(f + n - 1))
    BY <1>1, <1>6, IntervalFinite
  <1>11. G = f..(f + n - 1)  BY <1>9, <1>10, FS_Subset DEF n
  <1>12. f + n - 1 \in G  BY <1>1, <1>6, <1>7, <1>11
  <1>13. f + n - 1 <= Len(ts)
    <2>1. f + n - 1 \in f..Len(ts)  BY <1>2, <1>12 DEF Contiguous
    <2> QED BY <1>1, <1>6, <2>1
  <1> QED BY <1>1, <1>5, <1>6, <1>7, <1>11, <1>13 DEF n

-----------------------------------------------------------------------------
(* The invariant: while tools are at work, all calls before the group have *)
(* come back, those of the group run, have come back or broken, and no     *)
(* other has been started; else no call is running or remembered.          *)

\* The calls of ts that have been started, f being the first of the group.
AtWork(ts, f, run, back, broke) ==
  /\ ts \in Requests /\ f \in 1..Len(ts)
  /\ run \subseteq GroupFrom(ts, f) /\ run \cap back = {}
  /\ 1..(f - 1) \subseteq back /\ back \subseteq 1..(f - 1) \cup GroupFrom(ts, f)
  /\ ~broke => GroupFrom(ts, f) \subseteq run \cup back

Quiet == running = {} /\ done = {} /\ broken = FALSE

IInv == IF at = "tools" THEN AtWork(calls, from, running, done, broken) ELSE Quiet

\* It implies the property.
LEMMA AloneFromInvariant == IInv => SideEffectsAlone
  <1> SUFFICES ASSUME IInv  PROVE SideEffectsAlone  OBVIOUS
  <1>1. CASE at # "tools"
    <2>1. Cardinality(running) = 0  BY <1>1, FS_EmptySet DEF IInv, Quiet
    <2> QED BY <1>1, <2>1, ToolsAssumption DEF IInv, Quiet, SideEffectsAlone
  <1>2. CASE at = "tools"
    <2>1. AtWork(calls, from, running, done, broken)  BY <1>2 DEF IInv
    <2>2. calls \in Requests /\ from \in 1..Len(calls) /\ Len(calls) \in Nat /\ from \in Nat
      BY <2>1, ToolsAssumption DEF AtWork
    <2> DEFINE G == GroupFrom(calls, from)
    <2>3. Contiguous(G, calls, from)  BY <2>2, GroupContiguous
    <2>4. IsFiniteSet(G) /\ Cardinality(G) \in 1..MaxParallel  BY <2>2, GroupIsInterval
    <2>5. running \subseteq G /\ running \cap done = {} /\ 1..(from - 1) \subseteq done
          /\ done \subseteq 1..(from - 1) \cup G
      BY <2>1 DEF AtWork
    <2> HIDE DEF G
    <2>6. Cardinality(running) <= MaxParallel
      <3>1. IsFiniteSet(running) /\ Cardinality(running) <= Cardinality(G)
        BY <2>4, <2>5, FS_Subset
      <3>2. Cardinality(running) \in Nat  BY <3>1, FS_CardinalityType
      <3> QED BY <2>4, <3>1, <3>2, ToolsAssumption
    <2>7. ASSUME NEW c \in running, calls[c] \notin Parallelizable
          PROVE  running = {c} /\ done = 1..(c - 1)
      <3>1. G = {from}  BY <2>3, <2>5, <2>7 DEF Contiguous
      <3>2. c = from  BY <2>5, <3>1
      <3> QED BY <2>5, <3>1, <3>2
    <2>8. ASSUME NEW c \in running \cup done, NEW d \in 1..(c - 1), calls[d] \notin Parallelizable
          PROVE  d \in done
      <3>1. c \in 1..(from - 1) \cup G  BY <2>5
      <3>2. c \in Nat  BY <2>2, <2>3, <3>1 DEF Contiguous
      <3>3. CASE d < from  BY <2>2, <2>5, <3>2, <3>3
      <3>4. CASE d >= from
        <4>1. c \in G /\ c > d  BY <2>2, <3>1, <3>2, <3>4
        <4>2. d \in G  BY <2>2, <2>3, <3>2, <3>4, <4>1 DEF Contiguous
        <4>3. G # {from}  BY <2>2, <3>2, <3>4, <4>1
        <4> QED BY <2>3, <2>8, <4>2, <4>3 DEF Contiguous
      <3> QED BY <2>2, <3>2, <3>3, <3>4
    <2> QED BY <2>6, <2>7, <2>8 DEF SideEffectsAlone
  <1> QED BY <1>1, <1>2

\* A step after which no tools are at work.
LEMMA EndedQuiet == EndRun => Quiet' /\ at' = "idle"
  BY DEF EndRun, Quiet

\* The first group of a request ...
LEMMA StartedAtWork ==
  ASSUME NEW ts \in Requests
  PROVE  AtWork(ts, 1, GroupFrom(ts, 1), {}, FALSE)
  <1>1. ts \in Seq(Tools) \ {<<>>}  BY ToolsAssumption
  <1>2. 1 \in 1..Len(ts)  BY <1>1
  <1> QED BY <1>2 DEF AtWork

\* ... and the one after a group whose calls have all come back.
LEMMA NextAtWork ==
  ASSUME NEW ts, NEW f, NEW back, AtWork(ts, f, {}, back, FALSE),
         NEW g, g = f + Cardinality(GroupFrom(ts, f)), g <= Len(ts)
  PROVE  AtWork(ts, g, GroupFrom(ts, g), back, FALSE)
  <1> DEFINE G == GroupFrom(ts, f)
  <1>1. ts \in Requests /\ f \in 1..Len(ts) /\ Len(ts) \in Nat  BY ToolsAssumption DEF AtWork
  <1>2. /\ Cardinality(G) \in 1..MaxParallel
        /\ G = f..(f + Cardinality(G) - 1) /\ g \in 2..(Len(ts) + 1)
    BY <1>1, GroupIsInterval
  <1>3. 1..(f - 1) \subseteq back /\ back \subseteq 1..(f - 1) \cup G /\ G \subseteq back
    BY DEF AtWork
  <1> HIDE DEF G
  <1>4. Cardinality(G) \in Nat /\ g = f + Cardinality(G)  BY <1>2, ToolsAssumption DEF G
  <1>5. back = 1..(g - 1)
    <2>1. G = f..(g - 1) /\ g > f  BY <1>1, <1>2, <1>4, ToolsAssumption
    <2>2. back = 1..(f - 1) \cup G  BY <1>3
    <2>3. f \in Nat \ {0} /\ g \in Nat  BY <1>1, <1>4
    <2>4. 1..(f - 1) \cup f..(g - 1) = 1..(g - 1)  BY <2>1, <2>3
    <2> QED BY <2>1, <2>2, <2>4
  <1>6. g \in 1..Len(ts)  BY <1>1, <1>2
  <1>7. Contiguous(GroupFrom(ts, g), ts, g)  BY <1>1, <1>6, GroupContiguous
  <1>8. GroupFrom(ts, g) \cap back = {}  BY <1>1, <1>5, <1>6, <1>7 DEF Contiguous
  <1> QED BY <1>1, <1>5, <1>6, <1>8 DEF AtWork

-----------------------------------------------------------------------------
\* It holds at first ...
LEMMA InitIInv == Init => IInv
  BY DEF Init, IInv, Quiet

\* The run's steps keep it, up to the answer of the model ...
LEMMA BeforeTools ==
  ASSUME IInv,
         \/ Ask \/ AskCompacted \/ AskFails \/ CompactLast \/ OutOfSteps
         \/ Overloaded \/ TooLong \/ AskingFails \/ Answers \/ Idles
         \/ \E ts \in Requests : Loops(ts)
  PROVE  IInv'
  <1>1. at # "tools" /\ Quiet
    BY DEF IInv, Ask, AskCompacted, AskFails, CompactLast, OutOfSteps, Overloaded, TooLong,
           AskingFails, Answers, Idles, Loops
  <1>2. CASE Ask \/ AskCompacted
    <2>1. (\E ms : Asks(ms)) \/ EndRun  BY <1>2 DEF Ask, AskCompacted
    <2>2. (\E ms : Asks(ms)) => Quiet' /\ at' = "asking"  BY <1>1 DEF Asks, Quiet, batch
    <2> QED BY <2>1, <2>2, EndedQuiet DEF IInv
  <1>3. CASE AskFails \/ OutOfSteps \/ AskingFails \/ Answers \/ \E ts \in Requests : Loops(ts)
    <2>1. EndRun  BY <1>3 DEF AskFails, OutOfSteps, AskingFails, Answers, Loops
    <2> QED BY <2>1, EndedQuiet DEF IInv
  <1>4. CASE Overloaded \/ CompactLast
    <2>1. at' # "tools" /\ Quiet'  BY <1>1, <1>4 DEF Overloaded, CompactLast, Quiet, batch
    <2> QED BY <2>1 DEF IInv
  <1>5. CASE TooLong
    <2>1. EndRun \/ (at' = at /\ UNCHANGED batch)  BY <1>5 DEF TooLong
    <2> QED BY <1>1, <2>1, EndedQuiet DEF IInv, Quiet, batch
  <1>6. CASE Idles
    <2>1. EndRun \/ (at' = "step" /\ UNCHANGED batch)  BY <1>6 DEF Idles
    <2> QED BY <1>1, <2>1, EndedQuiet DEF IInv, Quiet, batch
  <1> QED BY <1>2, <1>3, <1>4, <1>5, <1>6

\* ... when it asks for tools ...
LEMMA ToolsStart ==
  ASSUME IInv, NEW ts \in Requests, NEW same, CallTools(ts, same)
  PROVE  IInv'
  <1>1. at = "asking"  BY DEF CallTools
  <1>2. broken = FALSE  BY <1>1 DEF IInv, Quiet
  <1>3. \/ EndRun
        \/ /\ at' = "tools" /\ calls' = ts /\ from' = 1
           /\ running' = GroupFrom(ts, 1) /\ done' = {} /\ broken' = broken
    BY DEF CallTools
  <1> QED BY <1>2, <1>3, StartedAtWork, EndedQuiet DEF IInv

\* ... and while tools are at work.
LEMMA DuringTools ==
  ASSUME IInv,
         \/ \E c \in running : Returns(c) \/ Breaks(c)
         \/ NextGroup \/ TurnEnds \/ GroupFails
  PROVE  IInv'
  <1>1. at = "tools" /\ AtWork(calls, from, running, done, broken)
    BY DEF IInv, Returns, Breaks, NextGroup, TurnEnds, GroupFails
  <1>2. ASSUME NEW c \in running, Returns(c)  PROVE IInv'
    <2>1. /\ at' = at /\ calls' = calls /\ from' = from /\ broken' = broken
          /\ running' = running \ {c} /\ done' = done \cup {c}
      BY <1>2 DEF Returns
    <2>2. AtWork(calls, from, running \ {c}, done \cup {c}, broken)  BY <1>1, <1>2 DEF AtWork
    <2> QED BY <1>1, <2>1, <2>2 DEF IInv
  <1>3. ASSUME NEW c \in running, Breaks(c)  PROVE IInv'
    <2>1. /\ at' = at /\ calls' = calls /\ from' = from /\ broken' = TRUE
          /\ running' = running \ {c} /\ done' = done
      BY <1>3 DEF Breaks
    <2>2. AtWork(calls, from, running \ {c}, done, TRUE)  BY <1>1, <1>3 DEF AtWork
    <2> QED BY <1>1, <2>1, <2>2 DEF IInv
  <1>4. CASE NextGroup
    <2> DEFINE g == from + Cardinality(GroupFrom(calls, from))
    <2>1. /\ running = {} /\ ~broken /\ g <= Len(calls)
          /\ at' = at /\ calls' = calls /\ from' = g /\ done' = done /\ broken' = broken
          /\ running' = GroupFrom(calls, g)
      BY <1>4 DEF NextGroup, Group
    <2>2. AtWork(calls, from, {}, done, FALSE)  BY <1>1, <2>1 DEF AtWork
    <2> HIDE DEF g
    <2>3. AtWork(calls, g, GroupFrom(calls, g), done, FALSE)  BY <2>1, <2>2, NextAtWork DEF g
    <2>4. AtWork(calls, g, GroupFrom(calls, g), done, broken)  BY <2>1, <2>3 DEF AtWork
    <2> QED BY <1>1, <2>1, <2>4 DEF IInv
  <1>5. CASE TurnEnds
    <2>1. \/ EndRun
          \/ at' = "step" /\ running' = running /\ done' = {} /\ broken' = broken
      BY <1>5 DEF TurnEnds
    <2>2. running = {} /\ ~broken  BY <1>5 DEF TurnEnds
    <2>3. CASE EndRun  BY <2>3, EndedQuiet DEF IInv
    <2>4. CASE ~EndRun
      <3>1. at' = "step" /\ running' = running /\ done' = {} /\ broken' = broken  BY <2>1, <2>4
      <3> QED BY <2>2, <3>1 DEF IInv, Quiet
    <2> QED BY <2>3, <2>4
  <1>6. CASE GroupFails
    BY <1>6, EndedQuiet DEF GroupFails, IInv
  <1> QED BY <1>2, <1>3, <1>4, <1>5, <1>6

\* The other steps end the run or leave it alone.
LEMMA BesideRun ==
  ASSUME IInv,
         (\E mention \in BOOLEAN : Prompt(mention)) \/ Notify \/ Compact \/ ToggleMode \/ Crash
  PROVE  IInv'
  <1>1. CASE \E mention \in BOOLEAN : Prompt(mention)
    <2>1. at = "idle" /\ at' \in {"idle", "step"} /\ UNCHANGED batch  BY <1>1 DEF Prompt
    <2> QED BY <2>1 DEF IInv, Quiet, batch
  <1>2. CASE Notify \/ Compact \/ ToggleMode
    <2>1. at' = at /\ UNCHANGED batch  BY <1>2 DEF Notify, Compact, ToggleMode
    <2> QED BY <2>1 DEF IInv, Quiet, batch
  <1>3. CASE Crash  BY <1>3, EndedQuiet DEF Crash, IInv
  <1> QED BY <1>1, <1>2, <1>3

\* ... and every step keeps it.
LEMMA StepIInv == IInv /\ [Next]_vars => IInv'
  <1> SUFFICES ASSUME IInv, [Next]_vars  PROVE IInv'  OBVIOUS
  <1>1. CASE RunStep
    BY <1>1, BeforeTools, ToolsStart, DuringTools DEF RunStep
  <1>2. CASE Next /\ ~RunStep  BY <1>2, BesideRun DEF Next
  <1>3. CASE UNCHANGED vars  BY <1>3 DEF vars, batch, IInv, Quiet
  <1> QED BY <1>1, <1>2, <1>3

\* A call that must not run beside others starts when all before it have come
\* back, and none behind it starts before it has (partitionForParallelExecution,
\* executeToolCallsParallel and the loop over the groups in processTurn), for any
\* tools, any requests and any limit.
THEOREM CallsRunAlone == SafeSpec => []SideEffectsAlone
  <1>1. SafeSpec => []IInv  BY InitIInv, StepIInv, PTL DEF SafeSpec
  <1> QED BY <1>1, AloneFromInvariant, PTL

-----------------------------------------------------------------------------
(* What is saved of a conversation: the k-th number of a set, from below.  *)

Rank(S, c) == Cardinality({d \in S : d <= c})

\* A greater member has more members up to it.
LEMMA RankGrows ==
  ASSUME NEW S \in SUBSET Int, IsFiniteSet(S)
  PROVE  /\ Cardinality(S) \in Nat
         /\ \A c \in S : Rank(S, c) \in 1..Cardinality(S)
         /\ \A c, d \in S : c < d => Rank(S, c) < Rank(S, d)
  <1>1. Cardinality(S) \in Nat  BY FS_CardinalityType
  <1>2. ASSUME NEW c \in S
        PROVE  /\ IsFiniteSet({x \in S : x <= c}) /\ Rank(S, c) \in Nat
               /\ Rank(S, c) \in 1..Cardinality(S)
    <2> DEFINE U == {x \in S : x <= c}
    <2>1. IsFiniteSet(U) /\ Cardinality(U) <= Cardinality(S)  BY FS_Subset
    <2>2. Cardinality(U) \in Nat  BY <2>1, FS_CardinalityType
    <2>3. Cardinality(U) # 0
      <3>1. c \in U  OBVIOUS
      <3> QED BY <2>1, <3>1, FS_EmptySet
    <2> QED BY <1>1, <2>1, <2>2, <2>3 DEF Rank
  <1>3. ASSUME NEW c \in S, NEW d \in S, c < d  PROVE Rank(S, c) < Rank(S, d)
    <2> DEFINE U == {x \in S : x <= c}
               V == {x \in S : x <= d}
    <2>1. U \subseteq V \ {d} /\ d \in V
      <3>1. \A x \in S : x \in Int  OBVIOUS
      <3>2. c \in Int /\ d \in Int  OBVIOUS
      <3>3. ASSUME NEW x \in U  PROVE x \in V /\ x # d
        <4>1. x \in S /\ x <= c /\ x \in Int  BY <3>1
        <4> QED BY <1>3, <3>2, <4>1
      <3>4. d \in V  BY <3>2
      <3> QED BY <3>3, <3>4
    <2>2. IsFiniteSet(V) /\ Cardinality(V) \in Nat /\ Cardinality(U) \in Nat  BY <1>2 DEF Rank
    <2>3. IsFiniteSet(V \ {d}) /\ Cardinality(V \ {d}) = Cardinality(V) - 1
      BY <2>1, <2>2, FS_RemoveElement
    <2>4. Cardinality(U) <= Cardinality(V \ {d})  BY <2>1, <2>3, FS_Subset
    <2> HIDE DEF U, V
    <2>5. Cardinality(U) < Cardinality(V)  BY <2>2, <2>3, <2>4
    <2> QED BY <2>5 DEF Rank, U, V
  <1> QED BY <1>1, <1>2, <1>3

\* Every number up to the size of the set is the rank of one member.
LEMMA NthHasRank ==
  ASSUME NEW S \in SUBSET Int, IsFiniteSet(S), NEW k \in 1..Cardinality(S)
  PROVE  Nth(S, k) \in S /\ Rank(S, Nth(S, k)) = k
  <1> DEFINE n == Cardinality(S)
             g == [c \in S |-> Rank(S, c)]
  <1>1. n \in Nat /\ \A c \in S : Rank(S, c) \in 1..n  BY RankGrows
  <1>2. \A c, d \in S : c # d => Rank(S, c) # Rank(S, d)
    <2> SUFFICES ASSUME NEW c \in S, NEW d \in S, c # d  PROVE Rank(S, c) # Rank(S, d)
      OBVIOUS
    <2>1. Rank(S, c) \in Int /\ Rank(S, d) \in Int  BY <1>1
    <2>2. c < d \/ d < c  OBVIOUS
    <2> QED BY <2>1, <2>2, RankGrows
  <1>3. g \in [S -> 1..n]  BY <1>1
  <1>4. g \in Injection(S, 1..n)  BY <1>2, <1>3 DEF Injection, IsInjective
  <1>5. IsFiniteSet(1..n) /\ Cardinality(1..n) = n
    <2> HIDE DEF n
    <2> QED BY <1>1, FS_Interval
  <1>6. g \in Surjection(S, 1..n)  BY <1>4, <1>5, FS_Injection
  <1>7. \E c \in S : g[c] = k  BY <1>6 DEF Surjection
  <1>8. \E c \in S : Rank(S, c) = k  BY <1>7
  <1> QED BY <1>8 DEF Nth, Rank

\* So the k-th member is the one of that rank, and they come in order.
LEMMA NthInOrder ==
  ASSUME NEW S \in SUBSET Int, IsFiniteSet(S)
  PROVE  /\ \A c \in S : Nth(S, Rank(S, c)) = c
         /\ \A j, k \in 1..Cardinality(S) : j < k => Nth(S, j) < Nth(S, k)
  <1>1. Cardinality(S) \in Nat /\ \A c \in S : Rank(S, c) \in 1..Cardinality(S)  BY RankGrows
  <1>2. ASSUME NEW c \in S  PROVE Nth(S, Rank(S, c)) = c
    <2>1. PICK d : d = Nth(S, Rank(S, c))  OBVIOUS
    <2>2. d \in S /\ Rank(S, d) = Rank(S, c)  BY <1>1, <2>1, NthHasRank
    <2>3. Rank(S, c) \in Int  BY <1>1
    <2>4. ~(c < d) /\ ~(d < c)
      <3>1. c < d => Rank(S, c) < Rank(S, d)  BY <2>2, RankGrows
      <3>2. d < c => Rank(S, d) < Rank(S, c)  BY <2>2, RankGrows
      <3> QED BY <2>2, <2>3, <3>1, <3>2
    <2> QED BY <2>1, <2>2, <2>4
  <1>3. ASSUME NEW j \in 1..Cardinality(S), NEW k \in 1..Cardinality(S), j < k
        PROVE  Nth(S, j) < Nth(S, k)
    <2>1. PICK c, d : c = Nth(S, j) /\ d = Nth(S, k)  OBVIOUS
    <2>2. c \in S /\ d \in S /\ Rank(S, c) = j /\ Rank(S, d) = k  BY <2>1, NthHasRank
    <2>3. d < c => Rank(S, d) < Rank(S, c)  BY <2>2, RankGrows
    <2>4. ~(d < c) /\ d # c  BY <1>3, <2>2, <2>3
    <2> QED BY <2>1, <2>2, <2>4
  <1> QED BY <1>2, <1>3

\* What follows a member without a gap follows it in rank.
LEMMA RankOfRun ==
  ASSUME NEW S \in SUBSET Int, IsFiniteSet(S), NEW i \in S, NEW n \in Nat,
         (i + 1)..(i + n) \subseteq S
  PROVE  i + n \in S /\ Rank(S, i + n) = Rank(S, i) + n
  <1> DEFINE U == {x \in S : x <= i}
             W == (i + 1)..(i + n)
             V == {x \in S : x <= i + n}
  <1>1. V = U \cup W /\ U \cap W = {}
    <2>1. i \in Int /\ \A x \in S : x \in Int  OBVIOUS
    <2>2. ASSUME NEW x \in V  PROVE x \in U \cup W  BY <2>1, <2>2
    <2>3. ASSUME NEW x \in U \cup W  PROVE x \in V  BY <2>1, <2>3
    <2>4. ASSUME NEW x \in U, x \in W  PROVE FALSE  BY <2>1, <2>4
    <2> QED BY <2>2, <2>3, <2>4
  <1>2. IsFiniteSet(U)  BY FS_Subset
  <1>3. IsFiniteSet(W) /\ Cardinality(W) = n
    <2>1. i + 1 \in Int /\ i + n \in Int  OBVIOUS
    <2>2. IsFiniteSet(W) /\ Cardinality(W) = IF i + 1 > i + n THEN 0 ELSE i + n - (i + 1) + 1
      BY <2>1, FS_Interval
    <2> QED BY <2>2
  <1>4. Cardinality(U) \in Nat  BY <1>2, FS_CardinalityType
  <1>5. Cardinality(V) = Cardinality(U) + Cardinality(W) - 0
    BY <1>1, <1>2, <1>3, FS_Union, FS_EmptySet
  <1>6. i + n \in S
    <2>1. CASE n = 0  BY <2>1
    <2>2. CASE n > 0  BY <2>2
    <2> QED BY <2>1, <2>2
  <1>7. Cardinality(V) = Cardinality(U) + n
    <2> HIDE DEF U, V, W
    <2> QED BY <1>3, <1>4, <1>5
  <1> QED BY <1>6, <1>7 DEF Rank

\* The k-th number of an interval.
LEMMA NthOfInterval ==
  ASSUME NEW f \in Nat, NEW n \in Nat, NEW k \in 1..n
  PROVE  Nth(f..(f + n - 1), k) = f + k - 1
  <1> DEFINE S == f..(f + n - 1)
  <1>1. IsFiniteSet(S) /\ Cardinality(S) = n  BY IntervalFinite
  <1>2. S \in SUBSET Int /\ f + k - 1 \in S  OBVIOUS
  <1>3. {d \in S : d <= f + k - 1} = f..(f + k - 1)  OBVIOUS
  <1>4. Rank(S, f + k - 1) = k
    <2>1. k \in Nat  OBVIOUS
    <2>2. Cardinality(f..(f + k - 1)) = k  BY <2>1, IntervalFinite
    <2> QED BY <1>3, <2>2 DEF Rank
  <1> HIDE DEF S
  <1>5. Nth(S, k) = f + k - 1  BY <1>1, <1>2, <1>4, NthInOrder
  <1> QED BY <1>5 DEF S

-----------------------------------------------------------------------------
(* What saving leaves of a conversation.                                   *)

Message == [kind : Messages, of : Nat, tools : Requests \cup {<<>>}, call : Nat]

NoNotes(ms) == \A i \in DOMAIN ms : ms[i].kind # "note"

\* A message that is saved goes to the rank of its place, be it that all are saved.
LEMMA DurableIs ==
  ASSUME NEW ms \in Seq(Message)
  PROVE  Durable(ms) = [k \in 1..Cardinality(Saved(ms)) |-> ms[Nth(Saved(ms), k)]]
  <1>1. PICK n : n = Len(ms)  OBVIOUS
  <1>2. n \in Nat /\ DOMAIN ms = 1..n /\ ms = [k \in 1..n |-> ms[k]]  BY <1>1
  <1>3. CASE Saved(ms) = DOMAIN ms
    <2>1. Cardinality(1..n) = n
      <3>1. 1..n = 1..(1 + n - 1)  BY <1>2
      <3>2. Cardinality(1..(1 + n - 1)) = n
        <4>1. 1 \in Int /\ n \in Nat  BY <1>2
        <4> QED BY <4>1, IntervalFinite
      <3> QED BY <3>1, <3>2
    <2>2. ASSUME NEW k \in 1..n  PROVE Nth(1..n, k) = k
      <3>1. 1..n = 1..(1 + n - 1) /\ 1 + k - 1 = k  BY <1>2
      <3>2. Nth(1..(1 + n - 1), k) = 1 + k - 1  BY <1>2, NthOfInterval
      <3> QED BY <3>1, <3>2
    <2>3. [k \in 1..n |-> ms[Nth(1..n, k)]] = ms  BY <1>2, <2>2
    <2>4. Durable(ms) = ms /\ Saved(ms) = 1..n  BY <1>2, <1>3 DEF Durable
    <2> QED BY <2>1, <2>3, <2>4
  <1>4. CASE Saved(ms) # DOMAIN ms
    BY <1>4 DEF Durable
  <1> QED BY <1>3, <1>4

CallsUpTo(ms, n) == \A i \in DOMAIN ms : ms[i].kind = "calls" => ms[i].of <= n

\* Each message that is saved is found at the rank of its place, and no other is.
LEMMA DurableFacts ==
  ASSUME NEW ms \in Seq(Message)
  PROVE  /\ Saved(ms) \in SUBSET Int /\ Saved(ms) \subseteq DOMAIN ms /\ IsFiniteSet(Saved(ms))
         /\ Durable(ms) \in Seq(Message) /\ Len(Durable(ms)) = Cardinality(Saved(ms))
         /\ \A k \in DOMAIN Durable(ms) :
              /\ k \in 1..Cardinality(Saved(ms))
              /\ Nth(Saved(ms), k) \in Saved(ms) /\ Rank(Saved(ms), Nth(Saved(ms), k)) = k
              /\ Durable(ms)[k] = ms[Nth(Saved(ms), k)]
         /\ \A i \in Saved(ms) : /\ Rank(Saved(ms), i) \in DOMAIN Durable(ms)
                                 /\ Durable(ms)[Rank(Saved(ms), i)] = ms[i]
  <1>1. PICK S : S = Saved(ms)  OBVIOUS
  <1>2. Len(ms) \in Nat /\ DOMAIN ms = 1..Len(ms) /\ \A i \in DOMAIN ms : ms[i] \in Message
    OBVIOUS
  <1>3. S \subseteq 1..Len(ms)  BY <1>1, <1>2 DEF Saved
  <1>4. S \in SUBSET Int /\ IsFiniteSet(S)
    <2>1. Len(ms) \in Int /\ 1 \in Int  BY <1>2
    <2>2. IsFiniteSet(1..Len(ms))  BY <2>1, FS_Interval
    <2>3. S \in SUBSET (1..Len(ms))  BY <1>3
    <2>4. IsFiniteSet(S)  BY <2>2, <2>3, FS_Subset
    <2> QED BY <2>1, <2>3, <2>4
  <1>5. PICK n : n = Cardinality(S)  OBVIOUS
  <1>6. n \in Nat /\ \A c \in S : Rank(S, c) \in 1..n  BY <1>4, <1>5, RankGrows
  <1>7. \A k \in 1..n : Nth(S, k) \in S /\ Rank(S, Nth(S, k)) = k  BY <1>4, <1>5, NthHasRank
  <1>8. Durable(ms) = [k \in 1..n |-> ms[Nth(S, k)]]  BY <1>1, <1>5, DurableIs
  <1>9. \A k \in 1..n : ms[Nth(S, k)] \in Message  BY <1>2, <1>3, <1>7
  <1>10. Durable(ms) \in Seq(Message) /\ Len(Durable(ms)) = n  BY <1>6, <1>8, <1>9
  <1>11. \A c \in S : Nth(S, Rank(S, c)) = c  BY <1>4, NthInOrder
  <1> QED BY <1>1, <1>2, <1>3, <1>4, <1>5, <1>6, <1>7, <1>8, <1>10, <1>11

\* Every message that is left was there, and none is a note.
LEMMA DurableFrom ==
  ASSUME NEW ms \in Seq(Message)
  PROVE  /\ Durable(ms) \in Seq(Message)
         /\ \A k \in DOMAIN Durable(ms) : \E i \in DOMAIN ms : Durable(ms)[k] = ms[i]
         /\ NoNotes(Durable(ms))
         /\ \A n : CallsUpTo(ms, n) => CallsUpTo(Durable(ms), n)
  <1>1. Durable(ms) \in Seq(Message)  BY DurableFacts
  <1>2. \A k \in DOMAIN Durable(ms) :
          \E i \in DOMAIN ms : Durable(ms)[k] = ms[i] /\ ms[i].kind # "note"
    <2>1. Saved(ms) \subseteq DOMAIN ms /\ \A i \in Saved(ms) : ms[i].kind # "note"
      BY DEF Saved
    <2> QED BY <2>1, DurableFacts
  <1> QED BY <1>1, <1>2 DEF NoNotes, CallsUpTo

\* Without notes nothing is left out ...
LEMMA DurableIsSame ==
  ASSUME NEW ms \in Seq(Message), NoNotes(ms)
  PROVE  Durable(ms) = ms
  <1>1. Saved(ms) = DOMAIN ms  BY DEF Saved, NoNotes
  <1> QED BY <1>1 DEF Durable

\* ... so that saving again changes nothing ...
LEMMA DurableTwice ==
  ASSUME NEW ms \in Seq(Message)
  PROVE  Durable(Durable(ms)) = Durable(ms)
  BY DurableFrom, DurableIsSame

\* ... and notes at the end make no difference.
LEMMA DurableDrained ==
  ASSUME NEW ms \in Seq(Message), NEW ns \in Seq(Message), \A i \in DOMAIN ns : ns[i].kind = "note"
  PROVE  Durable(ms \o ns) = Durable(ms)
  <1>1. PICK all : all = ms \o ns  OBVIOUS
  <1>2. /\ all \in Seq(Message) /\ Len(all) = Len(ms) + Len(ns)
        /\ Len(ms) \in Nat /\ Len(ns) \in Nat
        /\ \A i \in 1..Len(ms) : all[i] = ms[i]
        /\ \A i \in 1..Len(ns) : all[Len(ms) + i] = ns[i]
    BY <1>1
  <1>3. ASSUME NEW i \in DOMAIN all, all[i].kind # "note"  PROVE i \in 1..Len(ms)
    <2> SUFFICES ASSUME i > Len(ms)  PROVE FALSE  BY <1>2
    <2>1. i - Len(ms) \in 1..Len(ns) /\ i = Len(ms) + (i - Len(ms))  BY <1>2
    <2> QED BY <1>2, <1>3, <2>1
  <1>4. Saved(all) = Saved(ms)
    <2>1. DOMAIN ms = 1..Len(ms) /\ DOMAIN ms \subseteq DOMAIN all  BY <1>2
    <2> QED BY <1>2, <1>3, <2>1 DEF Saved
  <1>5. \A k \in 1..Cardinality(Saved(ms)) : Nth(Saved(ms), k) \in 1..Len(ms)
    BY <1>2, DurableFacts
  <1>6. Durable(all) = [k \in 1..Cardinality(Saved(ms)) |-> all[Nth(Saved(ms), k)]]
    BY <1>2, <1>4, DurableIs
  <1>7. Durable(all) = [k \in 1..Cardinality(Saved(ms)) |-> ms[Nth(Saved(ms), k)]]
    BY <1>2, <1>5, <1>6
  <1> QED BY <1>1, <1>7, DurableIs

\* The calls of a message, and what is needed of messages of a kind.
LEMMA ToolsOfMessage ==
  ASSUME NEW m \in Message, NEW c \in DOMAIN m.tools
  PROVE  c \in Nat \ {0} /\ 1..c \subseteq DOMAIN m.tools
  <1>1. m.tools \in Seq(Tools)  BY ToolsAssumption DEF Message
  <1> QED BY <1>1

\* Calls and results that are in order stay so: nothing is left out between them.
LEMMA DurableSound ==
  ASSUME NEW ms \in Seq(Message), NEW open, ResultsFollowCalls(ms, open)
  PROVE  ResultsFollowCalls(Durable(ms), open)
  <1>1. PICK S : S = Saved(ms)  OBVIOUS
  <1>2. PICK D : D = Durable(ms)  OBVIOUS
  <1>3. /\ S \in SUBSET Int /\ S \subseteq DOMAIN ms /\ IsFiniteSet(S)
        /\ D \in Seq(Message) /\ DOMAIN D = 1..Len(D) /\ Len(D) \in Nat
        /\ \A k \in DOMAIN D : Nth(S, k) \in S /\ Rank(S, Nth(S, k)) = k /\ D[k] = ms[Nth(S, k)]
        /\ \A i \in S : Rank(S, i) \in DOMAIN D /\ D[Rank(S, i)] = ms[i]
    BY <1>1, <1>2, DurableFacts
  <1>4. DOMAIN ms = 1..Len(ms) /\ Len(ms) \in Nat  OBVIOUS
  <1>5. \A i \in DOMAIN ms : ms[i].kind \in {"calls", "result"} => i \in S
    BY <1>1 DEF Saved
  <1>6. ASSUME NEW j \in DOMAIN D, D[j].kind = "result"
        PROVE  \E i \in 1..(j-1) :
                 /\ D[i].kind = "calls" /\ D[i].of = D[j].of /\ D[j].call \in DOMAIN D[i].tools
                 /\ \A k \in (i+1)..(j-1) : /\ D[k].kind = "result" /\ D[k].of = D[j].of
                                            /\ D[k].call < D[j].call
    <2>1. PICK q : q = Nth(S, j)  OBVIOUS
    <2>2. q \in S /\ q \in DOMAIN ms /\ Rank(S, q) = j /\ D[j] = ms[q]  BY <1>3, <2>1
    <2>3. PICK p \in 1..(q-1) :
            /\ ms[p].kind = "calls" /\ ms[p].of = ms[q].of /\ ms[q].call \in DOMAIN ms[p].tools
            /\ \A k \in (p+1)..(q-1) : /\ ms[k].kind = "result" /\ ms[k].of = ms[q].of
                                       /\ ms[k].call < ms[q].call
      BY <1>6, <2>2 DEF ResultsFollowCalls
    <2>4. p \in Nat /\ q \in Nat /\ p < q /\ p \in DOMAIN ms  BY <1>4, <2>2
    <2>5. p \in S  BY <1>5, <2>3, <2>4
    <2>6. ASSUME NEW k \in (p+1)..q  PROVE k \in S
      <3>1. k = q \/ k \in (p+1)..(q-1)  BY <2>4
      <3>2. k \in DOMAIN ms  BY <1>4, <2>2, <2>4
      <3> QED BY <1>5, <2>2, <2>3, <3>1, <3>2
    <2>7. ASSUME NEW m \in Nat, p + m <= q
          PROVE  p + m \in S /\ Rank(S, p + m) = Rank(S, p) + m
      <3>1. (p + 1)..(p + m) \subseteq S  BY <2>4, <2>6, <2>7
      <3> QED BY <1>3, <2>5, <3>1, RankOfRun
    <2>8. PICK i : i = Rank(S, p)  OBVIOUS
    <2>9. i \in Nat \ {0} /\ D[i] = ms[p] /\ i \in DOMAIN D  BY <1>3, <2>5, <2>8
    <2>10. j = i + (q - p)
      <3>1. q - p \in Nat /\ p + (q - p) = q  BY <2>4
      <3> QED BY <2>2, <2>7, <2>8, <3>1
    <2>11. i \in 1..(j-1)  BY <2>4, <2>9, <2>10
    <2>12. ASSUME NEW k \in (i+1)..(j-1)
           PROVE  D[k].kind = "result" /\ D[k].of = D[j].of /\ D[k].call < D[j].call
      <3>1. k - i \in Nat /\ p + (k - i) <= q /\ p + (k - i) \in (p+1)..(q-1)
        BY <2>4, <2>9, <2>10
      <3>2. p + (k - i) \in S /\ Rank(S, p + (k - i)) = i + (k - i)  BY <2>7, <2>8, <3>1
      <3>3. i + (k - i) = k  BY <2>9
      <3>4. D[k] = ms[p + (k - i)]  BY <1>3, <3>2, <3>3
      <3> QED BY <2>2, <2>3, <3>1, <3>4
    <2> QED BY <2>2, <2>3, <2>9, <2>11, <2>12
  <1>7. ASSUME NEW i \in DOMAIN D, D[i].kind = "calls", D[i].of \notin open,
               NEW c \in DOMAIN D[i].tools
        PROVE  Answered(D, i, c)
    <2>1. PICK p : p = Nth(S, i)  OBVIOUS
    <2>2. p \in S /\ p \in DOMAIN ms /\ Rank(S, p) = i /\ D[i] = ms[p] /\ p \in Nat
      <3>1. p \in S /\ Rank(S, p) = i /\ D[i] = ms[p]  BY <1>3, <2>1
      <3>2. p \in DOMAIN ms  BY <1>3, <3>1
      <3> QED BY <1>4, <3>1, <3>2
    <2>3. ms[p] \in Message  BY <2>2
    <2>4. c \in Nat \ {0} /\ 1..c \subseteq DOMAIN ms[p].tools  BY <2>2, <2>3, ToolsOfMessage
    <2>5. ASSUME NEW b \in 1..c  PROVE p + b \in DOMAIN ms /\ ms[p + b] = ResultMsg(ms[p].of, b)
      <3>1. b \in DOMAIN ms[p].tools  BY <2>4
      <3> QED BY <1>7, <2>2, <3>1 DEF ResultsFollowCalls, Answered
    <2>6. (p + 1)..(p + c) \subseteq S
      <3> SUFFICES ASSUME NEW k \in (p + 1)..(p + c)  PROVE k \in S  OBVIOUS
      <3>1. k - p \in 1..c /\ p + (k - p) = k  BY <2>2, <2>4
      <3>2. k \in DOMAIN ms /\ ms[k] = ResultMsg(ms[p].of, k - p)  BY <2>5, <3>1
      <3> QED BY <1>5, <3>2 DEF ResultMsg
    <2>7. p + c \in S /\ Rank(S, p + c) = i + c  BY <1>3, <2>2, <2>4, <2>6, RankOfRun
    <2>8. i + c \in DOMAIN D /\ D[i + c] = ms[p + c]  BY <1>3, <2>7
    <2>9. ms[p + c] = ResultMsg(ms[p].of, c)  BY <2>4, <2>5
    <2> QED BY <2>2, <2>8, <2>9 DEF Answered
  <1>8. ResultsFollowCalls(D, open)  BY <1>6, <1>7 DEF ResultsFollowCalls
  <1> QED BY <1>2, <1>8

-----------------------------------------------------------------------------
(* What is appended to a conversation, and the results of calls.           *)

\* The messages of two conversations, one behind the other.
LEMMA JoinedAt ==
  ASSUME NEW ms \in Seq(Message), NEW tail \in Seq(Message)
  PROVE  /\ ms \o tail \in Seq(Message)
         /\ Len(ms) \in Nat /\ Len(tail) \in Nat /\ DOMAIN ms = 1..Len(ms)
         /\ Len(ms \o tail) = Len(ms) + Len(tail) /\ DOMAIN (ms \o tail) = 1..(Len(ms) + Len(tail))
         /\ \A i \in 1..Len(ms) : (ms \o tail)[i] = ms[i]
         /\ \A i \in (Len(ms) + 1)..(Len(ms) + Len(tail)) :
              i - Len(ms) \in DOMAIN tail /\ (ms \o tail)[i] = tail[i - Len(ms)]
  OBVIOUS

LEMMA NothingIsSound ==
  ASSUME NEW open
  PROVE  ResultsFollowCalls(<<>>, open)
  BY DEF ResultsFollowCalls

\* What is in order but for some requests is in order but for more.
LEMMA SoundForMore ==
  ASSUME NEW ms, NEW open, NEW wider, ResultsFollowCalls(ms, open), open \subseteq wider
  PROVE  ResultsFollowCalls(ms, wider)
  BY DEF ResultsFollowCalls

\* Messages without results may follow, requests only that are still open.
LEMMA TailSound ==
  ASSUME NEW ms \in Seq(Message), NEW tail \in Seq(Message), NEW open, ResultsFollowCalls(ms, open),
         \A i \in DOMAIN tail : /\ tail[i].kind # "result"
                                /\ tail[i].kind = "calls" => tail[i].of \in open
  PROVE  ms \o tail \in Seq(Message) /\ ResultsFollowCalls(ms \o tail, open)
  <1>1. PICK all : all = ms \o tail  OBVIOUS
  <1>2. /\ all \in Seq(Message) /\ Len(ms) \in Nat /\ Len(tail) \in Nat /\ DOMAIN ms = 1..Len(ms)
        /\ DOMAIN all = 1..(Len(ms) + Len(tail))
        /\ \A i \in 1..Len(ms) : all[i] = ms[i]
        /\ \A i \in (Len(ms) + 1)..(Len(ms) + Len(tail)) :
             i - Len(ms) \in DOMAIN tail /\ all[i] = tail[i - Len(ms)]
    BY <1>1, JoinedAt
  <1>3. \A i \in DOMAIN all : i \in DOMAIN ms \/ i \in (Len(ms) + 1)..(Len(ms) + Len(tail))
    BY <1>2
  <1>4. ASSUME NEW j \in DOMAIN all, all[j].kind = "result"
        PROVE  \E i \in 1..(j-1) :
                 /\ all[i].kind = "calls" /\ all[i].of = all[j].of /\ all[j].call \in DOMAIN all[i].tools
                 /\ \A k \in (i+1)..(j-1) : /\ all[k].kind = "result" /\ all[k].of = all[j].of
                                            /\ all[k].call < all[j].call
    <2>1. j \in DOMAIN ms  BY <1>2, <1>3, <1>4
    <2>2. ms[j].kind = "result"  BY <1>2, <1>4, <2>1
    <2>3. PICK i \in 1..(j-1) :
            /\ ms[i].kind = "calls" /\ ms[i].of = ms[j].of /\ ms[j].call \in DOMAIN ms[i].tools
            /\ \A k \in (i+1)..(j-1) : /\ ms[k].kind = "result" /\ ms[k].of = ms[j].of
                                       /\ ms[k].call < ms[j].call
      BY <2>1, <2>2 DEF ResultsFollowCalls
    <2>4. \A k \in 1..j : k \in 1..Len(ms) /\ all[k] = ms[k]  BY <1>2, <2>1
    <2>5. j \in 1..j /\ i \in 1..j /\ \A k \in (i+1)..(j-1) : k \in 1..j  BY <1>2, <2>1
    <2> QED BY <2>3, <2>4, <2>5
  <1>5. ASSUME NEW i \in DOMAIN all, all[i].kind = "calls", all[i].of \notin open,
               NEW c \in DOMAIN all[i].tools
        PROVE  Answered(all, i, c)
    <2>1. i \in DOMAIN ms  BY <1>2, <1>3, <1>5
    <2>2. all[i] = ms[i]  BY <1>2, <2>1
    <2>3. Answered(ms, i, c)  BY <1>5, <2>1, <2>2 DEF ResultsFollowCalls
    <2>4. i + c \in DOMAIN ms /\ ms[i + c] = ResultMsg(ms[i].of, c)  BY <2>3 DEF Answered
    <2>5. i + c \in DOMAIN all /\ all[i + c] = ms[i + c]  BY <1>2, <2>4
    <2> QED BY <2>2, <2>4, <2>5 DEF Answered
  <1>6. ResultsFollowCalls(all, open)  BY <1>4, <1>5 DEF ResultsFollowCalls
  <1> QED BY <1>1, <1>2, <1>6

\* One message: of the user or the model, a summary, or a request that is open.
LEMMA AppendSound ==
  ASSUME NEW ms \in Seq(Message), NEW m \in Message, NEW open, ResultsFollowCalls(ms, open),
         m.kind # "result", m.kind = "calls" => m.of \in open
  PROVE  Append(ms, m) \in Seq(Message) /\ ResultsFollowCalls(Append(ms, m), open)
  <1>1. <<m>> \in Seq(Message) /\ DOMAIN <<m>> = {1} /\ <<m>>[1] = m  OBVIOUS
  <1>2. Append(ms, m) = ms \o <<m>>  OBVIOUS
  <1>3. ms \o <<m>> \in Seq(Message) /\ ResultsFollowCalls(ms \o <<m>>, open)
    BY <1>1, TailSound
  <1> QED BY <1>2, <1>3

LEMMA MessageTypes ==
  /\ \A kind \in Messages, n \in Nat : Msg(kind, n) \in Message
  /\ \A n \in Nat, ts \in Requests : CallsMsg(n, ts) \in Message
  /\ \A n \in Nat, c \in Nat : ResultMsg(n, c) \in Message
  <1>1. ASSUME NEW kind \in Messages, NEW n \in Nat  PROVE Msg(kind, n) \in Message
    BY DEF Message, Msg
  <1>2. "calls" \in Messages /\ "result" \in Messages  BY DEF Messages
  <1>3. ASSUME NEW n \in Nat, NEW ts \in Requests  PROVE CallsMsg(n, ts) \in Message
    BY <1>2 DEF Message, CallsMsg
  <1>4. ASSUME NEW n \in Nat, NEW c \in Nat  PROVE ResultMsg(n, c) \in Message
    BY <1>2 DEF Message, ResultMsg
  <1> QED BY <1>1, <1>3, <1>4

-----------------------------------------------------------------------------
(* A conversation in which the calls of request n, which are ts, are being *)
(* worked off: all before f have their results, and nothing follows them.  *)

WorkedOff(ms, p, n, ts, f) ==
  /\ p \in DOMAIN ms /\ ms[p] = CallsMsg(n, ts)
  /\ Len(ms) = p + (f - 1)
  /\ \A c \in 1..(f - 1) : ms[p + c] = ResultMsg(n, c)

AllResults(ms) == \A i \in DOMAIN ms : ms[i].kind = "result"

\* The results of any of the calls from f on may follow.
LEMMA ResultsSound ==
  ASSUME NEW ms \in Seq(Message), NEW p, NEW n \in Nat, NEW ts \in Requests, NEW f \in 1..Len(ts),
         WorkedOff(ms, p, n, ts, f),
         NEW open, n \in open, ResultsFollowCalls(ms, open),
         NEW cs \in SUBSET (f..Len(ts))
  PROVE  /\ ms \o Results(n, cs) \in Seq(Message)
         /\ ResultsFollowCalls(ms \o Results(n, cs), open)
         /\ Results(n, cs) \in Seq(Message) /\ AllResults(Results(n, cs))
  <1>1. Len(ts) \in Nat /\ DOMAIN ts = 1..Len(ts) /\ f \in Nat \ {0}  BY ToolsAssumption
  <1>2. cs \in SUBSET Int /\ IsFiniteSet(cs)
    <2>1. f \in Int /\ Len(ts) \in Int  BY <1>1
    <2>2. IsFiniteSet(f..Len(ts))  BY <2>1, FS_Interval
    <2>3. IsFiniteSet(cs)  BY <2>2, FS_Subset
    <2>4. \A c \in cs : c \in f..Len(ts)  OBVIOUS
    <2>5. \A c \in cs : c \in Int  BY <2>1, <2>4
    <2> QED BY <2>3, <2>5
  <1>3. PICK h : h = Cardinality(cs)  OBVIOUS
  <1>4. h \in Nat  BY <1>2, <1>3, FS_CardinalityType
  <1>5. /\ \A k \in 1..h : Nth(cs, k) \in cs
        /\ \A j, k \in 1..h : j < k => Nth(cs, j) < Nth(cs, k)
    BY <1>2, <1>3, NthHasRank, NthInOrder
  <1>6. PICK rs : rs = Results(n, cs)  OBVIOUS
  <1>7. rs = [k \in 1..h |-> ResultMsg(n, Nth(cs, k))]  BY <1>3, <1>6 DEF Results
  <1>8. \A k \in 1..h : Nth(cs, k) \in f..Len(ts) /\ Nth(cs, k) \in Nat
    <2>1. \A c \in cs : c \in f..Len(ts)  OBVIOUS
    <2>2. \A c \in f..Len(ts) : c \in Nat  BY <1>1
    <2> QED BY <1>5, <2>1, <2>2
  <1>9. \A k \in 1..h : ResultMsg(n, Nth(cs, k)) \in Message  BY <1>8, MessageTypes
  <1>10. /\ rs \in Seq(Message) /\ Len(rs) = h /\ DOMAIN rs = 1..h
         /\ \A k \in 1..h : rs[k] = ResultMsg(n, Nth(cs, k))
    BY <1>4, <1>7, <1>9
  <1>11. PICK all : all = ms \o rs  OBVIOUS
  <1>12. /\ all \in Seq(Message) /\ Len(ms) \in Nat /\ DOMAIN ms = 1..Len(ms)
         /\ DOMAIN all = 1..(Len(ms) + h)
         /\ \A i \in 1..Len(ms) : all[i] = ms[i]
         /\ \A i \in (Len(ms) + 1)..(Len(ms) + h) :
              i - Len(ms) \in 1..h /\ all[i] = rs[i - Len(ms)]
    BY <1>10, <1>11, JoinedAt
  <1>13. /\ p \in 1..Len(ms) /\ ms[p] = CallsMsg(n, ts) /\ Len(ms) = p + (f - 1)
         /\ \A c \in 1..(f - 1) : ms[p + c] = ResultMsg(n, c)
    BY <1>12 DEF WorkedOff
  <1>14. ASSUME NEW i \in (p + 1)..Len(ms)
         PROVE  all[i].kind = "result" /\ all[i].of = n /\ all[i].call = i - p /\ all[i].call < f
    <2>1. i - p \in 1..(f - 1) /\ p + (i - p) = i /\ i \in 1..Len(ms)  BY <1>1, <1>12, <1>13
    <2>2. all[i] = ResultMsg(n, i - p)  BY <1>12, <1>13, <2>1
    <2> QED BY <1>1, <2>1, <2>2 DEF ResultMsg
  <1>15. ASSUME NEW i \in (Len(ms) + 1)..(Len(ms) + h)
         PROVE  /\ all[i].kind = "result" /\ all[i].of = n /\ all[i].call = Nth(cs, i - Len(ms))
                /\ all[i].call \in f..Len(ts)
    <2>1. all[i] = ResultMsg(n, Nth(cs, i - Len(ms))) /\ i - Len(ms) \in 1..h  BY <1>10, <1>12
    <2> QED BY <1>8, <2>1 DEF ResultMsg
  <1>16. ASSUME NEW j \in DOMAIN all, all[j].kind = "result"
         PROVE  \E i \in 1..(j-1) :
                  /\ all[i].kind = "calls" /\ all[i].of = all[j].of /\ all[j].call \in DOMAIN all[i].tools
                  /\ \A k \in (i+1)..(j-1) : /\ all[k].kind = "result" /\ all[k].of = all[j].of
                                             /\ all[k].call < all[j].call
    <2>1. CASE j \in 1..Len(ms)
      <3>1. PICK i \in 1..(j-1) :
              /\ ms[i].kind = "calls" /\ ms[i].of = ms[j].of /\ ms[j].call \in DOMAIN ms[i].tools
              /\ \A k \in (i+1)..(j-1) : /\ ms[k].kind = "result" /\ ms[k].of = ms[j].of
                                         /\ ms[k].call < ms[j].call
        BY <1>12, <1>16, <2>1 DEF ResultsFollowCalls
      <3>2. \A k \in 1..j : all[k] = ms[k]  BY <1>12, <2>1
      <3>3. j \in 1..j /\ i \in 1..j /\ \A k \in (i+1)..(j-1) : k \in 1..j  BY <1>12, <2>1
      <3> QED BY <3>1, <3>2, <3>3
    <2>2. CASE j \in (Len(ms) + 1)..(Len(ms) + h)
      <3>1. all[p] = CallsMsg(n, ts) /\ p \in 1..(j-1)  BY <1>12, <1>13, <2>2
      <3>2. all[p].kind = "calls" /\ all[p].of = n /\ all[p].tools = ts  BY <3>1 DEF CallsMsg
      <3>3. all[j].of = n /\ all[j].call \in f..Len(ts)  BY <1>15, <2>2
      <3>4. all[j].call \in DOMAIN ts  BY <1>1, <3>3
      <3>5. ASSUME NEW k \in (p+1)..(j-1)
            PROVE  all[k].kind = "result" /\ all[k].of = n /\ all[k].call < all[j].call
        <4>1. CASE k \in (p + 1)..Len(ms)
          <5>1. all[k].kind = "result" /\ all[k].of = n /\ all[k].call = k - p /\ all[k].call < f
            BY <1>14, <4>1
          <5>2. k - p \in Int  BY <1>12, <1>13, <4>1
          <5>3. PICK x, y : x = all[k].call /\ y = all[j].call  OBVIOUS
          <5>4. x \in Int /\ y \in f..Len(ts) /\ x < f  BY <3>3, <5>1, <5>2, <5>3
          <5>5. x < y  BY <1>1, <5>4
          <5> QED BY <5>1, <5>3, <5>5
        <4>2. CASE k \in (Len(ms) + 1)..(Len(ms) + h)
          <5>1. k - Len(ms) \in 1..h /\ j - Len(ms) \in 1..h /\ k - Len(ms) < j - Len(ms)
            BY <1>4, <1>12, <2>2, <4>2
          <5>2. Nth(cs, k - Len(ms)) < Nth(cs, j - Len(ms))  BY <1>5, <5>1
          <5> QED BY <1>15, <2>2, <4>2, <5>2
        <4> QED BY <1>4, <1>12, <1>13, <2>2, <4>1, <4>2
      <3> QED BY <3>1, <3>2, <3>3, <3>4, <3>5
    <2> QED BY <1>4, <1>12, <2>1, <2>2
  <1>17. ASSUME NEW i \in DOMAIN all, all[i].kind = "calls", all[i].of \notin open,
                NEW c \in DOMAIN all[i].tools
         PROVE  Answered(all, i, c)
    <2>1. i \in 1..Len(ms)
      <3>1. i \notin (Len(ms) + 1)..(Len(ms) + h)  BY <1>15, <1>17
      <3> QED BY <1>4, <1>12, <3>1
    <2>2. all[i] = ms[i]  BY <1>12, <2>1
    <2>3. Answered(ms, i, c)  BY <1>12, <1>17, <2>1, <2>2 DEF ResultsFollowCalls
    <2>4. i + c \in DOMAIN ms /\ ms[i + c] = ResultMsg(ms[i].of, c)  BY <2>3 DEF Answered
    <2>5. i + c \in DOMAIN all /\ all[i + c] = ms[i + c]  BY <1>4, <1>12, <2>4
    <2> QED BY <2>2, <2>4, <2>5 DEF Answered
  <1>18. ResultsFollowCalls(all, open)  BY <1>16, <1>17 DEF ResultsFollowCalls
  <1>19. AllResults(rs)  BY <1>10 DEF ResultMsg, AllResults
  <1> QED BY <1>6, <1>10, <1>11, <1>12, <1>18, <1>19

\* With all of a group, the request is worked off as far as the group goes.
LEMMA GroupWorkedOff ==
  ASSUME NEW ms \in Seq(Message), NEW p, NEW n \in Nat, NEW ts \in Requests, NEW f \in 1..Len(ts),
         WorkedOff(ms, p, n, ts, f), NEW g \in (f + 1)..(Len(ts) + 1)
  PROVE  WorkedOff(ms \o Results(n, f..(g - 1)), p, n, ts, g)
  <1>1. Len(ts) \in Nat /\ DOMAIN ts = 1..Len(ts) /\ f \in Nat \ {0}  BY ToolsAssumption
  <1>2. PICK h : h = g - f  OBVIOUS
  <1>3. h \in Nat /\ g - 1 = f + h - 1 /\ g \in Nat  BY <1>1, <1>2
  <1>4. Cardinality(f..(g - 1)) = h
    <2>1. Cardinality(f..(f + h - 1)) = h  BY <1>1, <1>3, IntervalFinite
    <2> QED BY <1>3, <2>1
  <1>5. ASSUME NEW k \in 1..h  PROVE Nth(f..(g - 1), k) = f + k - 1
    <2>1. Nth(f..(f + h - 1), k) = f + k - 1  BY <1>1, <1>3, NthOfInterval
    <2> QED BY <1>3, <2>1
  <1>6. PICK rs : rs = Results(n, f..(g - 1))  OBVIOUS
  <1>7. rs = [k \in 1..h |-> ResultMsg(n, Nth(f..(g - 1), k))]  BY <1>4, <1>6 DEF Results
  <1>8. \A k \in 1..h : ResultMsg(n, Nth(f..(g - 1), k)) = ResultMsg(n, f + k - 1)
                        /\ f + k - 1 \in Nat
    BY <1>1, <1>3, <1>5
  <1>9. \A k \in 1..h : ResultMsg(n, Nth(f..(g - 1), k)) \in Message  BY <1>8, MessageTypes
  <1>10. /\ rs \in Seq(Message) /\ Len(rs) = h
         /\ \A k \in 1..h : rs[k] = ResultMsg(n, f + k - 1)
    BY <1>3, <1>7, <1>8, <1>9
  <1>11. PICK all : all = ms \o rs  OBVIOUS
  <1>12. /\ Len(ms) \in Nat /\ DOMAIN ms = 1..Len(ms)
         /\ Len(all) = Len(ms) + h /\ DOMAIN all = 1..(Len(ms) + h)
         /\ \A i \in 1..Len(ms) : all[i] = ms[i]
         /\ \A i \in (Len(ms) + 1)..(Len(ms) + h) :
              i - Len(ms) \in DOMAIN rs /\ all[i] = rs[i - Len(ms)]
    BY <1>10, <1>11, JoinedAt
  <1>13. /\ p \in 1..Len(ms) /\ ms[p] = CallsMsg(n, ts) /\ Len(ms) = p + (f - 1)
         /\ \A c \in 1..(f - 1) : ms[p + c] = ResultMsg(n, c)
    BY <1>12 DEF WorkedOff
  <1>14. ASSUME NEW c \in 1..(g - 1)  PROVE all[p + c] = ResultMsg(n, c)
    <2>1. CASE c < f
      <3>1. c \in 1..(f - 1) /\ p + c \in 1..Len(ms)  BY <1>1, <1>12, <1>13, <2>1
      <3> QED BY <1>12, <1>13, <3>1
    <2>2. CASE c >= f
      <3>1. PICK k : k = c - f + 1  OBVIOUS
      <3>2. k \in 1..h /\ f + k - 1 = c  BY <1>1, <1>2, <1>3, <2>2, <3>1
      <3>3. p + c = Len(ms) + k /\ p + c \in (Len(ms) + 1)..(Len(ms) + h) /\ (p + c) - Len(ms) = k
        BY <1>1, <1>3, <1>12, <1>13, <3>1, <3>2
      <3> QED BY <1>10, <1>12, <3>2, <3>3
    <2> QED BY <1>1, <1>3, <2>1, <2>2
  <1>15. p \in DOMAIN all /\ all[p] = CallsMsg(n, ts) /\ Len(all) = p + (g - 1)
    BY <1>1, <1>2, <1>3, <1>12, <1>13
  <1>16. WorkedOff(all, p, n, ts, g)  BY <1>14, <1>15 DEF WorkedOff
  <1> QED BY <1>6, <1>11, <1>16

\* A request that is worked off to its end is open no more.
LEMMA RequestClosed ==
  ASSUME NEW ms \in Seq(Message), NEW p, NEW n \in Nat, NEW ts \in Requests,
         WorkedOff(ms, p, n, ts, Len(ts) + 1),
         \A i \in DOMAIN ms : ms[i].kind = "calls" /\ i # p => ms[i].of # n,
         NEW open, ResultsFollowCalls(ms, open \cup {n})
  PROVE  ResultsFollowCalls(ms, open)
  <1>1. Len(ts) \in Nat /\ DOMAIN ts = 1..Len(ts)  BY ToolsAssumption
  <1>2. /\ p \in DOMAIN ms /\ ms[p] = CallsMsg(n, ts) /\ Len(ms) = p + Len(ts)
        /\ \A c \in 1..Len(ts) : ms[p + c] = ResultMsg(n, c)
    BY <1>1 DEF WorkedOff
  <1>3. ASSUME NEW c \in DOMAIN ms[p].tools  PROVE Answered(ms, p, c)
    <2>1. ms[p].tools = ts /\ ms[p].of = n  BY <1>2 DEF CallsMsg
    <2>2. p + c \in DOMAIN ms  BY <1>1, <1>2, <2>1
    <2> QED BY <1>1, <1>2, <2>1, <2>2 DEF Answered
  <1>4. ASSUME NEW i \in DOMAIN ms, ms[i].kind = "calls", ms[i].of \notin open, i # p
        PROVE  ms[i].of \notin open \cup {n}
    BY <1>4
  <1> QED BY <1>3, <1>4 DEF ResultsFollowCalls

-----------------------------------------------------------------------------
(* What a conversation is compacted to.                                    *)

\* A set of numbers has a least one ...
LEMMA MinIsLeast ==
  ASSUME NEW S \in SUBSET Nat, S # {}
  PROVE  Min(S) \in S /\ \A y \in S : Min(S) <= y
  <1> DEFINE R == {pair \in Nat \X Nat : pair[1] < pair[2]}
  <1>1. IsWellFoundedOn(R, Nat)  BY NatLessThanWellFounded DEF OpToRel
  <1>2. \A x, y \in Nat : <<y, x>> \notin R => x <= y  OBVIOUS
  <1> HIDE DEF R
  <1>3. PICK x \in S : \A y \in S : ~(<<y, x>> \in R)  BY <1>1, WFMin
  <1>4. \A y \in S : x <= y  BY <1>2, <1>3
  <1> QED BY <1>4 DEF Min

\* ... and a greatest, if there is a bound.
LEMMA HasGreatest ==
  ASSUME NEW n \in Nat, NEW S \in SUBSET (0..n), S # {}
  PROVE  \E x \in S : \A y \in S : y <= x
  <1> DEFINE T == {m \in 0..n : n - m \in S}
  <1>1. \A y \in S : y \in 0..n  OBVIOUS
  <1>2. \A y \in S : n - y \in T  BY <1>1
  <1>3. T \in SUBSET Nat /\ T # {}
    <2>1. PICK y \in S : TRUE  OBVIOUS
    <2>2. n - y \in T  BY <1>2, <2>1
    <2>3. \A m \in T : m \in Nat  OBVIOUS
    <2> HIDE DEF T
    <2> QED BY <2>2, <2>3
  <1>4. PICK m : m = Min(T)  OBVIOUS
  <1>5. m \in T /\ \A y \in T : m <= y  BY <1>3, <1>4, MinIsLeast
  <1>6. n - m \in S /\ m \in 0..n  BY <1>5
  <1>7. ASSUME NEW y \in S  PROVE y <= n - m
    <2>1. m <= n - y  BY <1>2, <1>5
    <2> QED BY <1>1, <1>6, <2>1
  <1> QED BY <1>6, <1>7

\* What is kept begins in the conversation, or behind it.
LEMMA BoundaryWithin ==
  ASSUME NEW ms \in Seq(Message), NEW keepPair
  PROVE  Boundary(ms, keepPair) \in 1..(Len(ms) + 1)
  <1>1. Len(ms) \in Nat /\ DOMAIN ms = 1..Len(ms)  OBVIOUS
  <1>2. PICK windows : windows = PairWindows(ms)  OBVIOUS
  <1>3. \A w \in windows : w[1] \in 1..Len(ms) /\ w[2] \in 1..Len(ms)
    BY <1>1, <1>2 DEF PairWindows
  <1>4. CASE keepPair /\ windows # {}
    <2> DEFINE S == {w[2] : w \in windows}
    <2>1. S \in SUBSET (0..Len(ms)) /\ S # {}  BY <1>1, <1>3, <1>4
    <2>2. \E x \in S : \A y \in S : y <= x  BY <1>1, <2>1, HasGreatest
    <2>3. \E w \in windows : \A v \in windows : v[2] <= w[2]  BY <2>2
    <2>4. PICK last : last = CHOOSE w \in windows : \A v \in windows : v[2] <= w[2]  OBVIOUS
    <2>5. last \in windows  BY <2>3, <2>4
    <2>6. PICK b : b = last[1]  OBVIOUS
    <2>7. b \in 1..Len(ms)  BY <1>3, <2>5, <2>6
    <2>8. Boundary(ms, keepPair) = PastWindows(b, windows, Len(ms) + 1)
      BY <1>2, <1>4, <2>4, <2>6 DEF Boundary
    <2> DEFINE C == {c \in b..(Len(ms) + 1) : \A w \in windows : ~(w[1] < c /\ c <= w[2])}
    <2>9. C \in SUBSET Nat  BY <1>1, <2>7
    <2>10. Len(ms) + 1 \in C  BY <1>1, <1>3, <2>7
    <2>11. Min(C) \in C  BY <2>9, <2>10, MinIsLeast
    <2>12. PastWindows(b, windows, Len(ms) + 1) \in C  BY <2>11 DEF PastWindows
    <2> QED BY <1>1, <2>7, <2>8, <2>12
  <1>5. CASE ~(keepPair /\ windows # {})
    <2>1. Boundary(ms, keepPair) = Len(ms) + 1  BY <1>2, <1>5 DEF Boundary
    <2> QED BY <1>1, <2>1
  <1> QED BY <1>4, <1>5

\* The latest message of the user is one of the user, or a note.
LEMMA LatestHumanIs ==
  ASSUME NEW ms \in Seq(Message)
  PROVE  /\ LatestHuman(ms) \in 0..Len(ms)
         /\ LatestHuman(ms) # 0 => ms[LatestHuman(ms)].kind \in {"user", "note"}
  <1> DEFINE S == {0} \cup {i \in DOMAIN ms : ms[i].kind \in {"user", "note"}}
  <1>1. Len(ms) \in Nat /\ DOMAIN ms = 1..Len(ms)  OBVIOUS
  <1>2. S \in SUBSET (0..Len(ms)) /\ S # {}  BY <1>1
  <1>3. \E x \in S : \A y \in S : y <= x  BY <1>1, <1>2, HasGreatest
  <1>4. \A x, y \in S : y <= x <=> x >= y  BY <1>1
  <1>5. \E x \in S : \A y \in S : x >= y  BY <1>3, <1>4
  <1>6. Max(S) \in S
    <2> HIDE DEF S
    <2> QED BY <1>5 DEF Max
  <1>7. LatestHuman(ms) \in S  BY <1>6 DEF LatestHuman
  <1> QED BY <1>1, <1>7

\* A conversation of messages without calls or results, and behind them the end of
\* another, such that no result is left without its call.
EndsAs(new, ms) ==
  /\ \E o \in Nat, d \in Int :
       /\ o + d >= 0 /\ Len(new) + d = Len(ms)
       /\ \A i \in DOMAIN new : i <= o => new[i].kind \notin {"calls", "result"}
       /\ \A i \in DOMAIN new : i > o => i + d \in DOMAIN ms /\ new[i] = ms[i + d]
  /\ \A j \in DOMAIN new : new[j].kind = "result" =>
       \E i \in 1..(j-1) : new[i].kind = "calls" /\ new[i].of = new[j].of

\* The end of a sequence, from a place on.
LEMMA EndFrom ==
  ASSUME NEW T, NEW s \in Seq(T), NEW b \in 1..(Len(s) + 1)
  PROVE  LET end == SubSeq(s, b, Len(s))
         IN  /\ end \in Seq(T)
             /\ Len(end) = Len(s) + 1 - b
             /\ \A i \in 1..Len(end) : end[i] = s[b + i - 1]
             /\ \A i \in 1..Len(end) : b + i - 1 \in DOMAIN s
  <1> DEFINE end == SubSeq(s, b, Len(s))
  <1>1. PICK n \in Nat : n = Len(s)  OBVIOUS
  <1>2. b \in Int /\ n \in Int /\ 1 <= b /\ b <= n + 1 /\ DOMAIN s = 1..n  BY <1>1
  <1>3. \A i \in b..n : s[i] \in T  BY <1>1, <1>2
  <1>4. end = SubSeq(s, b, n)  BY <1>1
  <1>5. /\ SubSeq(s, b, n) \in Seq(T)
        /\ Len(SubSeq(s, b, n)) = IF b <= n THEN n - b + 1 ELSE 0
        /\ \A i \in 1..(n - b + 1) : SubSeq(s, b, n)[i] = s[b + i - 1]
    BY <1>2, <1>3, SubSeqProperties
  <1>6. end \in Seq(T)  BY <1>4, <1>5
  <1>7. Len(end) = n + 1 - b  BY <1>2, <1>4, <1>5
  <1>8. \A i \in 1..Len(end) : end[i] = s[b + i - 1]
    <2> SUFFICES ASSUME NEW i \in 1..Len(end) PROVE end[i] = s[b + i - 1]  OBVIOUS
    <2> HIDE DEF end
    <2>1. i \in 1..(n - b + 1)  BY <1>2, <1>7
    <2> QED BY <2>1, <1>4, <1>5
  <1>9. \A i \in 1..Len(end) : b + i - 1 \in DOMAIN s
    <2> HIDE DEF end
    <2> QED BY <1>2, <1>7
  <1> QED BY <1>1, <1>6, <1>7, <1>8, <1>9

\* That is what a conversation is compacted to.
LEMMA CompactionShape ==
  ASSUME NEW ms \in Seq(Message), NEW keepPair, NEW kept \in Kept(ms, keepPair),
         NEW new, new = <<Msg("summary", 0)>> \o kept
  PROVE  /\ new \in Seq(Message)
         /\ EndsAs(new, ms)
  <1>1. Len(ms) \in Nat /\ DOMAIN ms = 1..Len(ms) /\ \A i \in DOMAIN ms : ms[i] \in Message
    OBVIOUS
  <1>2. kept = Preserved(ms, keepPair) /\ PairsComplete(kept)  BY DEF Kept
  <1>3. PICK b : b = Boundary(ms, keepPair)  OBVIOUS
  <1>4. b \in 1..(Len(ms) + 1)  BY <1>3, BoundaryWithin
  <1>5. PICK human : human = LatestHuman(ms)  OBVIOUS
  <1>6. human \in 0..Len(ms) /\ (human # 0 => ms[human].kind \in {"user", "note"})
    BY <1>5, LatestHumanIs
  <1>7. PICK end : end = SubSeq(ms, b, Len(ms))  OBVIOUS
  <1>8. /\ end \in Seq(Message) /\ Len(end) = Len(ms) + 1 - b
        /\ \A i \in 1..Len(end) : end[i] = ms[b + i - 1] /\ b + i - 1 \in DOMAIN ms
    BY <1>4, <1>7, EndFrom
  <1>9. PICK head : head = IF human \in 1..(b - 1) THEN <<ms[human]>> ELSE <<>>  OBVIOUS
  <1>10. kept = head \o end
    BY <1>2, <1>3, <1>5, <1>7, <1>9 DEF Preserved
  <1>11. /\ head \in Seq(Message) /\ Len(head) \in {0, 1}
         /\ \A i \in 1..Len(head) : head[i].kind \in {"user", "note"}
    <2>1. CASE human \in 1..(b - 1)
      <3>1. human \in DOMAIN ms /\ human # 0  BY <1>1, <1>4, <1>6, <2>1
      <3>2. ms[human] \in Message /\ ms[human].kind \in {"user", "note"}  BY <1>1, <1>6, <3>1
      <3>3. head = <<ms[human]>>  BY <1>9, <2>1
      <3> QED BY <3>2, <3>3
    <2>2. CASE human \notin 1..(b - 1)  BY <1>9, <2>2
    <2> QED BY <2>1, <2>2
  <1>12. PICK h : h = Len(head)  OBVIOUS
  <1>13. /\ kept \in Seq(Message) /\ Len(kept) = h + Len(end)
         /\ h \in {0, 1} /\ Len(end) \in Nat
         /\ \A i \in 1..h : kept[i] = head[i]
         /\ \A i \in (h + 1)..(h + Len(end)) : kept[i] = end[i - h]
    BY <1>8, <1>10, <1>11, <1>12, JoinedAt
  <1>14. Msg("summary", 0) \in Message
    <2>1. "summary" \in Messages  BY DEF Messages
    <2> QED BY <2>1, MessageTypes
  <1>15. <<Msg("summary", 0)>> \in Seq(Message) /\ Len(<<Msg("summary", 0)>>) = 1
         /\ <<Msg("summary", 0)>>[1].kind = "summary"
    BY <1>14 DEF Msg
  <1>16. /\ new \in Seq(Message) /\ Len(new) = 1 + Len(kept) /\ DOMAIN new = 1..Len(new)
         /\ new[1].kind = "summary"
         /\ \A i \in 2..Len(new) : new[i] = kept[i - 1]
    BY <1>13, <1>15, JoinedAt
  <1>17. ASSUME NEW i \in DOMAIN new, i <= h + 1  PROVE new[i].kind \notin {"calls", "result"}
    <2>1. CASE i = 1  BY <1>16, <2>1
    <2>2. CASE i # 1
      <3>1. i \in 2..Len(new) /\ i - 1 \in 1..h  BY <1>13, <1>16, <1>17, <2>2
      <3>2. new[i] = head[i - 1]  BY <1>13, <1>16, <3>1
      <3> QED BY <1>11, <1>12, <3>1, <3>2
    <2> QED BY <2>1, <2>2
  <1>18. PICK d : d = b - h - 2  OBVIOUS
  <1>19. ASSUME NEW i \in DOMAIN new, i > h + 1
         PROVE  i + d \in DOMAIN ms /\ new[i] = ms[i + d]
    <2>1. i \in 2..Len(new) /\ i - 1 \in (h + 1)..(h + Len(end))  BY <1>13, <1>16, <1>19
    <2>2. PICK k : k = i - 1 - h  OBVIOUS
    <2>3. k \in 1..Len(end) /\ b + k - 1 = i + d
      <3>1. b \in Int /\ h \in Int /\ i \in Int /\ Len(end) \in Int  BY <1>1, <1>4, <1>13, <1>16
      <3> QED BY <1>18, <2>1, <2>2, <3>1
    <2>4. new[i] = end[k]  BY <1>13, <1>16, <2>1, <2>2
    <2> QED BY <1>8, <2>3, <2>4
  <1>20. d \in Int /\ h + 1 \in Nat /\ (h + 1) + d >= 0 /\ Len(new) + d = Len(ms)
    BY <1>1, <1>4, <1>8, <1>13, <1>16, <1>18
  <1>21. ASSUME NEW j \in DOMAIN new, new[j].kind = "result"
         PROVE  \E i \in 1..(j-1) : new[i].kind = "calls" /\ new[i].of = new[j].of
    <2>1. j \in 2..Len(new)  BY <1>16, <1>21
    <2>2. j - 1 \in DOMAIN kept /\ kept[j - 1] = new[j]  BY <1>13, <1>16, <2>1
    <2>3. PICK i \in 1..((j-1)-1) : kept[i].kind = "calls" /\ kept[i].of = kept[j-1].of
      BY <1>2, <1>21, <2>2 DEF PairsComplete
    <2>4. i + 1 \in 1..(j-1) /\ i + 1 \in 2..Len(new) /\ (i + 1) - 1 = i  BY <1>13, <1>16, <2>1
    <2>5. new[i + 1] = kept[i]  BY <1>16, <2>4
    <2> QED BY <2>2, <2>3, <2>4, <2>5
  <1>22. \E o \in Nat, e \in Int :
           /\ o + e >= 0 /\ Len(new) + e = Len(ms)
           /\ \A i \in DOMAIN new : i <= o => new[i].kind \notin {"calls", "result"}
           /\ \A i \in DOMAIN new : i > o => i + e \in DOMAIN ms /\ new[i] = ms[i + e]
    <2>1. PICK o : o = h + 1  OBVIOUS
    <2> QED BY <1>17, <1>19, <1>20, <2>1
  <1> QED BY <1>16, <1>21, <1>22 DEF EndsAs

\* The call of a result that is kept is kept, so is what is between, and the
\* results of a call follow it.
LEMMA EndSound ==
  ASSUME NEW ms \in Seq(Message), NEW new \in Seq(Message), EndsAs(new, ms)
  PROVE  /\ \A open : ResultsFollowCalls(ms, open) => ResultsFollowCalls(new, open)
         /\ \A n : CallsUpTo(ms, n) => CallsUpTo(new, n)
  <1>0. PICK o \in Nat, d \in Int :
          /\ o + d >= 0 /\ Len(new) + d = Len(ms)
          /\ \A i \in DOMAIN new : i <= o => new[i].kind \notin {"calls", "result"}
          /\ \A i \in DOMAIN new : i > o => i + d \in DOMAIN ms /\ new[i] = ms[i + d]
    BY DEF EndsAs
  <1>1. /\ Len(ms) \in Nat /\ DOMAIN ms = 1..Len(ms)
        /\ Len(new) \in Nat /\ DOMAIN new = 1..Len(new)
    OBVIOUS
  <1>2. ASSUME NEW open, ResultsFollowCalls(ms, open)  PROVE ResultsFollowCalls(new, open)
    <2>2. ASSUME NEW j \in DOMAIN new, new[j].kind = "result"
          PROVE  \E i \in 1..(j-1) :
                   /\ new[i].kind = "calls" /\ new[i].of = new[j].of /\ new[j].call \in DOMAIN new[i].tools
                   /\ \A k \in (i+1)..(j-1) : /\ new[k].kind = "result" /\ new[k].of = new[j].of
                                              /\ new[k].call < new[j].call
      <3>1. j \in Nat /\ j > o  BY <1>0, <1>1, <2>2
      <3>2. PICK q : q = j + d  OBVIOUS
      <3>3. q \in DOMAIN ms /\ new[j] = ms[q] /\ q \in Nat  BY <1>0, <1>1, <3>1, <3>2
      <3>4. PICK p \in 1..(q-1) :
              /\ ms[p].kind = "calls" /\ ms[p].of = ms[q].of /\ ms[q].call \in DOMAIN ms[p].tools
              /\ \A k \in (p+1)..(q-1) : /\ ms[k].kind = "result" /\ ms[k].of = ms[q].of
                                         /\ ms[k].call < ms[q].call
        BY <1>2, <2>2, <3>3 DEF ResultsFollowCalls
      <3>5. PICK r \in 1..(j-1) : new[r].kind = "calls" /\ new[r].of = new[j].of  BY <2>2 DEF EndsAs
      <3>6. r \in DOMAIN new /\ r > o /\ r \in Nat  BY <1>0, <1>1, <3>1, <3>5
      <3>7. ms[r + d].kind = "calls" /\ r + d \in DOMAIN ms /\ r + d < q  BY <1>0, <1>1, <3>1, <3>2, <3>5, <3>6
      <3>8. ~(r + d \in (p+1)..(q-1))  BY <3>4, <3>7
      <3>9. r + d <= p  BY <1>1, <3>3, <3>4, <3>7, <3>8
      <3>10. PICK i : i = p - d  OBVIOUS
      <3>11. i \in 1..(j-1) /\ i \in DOMAIN new /\ i > o /\ i + d = p
        BY <1>0, <1>1, <3>1, <3>2, <3>3, <3>6, <3>9, <3>10
      <3>12. new[i] = ms[p]  BY <1>0, <3>11
      <3>13. ASSUME NEW k \in (i+1)..(j-1)
             PROVE  new[k].kind = "result" /\ new[k].of = new[j].of /\ new[k].call < new[j].call
        <4>1. k \in DOMAIN new /\ k > o  BY <1>1, <3>1, <3>11
        <4>2. k + d \in (p+1)..(q-1)
          <5>1. i \in Int /\ j \in Int /\ p \in Int /\ q \in Int  BY <3>1, <3>3, <3>11
          <5>2. k \in Int /\ i + 1 <= k /\ k <= j - 1  BY <5>1
          <5>3. i + d = p /\ j + d = q  BY <3>2, <3>11
          <5> QED BY <5>1, <5>2, <5>3
        <4>3. new[k] = ms[k + d]  BY <1>0, <4>1
        <4> QED BY <3>3, <3>4, <4>2, <4>3
      <3> QED BY <3>3, <3>4, <3>11, <3>12, <3>13
    <2>3. ASSUME NEW i \in DOMAIN new, new[i].kind = "calls", new[i].of \notin open,
                 NEW c \in DOMAIN new[i].tools
          PROVE  Answered(new, i, c)
      <3>1. i > o /\ i \in Nat  BY <1>0, <1>1, <2>3
      <3>2. i + d \in DOMAIN ms /\ new[i] = ms[i + d]  BY <1>0, <3>1
      <3>3. Answered(ms, i + d, c)  BY <1>2, <2>3, <3>2 DEF ResultsFollowCalls
      <3>4. (i + d) + c \in DOMAIN ms /\ ms[(i + d) + c] = ResultMsg(new[i].of, c)
        BY <3>2, <3>3 DEF Answered
      <3>5. c \in Nat \ {0}
        <4>1. new[i] \in Message  OBVIOUS
        <4> QED BY <4>1, ToolsOfMessage
      <3>6. i + c \in DOMAIN new /\ i + c > o /\ (i + c) + d = (i + d) + c
        BY <1>0, <1>1, <3>1, <3>4, <3>5
      <3>7. new[i + c] = ms[(i + c) + d]  BY <1>0, <3>6
      <3> QED BY <3>4, <3>6, <3>7 DEF Answered
    <2> QED BY <2>2, <2>3 DEF ResultsFollowCalls
  <1>3. ASSUME NEW n, CallsUpTo(ms, n), NEW i \in DOMAIN new, new[i].kind = "calls"
        PROVE  new[i].of <= n
    <2>1. i > o  BY <1>0, <1>1, <1>3
    <2> QED BY <1>0, <1>3, <2>1 DEF CallsUpTo
  <1> QED BY <1>2, <1>3 DEF CallsUpTo

\* So a compaction keeps calls and results together and in order.
LEMMA CompactionSound ==
  ASSUME NEW ms \in Seq(Message), NEW new \in Compactions(ms)
  PROVE  /\ new \in Seq(Message)
         /\ \A open : ResultsFollowCalls(ms, open) => ResultsFollowCalls(new, open)
         /\ \A n : CallsUpTo(ms, n) => CallsUpTo(new, n)
  <1>0. PICK keepPair \in BOOLEAN : \E kept \in Kept(ms, keepPair) : new = <<Msg("summary", 0)>> \o kept
    BY DEF Compactions
  <1>1. PICK kept \in Kept(ms, keepPair) : new = <<Msg("summary", 0)>> \o kept
    BY <1>0
  <1>2. new \in Seq(Message) /\ EndsAs(new, ms)  BY <1>1, CompactionShape
  <1> QED BY <1>2, EndSound

-----------------------------------------------------------------------------
(* The invariant of the conversation: what the session holds in memory and *)
(* on disk is sound, requests are numbered, what the model is sent is      *)
(* sound, and while tools are at work the conversation ends with their     *)
(* request and the results of the groups before.                           *)

Counters ==
  /\ at \in {"idle", "step", "asking", "tools", "closing"}
  /\ notes \in 0..MaxNotes /\ pending \in 0..notes
  /\ step \in 0..MaxIterations /\ (at \in {"asking", "tools"} => step < MaxIterations)
  /\ reactive \in 0..MaxReactive /\ rateLimited \in 0..MaxRateLimit
  /\ noProgress \in 0..NoProgressLimit /\ repeats \in 0..Threshold
  /\ turns \in Nat /\ prompts \in Nat
  /\ cut \subseteq 1..turns /\ (at = "tools" => turns # 0)

SessionOK(tl, dk, open, n) ==
  /\ tl \in Seq(Message) /\ dk \in Seq(Message)
  /\ ResultsFollowCalls(tl, open) /\ ResultsFollowCalls(dk, open)
  /\ CallsUpTo(tl, n) /\ CallsUpTo(dk, n)

\* The last request in ms is n, and its calls before f have their results.
AtTools(ms, n, ts, f) ==
  /\ NoNotes(ms)
  /\ \E p : /\ WorkedOff(ms, p, n, ts, f)
            /\ \A i \in DOMAIN ms : ms[i].kind = "calls" /\ i # p => ms[i].of < n

RunOK ==
  /\ request \in Seq(Message)
  /\ ~mentions => ResultsFollowCalls(request, cut)
  /\ at # "asking" => request = <<>>
  /\ at \in {"step", "asking"} => disk = Durable(timeline)
  /\ IF at = "tools" THEN AtTools(timeline, turns, calls, from) ELSE calls = <<>>

ConvInv ==
  /\ IInv /\ Counters
  /\ SessionOK(timeline, disk, cut \cup Current, turns)
  /\ RunOK

LEMMA Limits ==
  /\ MaxIterations \in Nat /\ MaxReactive \in Nat /\ MaxRateLimit \in Nat
  /\ Threshold \in Nat /\ NoProgressLimit \in Nat /\ MaxNotes \in Nat
  BY LimitsAssumption

\* It implies the property.
LEMMA SoundFromInvariant == ConvInv => ConversationSound
  <1> SUFFICES ASSUME ConvInv  PROVE ConversationSound  OBVIOUS
  <1>1. ASSUME NEW ms \in Seq(Message), NEW i \in DOMAIN ms  PROVE ms[i].kind \in Messages
    <2>1. ms[i] \in Message  OBVIOUS
    <2> QED BY <2>1 DEF Message
  <1>2. \A ms \in {timeline, disk, request} : \A i \in DOMAIN ms : ms[i].kind \in Messages
    BY <1>1 DEF ConvInv, SessionOK, RunOK
  <1>3. calls \in Requests \cup {<<>>} /\ running \cup done \subseteq DOMAIN calls
    <2>1. CASE at = "tools"
      <3>1. AtWork(calls, from, running, done, broken)  BY <2>1 DEF ConvInv, IInv
      <3>2. calls \in Requests /\ from \in 1..Len(calls)  BY <3>1 DEF AtWork
      <3>3. Len(calls) \in Nat /\ DOMAIN calls = 1..Len(calls)  BY <3>2, ToolsAssumption
      <3>4. Contiguous(GroupFrom(calls, from), calls, from)  BY <3>2, GroupContiguous
      <3>5. GroupFrom(calls, from) \subseteq DOMAIN calls  BY <3>2, <3>3, <3>4 DEF Contiguous
      <3>6. 1..(from - 1) \subseteq DOMAIN calls  BY <3>2, <3>3
      <3> QED BY <3>1, <3>2, <3>5, <3>6 DEF AtWork
    <2>2. CASE at # "tools"
      BY <2>2 DEF ConvInv, IInv, Quiet, RunOK
    <2> QED BY <2>1, <2>2
  <1>4. pending \in 0..MaxNotes  BY Limits DEF ConvInv, Counters
  <1>5. TypeOK  BY <1>2, <1>3, <1>4 DEF ConvInv, Counters, TypeOK
  <1> QED BY <1>5 DEF ConvInv, SessionOK, RunOK, ConversationSound

\* It holds at first.
LEMMA InitConv == Init => ConvInv
  <1> SUFFICES ASSUME Init  PROVE ConvInv  OBVIOUS
  <1>1. <<>> \in Seq(Message)  OBVIOUS
  <1>2. IInv  BY InitIInv
  <1>3. Counters  BY Limits DEF Init, Counters
  <1>4. SessionOK(timeline, disk, cut \cup Current, turns)
    BY <1>1, NothingIsSound DEF Init, SessionOK, CallsUpTo
  <1>5. RunOK
    <2>1. request = <<>> /\ at = "idle" /\ calls = <<>>  BY DEF Init
    <2> QED BY <1>1, <2>1, NothingIsSound DEF RunOK
  <1> QED BY <1>2, <1>3, <1>4, <1>5 DEF ConvInv

-----------------------------------------------------------------------------
(* Counters keep their bounds.                                             *)

LEMMA StepCounters ==
  ASSUME Counters, [Next]_vars
  PROVE  Counters'
  <1>1. /\ turns \in Nat /\ prompts \in Nat /\ cut \subseteq 1..turns
        /\ notes \in 0..MaxNotes /\ pending \in 0..notes /\ 0 \in 0..notes
        /\ step \in 0..MaxIterations /\ 0 \in 0..MaxIterations
        /\ 0 \in 0..MaxReactive /\ 0 \in 0..MaxRateLimit /\ 0 \in 0..NoProgressLimit /\ 0 \in 0..Threshold
    BY Limits DEF Counters
  <1>2. turns + 1 \in Nat /\ prompts + 1 \in Nat /\ cut \subseteq 1..(turns + 1)
        /\ cut \cup {turns + 1} \subseteq 1..(turns + 1)
    BY <1>1
  <1>3. at = "tools" => cut \cup {turns} \subseteq 1..turns  BY <1>1 DEF Counters
  \* The run ends.
  <1>4. ASSUME EndRun, notes' = notes, pending' \in {0, pending},
               turns' \in Nat, prompts' = prompts, cut' \subseteq 1..turns'
        PROVE  Counters'
    BY <1>1, <1>4 DEF EndRun, Counters
  \* The model is asked.
  <1>5. ASSUME NEW ms, Asks(ms), step < MaxIterations, pending' = 0, UNCHANGED <<turns, notes, cut>>
        PROVE  Counters'
    BY <1>1, <1>5 DEF Asks, Counters, prompt
  <1>6. CASE Ask  BY <1>5, <1>6 DEF Ask
  <1>7. CASE AskCompacted  BY <1>1, <1>4, <1>5, <1>7 DEF AskCompacted
  <1>8. CASE AskFails \/ OutOfSteps \/ AskingFails \/ Answers \/ \E ts \in Requests : Loops(ts)
    BY <1>1, <1>4, <1>8 DEF AskFails, OutOfSteps, AskingFails, Answers, Loops
  <1>9. CASE GroupFails  BY <1>1, <1>3, <1>4, <1>9 DEF GroupFails
  <1>23. CASE CompactLast  BY <1>23 DEF CompactLast, Counters, loop, prompt
  <1>10. CASE Crash
    <2>1. EndRun /\ notes' = notes /\ pending' = 0 /\ turns' = turns /\ prompts' = prompts
          /\ cut' \in {cut, IF at = "tools" THEN cut \cup {turns} ELSE cut}
      BY <1>10 DEF Crash
    <2> QED BY <1>1, <1>3, <1>4, <2>1
  <1>11. CASE Overloaded  BY <1>1, <1>11, Limits DEF Overloaded, Counters, prompt
  <1>12. CASE TooLong
    <2>1. /\ UNCHANGED <<pending, turns, notes, cut>>
          /\ \/ EndRun /\ UNCHANGED prompts
             \/ /\ at = "asking" /\ reactive < MaxReactive
                /\ reactive' = reactive + 1 /\ rateLimited' = 0
                /\ UNCHANGED <<at, step, noProgress, repeats, prompts>>
      BY <1>12 DEF TooLong, Attempts, prompt
    <2> QED BY <1>1, <1>4, <2>1, Limits DEF Counters
  <1>13. CASE Idles
    <2>1. /\ UNCHANGED <<pending, turns, notes, cut>> /\ at = "asking"
          /\ \/ EndRun /\ UNCHANGED prompts
             \/ /\ ~GivesUp(noProgress + 1) /\ noProgress' = noProgress + 1 /\ step' = step + 1
                /\ at' = "step" /\ UNCHANGED <<reactive, rateLimited, repeats, prompts>>
      BY <1>13 DEF Idles, prompt
    <2>2. CASE ~EndRun
      <3>1. /\ at = "asking" /\ noProgress' = noProgress + 1 /\ step' = step + 1
            /\ at' = "step" /\ UNCHANGED <<reactive, rateLimited, repeats, prompts>>
            /\ noProgress + 1 < NoProgressLimit \/ ~(noProgress + 1 >= NoProgressLimit)
        BY <2>1, <2>2 DEF GivesUp
      <3>2. noProgress' \in 0..NoProgressLimit  BY <3>1, Limits DEF Counters
      <3>3. step' \in 0..MaxIterations  BY <3>1, Limits DEF Counters
      <3> QED BY <1>1, <2>1, <3>1, <3>2, <3>3 DEF Counters
    <2> QED BY <1>1, <1>4, <2>1, <2>2
  <1>14. ASSUME NEW ts \in Requests, NEW same \in BOOLEAN, CallTools(ts, same)  PROVE Counters'
    <2>1. /\ at = "asking" /\ Repeated(ts, same) < Threshold /\ turns' = turns + 1
          /\ UNCHANGED <<pending, notes>>
          /\ \/ EndRun /\ cut' = cut \cup {turns + 1} /\ UNCHANGED prompts
             \/ /\ at' = "tools" /\ repeats' = Repeated(ts, same) /\ noProgress' = 0
                /\ UNCHANGED <<step, reactive, rateLimited, prompts, cut>>
      BY <1>14 DEF CallTools, prompt
    <2>2. CASE ~EndRun
      <3>1. Repeated(ts, same) \in 0..Threshold
        BY <2>1, Limits DEF Repeated, Counters
      <3>2. repeats' \in 0..Threshold /\ at' = "tools" /\ noProgress' = 0 /\ cut' = cut
            /\ turns' = turns + 1 /\ turns' # 0
        BY <1>1, <2>1, <2>2, <3>1
      <3> QED BY <1>1, <1>2, <2>1, <2>2, <3>2 DEF Counters
    <2> QED BY <1>1, <1>2, <1>4, <2>1, <2>2
  <1>15. ASSUME NEW c \in running, Returns(c) \/ Breaks(c)  PROVE Counters'
    BY <1>15 DEF Returns, Breaks, loop, prompt, Counters
  <1>16. CASE NextGroup  BY <1>16 DEF NextGroup, loop, prompt, Counters
  <1>17. CASE TurnEnds
    <2>1. /\ at = "tools" /\ UNCHANGED <<pending, turns, notes>>
          /\ \/ EndRun /\ cut' = cut \cup {turns} /\ UNCHANGED prompts
             \/ /\ at' = "step" /\ step' = step + 1
                /\ UNCHANGED <<reactive, rateLimited, noProgress, repeats, prompts, cut>>
      BY <1>17 DEF TurnEnds, prompt
    <2>2. CASE ~EndRun
      <3>1. step' \in 0..MaxIterations  BY <2>1, <2>2, Limits DEF Counters
      <3> QED BY <1>1, <2>1, <2>2, <3>1 DEF Counters
    <2> QED BY <1>1, <1>3, <1>4, <2>1, <2>2
  <1>18. ASSUME NEW mention \in BOOLEAN, Prompt(mention)  PROVE Counters'
    <2>1. at' \in {"step", "idle"} /\ prompts' = prompts + 1 /\ UNCHANGED <<pending, loop, turns, notes, cut>>
      BY <1>18 DEF Prompt
    <2> QED BY <1>1, <1>2, <2>1 DEF Counters, loop
  <1>19. CASE Notify
    <2>1. notes' = notes + 1 /\ pending' = pending + 1 /\ notes < MaxNotes
          /\ UNCHANGED <<at, loop, prompt, turns, cut>>
      BY <1>19 DEF Notify
    <2>2. notes' \in 0..MaxNotes /\ pending' \in 0..notes'  BY <1>1, <2>1, Limits
    <2> QED BY <2>1, <2>2 DEF Counters, loop, prompt
  <1>20. CASE Compact \/ ToggleMode  BY <1>20 DEF Compact, ToggleMode, Counters, loop, prompt
  <1>21. CASE UNCHANGED vars  BY <1>21 DEF vars, Counters, loop, prompt
  <1>22. CASE RunStep
    BY <1>6, <1>7, <1>8, <1>9, <1>11, <1>12, <1>13, <1>14, <1>15, <1>16, <1>17, <1>22, <1>23 DEF RunStep
  <1> QED BY <1>10, <1>18, <1>19, <1>20, <1>21, <1>22 DEF Next

-----------------------------------------------------------------------------
(* What saving, draining and asking make of a sound conversation.          *)

LEMMA AppendNumbered ==
  ASSUME NEW ms \in Seq(Message), NEW m \in Message, NEW n, CallsUpTo(ms, n),
         m.kind = "calls" => m.of <= n
  PROVE  CallsUpTo(Append(ms, m), n)
  <1>1. Len(ms) \in Nat /\ DOMAIN ms = 1..Len(ms) /\ DOMAIN Append(ms, m) = 1..(Len(ms) + 1)
        /\ Append(ms, m)[Len(ms) + 1] = m /\ \A i \in 1..Len(ms) : Append(ms, m)[i] = ms[i]
    OBVIOUS
  <1>2. \A i \in 1..(Len(ms) + 1) : i \in 1..Len(ms) \/ i = Len(ms) + 1  BY <1>1
  <1> QED BY <1>1, <1>2 DEF CallsUpTo

LEMMA SaveOK ==
  ASSUME disk \in Seq(Message), NEW ms \in Seq(Message), NEW ok \in BOOLEAN, Save(ms, ok),
         NEW open, NEW n, ResultsFollowCalls(ms, open), CallsUpTo(ms, n),
         ok \/ (ResultsFollowCalls(disk, open) /\ CallsUpTo(disk, n))
  PROVE  /\ SessionOK(timeline', disk', open, n)
         /\ timeline' = Durable(ms) /\ NoNotes(timeline')
         /\ ok => disk' = Durable(timeline')
  <1>1. timeline' = Durable(ms) /\ disk' = IF ok THEN Durable(ms) ELSE disk  BY DEF Save
  <1>2. /\ Durable(ms) \in Seq(Message) /\ NoNotes(Durable(ms)) /\ CallsUpTo(Durable(ms), n)
        /\ ResultsFollowCalls(Durable(ms), open) /\ Durable(Durable(ms)) = Durable(ms)
    BY DurableFrom, DurableSound, DurableTwice
  <1> QED BY <1>1, <1>2 DEF SessionOK

LEMMA FinishOK ==
  ASSUME NEW open, NEW n, disk \in Seq(Message), ResultsFollowCalls(disk, open), CallsUpTo(disk, n),
         NEW ms \in Seq(Message), ResultsFollowCalls(ms, open), CallsUpTo(ms, n), Finish(ms)
  PROVE  SessionOK(timeline', disk', open, n)
  <1>1. PICK m : m = Msg("text", 0)  OBVIOUS
  <1>2. m \in Message /\ m.kind = "text"
    <2>1. "text" \in Messages  BY DEF Messages
    <2>2. m.kind = "text"  BY <1>1 DEF Msg
    <2> QED BY <1>1, <2>1, <2>2, MessageTypes
  <1>3. PICK ok \in BOOLEAN : Save(Append(ms, m), ok)  BY <1>1 DEF Finish
  <1>4. Append(ms, m) \in Seq(Message) /\ ResultsFollowCalls(Append(ms, m), open)
    BY <1>2, AppendSound
  <1>5. CallsUpTo(Append(ms, m), n)  BY <1>2, AppendNumbered
  <1> QED BY <1>3, <1>4, <1>5, SaveOK

LEMMA CompactedOK ==
  ASSUME NEW open, NEW n, NEW ms \in Seq(Message), ResultsFollowCalls(ms, open), CallsUpTo(ms, n),
         NEW new \in Compactions(ms)
  PROVE  /\ new \in Seq(Message) /\ ResultsFollowCalls(new, open) /\ CallsUpTo(new, n)
         /\ Durable(new) \in Seq(Message) /\ ResultsFollowCalls(Durable(new), open)
         /\ CallsUpTo(Durable(new), n)
  <1>1. new \in Seq(Message) /\ ResultsFollowCalls(new, open) /\ CallsUpTo(new, n)
    BY CompactionSound
  <1> QED BY <1>1, DurableFrom, DurableSound

LEMMA DrainedOK ==
  ASSUME NEW open, NEW n, SessionOK(timeline, disk, open, n), pending \in Nat
  PROVE  /\ Drained \in Seq(Message) /\ ResultsFollowCalls(Drained, open) /\ CallsUpTo(Drained, n)
         /\ Durable(Drained) = Durable(timeline)
  <1>1. PICK ns : ns = [i \in 1..pending |-> Msg("note", 0)]  OBVIOUS
  <1>2. "note" \in Messages  BY DEF Messages
  <1>3. Msg("note", 0) \in Message /\ Msg("note", 0).kind = "note"
    <2>1. Msg("note", 0).kind = "note"  BY DEF Msg
    <2> QED BY <1>2, <2>1, MessageTypes
  <1>4. ns \in Seq(Message) /\ Len(ns) = pending /\ \A i \in DOMAIN ns : ns[i].kind = "note"
    BY <1>1, <1>3
  <1>5. timeline \in Seq(Message) /\ ResultsFollowCalls(timeline, open) /\ CallsUpTo(timeline, n)
    BY DEF SessionOK
  <1>6. Drained = timeline \o ns  BY <1>1 DEF Drained
  <1>7. timeline \o ns \in Seq(Message) /\ ResultsFollowCalls(timeline \o ns, open)
    BY <1>4, <1>5, TailSound
  <1>8. Durable(timeline \o ns) = Durable(timeline)  BY <1>4, <1>5, DurableDrained
  <1>9. CallsUpTo(timeline \o ns, n)
    <2>1. PICK all : all = timeline \o ns  OBVIOUS
    <2>2. /\ Len(timeline) \in Nat /\ DOMAIN timeline = 1..Len(timeline)
          /\ DOMAIN all = 1..(Len(timeline) + pending)
          /\ \A i \in 1..Len(timeline) : all[i] = timeline[i]
          /\ \A i \in (Len(timeline) + 1)..(Len(timeline) + pending) :
               i - Len(timeline) \in DOMAIN ns /\ all[i] = ns[i - Len(timeline)]
      BY <1>4, <1>5, <2>1, JoinedAt
    <2>3. ASSUME NEW i \in DOMAIN all, all[i].kind = "calls"  PROVE all[i].of <= n
      <3>1. i \in 1..Len(timeline) \/ i \in (Len(timeline) + 1)..(Len(timeline) + pending)
        BY <2>2
      <3>2. i \notin (Len(timeline) + 1)..(Len(timeline) + pending)  BY <1>4, <2>2, <2>3
      <3> QED BY <1>5, <2>2, <2>3, <3>1, <3>2 DEF CallsUpTo
    <2> QED BY <2>1, <2>3 DEF CallsUpTo
  <1> QED BY <1>6, <1>7, <1>8, <1>9

LEMMA AskedOK ==
  ASSUME NEW ms \in Seq(Message), prompts \in Nat, ResultsFollowCalls(ms, cut)
  PROVE  /\ Conversation(ms) \in Seq(Message) /\ Asked(ms) \in Seq(Message)
         /\ ~mentions => ResultsFollowCalls(Conversation(ms), cut) /\ ResultsFollowCalls(Asked(ms), cut)
  <1>1. PICK c : c = Conversation(ms)  OBVIOUS
  <1>2. c \in Seq(Message) /\ (~mentions => c = ms)
    <2>1. CASE mentions /\ index \in DOMAIN ms
      <3>1. "mention" \in Messages  BY DEF Messages
      <3>2. PICK m \in Message : m = Msg("mention", prompts)  BY <3>1, MessageTypes
      <3>3. c = [ms EXCEPT ![index] = m]  BY <1>1, <2>1, <3>2 DEF Conversation
      <3>4. c \in Seq(Message)  BY <2>1, <3>2, <3>3
      <3> QED BY <2>1, <3>4
    <2>2. CASE ~(mentions /\ index \in DOMAIN ms)  BY <1>1, <2>2 DEF Conversation
    <2> QED BY <2>1, <2>2
  <1>3. PICK tail : tail = IF controlNote THEN <<Msg("control", 0)>> ELSE <<>>  OBVIOUS
  <1>4. tail \in Seq(Message) /\ \A i \in DOMAIN tail : tail[i].kind = "control"
    <2>1. "control" \in Messages  BY DEF Messages
    <2>2. PICK m \in Message : m = Msg("control", 0)  BY <2>1, MessageTypes
    <2>3. m.kind = "control"  BY <2>2 DEF Msg
    <2>4. CASE controlNote
      <3>1. tail = <<m>>  BY <1>3, <2>2, <2>4
      <3>2. tail \in Seq(Message) /\ DOMAIN tail = {1} /\ tail[1] = m  BY <3>1
      <3> QED BY <2>3, <3>2
    <2>5. CASE ~controlNote
      <3>1. tail = <<>>  BY <1>3, <2>5
      <3>2. tail \in Seq(Message) /\ DOMAIN tail = {}  BY <3>1
      <3> QED BY <3>2
    <2> QED BY <2>4, <2>5
  <1>5. Asked(ms) = c \o tail  BY <1>1, <1>3 DEF Asked
  <1>6. c \o tail \in Seq(Message)  BY <1>2, <1>4
  <1>7. ASSUME ~mentions  PROVE ResultsFollowCalls(c, cut) /\ ResultsFollowCalls(c \o tail, cut)
    <2>1. ResultsFollowCalls(c, cut)  BY <1>2, <1>7
    <2> QED BY <1>2, <1>4, <2>1, TailSound
  <1> QED BY <1>1, <1>2, <1>5, <1>6, <1>7

-----------------------------------------------------------------------------
(* The steps, by what becomes of the run.                                  *)

Rest == SessionOK(timeline, disk, cut \cup Current, turns) /\ RunOK

\* The run ends.
LEMMA EndedOK ==
  ASSUME EndRun, SessionOK(timeline', disk', cut', turns')
  PROVE  Rest'
  <1>1. request' = <<>> /\ at' = "idle" /\ calls' = <<>>  BY DEF EndRun
  <1>2. cut' \cup Current' = cut'  BY <1>1 DEF Current
  <1>3. <<>> \in Seq(Message) /\ ResultsFollowCalls(<<>>, cut')  BY NothingIsSound
  <1>4. RunOK'  BY <1>1, <1>3 DEF RunOK
  <1> QED BY <1>2, <1>4 DEF Rest

\* The model is sent a conversation that was saved, but for notes.
LEMMA AsksOK ==
  ASSUME Counters, NEW ms \in Seq(Message), Asks(ms), ResultsFollowCalls(ms, cut), calls = <<>>,
         cut' = cut, SessionOK(timeline', disk', cut', turns'), disk' = Durable(timeline')
  PROVE  Rest'
  <1>1. /\ at' = "asking" /\ request' = Asked(ms) /\ mentions' = mentions /\ calls' = <<>>
    BY DEF Asks, batch, prompt
  <1>2. prompts \in Nat  BY DEF Counters
  <1>3. Asked(ms) \in Seq(Message) /\ (~mentions => ResultsFollowCalls(Asked(ms), cut))
    BY <1>2, AskedOK
  <1>4. cut' \cup Current' = cut'  BY <1>1 DEF Current
  <1>5. RunOK'  BY <1>1, <1>3 DEF RunOK
  <1> QED BY <1>4, <1>5 DEF Rest

\* What holds while no tools are at work.
LEMMA BetweenTools ==
  ASSUME ConvInv, at # "tools"
  PROVE  /\ SessionOK(timeline, disk, cut, turns) /\ calls = <<>>
         /\ timeline \in Seq(Message) /\ disk \in Seq(Message)
         /\ ResultsFollowCalls(timeline, cut) /\ ResultsFollowCalls(disk, cut)
         /\ CallsUpTo(timeline, turns) /\ CallsUpTo(disk, turns)
         /\ pending \in Nat /\ turns \in Nat /\ prompts \in Nat
  <1>1. cut \cup Current = cut  BY DEF Current
  <1>2. pending \in Nat /\ turns \in Nat /\ prompts \in Nat  BY Limits DEF ConvInv, Counters
  <1> QED BY <1>1, <1>2 DEF ConvInv, SessionOK, RunOK

\* The start of a step.
LEMMA StepStarts ==
  ASSUME ConvInv, Ask \/ AskCompacted \/ AskFails
  PROVE  Rest'
  <1>1. at = "step" /\ turns' = turns /\ cut' = cut
    BY DEF Ask, AskCompacted, AskFails
  <1>2. /\ SessionOK(timeline, disk, cut, turns) /\ calls = <<>> /\ Counters
        /\ timeline \in Seq(Message) /\ disk \in Seq(Message)
        /\ ResultsFollowCalls(timeline, cut) /\ ResultsFollowCalls(disk, cut)
        /\ CallsUpTo(timeline, turns) /\ CallsUpTo(disk, turns)
        /\ pending \in Nat /\ disk = Durable(timeline)
    BY <1>1, BetweenTools DEF ConvInv, RunOK
  <1>3. /\ Drained \in Seq(Message) /\ ResultsFollowCalls(Drained, cut) /\ CallsUpTo(Drained, turns)
        /\ Durable(Drained) = Durable(timeline)
    BY <1>2, DrainedOK
  <1>4. SessionOK(Drained, disk, cut, turns)  BY <1>2, <1>3 DEF SessionOK
  <1>5. CASE Ask
    <2>1. timeline' = Drained /\ disk' = disk /\ Asks(Drained)  BY <1>5 DEF Ask
    <2> QED BY <1>1, <1>2, <1>3, <1>4, <2>1, AsksOK
  <1>6. CASE AskCompacted
    <2>1. PICK new \in Compactions(Drained) : \E ok \in BOOLEAN :
            /\ Save(new, ok)
            /\ IF ok THEN Asks(Durable(new)) ELSE EndRun
      BY <1>6 DEF AskCompacted
    <2>2. PICK ok \in BOOLEAN : Save(new, ok) /\ IF ok THEN Asks(Durable(new)) ELSE EndRun
      BY <2>1
    <2>3. /\ new \in Seq(Message) /\ ResultsFollowCalls(new, cut) /\ CallsUpTo(new, turns)
          /\ Durable(new) \in Seq(Message) /\ ResultsFollowCalls(Durable(new), cut)
      BY <1>3, CompactedOK
    <2>4. SessionOK(timeline', disk', cut, turns) /\ (ok => disk' = Durable(timeline'))
      BY <1>2, <2>2, <2>3, SaveOK
    <2>5. CASE ok  BY <1>1, <1>2, <2>2, <2>3, <2>4, <2>5, AsksOK
    <2>6. CASE ~ok  BY <1>1, <2>2, <2>4, <2>6, EndedOK
    <2> QED BY <2>5, <2>6
  <1>7. CASE AskFails
    <2>1. timeline' = Drained /\ disk' = disk /\ EndRun  BY <1>7 DEF AskFails
    <2> QED BY <1>1, <1>4, <2>1, EndedOK
  <1> QED BY <1>5, <1>6, <1>7

\* The end of a run that has used up its steps.
LEMMA RunCloses ==
  ASSUME ConvInv, CompactLast \/ OutOfSteps
  PROVE  Rest'
  <1>1. at # "tools" /\ at # "asking" /\ turns' = turns /\ cut' = cut
    BY DEF CompactLast, OutOfSteps
  <1>2. /\ SessionOK(timeline, disk, cut, turns) /\ calls = <<>> /\ request = <<>>
        /\ timeline \in Seq(Message) /\ disk \in Seq(Message)
        /\ ResultsFollowCalls(timeline, cut) /\ ResultsFollowCalls(disk, cut)
        /\ CallsUpTo(timeline, turns) /\ CallsUpTo(disk, turns)
    BY <1>1, BetweenTools DEF ConvInv, RunOK
  <1>3. CASE CompactLast
    <2>1. PICK new \in Compactions(timeline), ok \in BOOLEAN : Save(new, ok)
      BY <1>3 DEF CompactLast
    <2>2. new \in Seq(Message) /\ ResultsFollowCalls(new, cut) /\ CallsUpTo(new, turns)
      BY <1>2, CompactedOK
    <2>3. SessionOK(timeline', disk', cut, turns)  BY <1>2, <2>1, <2>2, SaveOK
    <2>4. at' = "closing" /\ calls' = <<>> /\ request' = <<>>
      BY <1>2, <1>3 DEF CompactLast, batch
    <2>5. RunOK'  BY <1>1, <2>4, NothingIsSound DEF RunOK
    <2>6. cut' \cup Current' = cut  BY <1>1, <2>4 DEF Current
    <2> QED BY <1>1, <2>3, <2>5, <2>6 DEF Rest
  <1>4. CASE OutOfSteps
    <2>1. EndRun /\ Finish(timeline)  BY <1>4 DEF OutOfSteps
    <2>2. SessionOK(timeline', disk', cut, turns)  BY <1>2, <2>1, FinishOK
    <2> QED BY <1>1, <2>1, <2>2, EndedOK
  <1> QED BY <1>3, <1>4

\* What the model answers, but for tools.
LEMMA ModelAnswers ==
  ASSUME ConvInv,
         Overloaded \/ TooLong \/ AskingFails \/ Answers \/ Idles \/ \E ts \in Requests : Loops(ts)
  PROVE  Rest'
  <1>1. at = "asking" /\ turns' = turns /\ cut' = cut
    BY DEF Overloaded, TooLong, AskingFails, Answers, Idles, Loops
  <1>2. /\ SessionOK(timeline, disk, cut, turns) /\ calls = <<>> /\ Counters
        /\ timeline \in Seq(Message) /\ disk \in Seq(Message)
        /\ ResultsFollowCalls(timeline, cut) /\ ResultsFollowCalls(disk, cut)
        /\ CallsUpTo(timeline, turns) /\ CallsUpTo(disk, turns)
        /\ prompts \in Nat /\ disk = Durable(timeline)
    BY <1>1, BetweenTools DEF ConvInv, RunOK
  <1>3. Current = {} /\ Rest /\ request \in Seq(Message)
    BY <1>1 DEF Current, ConvInv, Rest, RunOK
  <1>4. CASE Overloaded
    <2>1. UNCHANGED <<timeline, disk, cut, at, turns, request, mentions, calls, from>>
      BY <1>4 DEF Overloaded, session, batch, prompt
    <2> QED BY <1>3, <2>1 DEF Rest, RunOK, Current
  <1>5. CASE TooLong
    <2>1. PICK new \in Compactions(timeline) : \E ok \in BOOLEAN :
            /\ Save(new, ok)
            /\ IF ok THEN request' = Conversation(Durable(new)) /\ UNCHANGED <<at, calls, mentions>>
                     ELSE EndRun
      BY <1>5 DEF TooLong, batch, prompt
    <2>2. PICK ok \in BOOLEAN :
            /\ Save(new, ok)
            /\ IF ok THEN request' = Conversation(Durable(new)) /\ UNCHANGED <<at, calls, mentions>>
                     ELSE EndRun
      BY <2>1
    <2>3. /\ new \in Seq(Message) /\ ResultsFollowCalls(new, cut) /\ CallsUpTo(new, turns)
          /\ Durable(new) \in Seq(Message) /\ ResultsFollowCalls(Durable(new), cut)
      BY <1>2, CompactedOK
    <2>4. SessionOK(timeline', disk', cut, turns) /\ (ok => disk' = Durable(timeline'))
      BY <1>2, <2>2, <2>3, SaveOK
    <2>5. CASE ok
      <3>1. request' = Conversation(Durable(new)) /\ at' = "asking" /\ calls' = <<>>
            /\ mentions' = mentions
        BY <1>1, <1>2, <2>2, <2>5
      <3>2. /\ Conversation(Durable(new)) \in Seq(Message)
            /\ ~mentions => ResultsFollowCalls(Conversation(Durable(new)), cut)
        BY <1>2, <2>3, AskedOK
      <3>3. RunOK'  BY <1>1, <2>4, <2>5, <3>1, <3>2 DEF RunOK
      <3>4. cut' \cup Current' = cut  BY <1>1, <3>1 DEF Current
      <3> QED BY <1>1, <2>4, <3>3, <3>4 DEF Rest
    <2>6. CASE ~ok  BY <1>1, <2>2, <2>4, <2>6, EndedOK
    <2> QED BY <2>5, <2>6
  <1>6. CASE AskingFails
    <2>1. UNCHANGED <<timeline, disk>> /\ EndRun  BY <1>6 DEF AskingFails, session
    <2> QED BY <1>1, <1>2, <2>1, EndedOK
  <1>7. CASE Answers \/ (\E ts \in Requests : Loops(ts))
    <2>1. Finish(timeline) /\ EndRun  BY <1>7 DEF Answers, Loops
    <2>2. SessionOK(timeline', disk', cut, turns)  BY <1>2, <2>1, FinishOK
    <2> QED BY <1>1, <2>1, <2>2, EndedOK
  <1>8. CASE Idles
    <2>1. CASE Finish(timeline) /\ EndRun
      <3>1. SessionOK(timeline', disk', cut, turns)  BY <1>2, <2>1, FinishOK
      <3> QED BY <1>1, <2>1, <3>1, EndedOK
    <2>2. CASE ~(Finish(timeline) /\ EndRun)
      <3>1. at' = "step" /\ request' = <<>> /\ UNCHANGED <<timeline, disk, calls>>
        BY <1>8, <2>2 DEF Idles, session, batch
      <3>2. cut' \cup Current' = cut  BY <1>1, <3>1 DEF Current
      <3>3. <<>> \in Seq(Message) /\ ResultsFollowCalls(<<>>, cut')  BY NothingIsSound
      <3>4. RunOK'  BY <1>2, <3>1, <3>3 DEF RunOK
      <3> QED BY <1>1, <1>2, <3>1, <3>2, <3>4 DEF Rest
    <2> QED BY <2>1, <2>2
  <1> QED BY <1>4, <1>5, <1>6, <1>7, <1>8

\* A message at the end that is saved is the last of what is saved.
LEMMA DurableAppended ==
  ASSUME NEW ms \in Seq(Message), NEW m \in Message, m.kind # "note", NEW n,
         CallsUpTo(ms, n)
  PROVE  \E p \in DOMAIN Durable(Append(ms, m)) :
           /\ p = Len(Durable(Append(ms, m))) /\ Durable(Append(ms, m))[p] = m
           /\ \A i \in DOMAIN Durable(Append(ms, m)) :
                Durable(Append(ms, m))[i].kind = "calls" /\ i # p => Durable(Append(ms, m))[i].of <= n
  <1>1. PICK new : new = Append(ms, m)  OBVIOUS
  <1>2. PICK z : z = Len(ms) + 1  OBVIOUS
  <1>3. /\ new \in Seq(Message) /\ Len(ms) \in Nat /\ DOMAIN ms = 1..Len(ms)
        /\ DOMAIN new = 1..z /\ z \in DOMAIN new /\ new[z] = m
        /\ \A i \in 1..Len(ms) : new[i] = ms[i]
    BY <1>1, <1>2
  <1>4. PICK S : S = Saved(new)  OBVIOUS
  <1>5. PICK D : D = Durable(new)  OBVIOUS
  <1>6. /\ S \subseteq DOMAIN new /\ D \in Seq(Message) /\ Len(D) = Cardinality(S)
        /\ \A k \in DOMAIN D : Nth(S, k) \in S /\ Rank(S, Nth(S, k)) = k /\ D[k] = new[Nth(S, k)]
        /\ \A i \in S : Rank(S, i) \in DOMAIN D /\ D[Rank(S, i)] = new[i]
    BY <1>3, <1>4, <1>5, DurableFacts
  <1>7. z \in S  BY <1>3, <1>4 DEF Saved
  <1>8. \A d \in S : d <= z /\ d \in Nat  BY <1>2, <1>3, <1>6
  <1>9. Rank(S, z) = Cardinality(S)
    <2>1. {d \in S : d <= z} = S  BY <1>8
    <2> QED BY <2>1 DEF Rank
  <1>10. PICK p : p = Rank(S, z)  OBVIOUS
  <1>11. p \in DOMAIN D /\ p = Len(D) /\ D[p] = m  BY <1>3, <1>6, <1>7, <1>9, <1>10
  <1>12. ASSUME NEW i \in DOMAIN D, D[i].kind = "calls", i # p  PROVE D[i].of <= n
    <2>1. PICK k : k = Nth(S, i)  OBVIOUS
    <2>2. k \in S /\ Rank(S, k) = i /\ D[i] = new[k]  BY <1>6, <2>1
    <2>3. k # z  BY <1>10, <1>12, <2>2
    <2>4. k \in 1..Len(ms)
      <3>1. k \in 1..z  BY <1>3, <1>6, <2>2
      <3> QED BY <1>2, <1>3, <2>3, <3>1
    <2> QED BY <1>3, <1>12, <2>2, <2>4 DEF CallsUpTo
  <1> QED BY <1>1, <1>5, <1>11, <1>12

\* The model asks for tools.
LEMMA CallsOK ==
  ASSUME ConvInv, NEW ts \in Requests, NEW same \in BOOLEAN, CallTools(ts, same)
  PROVE  Rest'
  <1>1. at = "asking" /\ turns' = turns + 1  BY DEF CallTools
  <1>2. /\ timeline \in Seq(Message) /\ disk \in Seq(Message)
        /\ ResultsFollowCalls(timeline, cut) /\ ResultsFollowCalls(disk, cut)
        /\ CallsUpTo(timeline, turns) /\ CallsUpTo(disk, turns) /\ turns \in Nat
    BY <1>1, BetweenTools
  <1>3. PICK n : n = turns + 1  OBVIOUS
  <1>4. PICK m : m = CallsMsg(n, ts)  OBVIOUS
  <1>5. n \in Nat /\ turns < n  BY <1>2, <1>3
  <1>6. m \in Message /\ m.kind = "calls" /\ m.of = n
    <2>1. m.kind = "calls" /\ m.of = n  BY <1>4 DEF CallsMsg
    <2> QED BY <1>4, <1>5, <2>1, MessageTypes
  <1>7. PICK open : open = cut \cup {n}  OBVIOUS
  <1>8. ResultsFollowCalls(timeline, open) /\ ResultsFollowCalls(disk, open)
    <2>1. cut \subseteq open  BY <1>7
    <2> QED BY <1>2, <2>1, SoundForMore
  <1>9. CallsUpTo(timeline, n) /\ CallsUpTo(disk, n)
    <2>1. ASSUME NEW ms \in Seq(Message), CallsUpTo(ms, turns)  PROVE CallsUpTo(ms, n)
      <3>1. ASSUME NEW i \in DOMAIN ms, ms[i].kind = "calls"  PROVE ms[i].of <= n
        <4>1. ms[i] \in Message /\ ms[i].of <= turns  BY <2>1, <3>1 DEF CallsUpTo
        <4>2. ms[i].of \in Nat  BY <4>1 DEF Message
        <4> QED BY <1>2, <1>5, <4>1, <4>2
      <3> QED BY <3>1 DEF CallsUpTo
    <2> QED BY <1>2, <2>1
  <1>10. PICK new : new = Append(timeline, m)  OBVIOUS
  <1>11. new \in Seq(Message) /\ ResultsFollowCalls(new, open) /\ CallsUpTo(new, n)
    <2>1. n \in open  BY <1>7
    <2>2. Append(timeline, m) \in Seq(Message) /\ ResultsFollowCalls(Append(timeline, m), open)
      BY <1>2, <1>6, <1>8, <2>1, AppendSound
    <2>3. n <= n  BY <1>5
    <2>4. CallsUpTo(Append(timeline, m), n)  BY <1>2, <1>6, <1>9, <2>3, AppendNumbered
    <2> QED BY <1>10, <2>2, <2>4
  <1>12. PICK ok \in BOOLEAN :
           /\ Save(new, ok)
           /\ IF ok THEN /\ at' = "tools" /\ request' = <<>> /\ calls' = ts /\ from' = 1 /\ cut' = cut
                    ELSE EndRun /\ cut' = cut \cup {n}
    BY <1>3, <1>4, <1>10 DEF CallTools
  <1>13. /\ SessionOK(timeline', disk', open, n)
         /\ timeline' = Durable(new) /\ NoNotes(timeline')
    BY <1>2, <1>8, <1>9, <1>11, <1>12, SaveOK
  <1>14. CASE ok
    <2>1. at' = "tools" /\ request' = <<>> /\ calls' = ts /\ from' = 1 /\ cut' = cut
      BY <1>12, <1>14
    <2>2. cut' \cup Current' = open  BY <1>1, <1>3, <1>7, <2>1 DEF Current
    <2>3. PICK tl : tl = timeline'  OBVIOUS
    <2>4. PICK p \in DOMAIN tl :
            /\ p = Len(tl) /\ tl[p] = m
            /\ \A i \in DOMAIN tl : tl[i].kind = "calls" /\ i # p => tl[i].of <= turns
      BY <1>2, <1>6, <1>10, <1>13, <2>3, DurableAppended
    <2>5. tl \in Seq(Message)  BY <1>13, <2>3 DEF SessionOK
    <2>6. AtTools(tl, n, ts, 1)
      <3>1. WorkedOff(tl, p, n, ts, 1)
        <4>1. Len(tl) = p + (1 - 1)  BY <2>4, <2>5
        <4> QED BY <1>4, <2>4, <4>1 DEF WorkedOff
      <3>2. ASSUME NEW i \in DOMAIN tl, tl[i].kind = "calls", i # p  PROVE tl[i].of < n
        <4>1. tl[i].of <= turns  BY <2>4, <3>2
        <4>2. tl[i] \in Message  BY <2>5
        <4>3. tl[i].of \in Nat  BY <4>2 DEF Message
        <4> QED BY <1>2, <1>3, <4>1, <4>3
      <3> QED BY <1>13, <2>3, <3>1, <3>2 DEF AtTools
    <2>7. <<>> \in Seq(Message) /\ ResultsFollowCalls(<<>>, cut')  BY NothingIsSound
    <2>8. RunOK'  BY <1>1, <1>3, <2>1, <2>3, <2>6, <2>7 DEF RunOK
    <2> QED BY <1>1, <1>3, <1>13, <2>2, <2>8 DEF Rest
  <1>15. CASE ~ok
    <2>1. EndRun /\ cut' = open  BY <1>7, <1>12, <1>15
    <2> QED BY <1>1, <1>3, <1>13, <2>1, EndedOK
  <1> QED BY <1>14, <1>15

\* The conversation with the results of a group that have come back.
LEMMA WithResultsOK ==
  ASSUME ConvInv, at = "tools"
  PROVE  /\ WithResults \in Seq(Message) /\ ResultsFollowCalls(WithResults, cut \cup {turns})
         /\ CallsUpTo(WithResults, turns) /\ NoNotes(WithResults)
         /\ running = {} /\ ~broken =>
              /\ from + Cardinality(Group) \in 2..(Len(calls) + 1) /\ Len(calls) \in Nat
              /\ AtTools(WithResults, turns, calls, from + Cardinality(Group))
  <1>1. AtWork(calls, from, running, done, broken)  BY DEF ConvInv, IInv
  <1>2. calls \in Requests /\ from \in 1..Len(calls)  BY <1>1 DEF AtWork
  <1>3. Len(calls) \in Nat /\ DOMAIN calls = 1..Len(calls) /\ from \in Nat
    BY <1>2, ToolsAssumption
  <1>4. turns \in Nat  BY DEF ConvInv, Counters
  <1>5. PICK open : open = cut \cup {turns}  OBVIOUS
  <1>6. /\ timeline \in Seq(Message) /\ ResultsFollowCalls(timeline, open)
        /\ CallsUpTo(timeline, turns) /\ turns \in open
    BY <1>5 DEF ConvInv, SessionOK, Current
  <1>7. NoNotes(timeline)  BY DEF ConvInv, RunOK, AtTools
  <1>8. PICK p : /\ WorkedOff(timeline, p, turns, calls, from)
                 /\ \A i \in DOMAIN timeline :
                      timeline[i].kind = "calls" /\ i # p => timeline[i].of < turns
    BY DEF ConvInv, RunOK, AtTools
  <1>9. PICK G : G = Group  OBVIOUS
  <1>10. /\ G = GroupFrom(calls, from) /\ Cardinality(G) \in 1..MaxParallel
         /\ G = from..(from + Cardinality(G) - 1) /\ from + Cardinality(G) \in 2..(Len(calls) + 1)
    BY <1>2, <1>9, GroupIsInterval DEF Group
  <1>11. PICK g : g = from + Cardinality(G)  OBVIOUS
  <1>12. G = from..(g - 1) /\ g \in (from + 1)..(Len(calls) + 1)
    <2>1. Cardinality(G) \in Nat \ {0}  BY <1>10, ToolsAssumption
    <2> QED BY <1>3, <1>10, <1>11, <2>1
  <1>13. PICK cs : cs = G \cap done  OBVIOUS
  <1>14. cs \in SUBSET (from..Len(calls))
    <2>1. \A c \in G : c \in from..Len(calls)  BY <1>3, <1>12
    <2> QED BY <1>13, <2>1
  <1>15. PICK rs : rs = Results(turns, cs)  OBVIOUS
  <1>16. PICK all : all = timeline \o rs  OBVIOUS
  <1>17. /\ all \in Seq(Message) /\ ResultsFollowCalls(all, open) /\ rs \in Seq(Message)
         /\ \A i \in DOMAIN rs : rs[i].kind = "result"
    <2>1. /\ timeline \o Results(turns, cs) \in Seq(Message)
          /\ ResultsFollowCalls(timeline \o Results(turns, cs), open)
          /\ Results(turns, cs) \in Seq(Message) /\ AllResults(Results(turns, cs))
      <3>1. WorkedOff(timeline, p, turns, calls, from)  BY <1>8
      <3>2. timeline \in Seq(Message) /\ turns \in Nat /\ calls \in Requests /\ from \in 1..Len(calls)
        BY <1>2, <1>4, <1>6
      <3>3. ResultsFollowCalls(timeline, open) /\ turns \in open  BY <1>6
      <3> QED BY <1>14, <3>1, <3>2, <3>3, ResultsSound
    <2> QED BY <1>15, <1>16, <2>1 DEF AllResults
  <1>18. WithResults = all  BY <1>9, <1>13, <1>15, <1>16 DEF WithResults
  <1>19. ASSUME NEW i \in DOMAIN all
         PROVE  \/ i \in DOMAIN timeline /\ all[i] = timeline[i]
                \/ all[i].kind = "result"
    <2>1. /\ Len(timeline) \in Nat /\ Len(rs) \in Nat /\ DOMAIN timeline = 1..Len(timeline)
          /\ DOMAIN all = 1..(Len(timeline) + Len(rs))
          /\ \A k \in 1..Len(timeline) : all[k] = timeline[k]
          /\ \A k \in (Len(timeline) + 1)..(Len(timeline) + Len(rs)) :
               k - Len(timeline) \in DOMAIN rs /\ all[k] = rs[k - Len(timeline)]
      BY <1>6, <1>16, <1>17, JoinedAt
    <2>2. i \in 1..Len(timeline) \/ i \in (Len(timeline) + 1)..(Len(timeline) + Len(rs))
      BY <2>1
    <2>3. CASE i \in 1..Len(timeline)  BY <2>1, <2>3
    <2>4. CASE i \in (Len(timeline) + 1)..(Len(timeline) + Len(rs))  BY <1>17, <2>1, <2>4
    <2> QED BY <2>2, <2>3, <2>4
  <1>20. CallsUpTo(all, turns)  BY <1>6, <1>19 DEF CallsUpTo
  <1>21. NoNotes(all)  BY <1>7, <1>19 DEF NoNotes
  <1>22. ASSUME running = {}, ~broken  PROVE AtTools(all, turns, calls, g)
    <2>1. cs = from..(g - 1)  BY <1>1, <1>10, <1>12, <1>13, <1>22 DEF AtWork
    <2>2. WorkedOff(all, p, turns, calls, g)
      BY <1>2, <1>4, <1>6, <1>8, <1>12, <1>15, <1>16, <2>1, GroupWorkedOff
    <2>3. ASSUME NEW i \in DOMAIN all, all[i].kind = "calls", i # p  PROVE all[i].of < turns
      BY <1>8, <1>19, <2>3
    <2> QED BY <1>21, <2>2, <2>3 DEF AtTools
  <1> QED BY <1>3, <1>5, <1>9, <1>10, <1>11, <1>17, <1>18, <1>20, <1>21, <1>22

\* The calls are executed.
LEMMA ToolsOK ==
  ASSUME ConvInv,
         \/ \E c \in running : Returns(c) \/ Breaks(c)
         \/ NextGroup \/ TurnEnds \/ GroupFails
  PROVE  Rest'
  <1>1. at = "tools" /\ turns' = turns
    BY DEF Returns, Breaks, NextGroup, TurnEnds, GroupFails
  <1>2. Rest /\ turns \in Nat /\ request = <<>>
    BY <1>1 DEF ConvInv, Rest, RunOK, Counters
  <1>3. PICK open : open = cut \cup {turns}  OBVIOUS
  <1>4. /\ cut \cup Current = open /\ timeline \in Seq(Message) /\ disk \in Seq(Message)
        /\ ResultsFollowCalls(disk, open) /\ CallsUpTo(disk, turns)
    BY <1>1, <1>2, <1>3 DEF Current, Rest, SessionOK
  <1>5. /\ WithResults \in Seq(Message) /\ ResultsFollowCalls(WithResults, open)
        /\ CallsUpTo(WithResults, turns) /\ NoNotes(WithResults)
    BY <1>1, <1>3, WithResultsOK
  <1>6. <<>> \in Seq(Message) /\ ResultsFollowCalls(<<>>, cut')  BY NothingIsSound
  <1>7. CASE \E c \in running : Returns(c) \/ Breaks(c)
    <2>1. UNCHANGED <<timeline, disk, cut, at, turns, request, mentions, calls, from>>
      BY <1>7 DEF Returns, Breaks, session, prompt
    <2> QED BY <1>2, <2>1 DEF Rest, RunOK, Current
  <1>8. CASE NextGroup
    <2>1. /\ running = {} /\ ~broken /\ timeline' = WithResults
          /\ from' = from + Cardinality(Group)
          /\ UNCHANGED <<disk, at, request, mentions, calls, turns, cut>>
      BY <1>8 DEF NextGroup, prompt
    <2>2. AtTools(timeline', turns', calls', from')  BY <1>1, <2>1, WithResultsOK
    <2>3. cut' \cup Current' = open  BY <1>1, <1>3, <2>1 DEF Current
    <2>4. RunOK'  BY <1>1, <1>2, <1>6, <2>1, <2>2 DEF RunOK
    <2>5. SessionOK(timeline', disk', open, turns)  BY <1>4, <1>5, <2>1 DEF SessionOK
    <2> QED BY <1>1, <2>3, <2>4, <2>5 DEF Rest
  <1>9. CASE TurnEnds
    <2>1. running = {} /\ ~broken /\ from + Cardinality(Group) > Len(calls)
      BY <1>9 DEF TurnEnds
    <2>2. PICK ok \in BOOLEAN :
            /\ Save(WithResults, ok)
            /\ IF ok THEN at' = "step" /\ calls' = <<>> /\ UNCHANGED <<request, cut>>
                     ELSE EndRun /\ cut' = cut \cup {turns}
      BY <1>9 DEF TurnEnds
    <2>3. CASE ok
      <3>1. at' = "step" /\ calls' = <<>> /\ request' = <<>> /\ cut' = cut  BY <1>2, <2>2, <2>3
      <3>2. /\ from + Cardinality(Group) = Len(calls) + 1
            /\ AtTools(WithResults, turns, calls, from + Cardinality(Group))
        <4>1. PICK g : g = from + Cardinality(Group)  OBVIOUS
        <4>2. g \in 2..(Len(calls) + 1) /\ Len(calls) \in Nat /\ AtTools(WithResults, turns, calls, g)
          BY <1>1, <2>1, <4>1, WithResultsOK
        <4>3. g > Len(calls)  BY <2>1, <4>1
        <4>4. g = Len(calls) + 1  BY <4>2, <4>3
        <4> QED BY <4>1, <4>2, <4>4
      <3>3. PICK ms : ms = WithResults  OBVIOUS
      <3>4. PICK p : /\ WorkedOff(ms, p, turns, calls, Len(calls) + 1)
                     /\ \A i \in DOMAIN ms : ms[i].kind = "calls" /\ i # p => ms[i].of < turns
        BY <3>2, <3>3 DEF AtTools
      <3>5. calls \in Requests
        <4>1. AtWork(calls, from, running, done, broken)  BY <1>1 DEF ConvInv, IInv
        <4> QED BY <4>1 DEF AtWork
      <3>6. \A i \in DOMAIN ms : ms[i].kind = "calls" /\ i # p => ms[i].of # turns
        BY <1>2, <3>4
      <3>7. ResultsFollowCalls(ms, cut)
        BY <1>2, <1>3, <1>5, <3>3, <3>4, <3>5, <3>6, RequestClosed
      <3>8. SessionOK(timeline', disk', cut, turns) /\ disk' = Durable(timeline')
        BY <1>4, <1>5, <2>2, <2>3, <3>3, <3>7, SaveOK
      <3>9. cut' \cup Current' = cut  BY <3>1 DEF Current
      <3>10. RunOK'  BY <1>6, <3>1, <3>8 DEF RunOK
      <3> QED BY <1>1, <3>8, <3>9, <3>10 DEF Rest
    <2>4. CASE ~ok
      <3>1. SessionOK(timeline', disk', open, turns)  BY <1>4, <1>5, <2>2, SaveOK
      <3> QED BY <1>1, <1>3, <2>2, <2>4, <3>1, EndedOK
    <2> QED BY <2>3, <2>4
  <1>10. CASE GroupFails
    <2>1. timeline' = WithResults /\ disk' = disk /\ EndRun /\ cut' = open
      BY <1>3, <1>10 DEF GroupFails
    <2>2. SessionOK(timeline', disk', open, turns)  BY <1>4, <1>5, <2>1 DEF SessionOK
    <2> QED BY <1>1, <2>1, <2>2, EndedOK
  <1> QED BY <1>7, <1>8, <1>9, <1>10

\* What happens beside the run.
LEMMA BesideOK ==
  ASSUME ConvInv,
         (\E mention \in BOOLEAN : Prompt(mention)) \/ Notify \/ Compact \/ ToggleMode \/ Crash
  PROVE  Rest'
  <1>1. turns' = turns  BY DEF Prompt, Notify, Compact, ToggleMode, Crash
  <1>2. PICK open : open = cut \cup Current  OBVIOUS
  <1>3. /\ Rest /\ timeline \in Seq(Message) /\ disk \in Seq(Message)
        /\ ResultsFollowCalls(timeline, open) /\ ResultsFollowCalls(disk, open)
        /\ CallsUpTo(timeline, turns) /\ CallsUpTo(disk, turns) /\ prompts \in Nat
    BY <1>2 DEF ConvInv, Rest, SessionOK, Counters
  <1>4. <<>> \in Seq(Message) /\ ResultsFollowCalls(<<>>, cut')  BY NothingIsSound
  <1>5. ASSUME NEW mention \in BOOLEAN, Prompt(mention)  PROVE Rest'
    <2>1. at = "idle" /\ cut' = cut /\ request' = request /\ calls' = calls
      BY <1>5 DEF Prompt, batch
    <2>2. PICK m : m = Msg("user", prompts + 1)  OBVIOUS
    <2>3. PICK new : new = Append(timeline, m)  OBVIOUS
    <2>4. PICK ok \in BOOLEAN, begins \in BOOLEAN :
            /\ Save(new, ok) /\ (begins => ok)
            /\ at' = IF begins THEN "step" ELSE "idle"
      BY <1>5, <2>2, <2>3 DEF Prompt
    <2>5. m \in Message /\ m.kind = "user"
      <3>1. "user" \in Messages  BY DEF Messages
      <3>2. m.kind = "user"  BY <2>2 DEF Msg
      <3> QED BY <1>3, <2>2, <3>1, <3>2, MessageTypes
    <2>6. Append(timeline, m) \in Seq(Message) /\ ResultsFollowCalls(Append(timeline, m), open)
      BY <1>3, <2>5, AppendSound
    <2>7. CallsUpTo(Append(timeline, m), turns)  BY <1>3, <2>5, AppendNumbered
    <2>8. SessionOK(timeline', disk', open, turns) /\ (ok => disk' = Durable(timeline'))
      <3>1. new \in Seq(Message) /\ ResultsFollowCalls(new, open) /\ CallsUpTo(new, turns)
        BY <2>6, <2>7, <2>3
      <3> QED BY <1>3, <2>4, <3>1, SaveOK
    <2>9. cut' \cup Current' = open  BY <1>2, <2>1, <2>4 DEF Current
    <2>10. request = <<>> /\ calls = <<>>  BY <1>3, <2>1 DEF Rest, RunOK
    <2>11. RunOK'
      <3>1. at' = "idle" \/ (at' = "step" /\ disk' = Durable(timeline'))  BY <2>4, <2>8
      <3>2. request' = <<>> /\ calls' = <<>>  BY <2>1, <2>10
      <3> QED BY <1>4, <3>1, <3>2 DEF RunOK
    <2> QED BY <1>1, <2>8, <2>9, <2>11 DEF Rest
  <1>6. CASE Notify
    <2>1. UNCHANGED <<timeline, disk, cut, at, turns, request, mentions, calls, from>>
      BY <1>6 DEF Notify, session, batch, prompt
    <2> QED BY <1>3, <2>1 DEF Rest, RunOK, Current
  <1>7. CASE Compact
    <2>1. at = "idle" /\ UNCHANGED <<cut, at, request, mentions, calls>>
      BY <1>7 DEF Compact, batch, prompt
    <2>2. PICK m : m = Msg("summary", 0)  OBVIOUS
    <2>3. PICK ok \in BOOLEAN : Save(<<m>>, ok)  BY <1>7, <2>2 DEF Compact
    <2>4. m \in Message /\ m.kind = "summary"
      <3>1. "summary" \in Messages  BY DEF Messages
      <3>2. m.kind = "summary"  BY <2>2 DEF Msg
      <3> QED BY <2>2, <3>1, <3>2, MessageTypes
    <2>5. <<m>> \in Seq(Message) /\ DOMAIN <<m>> = {1} /\ <<m>>[1] = m  BY <2>4
    <2>6. ResultsFollowCalls(<<m>>, open) /\ CallsUpTo(<<m>>, turns)
      BY <2>4, <2>5 DEF ResultsFollowCalls, CallsUpTo
    <2>7. SessionOK(timeline', disk', open, turns)  BY <1>3, <2>3, <2>5, <2>6, SaveOK
    <2>8. cut' \cup Current' = open  BY <1>1, <1>2, <2>1 DEF Current
    <2>9. RunOK'  BY <1>3, <2>1 DEF Rest, RunOK
    <2> QED BY <1>1, <2>7, <2>8, <2>9 DEF Rest
  <1>8. CASE ToggleMode
    <2>1. PICK ok \in BOOLEAN : Save(timeline, ok)  BY <1>8 DEF ToggleMode
    <2>2. UNCHANGED <<cut, at, request, mentions, calls, from>>
      BY <1>8 DEF ToggleMode, batch, prompt
    <2>3. /\ SessionOK(timeline', disk', open, turns)
          /\ timeline' = Durable(timeline) /\ (ok => disk' = Durable(timeline'))
      BY <1>3, <2>1, SaveOK
    <2>4. ~ok => disk' = disk  BY <2>1 DEF Save
    <2>5. ASSUME at = "tools"  PROVE AtTools(timeline', turns', calls', from')
      <3>1. AtTools(timeline, turns, calls, from)  BY <1>3, <2>5 DEF Rest, RunOK
      <3>2. Durable(timeline) = timeline  BY <1>3, <3>1, DurableIsSame DEF AtTools
      <3> QED BY <1>1, <2>2, <2>3, <3>1, <3>2
    <2>6. ASSUME at \in {"step", "asking"}  PROVE disk' = Durable(timeline')
      <3>1. disk = Durable(timeline)  BY <1>3, <2>6 DEF Rest, RunOK
      <3>2. Durable(Durable(timeline)) = Durable(timeline)  BY <1>3, DurableTwice
      <3> QED BY <2>3, <2>4, <3>1, <3>2
    <2>7. RunOK'  BY <1>3, <2>2, <2>5, <2>6 DEF Rest, RunOK
    <2>8. cut' \cup Current' = open  BY <1>1, <1>2, <2>2 DEF Current
    <2> QED BY <1>1, <2>3, <2>7, <2>8 DEF Rest
  <1>9. CASE Crash
    <2>1. timeline' = disk /\ disk' = disk /\ EndRun
          /\ cut' = IF at = "tools" THEN cut \cup {turns} ELSE cut
      BY <1>9 DEF Crash
    <2>2. cut' = open  BY <1>2, <2>1 DEF Current
    <2>3. SessionOK(timeline', disk', open, turns)  BY <1>3, <2>1 DEF SessionOK
    <2> QED BY <1>1, <2>1, <2>2, <2>3, EndedOK
  <1> QED BY <1>5, <1>6, <1>7, <1>8, <1>9

\* Every step keeps the invariant.
LEMMA StepConv == ConvInv /\ [Next]_vars => ConvInv'
  <1> SUFFICES ASSUME ConvInv, [Next]_vars  PROVE ConvInv'  OBVIOUS
  <1>1. IInv'  BY StepIInv DEF ConvInv
  <1>2. Counters'  BY StepCounters DEF ConvInv
  <1>3. Rest'
    <2>1. CASE RunStep
      BY <2>1, StepStarts, RunCloses, ModelAnswers, CallsOK, ToolsOK DEF RunStep
    <2>2. CASE Next /\ ~RunStep  BY <2>2, BesideOK DEF Next
    <2>3. CASE UNCHANGED vars
      <3>1. UNCHANGED <<timeline, disk, cut, at, turns, request, mentions, calls, from>>
        BY <2>3 DEF vars, session, batch, prompt
      <3> QED BY <3>1 DEF ConvInv, Rest, RunOK, Current
    <2> QED BY <2>1, <2>2, <2>3
  <1> QED BY <1>1, <1>2, <1>3 DEF Rest, ConvInv

\* In memory, on disk and in what the model is sent, unless the prompt mentions an
\* agent, the results of a request follow it, in order and complete unless it was
\* cut short, and what the model is sent was saved before (processTurn, Save,
\* BuildPairAwareCompactedMessages, drainSubAgentNotifications): through
\* compactions of every kind, saves that fail, calls that break and crashes, for
\* any requests, conversations of any length and any limits.
THEOREM ConversationsStaySound == SafeSpec => []ConversationSound
  <1>1. SafeSpec => []ConvInv  BY InitConv, StepConv, PTL DEF SafeSpec
  <1> QED BY <1>1, SoundFromInvariant, PTL
=============================================================================
