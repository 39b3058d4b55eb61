------------------------ MODULE ProviderHealthProofs ------------------------
(***************************************************************************)
(* Proofs about ProviderHealth, for any number of providers and callers and*)
(* any thresholds.  The first part is about the breaker alone: appending an*)
(* outcome and moving the status keeps the two in agreement.  The second is*)
(* about calls: where a call is in its route determines what it may hold.  *)
(***************************************************************************)
EXTENDS ProviderHealth, WellFoundedInduction, TLAPS

-----------------------------------------------------------------------------
(* Least elements, for the CHOOSEs of Checked and Target. *)

LessThan == {ss \in Nat \X Nat : ss[1] < ss[2]}

\* A non-empty set of naturals has a least element.
LEMMA Least ==
  ASSUME NEW T \in SUBSET Nat, T # {}
  PROVE  \E x \in T : \A y \in T : x <= y
<1>1. IsWellFoundedOn(LessThan, Nat)
  BY NatLessThanWellFounded DEF OpToRel, LessThan
<1>2. PICK x \in T : \A y \in T : ~(<<y, x>> \in LessThan)
  BY <1>1, WFMin
<1>3. ASSUME NEW y \in T PROVE x <= y
  <2>1. <<y, x>> \notin LessThan BY <1>2
  <2>2. y \in Nat /\ x \in Nat OBVIOUS
  <2>3. ~(y < x) BY <2>1, <2>2 DEF LessThan
  <2> QED BY <2>2, <2>3
<1> QED BY <1>3

\* A set whose elements have ranks has one of least rank.
LEMMA LeastRank ==
  ASSUME NEW S, S # {}, NEW rank, \A p \in S : rank[p] \in Nat
  PROVE  \E p \in S : \A q \in S : rank[p] <= rank[q]
<1> DEFINE T == {rank[p] : p \in S}
<1>1. T \in SUBSET Nat /\ T # {} OBVIOUS
<1>2. PICK x \in T : \A y \in T : x <= y BY <1>1, Least
<1> QED BY <1>2

-----------------------------------------------------------------------------
(* The breaker. *)

\* appendOutcome keeps the window's size, and the outcome is the last one.
LEMMA WindowedAppends ==
  ASSUME NEW s \in Seq(BOOLEAN), Len(s) <= WindowSize, NEW b \in BOOLEAN
  PROVE  /\ Windowed(s, b) \in Seq(BOOLEAN)
         /\ Len(Windowed(s, b)) <= WindowSize
         /\ Trailing(Windowed(s, b), b, 1)
<1> USE ThresholdsAssumption
<1>0. Len(s) \in Nat /\ WindowSize \in Nat OBVIOUS
<1>1. CASE Len(s) < WindowSize
  <2>1. Windowed(s, b) = Append(s, b) BY <1>1 DEF Windowed
  <2>2. Len(Append(s, b)) = Len(s) + 1 /\ Append(s, b)[Len(s) + 1] = b OBVIOUS
  <2> QED BY <1>0, <1>1, <2>1, <2>2 DEF Trailing
<1>2. CASE ~(Len(s) < WindowSize)
  <2> DEFINE t == SubSeq(s, Len(s) - WindowSize + 2, Len(s))
  <2>1. Windowed(s, b) = Append(t, b) BY <1>2 DEF Windowed
  <2>2. Len(s) = WindowSize BY <1>0, <1>2
  <2>3. t \in Seq(BOOLEAN) /\ Len(t) = WindowSize - 1 BY <1>0, <2>2
  <2>4. Len(Append(t, b)) = Len(t) + 1 /\ Append(t, b)[Len(t) + 1] = b
    BY <2>3
  <2>5. Append(t, b) \in Seq(BOOLEAN) BY <2>3
  <2> HIDE DEF t
  <2> QED BY <1>0, <2>1, <2>3, <2>4, <2>5 DEF Trailing
<1> QED BY <1>1, <1>2

\* The last outcome tells which runs are broken.
LEMMA LastBreaksRun ==
  ASSUME NEW s \in Seq(BOOLEAN), NEW b \in BOOLEAN, Trailing(s, b, 1),
         NEW n \in Nat \ {0}
  PROVE  ~Trailing(s, ~b, n)
<1>1. Len(s) \in Nat /\ 1 <= Len(s) /\ s[Len(s)] = b BY DEF Trailing
<1>2. SUFFICES ASSUME Trailing(s, ~b, n) PROVE FALSE OBVIOUS
<1>3. Len(s) \in (Len(s) - n + 1)..Len(s) BY <1>1
<1>4. s[Len(s)] = ~b BY <1>2, <1>3 DEF Trailing
<1> QED BY <1>1, <1>4

BreakerTyped ==
  /\ status \in [Providers -> Statuses]
  /\ outcomes \in [Providers -> Seq(BOOLEAN)]
  /\ \A p \in Providers : Len(outcomes[p]) <= WindowSize
  /\ waiting \in [Providers -> BOOLEAN]

Agrees(st, s) ==
  /\ st = "healthy" => s = <<>> \/ Trailing(s, TRUE, 1)
  /\ st = "degraded" => Trailing(s, FALSE, 1) /\ ~Trailing(s, FALSE, FailThreshold)
  /\ st \in Down => ~Trailing(s, TRUE, RecoverThreshold)

LEMMA Agreement == OutcomesAgree <=> \A p \in Providers : Agrees(status[p], outcomes[p])
BY DEF OutcomesAgree, Agrees

\* Recording an outcome leaves the outcomes typed and says what the last is.
LEMMA Recorded ==
  ASSUME BreakerTyped, NEW p \in Providers, NEW b \in BOOLEAN, AppendOutcome(p, b)
  PROVE  /\ outcomes' \in [Providers -> Seq(BOOLEAN)]
         /\ \A q \in Providers : Len(outcomes[q]') <= WindowSize
         /\ Trailing(outcomes'[p], b, 1)
         /\ \A q \in Providers \ {p} : outcomes'[q] = outcomes[q]
<1>1. outcomes[p] \in Seq(BOOLEAN) /\ Len(outcomes[p]) <= WindowSize BY DEF BreakerTyped
<1>2. outcomes' = [outcomes EXCEPT ![p] = Windowed(outcomes[p], b)] BY DEF AppendOutcome
<1>3. outcomes'[p] = Windowed(outcomes[p], b) BY <1>2 DEF BreakerTyped
<1> QED BY <1>1, <1>2, <1>3, WindowedAppends DEF BreakerTyped

\* A success keeps the breaker typed and in agreement.
LEMMA SuccessKeeps ==
  ASSUME BreakerTyped, OutcomesAgree, NEW p \in Providers, Success(p)
  PROVE  BreakerTyped' /\ OutcomesAgree'
<1> USE ThresholdsAssumption
<1>1. AppendOutcome(p, TRUE) BY DEF Success
<1>2. /\ outcomes' \in [Providers -> Seq(BOOLEAN)]
      /\ \A q \in Providers : Len(outcomes[q]') <= WindowSize
      /\ Trailing(outcomes'[p], TRUE, 1)
      /\ \A q \in Providers \ {p} : outcomes'[q] = outcomes[q]
  BY <1>1, Recorded
<1>3. \/ /\ status[p] \in Down /\ Trailing(outcomes'[p], TRUE, RecoverThreshold)
         /\ SetBreaker(p, "healthy", FALSE)
      \/ /\ status[p] \in Down /\ ~Trailing(outcomes'[p], TRUE, RecoverThreshold)
         /\ UNCHANGED <<status, waiting>>
      \/ /\ status[p] \notin Down
         /\ SetBreaker(p, "healthy", waiting[p])
  BY DEF Success
<1>4. BreakerTyped'
  <2>1. status' \in [Providers -> Statuses] /\ waiting' \in [Providers -> BOOLEAN]
    BY <1>3 DEF SetBreaker, BreakerTyped, Statuses
  <2> QED BY <1>2, <2>1 DEF BreakerTyped
<1>5. ASSUME NEW q \in Providers PROVE Agrees(status'[q], outcomes'[q])
  <2>1. CASE q # p
    <3>1. status'[q] = status[q] BY <1>3, <2>1 DEF SetBreaker, BreakerTyped
    <3>2. outcomes'[q] = outcomes[q] BY <1>2, <2>1
    <3> QED BY <3>1, <3>2, Agreement
  <2>2. CASE q = p
    <3>1. \/ status'[p] = "healthy"
          \/ status'[p] \in Down /\ ~Trailing(outcomes'[p], TRUE, RecoverThreshold)
      BY <1>3 DEF SetBreaker, BreakerTyped
    <3> QED BY <1>2, <2>2, <3>1 DEF Agrees, Down
  <2> QED BY <2>1, <2>2
<1> QED BY <1>4, <1>5, Agreement DEF OutcomesAgree, Agrees

\* A failure keeps the breaker typed and in agreement.
LEMMA FailureKeeps ==
  ASSUME BreakerTyped, OutcomesAgree, NEW p \in Providers, Failure(p)
  PROVE  BreakerTyped' /\ OutcomesAgree'
<1> USE ThresholdsAssumption
<1>1. AppendOutcome(p, FALSE) BY DEF Failure
<1>2. /\ outcomes' \in [Providers -> Seq(BOOLEAN)]
      /\ \A q \in Providers : Len(outcomes[q]') <= WindowSize
      /\ Trailing(outcomes'[p], FALSE, 1)
      /\ \A q \in Providers \ {p} : outcomes'[q] = outcomes[q]
  BY <1>1, Recorded
<1>3. \/ SetBreaker(p, "unavailable", TRUE)
      \/ /\ ~Trailing(outcomes'[p], FALSE, FailThreshold)
         /\ SetBreaker(p, "degraded", waiting[p])
  BY DEF Failure
<1>4. BreakerTyped'
  <2>1. status' \in [Providers -> Statuses] /\ waiting' \in [Providers -> BOOLEAN]
    BY <1>3 DEF SetBreaker, BreakerTyped, Statuses
  <2> QED BY <1>2, <2>1 DEF BreakerTyped
<1>5. ASSUME NEW q \in Providers PROVE Agrees(status'[q], outcomes'[q])
  <2>1. CASE q # p
    <3>1. status'[q] = status[q] BY <1>3, <2>1 DEF SetBreaker, BreakerTyped
    <3>2. outcomes'[q] = outcomes[q] BY <1>2, <2>1
    <3> QED BY <3>1, <3>2, Agreement
  <2>2. CASE q = p
    <3>1. \/ status'[p] = "unavailable"
          \/ status'[p] = "degraded" /\ ~Trailing(outcomes'[p], FALSE, FailThreshold)
      BY <1>3 DEF SetBreaker, BreakerTyped
    <3>2. outcomes'[p] \in Seq(BOOLEAN) BY <1>2
    <3>3. ~Trailing(outcomes'[p], ~FALSE, RecoverThreshold)
      BY <1>2, <3>2, LastBreaksRun
    <3> QED BY <1>2, <2>2, <3>1, <3>3 DEF Agrees, Down
  <2> QED BY <2>1, <2>2
<1> QED BY <1>4, <1>5, Agreement DEF OutcomesAgree, Agrees
-----------------------------------------------------------------------------
(* Calls: the providers they are at. *)

CallsTyped ==
  /\ at \in [Calls -> {"routing", "probing", "passed"}]
  /\ todo \in [Calls -> SUBSET Providers]
  /\ seen \in [Calls -> [Providers -> Statuses \cup {NotSeen}]]
  /\ shown \in [Calls -> SUBSET Providers]

\* A call that has passed or probes is at a provider.
InTurn == \A c \in Calls : at[c] \in {"probing", "passed"} => todo[c] # {}

\* The provider that is checked is one that has not been.
LEMMA CheckedInTodo ==
  ASSUME CallsTyped, NEW c \in Calls, todo[c] # {}
  PROVE  Checked(c) \in todo[c] /\ Checked(c) \in Providers
<1>1. \A p \in todo[c] : ById[p] \in Nat BY RanksAssumption DEF CallsTyped
<1>2. \E p \in todo[c] : \A q \in todo[c] : ById[p] <= ById[q] BY <1>1, LeastRank
<1> QED BY <1>2 DEF Checked, CallsTyped

\* The target of a request is one that Route listed and that has not failed.
LEMMA TargetInTargets ==
  ASSUME CallsTyped, NEW c \in Calls, Targets(c) # {}
  PROVE  Target(c) \in Targets(c) /\ Target(c) \in Providers
<1> DEFINE health == [p \in Targets(c) |-> HealthRank[seen[c][p]]]
<1>1. \A p \in Targets(c) : health[p] \in Nat
  <2> SUFFICES ASSUME NEW p \in Targets(c) PROVE HealthRank[seen[c][p]] \in Nat
    OBVIOUS
  <2>1. seen[c][p] \in Statuses BY DEF Targets, CallsTyped
  <2> QED BY <2>1 DEF HealthRank, Statuses
<1>2. PICK p0 \in Targets(c) : \A q \in Targets(c) : health[p0] <= health[q]
  <2> HIDE DEF health
  <2> QED BY <1>1, LeastRank
<1> DEFINE S == {p \in Targets(c) : health[p] = health[p0]}
<1>3. \A p \in S : ByPolicy[p] \in Nat BY RanksAssumption DEF Targets
<1>4. PICK p1 \in S : \A q \in S : ByPolicy[p1] <= ByPolicy[q]
  <2>1. S # {} OBVIOUS
  <2> HIDE DEF S
  <2> QED BY <1>3, <2>1, LeastRank
<1>5. ASSUME NEW q \in Targets(c) PROVE Before(c, p1, q)
  <2>1. health[p1] = health[p0] /\ health[p0] <= health[q] BY <1>2, <1>4
  <2>2. health[p1] < health[q] \/ (health[p1] = health[q] /\ q \in S)
    BY <1>1, <2>1
  <2>3. health[p1] = HealthRank[seen[c][p1]] /\ health[q] = HealthRank[seen[c][q]]
    BY <1>4
  <2> HIDE DEF health, S
  <2> QED BY <1>4, <2>2, <2>3 DEF Before
<1>6. p1 \in Targets(c) BY <1>4
<1> QED BY <1>5, <1>6 DEF Target, Targets

\* Return and Skip leave calls typed.
LEMMA ReturnTyped ==
  ASSUME CallsTyped, NEW c \in Calls, Return(c)
  PROVE  /\ CallsTyped'
         /\ InTurn => InTurn'
BY DEF CallsTyped, Return, Goto, InTurn, Statuses, NotSeen

LEMMA SkipTyped ==
  ASSUME CallsTyped, InTurn, NEW c \in Calls, Skip(c), shown' = shown
  PROVE  CallsTyped' /\ InTurn'
BY DEF CallsTyped, Skip, Goto, InTurn

WorldTyped == /\ probeInFlight \in [Providers -> BOOLEAN]
              /\ checker \in BOOLEAN
              /\ settled \in Providers \cup {None}

LEMMA TypeParts == TypeOK <=> BreakerTyped /\ CallsTyped /\ WorldTyped
BY DEF TypeOK, BreakerTyped, CallsTyped, WorldTyped

\* What the first part of a step's proof needs.
Sound == BreakerTyped /\ CallsTyped /\ WorldTyped /\ InTurn /\ OutcomesAgree

LEMMA BreakerSame ==
  ASSUME BreakerTyped, OutcomesAgree, UNCHANGED <<status, outcomes, waiting>>
  PROVE  BreakerTyped' /\ OutcomesAgree'
<1>1. BreakerTyped' BY DEF BreakerTyped
<1> QED BY <1>1 DEF OutcomesAgree, Trailing

LEMMA InitSound == Init => Sound
<1> SUFFICES ASSUME Init PROVE Sound OBVIOUS
<1> USE ThresholdsAssumption
<1>1. BreakerTyped
  <2>1. \A p \in Providers : Len(outcomes[p]) <= WindowSize BY DEF Init
  <2> QED BY <2>1 DEF Init, BreakerTyped, Statuses
<1>2. CallsTyped BY DEF Init, CallsTyped, NotSeen
<1>3. WorldTyped BY CheckerAssumption DEF Init, WorldTyped
<1>4. InTurn BY DEF Init, InTurn
<1>5. OutcomesAgree BY DEF Init, OutcomesAgree, Down
<1> QED BY <1>1, <1>2, <1>3, <1>4, <1>5 DEF Sound

LEMMA NextSound == Sound /\ [Next]_vars => Sound'
<1> SUFFICES ASSUME Sound, [Next]_vars PROVE Sound' OBVIOUS
<1> USE DEF Sound
<1>0. CASE UNCHANGED vars
  <2>1. UNCHANGED <<status, outcomes, waiting>> BY <1>0 DEF vars
  <2>2. CallsTyped' /\ WorldTyped' /\ InTurn'
    BY <1>0 DEF vars, CallsTyped, WorldTyped, InTurn
  <2> QED BY <2>1, <2>2, BreakerSame
<1>1. ASSUME NEW c \in Calls, CheckPasses(c) PROVE Sound'
  <2>1. UNCHANGED <<status, outcomes, waiting>> BY <1>1 DEF CheckPasses, breaker
  <2>2. CallsTyped' /\ WorldTyped' /\ InTurn'
    BY <1>1 DEF CheckPasses, Checking, Goto, breaker, world, CallsTyped, WorldTyped, InTurn
  <2> QED BY <2>1, <2>2, BreakerSame
<1>2. ASSUME NEW c \in Calls, CheckRefuses(c) PROVE Sound'
  <2>1. UNCHANGED <<status, outcomes, waiting>> BY <1>2 DEF CheckRefuses, breaker
  <2>2. CallsTyped' /\ InTurn' BY <1>2, SkipTyped DEF CheckRefuses
  <2>3. WorldTyped' BY <1>2 DEF CheckRefuses, breaker, world, WorldTyped
  <2> QED BY <2>1, <2>2, <2>3, BreakerSame
<1>3. ASSUME NEW c \in Calls, CheckProbes(c) PROVE Sound'
  <2> DEFINE p == Checked(c)
  <2>1. p \in Providers BY <1>3, CheckedInTodo DEF CheckProbes, Checking
  <2>2. /\ status[p] \in Down
        /\ status' = [status EXCEPT ![p] = "half_open"]
        /\ UNCHANGED <<outcomes, waiting, checker, settled, shown>>
    BY <1>3 DEF CheckProbes, Down, world
  <2>3. BreakerTyped' BY <2>1, <2>2 DEF BreakerTyped, Statuses
  <2>4. OutcomesAgree'
    <3>1. ASSUME NEW q \in Providers PROVE Agrees(status'[q], outcomes'[q])
      <4>1. \/ status'[q] = status[q]
            \/ status[q] \in Down /\ status'[q] = "half_open"
        BY <2>1, <2>2 DEF BreakerTyped
      <4>2. Agrees(status[q], outcomes[q]) BY Agreement
      <4> QED BY <2>2, <4>1, <4>2 DEF Agrees, Down
    <3> QED BY <3>1 DEF OutcomesAgree, Agrees
  <2>5. CASE /\ probeInFlight' = [probeInFlight EXCEPT ![p] = TRUE]
             /\ Goto(c, "probing") /\ UNCHANGED <<todo, seen>>
    <3>1. CallsTyped' /\ InTurn'
      BY <1>3, <2>2, <2>5 DEF CheckProbes, Checking, Goto, CallsTyped, InTurn
    <3>2. WorldTyped' BY <2>2, <2>5 DEF WorldTyped
    <3> QED BY <2>3, <2>4, <3>1, <3>2
  <2>6. CASE Skip(c) /\ UNCHANGED probeInFlight
    <3>1. CallsTyped' /\ InTurn' BY <2>2, <2>6, SkipTyped
    <3>2. WorldTyped' BY <2>2, <2>6 DEF WorldTyped
    <3> QED BY <2>3, <2>4, <3>1, <3>2
  <2> QED BY <1>3, <2>5, <2>6 DEF CheckProbes
<1>4. ASSUME NEW c \in Calls, NoProbe(c) PROVE Sound'
  <2>1. UNCHANGED <<status, outcomes, waiting>> BY <1>4 DEF NoProbe
  <2>2. CallsTyped' /\ InTurn'
    BY <1>4 DEF NoProbe, Goto, CallsTyped, InTurn
  <2>3. WorldTyped' BY <1>4 DEF NoProbe, AbandonProbe, ClearProbe, world, WorldTyped
  <2> QED BY <2>1, <2>2, <2>3, BreakerSame
<1>5. ASSUME NEW c \in Calls, ProbeSucceeds(c) PROVE Sound'
  <2>1. Checked(c) \in Providers BY <1>5, CheckedInTodo DEF ProbeSucceeds, InTurn
  <2>2. BreakerTyped' /\ OutcomesAgree'
    BY <1>5, <2>1, SuccessKeeps DEF ProbeSucceeds
  <2>3. CallsTyped' /\ InTurn'
    BY <1>5 DEF ProbeSucceeds, Goto, CallsTyped, InTurn
  <2>4. WorldTyped' BY <1>5 DEF ProbeSucceeds, ClearProbe, world, WorldTyped
  <2> QED BY <2>2, <2>3, <2>4
<1>6. ASSUME NEW c \in Calls, ProbeFails(c) PROVE Sound'
  <2>1. Checked(c) \in Providers BY <1>6, CheckedInTodo DEF ProbeFails, InTurn
  <2>2. BreakerTyped' /\ OutcomesAgree'
    BY <1>6, <2>1, FailureKeeps DEF ProbeFails
  <2>3. CallsTyped' /\ InTurn' BY <1>6, SkipTyped DEF ProbeFails
  <2>4. WorldTyped' BY <1>6 DEF ProbeFails, ClearProbe, world, WorldTyped
  <2> QED BY <2>2, <2>3, <2>4
<1>7. ASSUME NEW c \in Calls, ProbeRejected(c) PROVE Sound'
  <2>1. UNCHANGED <<status, outcomes, waiting>> BY <1>7 DEF ProbeRejected
  <2>2. CallsTyped' /\ InTurn' BY <1>7, SkipTyped DEF ProbeRejected
  <2>3. WorldTyped' BY <1>7 DEF ProbeRejected, ClearProbe, world, WorldTyped
  <2> QED BY <2>1, <2>2, <2>3, BreakerSame
<1>8. ASSUME NEW c \in Calls, ProbeCancelled(c) PROVE Sound'
  <2>1. UNCHANGED <<status, outcomes, waiting>> BY <1>8 DEF ProbeCancelled
  <2>2. CallsTyped' /\ InTurn' BY <1>8, ReturnTyped DEF ProbeCancelled
  <2>3. WorldTyped'
    BY <1>8 DEF ProbeCancelled, AbandonProbe, ClearProbe, world, WorldTyped
  <2> QED BY <2>1, <2>2, <2>3, BreakerSame
<1>9. ASSUME NEW c \in Calls, ReadStatus(c) PROVE Sound'
  <2>1. UNCHANGED <<status, outcomes, waiting>> BY <1>9 DEF ReadStatus, breaker
  <2>2. CallsTyped' /\ InTurn'
    BY <1>9 DEF ReadStatus, Goto, CallsTyped, InTurn, BreakerTyped
  <2>3. WorldTyped' BY <1>9 DEF ReadStatus, breaker, world, WorldTyped
  <2> QED BY <2>1, <2>2, <2>3, BreakerSame
<1>10. ASSUME NEW c \in Calls, NoCandidates(c) \/ GiveUp(c) PROVE Sound'
  <2>1. Return(c) /\ UNCHANGED <<breaker, world>> BY <1>10 DEF NoCandidates, GiveUp, world
  <2>2. UNCHANGED <<status, outcomes, waiting>> BY <2>1 DEF breaker
  <2>3. CallsTyped' /\ InTurn' BY <2>1, ReturnTyped
  <2>4. WorldTyped' BY <2>1 DEF breaker, world, WorldTyped
  <2> QED BY <2>2, <2>3, <2>4, BreakerSame
<1>11. ASSUME NEW c \in Calls, Delta(c) PROVE Sound'
  <2>1. UNCHANGED <<status, outcomes, waiting>> BY <1>11 DEF Delta, breaker
  <2>2. Target(c) \in Providers BY <1>11, TargetInTargets DEF Delta, Requesting
  <2>3. CallsTyped' /\ InTurn' BY <1>11, <2>2 DEF Delta, CallsTyped, InTurn
  <2>4. WorldTyped' BY <1>11 DEF Delta, breaker, world, WorldTyped
  <2> QED BY <2>1, <2>3, <2>4, BreakerSame
<1>12. ASSUME NEW c \in Calls, RequestSucceeds(c) PROVE Sound'
  <2>1. Target(c) \in Providers
    BY <1>12, TargetInTargets DEF RequestSucceeds, Requesting
  <2>2. BreakerTyped' /\ OutcomesAgree'
    BY <1>12, <2>1, SuccessKeeps DEF RequestSucceeds
  <2>3. CallsTyped' /\ InTurn' BY <1>12, ReturnTyped DEF RequestSucceeds
  <2>4. WorldTyped' BY <1>12 DEF RequestSucceeds, world, WorldTyped
  <2> QED BY <2>2, <2>3, <2>4
<1>13. ASSUME NEW c \in Calls, RequestFails(c) PROVE Sound'
  <2>1. Target(c) \in Providers
    BY <1>13, TargetInTargets DEF RequestFails, Requesting
  <2>2. BreakerTyped' /\ OutcomesAgree'
    BY <1>13, <2>1, FailureKeeps DEF RequestFails
  <2>3. CallsTyped' /\ InTurn'
    <3>1. CASE /\ seen' = [seen EXCEPT ![c][Target(c)] = NotSeen]
               /\ UNCHANGED <<at, todo, shown>>
      BY <3>1 DEF CallsTyped, InTurn
    <3>2. CASE Return(c) BY <3>2, ReturnTyped
    <3> QED BY <1>13, <3>1, <3>2 DEF RequestFails
  <2>4. WorldTyped' BY <1>13 DEF RequestFails, world, WorldTyped
  <2> QED BY <2>2, <2>3, <2>4
<1>14. ASSUME NEW p \in Providers, ProbeDue(p) PROVE Sound'
  <2>1. UNCHANGED <<status, outcomes, probeInFlight, world, call>>
        /\ waiting' = [waiting EXCEPT ![p] = FALSE]
    BY <1>14 DEF ProbeDue, world
  <2>2. BreakerTyped' BY <2>1 DEF BreakerTyped
  <2>3. OutcomesAgree' BY <2>1 DEF OutcomesAgree, Trailing
  <2>4. CallsTyped' /\ WorldTyped' /\ InTurn'
    BY <2>1 DEF call, world, CallsTyped, WorldTyped, InTurn
  <2> QED BY <2>2, <2>3, <2>4
<1>15. ASSUME NEW p \in Providers, Settle(p) PROVE Sound'
  <2>1. UNCHANGED <<status, outcomes, waiting>> BY <1>15 DEF Settle, breaker
  <2>2. CallsTyped' /\ WorldTyped' /\ InTurn'
    BY <1>15 DEF Settle, breaker, call, CallsTyped, WorldTyped, InTurn
  <2> QED BY <2>1, <2>2, BreakerSame
<1> QED BY <1>0, <1>1, <1>2, <1>3, <1>4, <1>5, <1>6, <1>7, <1>8, <1>9, <1>10,
           <1>11, <1>12, <1>13, <1>14, <1>15 DEF Next, Progress

LEMMA AlwaysSound == Spec => []Sound
BY InitSound, NextSound, PTL DEF Spec

\* The variables keep their types, no window outgrows its size, and the status of
\* every provider agrees with its outcomes, whatever thresholds and window are
\* configured and however many calls report.
THEOREM StatusAgrees == Spec => []StatusTellsOutcomes
<1>1. Sound => StatusTellsOutcomes BY TypeParts DEF Sound, StatusTellsOutcomes
<1> QED BY <1>1, AlwaysSound, PTL

-----------------------------------------------------------------------------
(* One probe at a time. *)

\* A call that does not move stays at its provider.
LEMMA SameCall ==
  ASSUME NEW c \in Calls, at'[c] = at[c], todo'[c] = todo[c]
  PROVE  \A p : Probes(c, p)' <=> Probes(c, p)
<1>1. Checked(c)' = Checked(c) BY DEF Checked
<1> QED BY <1>1 DEF Probes

Others(c) == \A d \in Calls \ {c} : at'[d] = at[d] /\ todo'[d] = todo[d]

\* A step of a call that neither begins nor ends a probe.
LEMMA NoProbeStep ==
  ASSUME OneProbe, NEW c \in Calls, Others(c), UNCHANGED probeInFlight,
         at[c] # "probing", at'[c] # "probing"
  PROVE  OneProbe'
<1>1. \A d \in Calls, p \in Providers : Probes(d, p)' <=> Probes(d, p)
  <2> SUFFICES ASSUME NEW d \in Calls, NEW p \in Providers
               PROVE  Probes(d, p)' <=> Probes(d, p)
    OBVIOUS
  <2>1. CASE d = c BY <2>1 DEF Probes
  <2>2. CASE d # c BY <2>2, SameCall DEF Others
  <2> QED BY <2>1, <2>2
<1> QED BY <1>1 DEF OneProbe

\* A step that ends the probe of a call.
LEMMA ProbeEnds ==
  ASSUME OneProbe, WorldTyped, CallsTyped, InTurn, NEW c \in Calls, Others(c),
         ClearProbe(c), at[c] = "probing", at'[c] # "probing"
  PROVE  OneProbe'
<1> DEFINE r == Checked(c)
<1>1. r \in Providers /\ Probes(c, r)
  BY CheckedInTodo DEF InTurn, Probes
<1>2. probeInFlight' = [probeInFlight EXCEPT ![r] = FALSE] BY DEF ClearProbe
<1>3. \A d \in Calls \ {c}, p \in Providers : Probes(d, p)' <=> Probes(d, p)
  BY SameCall DEF Others
<1>4. \A p \in Providers : ~Probes(c, p)' BY DEF Probes
<1>5. \A d \in Calls : Probes(d, r) => d = c BY <1>1 DEF OneProbe
<1>6. \A p \in Providers : p # r => ~Probes(c, p) BY DEF Probes
<1>7. ASSUME NEW p \in Providers
      PROVE  IF probeInFlight'[p]
             THEN \E d \in Calls : Probes(d, p)'
                                   /\ \A e \in Calls : Probes(e, p)' => e = d
             ELSE \A d \in Calls : ~Probes(d, p)'
  <2>1. CASE p = r
    <3>1. ~probeInFlight'[p] BY <1>1, <1>2, <2>1 DEF WorldTyped
    <3>2. \A d \in Calls : ~Probes(d, p)' BY <1>3, <1>4, <1>5, <2>1
    <3> QED BY <3>1, <3>2
  <2>2. CASE p # r
    <3>1. probeInFlight'[p] = probeInFlight[p] BY <1>2, <2>2 DEF WorldTyped
    <3>2. \A d \in Calls : Probes(d, p)' <=> Probes(d, p) BY <1>3, <1>4, <1>6, <2>2
    <3> QED BY <3>1, <3>2 DEF OneProbe
  <2> QED BY <2>1, <2>2
<1> QED BY <1>7 DEF OneProbe

\* A step that begins the probe of a call.
LEMMA ProbeBegins ==
  ASSUME OneProbe, WorldTyped, CallsTyped, NEW c \in Calls, Others(c),
         todo[c] # {}, todo'[c] = todo[c], ~probeInFlight[Checked(c)],
         probeInFlight' = [probeInFlight EXCEPT ![Checked(c)] = TRUE],
         at[c] # "probing", at'[c] = "probing"
  PROVE  OneProbe'
<1> DEFINE r == Checked(c)
<1>1. r \in Providers BY CheckedInTodo
<1>2. Checked(c)' = Checked(c) BY DEF Checked
<1>3. \A p : Probes(c, p)' <=> p = r BY <1>2 DEF Probes
<1>4. \A d \in Calls \ {c}, p \in Providers : Probes(d, p)' <=> Probes(d, p)
  BY SameCall DEF Others
<1>5. \A p \in Providers : ~Probes(c, p) BY DEF Probes
<1>6. ASSUME NEW p \in Providers
      PROVE  IF probeInFlight'[p]
             THEN \E d \in Calls : Probes(d, p)'
                                   /\ \A e \in Calls : Probes(e, p)' => e = d
             ELSE \A d \in Calls : ~Probes(d, p)'
  <2>1. CASE p = r
    <3>1. probeInFlight'[p] BY <1>1, <2>1 DEF WorldTyped
    <3>2. \A d \in Calls : ~Probes(d, p) BY <1>1, <2>1 DEF OneProbe
    <3>3. \A e \in Calls : Probes(e, p)' <=> e = c BY <1>3, <1>4, <2>1, <3>2
    <3> QED BY <3>1, <3>3
  <2>2. CASE p # r
    <3>1. probeInFlight'[p] = probeInFlight[p] BY <2>2 DEF WorldTyped
    <3>2. \A d \in Calls : Probes(d, p)' <=> Probes(d, p) BY <1>3, <1>4, <1>5, <2>2
    <3> QED BY <3>1, <3>2 DEF OneProbe
  <2> QED BY <2>1, <2>2
<1> QED BY <1>6 DEF OneProbe

\* Where each step leaves the calls.
LEMMA Routes ==
  ASSUME CallsTyped, NEW c \in Calls, Return(c) \/ Skip(c)
  PROVE  Others(c) /\ at'[c] = "routing"
BY DEF CallsTyped, Return, Skip, Goto, Others

LEMMA NextOneProbe == Sound /\ OneProbe /\ [Next]_vars => OneProbe'
<1> SUFFICES ASSUME Sound, OneProbe, [Next]_vars PROVE OneProbe' OBVIOUS
<1> USE DEF Sound
<1>0. ASSUME UNCHANGED <<probeInFlight, at, todo>> PROVE OneProbe'
  <2>1. \A d \in Calls, p \in Providers : Probes(d, p)' <=> Probes(d, p)
    BY <1>0, SameCall
  <2> QED BY <1>0, <2>1 DEF OneProbe
<1>1. ASSUME NEW c \in Calls, CheckPasses(c) PROVE OneProbe'
  <2>1. Others(c) /\ at[c] = "routing" /\ at'[c] = "passed"
    BY <1>1 DEF CheckPasses, Checking, Goto, Others, CallsTyped
  <2>2. UNCHANGED probeInFlight BY <1>1 DEF CheckPasses, breaker
  <2> QED BY <2>1, <2>2, NoProbeStep
<1>2. ASSUME NEW c \in Calls, CheckRefuses(c) PROVE OneProbe'
  <2>1. at[c] = "routing" /\ UNCHANGED probeInFlight
    BY <1>2 DEF CheckRefuses, Checking, breaker
  <2>2. Others(c) /\ at'[c] = "routing" BY <1>2, Routes DEF CheckRefuses
  <2> QED BY <2>1, <2>2, NoProbeStep
<1>3. ASSUME NEW c \in Calls, CheckProbes(c) PROVE OneProbe'
  <2>1. at[c] = "routing" /\ todo[c] # {} BY <1>3 DEF CheckProbes, Checking
  <2>2. CASE /\ ~probeInFlight[Checked(c)]
             /\ probeInFlight' = [probeInFlight EXCEPT ![Checked(c)] = TRUE]
             /\ Goto(c, "probing") /\ UNCHANGED <<todo, seen>>
    <3>1. Others(c) /\ todo'[c] = todo[c] /\ at'[c] = "probing"
      BY <2>2 DEF Goto, Others, CallsTyped
    <3> QED BY <2>1, <2>2, <3>1, ProbeBegins
  <2>3. CASE Skip(c) /\ UNCHANGED probeInFlight
    <3>1. Others(c) /\ at'[c] = "routing" BY <2>3, Routes
    <3> QED BY <2>1, <2>3, <3>1, NoProbeStep
  <2> QED BY <1>3, <2>2, <2>3 DEF CheckProbes
<1>4. ASSUME NEW c \in Calls, NoProbe(c) \/ ProbeSucceeds(c) PROVE OneProbe'
  <2>1. Others(c) /\ at[c] = "probing" /\ at'[c] = "passed"
    BY <1>4 DEF NoProbe, ProbeSucceeds, Goto, Others, CallsTyped
  <2>2. ClearProbe(c) BY <1>4 DEF NoProbe, ProbeSucceeds, AbandonProbe
  <2> QED BY <2>1, <2>2, ProbeEnds
<1>5. ASSUME NEW c \in Calls, ProbeFails(c) \/ ProbeRejected(c) \/ ProbeCancelled(c)
      PROVE  OneProbe'
  <2>1. at[c] = "probing" /\ ClearProbe(c)
    BY <1>5 DEF ProbeFails, ProbeRejected, ProbeCancelled, AbandonProbe
  <2>2. Others(c) /\ at'[c] = "routing"
    BY <1>5, Routes DEF ProbeFails, ProbeRejected, ProbeCancelled
  <2> QED BY <2>1, <2>2, ProbeEnds
<1>6. ASSUME NEW c \in Calls, ReadStatus(c) PROVE OneProbe'
  <2>1. Others(c) /\ at[c] = "passed" /\ at'[c] = "routing"
    BY <1>6 DEF ReadStatus, Goto, Others, CallsTyped
  <2>2. UNCHANGED probeInFlight BY <1>6 DEF ReadStatus, breaker
  <2> QED BY <2>1, <2>2, NoProbeStep
<1>7. ASSUME NEW c \in Calls, NoCandidates(c) \/ GiveUp(c) \/ RequestSucceeds(c)
      PROVE  OneProbe'
  <2>1. at[c] = "routing" /\ UNCHANGED probeInFlight
    BY <1>7 DEF NoCandidates, GiveUp, RequestSucceeds, Requesting, Routed, breaker
  <2>2. Others(c) /\ at'[c] = "routing"
    BY <1>7, Routes DEF NoCandidates, GiveUp, RequestSucceeds
  <2> QED BY <2>1, <2>2, NoProbeStep
<1>8. ASSUME NEW c \in Calls, Delta(c) PROVE OneProbe'
  BY <1>0, <1>8 DEF Delta, breaker
<1>9. ASSUME NEW c \in Calls, RequestFails(c) PROVE OneProbe'
  <2>1. CASE UNCHANGED <<at, todo, shown>> BY <1>0, <1>9, <2>1 DEF RequestFails
  <2>2. CASE Return(c)
    <3>1. at[c] = "routing" /\ UNCHANGED probeInFlight
      BY <1>9 DEF RequestFails, Requesting, Routed
    <3>2. Others(c) /\ at'[c] = "routing" BY <2>2, Routes
    <3> QED BY <3>1, <3>2, NoProbeStep
  <2> QED BY <1>9, <2>1, <2>2 DEF RequestFails
<1>10. ASSUME NEW p \in Providers, ProbeDue(p) \/ Settle(p) PROVE OneProbe'
  BY <1>0, <1>10 DEF ProbeDue, Settle, breaker, call
<1>11. CASE UNCHANGED vars BY <1>0, <1>11 DEF vars
<1> QED BY <1>1, <1>2, <1>3, <1>4, <1>5, <1>6, <1>7, <1>8, <1>9, <1>10, <1>11
        DEF Next, Progress

\* However many calls find a provider half-open, one of them probes it, and the
\* flag that keeps the others out comes down with that probe, whatever its end.
THEOREM ProbesAlone == Spec => []OneProbe
<1>1. Init => OneProbe BY DEF Init, OneProbe, Probes
<1> QED BY <1>1, AlwaysSound, NextOneProbe, PTL DEF Spec

-----------------------------------------------------------------------------
(* The output of a call comes from one provider. *)

\* What has been shown comes from the present target, and before there is one
\* nothing has been shown.
ShownBy(c) == IF Requesting(c) THEN shown[c] \subseteq {Target(c)} ELSE shown[c] = {}

ShownByTarget == \A c \in Calls : ShownBy(c)

\* A call that does not move keeps its target.
LEMMA SameTarget ==
  ASSUME NEW c \in Calls, ShownBy(c), at'[c] = at[c], todo'[c] = todo[c],
         seen'[c] = seen[c], shown'[c] = shown[c]
  PROVE  ShownBy(c)'
<1>1. Targets(c)' = Targets(c) BY DEF Targets
<1>2. \A p, q : Before(c, p, q)' <=> Before(c, p, q) BY DEF Before
<1>3. Target(c)' = Target(c) BY <1>1, <1>2 DEF Target
<1>4. Requesting(c)' <=> Requesting(c) BY <1>1 DEF Requesting, Routed
<1> QED BY <1>3, <1>4 DEF ShownBy

\* A step of a call after which it has shown nothing.
LEMMA ShowsNothing ==
  ASSUME ShownByTarget, NEW c \in Calls, shown'[c] = {},
         \A d \in Calls \ {c} : /\ at'[d] = at[d] /\ todo'[d] = todo[d]
                                /\ seen'[d] = seen[d] /\ shown'[d] = shown[d]
  PROVE  ShownByTarget'
<1>1. ASSUME NEW d \in Calls PROVE ShownBy(d)'
  <2>1. CASE d = c BY <2>1 DEF ShownBy
  <2>2. CASE d # c BY <2>2, SameTarget DEF ShownByTarget
  <2> QED BY <2>1, <2>2
<1> QED BY <1>1 DEF ShownByTarget

LEMMA NextShown == Sound /\ ShownByTarget /\ [Next]_vars => ShownByTarget'
<1> SUFFICES ASSUME Sound, ShownByTarget, [Next]_vars PROVE ShownByTarget' OBVIOUS
<1> USE DEF Sound
<1>0. ASSUME UNCHANGED <<at, todo, seen, shown>> PROVE ShownByTarget'
  BY <1>0, SameTarget DEF ShownByTarget
<1>1. ASSUME NEW c \in Calls, Return(c) PROVE ShownByTarget'
  BY <1>1, ShowsNothing DEF Return, Goto, CallsTyped
<1>2. ASSUME NEW c \in Calls, UNCHANGED shown, ~Requesting(c),
             \A d \in Calls \ {c} : /\ at'[d] = at[d] /\ todo'[d] = todo[d]
                                    /\ seen'[d] = seen[d]
      PROVE  ShownByTarget'
  <2>1. shown'[c] = {} BY <1>2 DEF ShownByTarget, ShownBy
  <2> QED BY <1>2, <2>1, ShowsNothing
<1>3. ASSUME NEW c \in Calls, Skip(c), UNCHANGED shown, ~Requesting(c)
      PROVE  ShownByTarget'
  BY <1>2, <1>3 DEF Skip, Goto, CallsTyped
<1>4. ASSUME NEW c \in Calls, CheckPasses(c) \/ NoProbe(c) \/ ProbeSucceeds(c)
      PROVE  ShownByTarget'
  <2>1. ~Requesting(c) /\ UNCHANGED <<todo, seen, shown>>
    BY <1>4 DEF CheckPasses, NoProbe, ProbeSucceeds, Checking, Requesting, Routed
  <2>2. \A d \in Calls \ {c} : at'[d] = at[d]
    BY <1>4 DEF CheckPasses, NoProbe, ProbeSucceeds, Goto, CallsTyped
  <2> QED BY <1>2, <2>1, <2>2
<1>5. ASSUME NEW c \in Calls, CheckRefuses(c) \/ ProbeFails(c) \/ ProbeRejected(c)
      PROVE  ShownByTarget'
  <2>1. Skip(c) /\ ~Requesting(c) /\ UNCHANGED shown
    BY <1>5 DEF CheckRefuses, ProbeFails, ProbeRejected, Checking, Requesting, Routed
  <2> QED BY <1>3, <2>1
<1>6. ASSUME NEW c \in Calls, CheckProbes(c) PROVE ShownByTarget'
  <2>1. ~Requesting(c) /\ UNCHANGED shown
    BY <1>6 DEF CheckProbes, Checking, Requesting, Routed
  <2>2. CASE Goto(c, "probing") /\ UNCHANGED <<todo, seen>>
    BY <1>2, <2>1, <2>2 DEF Goto, CallsTyped
  <2>3. CASE Skip(c) BY <1>3, <2>1, <2>3
  <2> QED BY <1>6, <2>2, <2>3 DEF CheckProbes
<1>7. ASSUME NEW c \in Calls, ReadStatus(c) PROVE ShownByTarget'
  <2>1. ~Requesting(c) /\ UNCHANGED shown
    BY <1>7 DEF ReadStatus, Requesting, Routed
  <2>2. \A d \in Calls \ {c} : /\ at'[d] = at[d] /\ todo'[d] = todo[d]
                               /\ seen'[d] = seen[d]
    BY <1>7 DEF ReadStatus, Goto, CallsTyped
  <2> QED BY <1>2, <2>1, <2>2
<1>8. ASSUME NEW c \in Calls, Delta(c) PROVE ShownByTarget'
  <2>1. /\ Requesting(c) /\ shown' = [shown EXCEPT ![c] = @ \cup {Target(c)}]
        /\ UNCHANGED <<at, todo, seen>>
    BY <1>8 DEF Delta
  <2>2. ASSUME NEW d \in Calls \ {c} PROVE ShownBy(d)'
    <3>1. shown'[d] = shown[d] BY <2>1 DEF CallsTyped
    <3> QED BY <2>1, <3>1, SameTarget DEF ShownByTarget
  <2>3. ShownBy(c)'
    <3>1. Targets(c)' = Targets(c) BY <2>1 DEF Targets
    <3>2. \A p, q : Before(c, p, q)' <=> Before(c, p, q) BY <2>1 DEF Before
    <3>3. Target(c)' = Target(c) BY <3>1, <3>2 DEF Target
    <3>4. Requesting(c)' BY <2>1, <3>1 DEF Requesting, Routed
    <3>5. shown'[c] = shown[c] \cup {Target(c)} BY <2>1 DEF CallsTyped
    <3>6. shown[c] \subseteq {Target(c)} BY <2>1 DEF ShownByTarget, ShownBy
    <3> QED BY <3>3, <3>4, <3>5, <3>6 DEF ShownBy
  <2> QED BY <2>2, <2>3 DEF ShownByTarget
<1>9. ASSUME NEW c \in Calls, RequestFails(c) PROVE ShownByTarget'
  <2>1. CASE /\ MayFallBack(c) /\ seen' = [seen EXCEPT ![c][Target(c)] = NotSeen]
             /\ UNCHANGED <<at, todo, shown>>
    <3>1. shown'[c] = {} BY <2>1 DEF MayFallBack
    <3>2. \A d \in Calls \ {c} : seen'[d] = seen[d] BY <2>1 DEF CallsTyped
    <3> QED BY <2>1, <3>1, <3>2, ShowsNothing
  <2>2. CASE Return(c) BY <1>1, <2>2
  <2> QED BY <1>9, <2>1, <2>2 DEF RequestFails
<1>10. ASSUME NEW c \in Calls,
              ProbeCancelled(c) \/ NoCandidates(c) \/ RequestSucceeds(c) \/ GiveUp(c)
       PROVE  ShownByTarget'
  BY <1>1, <1>10 DEF ProbeCancelled, NoCandidates, RequestSucceeds, GiveUp
<1>11. ASSUME NEW p \in Providers, ProbeDue(p) \/ Settle(p) PROVE ShownByTarget'
  BY <1>0, <1>11 DEF ProbeDue, Settle, call
<1>12. CASE UNCHANGED vars BY <1>0, <1>12 DEF vars
<1> QED BY <1>4, <1>5, <1>6, <1>7, <1>8, <1>9, <1>10, <1>11, <1>12
        DEF Next, Progress

\* A caller never sees pieces of two providers' answers in one, whatever fails
\* and in whatever order.
THEOREM OutputOfOne == Spec => []NoMixedOutput
<1>1. Init => ShownByTarget
  BY DEF Init, ShownByTarget, ShownBy, Requesting, Targets, NotSeen
<1>2. ShownByTarget => NoMixedOutput BY DEF ShownByTarget, ShownBy, NoMixedOutput
<1> QED BY <1>1, <1>2, AlwaysSound, NextShown, PTL DEF Spec
=============================================================================
