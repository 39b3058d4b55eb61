--------------------------- MODULE ProviderHealth ---------------------------
(***************************************************************************)
(* The circuit breaker of each model provider (internal/provider/health.go)*)
(* and the calls that go through it: the router asks Check and Status of   *)
(* each provider (router.go), and RoutedClient.execute (compat.go) tries   *)
(* those that are left, best first, and records what came of it.           *)
(*                                                                         *)
(* Calls run concurrently.  The checker's mutex is held within Check,      *)
(* Status, RecordSuccess, RecordFailure and completeProbe, not between     *)
(* them, nor while a probe or a request is under way.                      *)
(***************************************************************************)
EXTENDS Integers, Sequences, FiniteSets

CONSTANTS
  Providers,         \* the providers that offer the requested model
  Calls,             \* the callers of RoutedClient, one call at a time each
  FailThreshold, RecoverThreshold, WindowSize,  \* HealthConfig
  HasChecker,        \* whether NewHealthChecker may get a probe: \subseteq BOOLEAN
  AllowFallback,     \* the policy of RoutedClient
  ById, ByPolicy,    \* ranks: registry.List's order, and sortRouteCandidates'
  None               \* no provider

ASSUME ThresholdsAssumption ==
  /\ FailThreshold \in Nat \ {0} /\ RecoverThreshold \in Nat \ {0}
  /\ WindowSize \in Nat \ {0}   \* normalizeHealthConfig
ASSUME CheckerAssumption == HasChecker \subseteq BOOLEAN
ASSUME ProvidersAssumption == None \notin Providers
ASSUME RanksAssumption == /\ ById \in [Providers -> Nat]
                          /\ ByPolicy \in [Providers -> Nat]

Statuses == {"healthy", "degraded", "half_open", "unavailable"}
Down     == {"half_open", "unavailable"}
NotSeen  == "not seen"

VARIABLES
  status, outcomes,  \* healthState, TRUE for a success
  probeInFlight,     \* healthState
  waiting,           \* whether nextProbeAt lies ahead
  checker,           \* whether there is a probe; production has none
  settled,           \* environment: the provider that alone is up from now on,
                     \* while no call is interrupted, or None
  at,                \* where each call is
  todo,              \* filterHealthyCandidates: providers not yet checked
  seen,              \* the status each target left was listed with, or NotSeen
  shown              \* providers whose deltas the call has passed to onDelta

breaker == <<status, outcomes, probeInFlight, waiting>>
world   == <<checker, settled>>
call    == <<at, todo, seen, shown>>
vars    == <<status, outcomes, probeInFlight, waiting, checker, settled,
             at, todo, seen, shown>>

Init == /\ status = [p \in Providers |-> "healthy"]
        /\ outcomes = [p \in Providers |-> <<>>]
        /\ probeInFlight = [p \in Providers |-> FALSE]
        /\ waiting = [p \in Providers |-> FALSE]
        /\ checker \in HasChecker
        /\ settled = None
        /\ at = [c \in Calls |-> "routing"]
        /\ todo = [c \in Calls |-> Providers]
        /\ seen = [c \in Calls |-> [p \in Providers |-> NotSeen]]
        /\ shown = [c \in Calls |-> {}]

Goto(c, where) == at' = [at EXCEPT ![c] = where]

\* The call returns, and the caller is about to make another.
Return(c) == /\ Goto(c, "routing")
             /\ todo' = [todo EXCEPT ![c] = Providers]
             /\ seen' = [seen EXCEPT ![c] = [p \in Providers |-> NotSeen]]
             /\ shown' = [shown EXCEPT ![c] = {}]

-----------------------------------------------------------------------------
(* The breaker. *)

\* The last n outcomes exist and are all b: trailingFailures >= n for FALSE,
\* trailingSuccesses >= n for TRUE.
Trailing(s, b, n) == n <= Len(s) /\ \A i \in (Len(s) - n + 1)..Len(s) : s[i] = b

\* appendOutcome
Windowed(s, b) == IF Len(s) < WindowSize THEN Append(s, b)
                  ELSE Append(SubSeq(s, Len(s) - WindowSize + 2, Len(s)), b)

AppendOutcome(p, b) == outcomes' = [outcomes EXCEPT ![p] = Windowed(@, b)]

SetBreaker(p, s, w) == /\ status' = [status EXCEPT ![p] = s]
                       /\ waiting' = [waiting EXCEPT ![p] = w]

\* Mutant: the outcome in hand is appended after the successes are counted.
MutantClosesLate(p) ==
  /\ AppendOutcome(p, TRUE)
  /\ IF status[p] \in Down /\ ~Trailing(outcomes[p], TRUE, RecoverThreshold)
     THEN UNCHANGED <<status, waiting>>
     ELSE SetBreaker(p, "healthy", FALSE)

\* RecordSuccess, and completeProbe without an error.  Outside Down the last
\* outcome is now a success, so there are no trailing failures.
Success(p) ==
  /\ AppendOutcome(p, TRUE)
  /\ IF status[p] \in Down
     THEN IF Trailing(outcomes'[p], TRUE, RecoverThreshold)
          THEN SetBreaker(p, "healthy", FALSE)
          ELSE UNCHANGED <<status, waiting>>
     ELSE SetBreaker(p, "healthy", waiting[p])

\* RecordFailure, and completeProbe with an error that counts.
Failure(p) ==
  /\ AppendOutcome(p, FALSE)
  /\ IF status[p] \in Down \/ Trailing(outcomes'[p], FALSE, FailThreshold)
     THEN SetBreaker(p, "unavailable", TRUE)
     ELSE SetBreaker(p, "degraded", waiting[p])

\* RecoverProbeSec have passed.
ProbeDue(p) ==
  /\ waiting[p]
  /\ waiting' = [waiting EXCEPT ![p] = FALSE]
  /\ UNCHANGED <<status, outcomes, probeInFlight, world, call>>

\* The environment: requests and probes succeed or fail, the latter when they
\* time out, too; once a provider p is settled, p's succeed and the others' fail.
Answers(p) == settled \in {None, p}
Fails(p)   == settled # p

Settle(p) ==
  /\ settled = None
  /\ settled' = p
  /\ UNCHANGED <<breaker, checker, call>>

-----------------------------------------------------------------------------
(* Route: filterHealthyCandidates checks every provider. *)

Checking(c) == at[c] = "routing" /\ todo[c] # {}
Checked(c)  == CHOOSE p \in todo[c] : \A q \in todo[c] : ById[p] <= ById[q]

\* The provider is not a candidate.
Skip(c) == /\ Goto(c, "routing")
           /\ todo' = [todo EXCEPT ![c] = @ \ {Checked(c)}]
           /\ UNCHANGED seen

\* Check when the provider is not down
CheckPasses(c) ==
  /\ Checking(c) /\ status[Checked(c)] \notin Down
  /\ Goto(c, "passed")
  /\ UNCHANGED <<breaker, world, todo, seen, shown>>

\* Check before nextProbeAt
CheckRefuses(c) ==
  /\ Checking(c)
  /\ status[Checked(c)] = "unavailable" /\ waiting[Checked(c)]
  /\ Skip(c)
  /\ UNCHANGED <<breaker, world, shown>>

\* Check of a provider that is half-open, or unavailable and due: one probe at
\* a time.
CheckProbes(c) ==
  LET p == Checked(c) IN
  /\ Checking(c)
  /\ \/ status[p] = "half_open"
     \/ status[p] = "unavailable" /\ ~waiting[p]
  /\ status' = [status EXCEPT ![p] = "half_open"]
  /\ \/ /\ ~probeInFlight[p]
        /\ probeInFlight' = [probeInFlight EXCEPT ![p] = TRUE]
        /\ Goto(c, "probing")
        /\ UNCHANGED <<todo, seen>>
     \/ /\ probeInFlight[p]
        /\ Skip(c)
        /\ UNCHANGED probeInFlight
  /\ UNCHANGED <<outcomes, waiting, world, shown>>

ClearProbe(c) == probeInFlight' = [probeInFlight EXCEPT ![Checked(c)] = FALSE]

\* Mutant: a probe that has no result stays in flight.
MutantKeepProbe(c) == UNCHANGED probeInFlight

\* completeProbeNoResult, and completeProbe of a cancelled probe
AbandonProbe(c) == ClearProbe(c)

\* completeProbeNoResult: there is no probe to run, and the check passes.
NoProbe(c) ==
  /\ at[c] = "probing" /\ ~checker
  /\ AbandonProbe(c)
  /\ Goto(c, "passed")
  /\ UNCHANGED <<status, outcomes, waiting, world, todo, seen, shown>>

\* completeProbe, without an error
ProbeSucceeds(c) ==
  /\ at[c] = "probing" /\ checker /\ Answers(Checked(c))
  /\ ClearProbe(c)
  /\ Success(Checked(c))
  /\ Goto(c, "passed")
  /\ UNCHANGED <<world, todo, seen, shown>>

\* completeProbe, with an error
ProbeFails(c) ==
  /\ at[c] = "probing" /\ checker /\ Fails(Checked(c))
  /\ ClearProbe(c)
  /\ Failure(Checked(c))
  /\ Skip(c)
  /\ UNCHANGED <<world, shown>>

\* completeProbe, with an error that countsTowardAvailability leaves out
ProbeRejected(c) ==
  /\ at[c] = "probing" /\ checker /\ settled = None
  /\ ClearProbe(c)
  /\ Skip(c)
  /\ UNCHANGED <<status, outcomes, waiting, world, shown>>

\* completeProbe with context.Canceled; Route returns the error.
ProbeCancelled(c) ==
  /\ at[c] = "probing" /\ checker /\ settled = None
  /\ AbandonProbe(c)
  /\ Return(c)
  /\ UNCHANGED <<status, outcomes, waiting, world>>

\* The provider's Status is read after Check has released the mutex.
ReadStatus(c) ==
  LET p == Checked(c) IN
  /\ at[c] = "passed"
  /\ Goto(c, "routing")
  /\ todo' = [todo EXCEPT ![c] = @ \ {p}]
  /\ seen' = IF status[p] = "unavailable" THEN seen
             ELSE [seen EXCEPT ![c][p] = status[p]]
  /\ UNCHANGED <<breaker, world, shown>>

\* routeHealthRank
HealthRank == [healthy |-> 1, degraded |-> 2, half_open |-> 3, unavailable |-> 4]

\* sortRouteCandidates
Before(c, p, q) ==
  LET ofp == HealthRank[seen[c][p]]
      ofq == HealthRank[seen[c][q]]
  IN  ofp < ofq \/ (ofp = ofq /\ ByPolicy[p] <= ByPolicy[q])

\* Route's primary target and fall-backs, without those that have failed since.
Targets(c) == {p \in Providers : seen[c][p] # NotSeen}
Routed(c)  == at[c] = "routing" /\ todo[c] = {}

\* unavailableRouteError
NoCandidates(c) ==
  /\ Routed(c) /\ Targets(c) = {}
  /\ Return(c)
  /\ UNCHANGED <<breaker, world>>

-----------------------------------------------------------------------------
(* execute: the loop over the targets. *)

Requesting(c) == Routed(c) /\ Targets(c) # {}
Target(c)     == CHOOSE p \in Targets(c) : \A q \in Targets(c) : Before(c, p, q)

\* The target streams part of its answer, which is passed on.
Delta(c) ==
  /\ Requesting(c)
  /\ Answers(Target(c))
  /\ shown' = [shown EXCEPT ![c] = @ \cup {Target(c)}]
  /\ UNCHANGED <<breaker, world, at, todo, seen>>

RequestSucceeds(c) ==
  /\ Requesting(c) /\ Answers(Target(c))
  /\ Success(Target(c))
  /\ Return(c)
  /\ UNCHANGED <<probeInFlight, world>>

\* Mutant: a call falls back although part of an answer has been shown.
MutantAlwaysFallBack(c) == AllowFallback /\ Targets(c) # {Target(c)}

\* hasStreamedDelta
MayFallBack(c) == AllowFallback /\ shown[c] = {} /\ Targets(c) # {Target(c)}

\* An error that is retryable, which are those that count.
RequestFails(c) ==
  /\ Requesting(c) /\ Fails(Target(c))
  /\ Failure(Target(c))
  /\ \/ /\ MayFallBack(c)
        /\ seen' = [seen EXCEPT ![c][Target(c)] = NotSeen]
        /\ UNCHANGED <<at, todo, shown>>
     \/ ~MayFallBack(c) /\ Return(c)
  /\ UNCHANGED <<probeInFlight, world>>

\* The caller's context ends, or the target returns an error that does not
\* count and is not retried.  A Tick of the ExternalHealthTicker is a call that
\* gives up before its first request.
GiveUp(c) ==
  /\ at[c] = "routing" /\ settled = None
  /\ Return(c)
  /\ UNCHANGED <<breaker, world>>

-----------------------------------------------------------------------------
Progress(c) ==
  \/ CheckPasses(c) \/ CheckRefuses(c) \/ CheckProbes(c)
  \/ NoProbe(c) \/ ProbeSucceeds(c) \/ ProbeFails(c)
  \/ ReadStatus(c) \/ NoCandidates(c)
  \/ Delta(c) \/ RequestSucceeds(c) \/ RequestFails(c)

Next == \/ \E c \in Calls : Progress(c) \/ ProbeRejected(c) \/ ProbeCancelled(c) \/ GiveUp(c)
        \/ \E p \in Providers : ProbeDue(p) \/ Settle(p)

\* Callers keep calling, and requests and probes end; time passes.
Fairness == /\ \A c \in Calls : WF_vars(Progress(c))
            /\ \A p \in Providers : WF_vars(ProbeDue(p))

Spec == Init /\ [][Next]_vars /\ Fairness

-----------------------------------------------------------------------------
TypeOK ==
  /\ status \in [Providers -> Statuses]
  /\ outcomes \in [Providers -> Seq(BOOLEAN)]
  /\ \A p \in Providers : Len(outcomes[p]) <= WindowSize
  /\ probeInFlight \in [Providers -> BOOLEAN]
  /\ waiting \in [Providers -> BOOLEAN]
  /\ checker \in BOOLEAN
  /\ settled \in Providers \cup {None}
  /\ at \in [Calls -> {"routing", "probing", "passed"}]
  /\ todo \in [Calls -> SUBSET Providers]
  /\ seen \in [Calls -> [Providers -> Statuses \cup {NotSeen}]]
  /\ shown \in [Calls -> SUBSET Providers]

OutcomesAgree ==
  \A p \in Providers :
    /\ status[p] = "healthy" => outcomes[p] = <<>> \/ Trailing(outcomes[p], TRUE, 1)
    /\ status[p] = "degraded" => /\ Trailing(outcomes[p], FALSE, 1)
                                 /\ ~Trailing(outcomes[p], FALSE, FailThreshold)
    /\ status[p] \in Down => ~Trailing(outcomes[p], TRUE, RecoverThreshold)

\* In whatever order concurrent calls record what came of them, and however
\* late, the status agrees with the outcomes in the window: a provider in use
\* has not failed FailThreshold times running, a healthy one has succeeded last,
\* and one that is cut off has not succeeded RecoverThreshold times running; and
\* the variables have their types.  (RecordSuccess, RecordFailure, completeProbe.)
StatusTellsOutcomes == TypeOK /\ OutcomesAgree

Probes(c, p) == at[c] = "probing" /\ Checked(c) = p

\* The probe flag of a provider is up exactly while one call is probing it, so
\* there is never a second probe, and a cancelled one does not bar the provider
\* for ever.  (Check, completeProbe.)
OneProbe ==
  \A p \in Providers :
    IF probeInFlight[p]
    THEN \E c \in Calls : Probes(c, p) /\ \A d \in Calls : Probes(d, p) => d = c
    ELSE \A c \in Calls : ~Probes(c, p)

\* What a call shows its caller comes from one provider: the text of two
\* answers is never run together by a fall-back.  (execute's hasStreamedDelta.)
NoMixedOutput == \A c \in Calls : \A p, q \in shown[c] : p = q

\* Once one provider answers and the others do not, and no call is interrupted
\* nor any answer broken off, that provider becomes healthy and stays so,
\* whatever the breakers had made of the past.  (Check's half-open state and the
\* router's fall-back.)
Recovers ==
  \A p \in Providers : <>(settled = p) => <>[](status[p] = "healthy")
=============================================================================
