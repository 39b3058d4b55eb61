----------------------------- MODULE AgentTurns -----------------------------
(***************************************************************************)
(* The run loop of the agent for one session (internal/agent,              *)
(* internal/context/compaction.go): a prompt of the user starts a run, a   *)
(* run takes steps, and in a step the conversation is sent to the model.   *)
(* The model answers, or asks for tools: their calls are executed in       *)
(* groups, those of a group at the same time, and the results go back in   *)
(* the next step.  A conversation that has grown too long is compacted:    *)
(* all but its end gives way to a summary.                                 *)
(*                                                                         *)
(* A message is of the user, a note that a background agent has finished   *)
(* (never saved), a text of the model, a request of the model for tool     *)
(* calls, the result of one call, or a summary.  Prompts and requests for  *)
(* calls are numbered; the ids of the calls, which providers make unique,  *)
(* are the number of the request and the place in it.                      *)
(*                                                                         *)
(* Saving is one step here: SessionStore is about what it does to files.   *)
(* Which of its answers the model gives, when it is overloaded, when a     *)
(* conversation is too long and which call comes back first is left open.  *)
(***************************************************************************)
EXTENDS Integers, Sequences, SequencesExt, FiniteSetsExt

CONSTANTS
  Tools,            \* names of tools
  Parallelizable,   \* toolsParallelizable
  Requests,         \* the sequences of tools the model may ask for
  MaxParallel,      \* maxParallelToolCalls
  MaxIterations,    \* steps of a run
  MaxReactive,      \* contextBudgetMaxReactiveRetry
  MaxRateLimit,     \* maxRateLimitRetry
  Threshold,        \* DefaultRepeatedToolSequenceThreshold
  NoProgressLimit,  \* defaultNoProgressTurnLimit
  MaxPrompts,       \* bound: prompts
  MaxNotes,         \* bound: notes
  MaxFaults         \* bound: crashes, saves that fail, tools that break

ASSUME ToolsAssumption == /\ Parallelizable \subseteq Tools
                          /\ Requests \subseteq Seq(Tools) \ {<<>>}
                          /\ MaxParallel \in Nat \ {0}
ASSUME LimitsAssumption == {MaxIterations, MaxReactive, MaxRateLimit, Threshold,
                            NoProgressLimit, MaxNotes} \subseteq Nat

VARIABLES
  timeline,     \* the messages of the session in memory
  disk,         \* and those last saved
  pending,      \* notes that have not been drained
  at,           \* where the run is
  mentions,     \* does its prompt mention an agent?
  index,        \* PersistedUserMessageIndex, counted from 1
  request,      \* the conversation sent to the model
  step, reactive, rateLimited,   \* counters of runPromptTurns and its callees
  lastCalls, repeats,            \* ToolSequenceTracker
  noProgress, controlNote,       \* adaptiveTurnState
  calls,        \* the tools of the request being worked off
  from,         \* the first call of the group being executed
  running,      \* the calls of the group that have not come back
  done,         \* the calls of the request that have
  broken,       \* has a call of the group come back without a result?
  prompts, turns, notes, faults, \* how many there have been
  cut           \* the requests whose calls were cut short

session == <<timeline, disk>>
loop    == <<step, reactive, rateLimited, lastCalls, repeats, noProgress, controlNote>>
batch   == <<calls, from, running, done, broken>>
prompt  == <<mentions, index, prompts>>
vars    == <<session, pending, at, request, loop, batch, prompt, turns, notes, faults, cut>>

Msg(kind, of)     == [kind |-> kind, of |-> of, tools |-> <<>>, call |-> 0]
CallsMsg(n, ts)   == [kind |-> "calls", of |-> n, tools |-> ts, call |-> 0]
ResultMsg(n, c)   == [kind |-> "result", of |-> n, tools |-> <<>>, call |-> c]

Init == /\ timeline = <<>> /\ disk = <<>>
        /\ pending = 0
        /\ at = "idle"
        /\ mentions = FALSE /\ index = 0 /\ request = <<>>
        /\ step = 0 /\ reactive = 0 /\ rateLimited = 0
        /\ lastCalls = <<>> /\ repeats = 0
        /\ noProgress = 0 /\ controlNote = FALSE
        /\ calls = <<>> /\ from = 1 /\ running = {} /\ done = {} /\ broken = FALSE
        /\ prompts = 0 /\ turns = 0 /\ notes = 0 /\ faults = 0
        /\ cut = {}

-----------------------------------------------------------------------------
(* Compaction. *)

\* The calls of a message and their results, by place.
PairWindows(ms) ==
  {w \in (DOMAIN ms) \X (DOMAIN ms) :
     /\ w[1] < w[2]
     /\ ms[w[1]].kind = "calls" /\ ms[w[2]].kind = "result"
     /\ ms[w[1]].of = ms[w[2]].of}

\* moveBoundaryPastPairWindows: the first place from b on that no pair spans.
PastWindows(b, windows, max) ==
  Min({c \in b..max : \A w \in windows : ~(w[1] < c /\ c <= w[2])})

\* Where what is kept begins: at the last pair, if one is to be kept.
Boundary(ms, keepPair) ==
  LET windows == PairWindows(ms)
      last == CHOOSE w \in windows : \A v \in windows : v[2] <= w[2]
  IN IF keepPair /\ windows # {} THEN PastWindows(last[1], windows, Len(ms) + 1) ELSE Len(ms) + 1

\* isHumanUserMessage: a note is a message of the user with text, too.
LatestHuman(ms) == Max({0} \cup {i \in DOMAIN ms : ms[i].kind \in {"user", "note"}})

\* splitPairAwareHistory: that message and what is behind the boundary.
Preserved(ms, keepPair) ==
  LET b == Boundary(ms, keepPair)
      human == LatestHuman(ms)
  IN (IF human \in 1..(b - 1) THEN <<ms[human]>> ELSE <<>>) \o SubSeq(ms, b, Len(ms))

\* ValidateToolPairInvariant
PairsComplete(ms) ==
  /\ \A j \in DOMAIN ms : ms[j].kind = "result" =>
       \E i \in 1..(j-1) : ms[i].kind = "calls" /\ ms[i].of = ms[j].of
  /\ \A i \in DOMAIN ms : ms[i].kind = "calls" =>
       \A c \in DOMAIN ms[i].tools :
         \E j \in (i+1)..Len(ms) : ms[j].kind = "result" /\ ms[j].of = ms[i].of /\ ms[j].call = c

\* What is kept, if that is less than there was and breaks no pair.
Kept(ms, keepPair) ==
  {kept \in {Preserved(ms, keepPair)} : Len(kept) < Len(ms) /\ PairsComplete(kept)}

\* BuildPairAwareCompactedMessages: what ms is compacted to when the model gives a
\* summary, with the last pair if it can be kept.
Compactions(ms) ==
  {<<Msg("summary", 0)>> \o kept :
     kept \in IF Len(ms) < 2 THEN {} ELSE IF Kept(ms, TRUE) # {} THEN Kept(ms, TRUE) ELSE Kept(ms, FALSE)}

-----------------------------------------------------------------------------
(* Steps that several operations take. *)

\* The k-th number of a set, from below.
Nth(cs, k) == CHOOSE c \in cs : Cardinality({d \in cs : d <= c}) = k

\* filterEphemeralMessages: the messages at the places that are saved, in order;
\* mostly these are all.
Saved(ms) == {i \in DOMAIN ms : ms[i].kind # "note"}

Durable(ms) ==
  LET saved == Saved(ms)
  IN IF saved = DOMAIN ms THEN ms ELSE [k \in 1..Cardinality(saved) |-> ms[Nth(saved, k)]]

\* Store.Save of a session with messages ms, also those in memory: what is left
\* out on disk is left out there, too.
Save(ms, ok) == /\ ok \/ faults < MaxFaults
                /\ faults' = faults + (IF ok THEN 0 ELSE 1)
                /\ timeline' = Durable(ms)
                /\ disk' = IF ok THEN Durable(ms) ELSE disk

\* runPromptTurns returns, and its variables are gone.
EndRun == /\ at' = "idle" /\ request' = <<>>
          /\ mentions' = FALSE /\ index' = 0
          /\ step' = 0 /\ reactive' = 0 /\ rateLimited' = 0
          /\ lastCalls' = <<>> /\ repeats' = 0
          /\ noProgress' = 0 /\ controlNote' = FALSE
          /\ calls' = <<>> /\ from' = 1 /\ running' = {} /\ done' = {} /\ broken' = FALSE

\* The run ends with a message of its own: finishWithSummary, or the answer.
Finish(ms) == \E ok \in BOOLEAN : Save(Append(ms, Msg("text", 0)), ok)

\* The conversation that goes to the model: the prompt as it was sent, with what
\* was added for an agent it mentions, takes the place it was saved at.
Conversation(ms) == IF mentions /\ index \in DOMAIN ms
                    THEN [ms EXCEPT ![index] = Msg("mention", prompts)] ELSE ms

Asked(ms) == Conversation(ms) \o (IF controlNote THEN <<Msg("control", 0)>> ELSE <<>>)

-----------------------------------------------------------------------------
(* Prompts, and the start of a step. *)

\* beginRunSession, and the rest of prepareRunPrompt, which may fail after it.
Prompt(mention) ==
  /\ at = "idle" /\ prompts < MaxPrompts
  /\ prompts' = prompts + 1
  /\ \E ok, begins \in BOOLEAN :
       /\ Save(Append(timeline, Msg("user", prompts + 1)), ok)
       /\ begins => ok
       /\ at' = IF begins THEN "step" ELSE "idle"
       /\ mentions' = (begins /\ mention)
       /\ index' = IF begins THEN Len(timeline) + 1 ELSE 0
  /\ UNCHANGED <<pending, request, loop, batch, turns, notes, cut>>

\* drainSubAgentNotifications
Drained == timeline \o [i \in 1..pending |-> Msg("note", 0)]

Asks(ms) == /\ at' = "asking"
            /\ request' = Asked(ms)
            /\ controlNote' = FALSE /\ reactive' = 0 /\ rateLimited' = 0
            /\ UNCHANGED <<step, lastCalls, repeats, noProgress, batch, prompt>>

\* messagesForStep and consumePendingControlNote
Ask ==
  /\ at = "step" /\ step < MaxIterations
  /\ pending' = 0 /\ timeline' = Drained
  /\ Asks(Drained)
  /\ UNCHANGED <<disk, turns, notes, faults, cut>>

\* In the first step a conversation near its budget is compacted.
AskCompacted ==
  /\ at = "step" /\ step = 0 /\ step < MaxIterations
  /\ pending' = 0
  /\ \E new \in Compactions(Drained), ok \in BOOLEAN :
       /\ Save(new, ok)
       /\ IF ok THEN Asks(Durable(new)) ELSE EndRun /\ UNCHANGED prompts
  /\ UNCHANGED <<turns, notes, cut>>

\* The prompt alone is too long, there is no summary, or a message is not valid.
AskFails ==
  /\ at = "step" /\ step < MaxIterations
  /\ pending' = 0 /\ timeline' = Drained
  /\ EndRun
  /\ UNCHANGED <<disk, prompts, turns, notes, faults, cut>>

\* The steps are used up: the session is compacted, if there is a summary, and
\* saved; a save that fails does not matter here ...
CompactLast ==
  /\ at = "step" /\ step = MaxIterations
  /\ \E new \in Compactions(timeline), ok \in BOOLEAN : Save(new, ok)
  /\ at' = "closing"
  /\ UNCHANGED <<pending, request, loop, batch, prompt, turns, notes, cut>>

\* ... and the run ends with a text that says what it did.
OutOfSteps ==
  /\ at = "closing" \/ (at = "step" /\ step = MaxIterations)
  /\ Finish(timeline)
  /\ EndRun
  /\ UNCHANGED <<pending, prompts, turns, notes, cut>>

-----------------------------------------------------------------------------
(* What the model answers: processTurnWithReactiveCompaction, processTurn. *)

Overloaded ==
  /\ at = "asking" /\ rateLimited < MaxRateLimit
  /\ rateLimited' = rateLimited + 1
  /\ UNCHANGED <<session, pending, at, request, step, reactive, lastCalls, repeats, noProgress,
                 controlNote, batch, prompt, turns, notes, faults, cut>>

\* Mutant: a compaction gives back all the attempts.
MutantAgain(n) == 0

\* compactionAttempt after one more
Attempts(n) == n + 1

TooLong ==
  /\ at = "asking" /\ reactive < MaxReactive
  /\ \E new \in Compactions(timeline), ok \in BOOLEAN :
       /\ Save(new, ok)
       /\ IF ok THEN /\ request' = Conversation(Durable(new))
                     /\ reactive' = Attempts(reactive) /\ rateLimited' = 0
                     /\ UNCHANGED <<at, step, lastCalls, repeats, noProgress, controlNote, batch, prompt>>
                ELSE EndRun /\ UNCHANGED prompts
  /\ UNCHANGED <<pending, turns, notes, cut>>

\* Any other error, one too many of these, or a compaction that fails.
AskingFails ==
  /\ at = "asking"
  /\ EndRun
  /\ UNCHANGED <<session, pending, prompts, turns, notes, faults, cut>>

Answers ==
  /\ at = "asking"
  /\ Finish(timeline)
  /\ EndRun
  /\ UNCHANGED <<pending, prompts, turns, notes, cut>>

\* exceededSemanticRepairLimit, exceededNoProgressLimit: both count the same.
GivesUp(n) == n > MaxReactive + 1 \/ n >= NoProgressLimit

\* An answer that calls no tool although it should: the next step says so, until
\* there have been too many.
Idles ==
  /\ at = "asking"
  /\ IF GivesUp(noProgress + 1)
     THEN Finish(timeline) /\ EndRun /\ UNCHANGED prompts
     ELSE /\ noProgress' = noProgress + 1 /\ controlNote' = TRUE
          /\ step' = step + 1
          /\ at' = "step" /\ request' = <<>>
          /\ UNCHANGED <<session, faults, reactive, rateLimited, lastCalls, repeats, batch, prompt>>
  /\ UNCHANGED <<pending, turns, notes, cut>>

\* Mutant: the group goes on behind a call that has to be alone.
MutantOpenGroup(ts, f) == {c \in f..Len(ts) : c < f + MaxParallel}

\* partitionForParallelExecution: the group of calls that begins with f.
GroupFrom(ts, f) ==
  IF ts[f] \notin Parallelizable THEN {f}
  ELSE {c \in f..Len(ts) : c < f + MaxParallel /\ \A d \in f..c : ts[d] \in Parallelizable}

Repeated(ts, sameArguments) == IF sameArguments /\ ts = lastCalls THEN repeats + 1 ELSE 1

\* The request is saved before its calls are executed.
CallTools(ts, sameArguments) ==
  /\ at = "asking" /\ Repeated(ts, sameArguments) < Threshold
  /\ turns' = turns + 1
  /\ \E ok \in BOOLEAN :
       /\ Save(Append(timeline, CallsMsg(turns + 1, ts)), ok)
       /\ IF ok
          THEN /\ at' = "tools" /\ request' = <<>>
               /\ calls' = ts /\ from' = 1 /\ running' = GroupFrom(ts, 1) /\ done' = {}
               /\ lastCalls' = ts /\ repeats' = Repeated(ts, sameArguments)
               /\ noProgress' = 0 /\ controlNote' = FALSE
               /\ UNCHANGED <<step, reactive, rateLimited, broken, prompt, cut>>
          ELSE EndRun /\ cut' = cut \cup {turns + 1} /\ UNCHANGED prompts
  /\ UNCHANGED <<pending, notes>>

\* The same calls again and again.
Loops(ts) ==
  /\ at = "asking" /\ Repeated(ts, TRUE) >= Threshold
  /\ Finish(timeline)
  /\ EndRun
  /\ UNCHANGED <<pending, prompts, turns, notes, cut>>

-----------------------------------------------------------------------------
(* The calls of a request: executeToolCallsParallel, and the loop over the *)
(* groups.                                                                 *)

Group == GroupFrom(calls, from)

\* executeToolCall comes back with a result, be it that the tool failed or was
\* denied ...
Returns(c) ==
  /\ at = "tools" /\ c \in running
  /\ running' = running \ {c}
  /\ done' = done \cup {c}
  /\ UNCHANGED <<session, pending, at, request, loop, calls, from, broken, prompt, turns, notes, faults, cut>>

\* ... or without one: an error that ends the run, when the group is over.
Breaks(c) ==
  /\ at = "tools" /\ c \in running
  /\ faults < MaxFaults /\ faults' = faults + 1
  /\ running' = running \ {c}
  /\ broken' = TRUE
  /\ UNCHANGED <<session, pending, at, request, loop, calls, from, done, prompt, turns, notes, cut>>

\* Mutant: the results that have come back are appended, last call first.
MutantResults(n, cs) == [k \in 1..Cardinality(cs) |-> ResultMsg(n, Nth(cs, Cardinality(cs) + 1 - k))]

\* The results of calls cs, in the order of the calls.
Results(n, cs) == [k \in 1..Cardinality(cs) |-> ResultMsg(n, Nth(cs, k))]

WithResults == timeline \o Results(turns, Group \cap done)

NextGroup ==
  LET f == from + Cardinality(Group)
  IN /\ at = "tools" /\ running = {} /\ ~broken /\ f <= Len(calls)
     /\ timeline' = WithResults
     /\ from' = f /\ running' = GroupFrom(calls, f)
     /\ UNCHANGED <<disk, pending, at, request, loop, calls, done, broken, prompt, turns, notes, faults, cut>>

\* All results are there, and are saved.
TurnEnds ==
  /\ at = "tools" /\ running = {} /\ ~broken /\ from + Cardinality(Group) > Len(calls)
  /\ \E ok \in BOOLEAN :
       /\ Save(WithResults, ok)
       /\ IF ok
          THEN /\ at' = "step" /\ step' = step + 1
               /\ calls' = <<>> /\ from' = 1 /\ done' = {}
               /\ UNCHANGED <<request, reactive, rateLimited, lastCalls, repeats, noProgress,
                              controlNote, running, broken, prompt, cut>>
          ELSE EndRun /\ cut' = cut \cup {turns} /\ UNCHANGED prompts
  /\ UNCHANGED <<pending, turns, notes>>

\* A call of the group broke: the results of the others stay, in memory.
GroupFails ==
  /\ at = "tools" /\ running = {} /\ broken
  /\ timeline' = WithResults
  /\ EndRun
  /\ cut' = cut \cup {turns}
  /\ UNCHANGED <<disk, pending, prompts, turns, notes, faults>>

-----------------------------------------------------------------------------
(* The environment. *)

\* NotifyCompletion, for this session; DrainPending drops the others.
Notify ==
  /\ notes < MaxNotes
  /\ notes' = notes + 1 /\ pending' = pending + 1
  /\ UNCHANGED <<session, at, request, loop, batch, prompt, turns, faults, cut>>

\* CompactSession, by command: everything gives way to the summary.
Compact ==
  /\ at = "idle" /\ Len(timeline) >= 2
  /\ \E ok \in BOOLEAN : Save(<<Msg("summary", 0)>>, ok)
  /\ UNCHANGED <<pending, at, request, loop, batch, prompt, turns, notes, cut>>

\* The user switches the mode, also in the middle of a run: the session, which
\* is the one the run works on, is saved as it is.
ToggleMode ==
  /\ \E ok \in BOOLEAN : Save(timeline, ok)
  /\ UNCHANGED <<pending, at, request, loop, batch, prompt, turns, notes, cut>>

\* The process dies, and the session is loaded again: notes are for the session
\* that was in memory.
Crash ==
  /\ faults < MaxFaults /\ faults' = faults + 1
  /\ timeline' = disk /\ pending' = 0
  /\ EndRun
  /\ cut' = IF at = "tools" THEN cut \cup {turns} ELSE cut
  /\ UNCHANGED <<disk, prompts, turns, notes>>

RunStep ==
  \/ Ask \/ AskCompacted \/ AskFails \/ OutOfSteps \/ CompactLast
  \/ Overloaded \/ TooLong \/ AskingFails \/ Answers \/ Idles
  \/ \E ts \in Requests : (\E same \in BOOLEAN : CallTools(ts, same)) \/ Loops(ts)
  \/ \E c \in running : Returns(c) \/ Breaks(c)
  \/ NextGroup \/ TurnEnds \/ GroupFails

Next == RunStep \/ (\E mention \in BOOLEAN : Prompt(mention)) \/ Notify
        \/ Compact \/ ToggleMode \/ Crash

SafeSpec == Init /\ [][Next]_vars

\* The model answers, tools come back, and the run goes on.
Spec == SafeSpec /\ WF_vars(RunStep)

-----------------------------------------------------------------------------
(* Properties. *)

Messages == {"user", "note", "text", "calls", "result", "summary", "mention", "control"}

\* Every variable has its type.
TypeOK ==
  /\ \A ms \in {timeline, disk, request} : \A i \in DOMAIN ms : ms[i].kind \in Messages
  /\ at \in {"idle", "step", "asking", "tools", "closing"}
  /\ pending \in 0..MaxNotes /\ step \in 0..MaxIterations
  /\ reactive \in 0..MaxReactive /\ rateLimited \in 0..MaxRateLimit
  /\ noProgress \in 0..NoProgressLimit /\ repeats \in 0..Threshold
  /\ calls \in Requests \cup {<<>>} /\ running \cup done \subseteq DOMAIN calls
  /\ cut \subseteq 1..turns

Answered(ms, i, c) == i + c \in DOMAIN ms /\ ms[i + c] = ResultMsg(ms[i].of, c)

\* The results in ms stand behind the request they belong to, with nothing but
\* earlier results of it between, and one that was not cut short has them all.
ResultsFollowCalls(ms, open) ==
  /\ \A j \in DOMAIN ms : ms[j].kind = "result" =>
       \E i \in 1..(j-1) :
         /\ ms[i].kind = "calls" /\ ms[i].of = ms[j].of /\ ms[j].call \in DOMAIN ms[i].tools
         /\ \A k \in (i+1)..(j-1) : /\ ms[k].kind = "result" /\ ms[k].of = ms[j].of
                                    /\ ms[k].call < ms[j].call
  /\ \A i \in DOMAIN ms : ms[i].kind = "calls" /\ ms[i].of \notin open =>
       \A c \in DOMAIN ms[i].tools : Answered(ms, i, c)

Current == IF at = "tools" THEN {turns} ELSE {}

\* With the types: in memory, on disk and in what the model is sent, unless the
\* prompt mentions an agent, calls and results are complete and in order, but for
\* requests that were cut short and the one being worked off; and what the model
\* is sent was saved before, but for notes.
ConversationSound ==
  /\ TypeOK
  /\ ResultsFollowCalls(timeline, cut \cup Current)
  /\ ResultsFollowCalls(disk, cut \cup Current)
  /\ ~mentions => ResultsFollowCalls(request, cut)
  /\ at = "asking" => disk = Durable(timeline)

\* A call that must not run beside others starts when all calls before it have
\* come back, and none behind it starts before it has; and no more than
\* MaxParallel run at a time.
SideEffectsAlone ==
  /\ Cardinality(running) <= MaxParallel
  /\ \A c \in running : calls[c] \notin Parallelizable => running = {c} /\ done = 1..(c - 1)
  /\ \A c \in running \cup done : \A d \in 1..(c - 1) : calls[d] \notin Parallelizable => d \in done

\* Every run ends.
RunEnds == at # "idle" ~> at = "idle"
=============================================================================
