\* Two concurrent callers and two providers that fail and come back, with and
\* without a probe.
SPECIFICATION Spec
CONSTANTS
  p1 = p1
  p2 = p2
  None = None
  Providers = {p1, p2}
  Calls = {c1, c2}
  FailThreshold = 2
  RecoverThreshold = 2
  WindowSize = 2
  HasChecker = {TRUE, FALSE}
  AllowFallback = TRUE
  ById <- Listed
  ByPolicy <- Preferred
INVARIANTS StatusTellsOutcomes OneProbe NoMixedOutput
PROPERTIES Recovers
CHECK_DEADLOCK FALSE
