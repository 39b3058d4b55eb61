\* Two streams of one task that may be retried and cancelled, one of which may
\* leave early, and an executor that may be missing.
SPECIFICATION Spec
CONSTANTS
  Tasks = {t1}
  Calls = {c1}
  Subs = {s1, s2}
  MaxRetries = 1
  Tokens = {t1}
  StreamBuffer = 1
  DefaultExecutor = FALSE
  Expiring = {s1, c1}
  None = None
CHECK_DEADLOCK FALSE
INVARIANTS StreamInOrder StreamShowsOnce
PROPERTIES StreamsClose CallsReturn
