\* Liveness of two racing calls, and the refinement of TaskLifecycle: two tasks
\* that may be parent and child, one with a registered executor and one without.
SPECIFICATION Spec
CONSTANTS
  Tasks = {t1, t2}
  Calls = {c1, c2}
  Subs = {}
  MaxRetries = 1
  Tokens = {t1}
  StreamBuffer = 1
  DefaultExecutor = FALSE
  Expiring = {}
  None = None
CHECK_DEADLOCK FALSE
PROPERTIES ImplementsLifecycle CallsReturn
