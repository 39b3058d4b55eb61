\* Two tasks that may be parent and child, two calls, one retry.
SPECIFICATION SafeSpec
CONSTANTS
  Tasks = {t1, t2}
  Calls = {c1, c2}
  Subs = {}
  MaxRetries = 1
  Tokens = {}
  StreamBuffer = 1
  DefaultExecutor = TRUE
  Expiring = {}
  None = None
SYMMETRY Symmetry
INVARIANTS TypeOK RunningMeansExecuting AttemptsInOrder LinksMirror NoLostWaiter LogTellsStatus LiveChildrenLinked
CHECK_DEADLOCK FALSE
