\* The process of the holder dies while two other processes wait.
SPECIFICATION SafeSpec
CONSTANTS
  p1 = p1
  p2 = p2
  p3 = p3
  a1 = a1
  a2 = a2
  b1 = b1
  b2 = b2
  c1 = c1
  None = None
  Processes = {p1, p2, p3}
  Calls = {a1, b1, c1}
  ProcessOf <- OneEach
  Crashable = {p1}
  Stallable = {}
  CtxMayExpire = FALSE
  FsMayFail = FALSE
INVARIANTS OneHolder
CHECK_DEADLOCK FALSE
