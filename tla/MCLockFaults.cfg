\* A process may die, another may stand still, and file operations fail.
SPECIFICATION SafeSpec
CONSTANTS
  p1 = p1
  p2 = p2
  p3 = p3
  a1 = a1
  a2 = a2
  b1 = b1
  b2 = b2
  c1 = c1
  None = None
  Processes = {p1, p2}
  Calls = {a1, a2, b1, b2}
  ProcessOf <- TwoByTwo
  Crashable = {p1}
  Stallable = {p2}
  CtxMayExpire = TRUE
  FsMayFail = TRUE
INVARIANTS OnePerProcess EntriesShared
CHECK_DEADLOCK FALSE
