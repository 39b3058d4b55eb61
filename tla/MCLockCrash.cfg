\* One of two processes dies at any point while its goroutines and those of the
\* other hold the lock or wait for it.
SPECIFICATION Spec
CONSTANTS
  p1 = p1
  p2 = p2
  p3 = p3
  a1 = a1
  a2 = a2
  b1 = b1
  b2 = b2
  c1 = c1
  None = None
  Processes = {p1, p2}
  Calls = {a1, a2, b1, b2}
  ProcessOf <- TwoByTwo
  Crashable = {p1}
  Stallable = {}
  CtxMayExpire = FALSE
  FsMayFail = FALSE
INVARIANTS OneHolder FileHasOwner
PROPERTIES ImplementsMutex
CHECK_DEADLOCK FALSE
