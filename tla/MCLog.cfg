\* Three appends, the last with the event id of the first; writes fail and
\* processes die in the middle of a line, and contexts end.
SPECIFICATION Spec
CONSTANTS
  r1 = r1
  r2 = r2
  r3 = r3
  Records = {r1, r2, r3}
  EventOf <- Repeated
  Readers = {d1}
  PageSize = 1
  FsMayFail = TRUE
  MayCrash = TRUE
  CtxMayExpire = TRUE
INVARIANTS OffsetsTrue LossBounded ReplayExact
PROPERTIES ReplayComplete ReplayEnds
CHECK_DEADLOCK FALSE
