\* Two tasks for one slot, with a retry each.
SPECIFICATION Spec
CONSTANTS
  t1 = t1
  t2 = t2
  k1 = k1
  k2 = k2
  Tasks = {t1, t2}
  Keys = {k1, k2}
  KeyOf <- OneKey
  Limit <- OneSlotEach
  MaxRetries = 1
  SubmitMayFail = TRUE
  CtxMayExpire = TRUE
  None = None
CHECK_DEADLOCK FALSE
INVARIANTS SlotsAccounted QuotaKept LiveTasksHold
PROPERTIES SlotsReturn
