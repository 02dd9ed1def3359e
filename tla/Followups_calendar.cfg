SPECIFICATION Spec
CONSTANTS
  m1 = m1  m2 = m2
  t1 = t1  t2 = t2  none = none
  Slots = {t1, t2}
  NoSlot = none
  First = t1
  Senders = {m1}
  MaxAttempts = 2
  MaxSteps = 1


INVARIANT CalendarIsInSync
CHECK_DEADLOCK FALSE
