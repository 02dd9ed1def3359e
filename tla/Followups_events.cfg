SPECIFICATION FairSpec
CONSTANTS
  m1 = m1  m2 = m2
  t1 = t1  t2 = t2  none = none
  Slots = {t1, t2}
  NoSlot = none
  First = t1
  Senders = {m1}
  MaxAttempts = 2
  MaxSteps = 2
INVARIANT RepeatsAreBounded
INVARIANT InOrderAgrees
PROPERTY EveryEventIsHandled
PROPERTY ReminderIsSent
CHECK_DEADLOCK FALSE
