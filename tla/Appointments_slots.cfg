SPECIFICATION Spec
CONSTANTS
  a1 = a1  a2 = a2  c1 = c1  s1 = s1  s2 = s2
  v1 = v1  v2 = v2  h1 = h1  h2 = h2
  Appointments = {a1, a2}
  Customers = {c1}
  Staff = {s1, s2}
  Services = {v1, v2}
  Length <- TwoLengths
  Starts = {1, 2}
  Open <- OpenAlways
  NextStatuses = {"confirmed", "completed"}
  Handlers = {h1, h2}
  SLOT_STEP = 2
  DAY = 6
  Rules <- MCRules
  Exceptions <- MCExceptions
  Clock <- Behind
  MaxTime = 1
  MaxCounter = 1
SYMMETRY SlotSymmetry
INVARIANT NoDoubleBooking
INVARIANT NewestRowTellsTruth
INVARIANT OffersAreExact
PROPERTY ImplementsCalendar
CHECK_DEADLOCK FALSE
