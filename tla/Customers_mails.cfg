CONSTANTS
  a1 = a1
  a2 = a2
  r1 = r1
  r2 = r2
  h1 = h1
  h2 = h2
  Appointments <- MCAppointments
  Runs <- MCRuns
  Handlers <- MCHandlers
  PastMissed = 1
  PastCame = 1
  MaxLinks = 1
  MaxSteps = 4
SPECIFICATION Spec
SYMMETRY Symmetry
INVARIANT RiskFollowsAttendance
INVARIANT OneLetterPerCooldown
INVARIANT InvitationsWork
PROPERTY SettledStays
CHECK_DEADLOCK FALSE
