CONSTANTS
  LastDay = 3
  Times <- MCTimes
  OpenDays <- MCOpenDays
  Booked <- MCBooked
  Budgets <- MCBudgets
  Accounts <- MCAccounts
  Ours = 1
  Clients <- MCClients
SPECIFICATION WebSpec
INVARIANT SentAsShown
INVARIANT CustomersSeeTheTruth
INVARIANT EditsAreShown
INVARIANT ShownBelongsTogether
INVARIANT LandingIsCurrent
CHECK_DEADLOCK FALSE
