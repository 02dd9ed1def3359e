SPECIFICATION FairSpec
CONSTANTS
  r1 = r1  r2 = r2
  Events = {1, 2}
  Runs = {r1, r2}
  BatchSize = 2
  MaxAttempts = 2
  MaxFaults = 2
PROPERTY Settles
CHECK_DEADLOCK FALSE
