SPECIFICATION FairSpec
CONSTANTS
  r1 = r1  r2 = r2  w1 = w1  w2 = w2
  Events = {1, 2}
  Malformed = {2}
  Runs = {r1, r2}
  BatchSize = 2
  MaxAttempts = 2
  Workers = {w1, w2}
  MaxCopies = 9
  MaxPublisherFaults = 1
  MaxFaults = 1
  WorkerFirst = TRUE
INVARIANT NothingLost
INVARIANT PublishedWasSent
PROPERTY ImplementsEffects
PROPERTY EffectOrGivenUp
CHECK_DEADLOCK FALSE
