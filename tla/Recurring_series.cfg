SPECIFICATION FairSpec
CONSTANTS
  s1 = s1  s2 = s2  w1 = w1  w2 = w2  h1 = h1  h2 = h2
  MonthStart <- TwoTwoOne
  Series = {s1}
  Intervals <- DayAndMonth
  Firsts = {1, 2}
  Times = {4}
  Sizes = {1, 2}
  Notices = {2}
  Workers = {w1}
  Requests = {h1}
  MaxTime = 2
  MaxLate = 1
  MaxFaults = 1
INVARIANT ShownWereBooked
INVARIANT NoneIsSkipped
INVARIANT WithinMaximum
PROPERTY DueIsDecided
CHECK_DEADLOCK FALSE
