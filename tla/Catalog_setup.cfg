SPECIFICATION Spec
CONSTANTS
  b1 = b1  b2 = b2  v1 = v1  m1 = m1  m2 = m2  r1 = r1  r2 = r2  x1 = x1
  d1 = d1  d2 = d2  h1 = h1  h2 = h2
  Businesses = {b1, b2}
  Services = {v1}
  Staff = {m1}
  Rules = {r1, r2}
  Exceptions = {x1}
  NoOne = NoOne
  Days = {d1, d2}
  Hours <- HoursValue
  Times = {2}
  Tasks = {"share_page"}
  Requests = {h1, h2}
  MaxWrites = 4
SYMMETRY Symmetry
INVARIANT TenantsAreSeparate
INVARIANT OneRulePerDay
INVARIANT OnboardingIsTrue
PROPERTY EditsAreKept
CHECK_DEADLOCK FALSE
