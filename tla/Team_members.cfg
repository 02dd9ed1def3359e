SPECIFICATION Spec
CONSTANTS
  p1 = p1  p2 = p2  p3 = p3  b1 = b1  b2 = b2  r1 = r1  r2 = r2  r3 = r3
  t1 = t1  t2 = t2  t3 = t3  t4 = t4  s1 = s1  h1 = h1  h2 = h2
  People = {p1, p2}
  Businesses = {b1}
  Rows = {r1, r2}
  Tokens = {t1, t2, t3}
  Staff = {s1}
  NoOne = NoOne
  Roles = {"owner", "professional"}
  Observed = {p1}
  Requests = {h1, h2}
SYMMETRY Symmetry
INVARIANT OneTokenPerSession
INVARIANT FounderStays
INVARIANT MembersAgree
PROPERTY EndedStaysEnded
CHECK_DEADLOCK FALSE
