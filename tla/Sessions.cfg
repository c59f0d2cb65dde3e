SPECIFICATION Spec
CONSTANTS
  e1 = e1
  e2 = e2
  g1 = g1
  b1 = b1
  b2 = b2
  q1 = q1
  q2 = q2
  t1 = t1
  t2 = t2
  t3 = t3
  s1 = s1
  s2 = s2
  Emails = {e1, e2}
  Identities = {g1}
  Browsers = {b1, b2}
  Requests = {q1, q2}
  Tokens = {t1, t2, t3}
  States = {s1, s2}
  Limit <- EachOnce
  Budget = 1
  None = None
SYMMETRY Symmetry
CHECK_DEADLOCK FALSE
INVARIANTS TypeOK CookieIsValid
PROPERTIES KeepsFamilies ReuseClosesFamily IdentityKeepsUser
