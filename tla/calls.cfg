\* Two users who call each other, two calls, and one thing that goes wrong.
CONSTANTS
  u1 = u1
  u2 = u2
  t1 = t1
  t2 = t2
  NoCall = NoCall
  NoUser = NoUser
  NoTab = NoTab
  Users = {u1, u2}
  Tabs = {t1, t2}
  Owner <- MCOwner
  Dialers = {t1, t2}
  Calls = {c1, c2}
  MaxRequests = 1
  MaxMishaps = 1
SPECIFICATION Spec
CHECK_DEADLOCK FALSE
INVARIANTS
  TypeOK
  RingIsBounded
  QuietTabsAgree
  BusyIsReal
