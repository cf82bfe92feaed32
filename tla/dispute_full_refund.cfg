\* One handler at a time: a client who is left everything.
CONSTANTS
  p1 = p1
  p2 = p2
  d1 = d1
  NoDispute = NoDispute
  N = 1
  Disputes = {d1}
  Procs = {p1}
  Amount = 2
  Shares = {0, 1}
  MaxOffers = 2
  MaxEvents = 3
SPECIFICATION Spec
CHECK_DEADLOCK FALSE
INVARIANT NothingMeansNothing
