\* Two handlers at once on a contract of two milestones; the parties, the
\* admin and the proposal service make four moves, the scheduler any number.
CONSTANTS
  p1 = p1
  p2 = p2
  d1 = d1
  NoDispute = NoDispute
  N = 2
  Disputes = {d1}
  Procs = {p1, p2}
  Amount = 2
  Shares = {0, 1}
  MaxOffers = 2
  MaxEvents = 4
SPECIFICATION LiveSpec
CHECK_DEADLOCK FALSE
INVARIANTS
  TypeOK
  DistributedOnce
  OpenMeansFrozen
  VerdictIsCarriedOut
PROPERTIES
  VerdictsAreFounded
  MilestonesAdvance
  SilenceIsEnded
