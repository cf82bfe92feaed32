\* The client approves the last milestone while its auto-approval fires.
CONSTANTS
  u1 = u1
  w1 = w1
  N = 1
  Users = {u1}
  Workers = {w1}
  Ops = {"accept", "pay", "fund", "submit", "complete", "auto_approve"}
  OnboardedAtStart = TRUE
  MaxVersion = 3
  MaxCrashes = 0
SPECIFICATION Spec
INVARIANT CloseOutAtMostOnce
