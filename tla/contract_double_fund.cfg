\* The client's browser alone, confirming its first payment twice.
CONSTANTS
  u1 = u1
  N = 2
  Users = {u1}
  Workers = {}
  Ops = {"accept", "pay", "fund", "submit", "complete"}
  OnboardedAtStart = TRUE
  MaxVersion = 3
  MaxCrashes = 0
SPECIFICATION Spec
INVARIANT FundedIsPaid
