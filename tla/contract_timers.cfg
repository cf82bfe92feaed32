\* A user request against a worker's webhook or timer, either of them cut off;
\* and, where neither overlaps the other, what is promised of one at a time.
CONSTANTS
  u1 = u1
  w1 = w1
  N = 2
  Users = {u1}
  Workers = {w1}
  Ops = {"accept", "decline", "pay", "fund", "submit", "complete", "reject", "cancel", "auto_approve", "auto_close"}
  OnboardedAtStart = FALSE
  MaxVersion = 3
  MaxCrashes = 1
SPECIFICATION SerialSpec
INVARIANTS
  TypeOK
  FundingFollowsAPayment
  HandlerInv
  AloneStatusIsProjection
  AloneNoEscrowOutside
  AloneCloseOutOnce
  AloneSubmissionIsTimed
PROPERTY
  ImplementsEscrow
