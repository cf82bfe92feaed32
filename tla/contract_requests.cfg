\* Any two user requests at once, one of them possibly cut off half-way.
CONSTANTS
  u1 = u1
  u2 = u2
  N = 2
  Users = {u1, u2}
  Workers = {}
  Ops = {"accept", "decline", "activate", "submit", "complete", "reject", "cancel"}
  OnboardedAtStart = FALSE
  MaxVersion = 3
  MaxCrashes = 1
SPECIFICATION Spec
SYMMETRY Symmetry
INVARIANTS
  SequentialEscrow
  CompletedMeansAllReleased
  HandlerInv
PROPERTY
  ImplementsEscrow
