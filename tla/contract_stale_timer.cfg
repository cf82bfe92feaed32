\* One handler at a time: a submission, a rejection and a new submission.
CONSTANTS
  p1 = p1
  N = 1
  Users = {p1}
  Workers = {p1}
  Ops = {"accept", "pay", "fund", "submit", "reject", "auto_approve"}
  OnboardedAtStart = TRUE
  MaxVersion = 3
  MaxCrashes = 0
SPECIFICATION Spec
INVARIANT AutoApprovalActsOnItsSubmission
