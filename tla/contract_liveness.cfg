\* A user who may do anything or nothing, and the worker.
CONSTANTS
  u1 = u1
  w1 = w1
  N = 2
  Users = {u1}
  Workers = {w1}
  Ops = {"accept", "decline", "pay", "fund", "submit", "complete", "cancel", "auto_approve", "auto_close"}
  OnboardedAtStart = TRUE
  MaxVersion = 3
  MaxCrashes = 0
SPECIFICATION LiveSpec
PROPERTIES
  SubmittedIsSettled
  GhostedProposalCloses
  PaidMilestoneMovesOn
