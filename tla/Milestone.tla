------------------------------ MODULE Milestone ------------------------------
(***************************************************************************)
(* The value-level vocabulary of a milestone contract: the status of one   *)
(* milestone, which transitions the domain entity allows, and the pure     *)
(* projections the services compute over all the milestones of a proposal. *)
(*                                                                         *)
(* A contract is a function from milestone sequence numbers to statuses;   *)
(* every operator that takes st takes such a function.                     *)
(***************************************************************************)
EXTENDS Naturals

MilestoneStatus == {"pending_funding", "funded", "submitted", "approved",
                    "released", "disputed", "cancelled", "refunded"}

IsTerminal(s) == s \in {"released", "cancelled", "refunded"}

\* The statuses that hold, or are owed, escrow money.
IsActive(s) == s \in {"funded", "submitted", "approved", "disputed"}

\* The client has engaged money on the milestone at some time.
EverFunded(s) == IsActive(s) \/ s \in {"released", "refunded"}

CanTransitionTo(s, next) ==
  \/ s = "pending_funding" /\ next \in {"funded", "cancelled"}
  \/ s = "funded"          /\ next \in {"submitted", "disputed"}
  \/ s = "submitted"       /\ next \in {"approved", "funded", "disputed"}
  \/ s = "approved"        /\ next = "released"
  \/ s = "disputed"        /\ next \in {"funded", "released", "refunded"}

(***************************************************************************)
(* What the services persist in one versioned UPDATE: a single transition, *)
(* or Approve followed by Release on the same in-memory copy.              *)
(***************************************************************************)
CanPersist(s, next) ==
  CanTransitionTo(s, next) \/ (s = "submitted" /\ next = "released")

\* Fault: any milestone that is not over will do.
IsCurrentActiveInAnyOrder(st, m) == ~ IsTerminal(st[m])

\* The milestone "in play": the lowest-sequence one that is not terminal.
IsCurrentActive(st, m) ==
  /\ ~ IsTerminal(st[m])
  /\ \A i \in DOMAIN st : i < m => IsTerminal(st[i])

AllReleased(st) == \A m \in DOMAIN st : st[m] = "released"

ProposalStatus == {"pending", "accepted", "declined", "withdrawn", "active",
                   "completion_requested", "disputed", "completed"}

\* Fault: a contract of cancelled milestones gets their status.
DeriveMacroStatusLeaky(st) ==
  IF \A m \in DOMAIN st : st[m] = "cancelled" THEN "cancelled" ELSE "active"

(***************************************************************************)
(* The macro status of a proposal, a projection of its milestones.         *)
(***************************************************************************)
DeriveMacroStatus(st) ==
  IF \E m \in DOMAIN st : st[m] = "disputed"                THEN "disputed"
  ELSE IF AllReleased(st)                                   THEN "completed"
  ELSE IF \E m \in DOMAIN st : st[m] \in {"submitted", "approved"}
                                                 THEN "completion_requested"
  ELSE IF \E m \in DOMAIN st : st[m] \in {"funded", "released", "refunded"}
                                                               THEN "active"
  ELSE "accepted"

\* Statuses set by explicit user actions, off limits to the projection.
OutsideProjection(s) == s \in {"pending", "declined", "withdrawn"}
=============================================================================
