-------------------------------- MODULE Escrow --------------------------------
(***************************************************************************)
(* What the milestone contract promises, free of handlers, rows and        *)
(* retries: every milestone moves along the lifecycle of the domain        *)
(* entity, one legal transition at a time, and milestones are funded       *)
(* strictly in sequence (a milestone is funded only when every earlier one *)
(* has reached a terminal status).                                         *)
(***************************************************************************)
EXTENDS Milestone

CONSTANT N            \* number of milestones of the contract

VARIABLE status       \* status[m]: lifecycle status of milestone m

Milestones == 1 .. N

Init == status = [m \in Milestones |-> "pending_funding"]

Advance(m, next) ==
  /\ CanPersist(status[m], next)
  /\ next = "funded" => IsCurrentActive(status, m)
  /\ status' = [status EXCEPT ![m] = next]

Fund(m)    == status[m] = "pending_funding" /\ Advance(m, "funded")
Cancel(m)  == status[m] = "pending_funding" /\ Advance(m, "cancelled")
Submit(m)  == status[m] = "funded" /\ Advance(m, "submitted")
Reject(m)  == status[m] = "submitted" /\ Advance(m, "funded")
Approve(m) == status[m] = "submitted" /\ Advance(m, "approved")
Release(m) == status[m] \in {"submitted", "approved"} /\ Advance(m, "released")
Dispute(m) == status[m] \in {"funded", "submitted"} /\ Advance(m, "disputed")
Settle(m)  == /\ status[m] = "disputed"
              /\ \E outcome \in {"funded", "released", "refunded"} :
                   Advance(m, outcome)

Next == \E m \in Milestones :
          \/ Fund(m) \/ Cancel(m) \/ Submit(m) \/ Reject(m)
          \/ Approve(m) \/ Release(m) \/ Dispute(m) \/ Settle(m)

Spec == Init /\ [][Next]_status

-----------------------------------------------------------------------------
TypeOK == status \in [Milestones -> MilestoneStatus]

(***************************************************************************)
(* Strict-sequential escrow: once money has been put on a milestone, every *)
(* earlier milestone is over.  In particular at most one milestone of a    *)
(* contract holds escrow at any time (InitiatePayment, "the strict-        *)
(* sequential rule means there is exactly one such milestone").            *)
(***************************************************************************)
Sequential ==
  \A i, j \in Milestones :
    i < j /\ EverFunded(status[j]) => IsTerminal(status[i])
=============================================================================
