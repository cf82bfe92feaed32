------------------------------- MODULE Contract -------------------------------
(***************************************************************************)
(* One proposal with N milestones, and the requests, Stripe webhooks and   *)
(* timers that act on it (internal/app/proposal over                       *)
(* internal/adapter/postgres).                                             *)
(*                                                                         *)
(* No handler runs in a transaction: each reads the proposal row, reads    *)
(* and writes milestone rows (guarded by a version column) and writes the  *)
(* proposal row back from its own copy (guarded by nothing).  Each of      *)
(* these database accesses is a step here, so the steps of two handlers    *)
(* interleave, and a handler may be cut off between two of them (Crash).   *)
(*                                                                         *)
(* req[p] is the handler that process p is in the middle of:               *)
(*   pc    its next step            row  its in-memory copy of the proposal *)
(*   op    which handler it is      m    the milestone it works on         *)
(*   ver   the version it read      to   the status it will write          *)
(*   rest  the milestones a cancellation sweep still has to visit          *)
(*   sub   the submission an auto-approval event was scheduled for         *)
(*                                                                         *)
(* payment[m] joins the payment_records row of milestone m with the state  *)
(* of its Stripe PaymentIntent: none, pending (record and intent exist),   *)
(* settled (the client has paid, the record does not know), succeeded.     *)
(* newest is the milestone of the record created last, 0 when there is none. *)
(***************************************************************************)
EXTENDS Milestone, FiniteSets

CONSTANTS
  N,                \* milestones of the contract
  Users,            \* processes that serve HTTP requests
  Workers,          \* processes that run the pending_events worker
  Ops,              \* the operations this instance allows
  OnboardedAtStart, \* the provider's Stripe onboarding is complete initially
  MaxVersion,       \* bound: no new rejection once a milestone is at it
  MaxCrashes        \* bound: handlers cut off half-way

Operations == {"accept", "decline", "pay", "fund", "submit", "complete",
               "reject", "cancel", "activate", "auto_approve", "auto_close"}

Steps == {"idle", "load", "current", "intent", "scan", "sweep", "lock", "save",
          "derive", "write", "finish"}

ASSUME ContractAssumption ==
  /\ N \in Nat \ {0}
  /\ Ops \subseteq Operations
  /\ OnboardedAtStart \in BOOLEAN
  /\ MaxVersion \in Nat
  /\ MaxCrashes \in Nat

VARIABLES
  milestone,     \* proposal_milestones rows: [status, version]
  proposal,      \* the proposals row: [status, dispute]
  payment,       \* payment record and PaymentIntent of each milestone
  newest,        \* the milestone of the newest payment record
  timer,         \* timer[m]: auto-approve events outstanding, by submission
  closeTimer,    \* auto-close events outstanding
  onboarded,     \* the provider can receive payouts
  closeOut,      \* times the end-of-project effects have run
  crashes,       \* handlers cut off so far
  req            \* the handler each process is in the middle of

payVars   == <<payment, newest>>
dbVars    == <<milestone, proposal, payVars>>
eventVars == <<timer, closeTimer>>
envVars   == <<onboarded, closeOut, crashes>>
vars      == <<dbVars, eventVars, envVars, req>>

Milestones == 1 .. N
Procs      == Users \cup Workers

Statuses == [m \in Milestones |-> milestone[m].status]

Idle == [pc |-> "idle", op |-> "none", m |-> 0, ver |-> 0, to |-> "none",
         row |-> [status |-> "pending", dispute |-> 0], rest |-> {}, sub |-> 0]

Sweep(op) == op \in {"cancel", "auto_close"}

\* The status each handler requires of the milestone it acts on ...
Expected(op) ==
  CASE op \in {"pay", "fund", "cancel", "auto_close"} -> "pending_funding"
    [] op = "submit"                                  -> "funded"
    [] OTHER                                          -> "submitted"

\* ... and the status its domain method leaves on the in-memory copy.
Target(op) ==
  CASE op \in {"fund", "reject"}            -> "funded"
    [] op = "submit"                        -> "submitted"
    [] op \in {"complete", "auto_approve"}  -> "released"
    [] op \in {"cancel", "auto_close"}      -> "cancelled"

Init ==
  /\ milestone = [m \in Milestones |->
                    [status |-> "pending_funding", version |-> 0]]
  /\ proposal = [status |-> "pending", dispute |-> 0]
  /\ payment = [m \in Milestones |-> "none"]
  /\ newest = 0
  /\ timer = [m \in Milestones |-> {}]
  /\ closeTimer = 0
  /\ onboarded = OnboardedAtStart
  /\ closeOut = 0
  /\ crashes = 0
  /\ req = [p \in Procs |-> Idle]

-----------------------------------------------------------------------------
(***************************************************************************)
(* Entry points.  A process that is idle picks up a request or an event.   *)
(***************************************************************************)
IsIdle(p) == req[p].pc = "idle"

Enter(p, r) == req' = [req EXCEPT ![p] = r]

Return(p) == Enter(p, Idle)

Goto(p, step) == Enter(p, [req[p] EXCEPT !.pc = step])

\* Fault: the pending check is forgotten.
AnswerUnchecked(p, op, status) ==
  /\ IsIdle(p) /\ op \in Ops
  /\ Enter(p, [Idle EXCEPT !.pc = "write", !.op = op,
                           !.row = [proposal EXCEPT !.status = status]])
  /\ UNCHANGED <<dbVars, eventVars, envVars>>

\* AcceptProposal and DeclineProposal: read the row, check it is pending,
\* change the copy.  Both are left with one write of the whole row.
Answer(p, op, status) ==
  /\ IsIdle(p) /\ op \in Ops
  /\ proposal.status = "pending"
  /\ Enter(p, [Idle EXCEPT !.pc = "write", !.op = op,
                           !.row = [proposal EXCEPT !.status = status]])
  /\ UNCHANGED <<dbVars, eventVars, envVars>>

AcceptProposal(p)  == Answer(p, "accept", "accepted")
DeclineProposal(p) == Answer(p, "decline", "declined")

\* InitiatePayment, RequestCompletion, CompleteProposal, RejectCompletion:
\* read the row.  Only InitiatePayment looks at its status.
LoadProposal(p, op) ==
  /\ IsIdle(p) /\ op \in Ops
  /\ op = "pay" => proposal.status \in {"accepted", "active"}
  /\ op = "reject" => \A m \in Milestones : milestone[m].version < MaxVersion
  /\ Enter(p, [Idle EXCEPT !.pc = "current", !.op = op, !.row = proposal])
  /\ UNCHANGED <<dbVars, eventVars, envVars>>

\* CancelProposal reads the row, whatever its status.
CancelProposal(p) ==
  /\ IsIdle(p) /\ "cancel" \in Ops
  /\ Enter(p, [Idle EXCEPT !.pc = "scan", !.op = "cancel", !.row = proposal])
  /\ UNCHANGED <<dbVars, eventVars, envVars>>

HasPaid(m) == payment[m] \in {"settled", "succeeded"}

\* Fault: the record is marked succeeded without a look at the intent.
MarkPaidUnverified(p, m) ==
  /\ payment' = [payment EXCEPT ![m] = IF HasPaid(m) THEN "succeeded" ELSE @]
  /\ Enter(p, [Idle EXCEPT !.pc = "load", !.op = "fund"])
  /\ UNCHANGED <<milestone, proposal, newest, eventVars, envVars>>

\* The record is marked succeeded (or already was); the proposal service
\* is called next with the proposal id, and with nothing else.
MarkPaid(p, m) ==
  /\ HasPaid(m)
  /\ payment' = [payment EXCEPT ![m] = "succeeded"]
  /\ Enter(p, [Idle EXCEPT !.pc = "load", !.op = "fund"])
  /\ UNCHANGED <<milestone, proposal, newest, eventVars, envVars>>

\* POST confirm-payment, from the client's browser: about the newest payment
\* record of the proposal (GetByProposalID).
ConfirmPayment(p) ==
  /\ IsIdle(p) /\ "fund" \in Ops
  /\ newest \in Milestones
  /\ MarkPaid(p, newest)

\* AdminActivateProposal: the funding call, without a look at any payment.
AdminActivateProposal(p) ==
  /\ IsIdle(p) /\ "activate" \in Ops
  /\ Enter(p, [Idle EXCEPT !.pc = "load", !.op = "fund"])
  /\ UNCHANGED <<dbVars, eventVars, envVars>>

\* A payment_intent.succeeded event of milestone m, dispatched by a worker.
\* Delivery is at least once and may be late.
PaymentSucceeded(w, m) ==
  /\ IsIdle(w) /\ "fund" \in Ops
  /\ MarkPaid(w, m)

\* Fault: the handler relies on the check under the lock alone.
FireAutoApproveUnchecked(w, m) ==
  /\ IsIdle(w) /\ "auto_approve" \in Ops
  /\ \E v \in timer[m] :
       /\ timer' = [timer EXCEPT ![m] = @ \ {v}]
       /\ Enter(w, [Idle EXCEPT !.pc = "lock", !.op = "auto_approve",
                                !.m = m, !.row = proposal, !.sub = v])
  /\ UNCHANGED <<dbVars, closeTimer, envVars>>

\* A worker claims an auto-approve event.  The milestone has moved on, or
\* the provider cannot be paid: the event is done.  Otherwise the handler
\* goes on with its own copy of the proposal.
FireAutoApprove(w, m) ==
  /\ IsIdle(w) /\ "auto_approve" \in Ops
  /\ \E v \in timer[m] :
       /\ timer' = [timer EXCEPT ![m] = @ \ {v}]
       /\ IF milestone[m].status = "submitted" /\ onboarded
            THEN Enter(w, [Idle EXCEPT !.pc = "lock", !.op = "auto_approve",
                                       !.m = m, !.row = proposal, !.sub = v])
            ELSE UNCHANGED req
  /\ UNCHANGED <<dbVars, closeTimer, envVars>>

\* A worker claims an auto-close event; it is done at once when the
\* proposal is over.
FireAutoClose(w) ==
  /\ IsIdle(w) /\ "auto_close" \in Ops
  /\ closeTimer > 0
  /\ closeTimer' = closeTimer - 1
  /\ IF proposal.status \in {"completed", "declined", "withdrawn"}
       THEN UNCHANGED req
       ELSE Enter(w, [Idle EXCEPT !.pc = "scan", !.op = "auto_close",
                                  !.row = proposal])
  /\ UNCHANGED <<dbVars, timer, envVars>>

-----------------------------------------------------------------------------
(***************************************************************************)
(* The steps of a handler after its entry.                                 *)
(***************************************************************************)
\* Fault: only a contract that is active already is thought to wait for money.
LoadForFundingActiveOnly(p) ==
  /\ req[p].pc = "load"
  /\ IF proposal.status = "active"
       THEN Enter(p, [req[p] EXCEPT !.pc = "current", !.row = proposal])
       ELSE Return(p)
  /\ UNCHANGED <<dbVars, eventVars, envVars>>

\* ConfirmPaymentAndActivate reads the proposal row.
LoadForFunding(p) ==
  /\ req[p].pc = "load"
  /\ Enter(p, [req[p] EXCEPT !.pc = "current", !.row = proposal])
  /\ UNCHANGED <<dbVars, eventVars, envVars>>

\* GetCurrentActive, and the check of its status.
ReadCurrent(p) ==
  LET op == req[p].op
      Eligible(m) == /\ IsCurrentActive(Statuses, m)
                     /\ milestone[m].status = Expected(op)
  IN /\ req[p].pc = "current"
     /\ IF \E m \in Milestones : Eligible(m)
          THEN \E m \in Milestones :
                 /\ Eligible(m)
                 /\ Enter(p, [req[p] EXCEPT
                                !.pc = IF op = "pay" THEN "intent" ELSE "lock",
                                !.m = m])
          ELSE Return(p)
     /\ UNCHANGED <<dbVars, eventVars, envVars>>

\* InitiatePayment ends in CreatePaymentIntent: one record and one intent
\* per milestone, reused by a later call.
CreatePaymentIntent(p) ==
  LET m == req[p].m
      fresh == payment[m] = "none"
  IN /\ req[p].pc = "intent"
     /\ payment' = IF fresh THEN [payment EXCEPT ![m] = "pending"] ELSE payment
     /\ newest' = IF fresh THEN m ELSE newest
     /\ Return(p)
     /\ UNCHANGED <<milestone, proposal, eventVars, envVars>>

\* CancelProposal and AutoCloseProposal: give up while any milestone is in
\* flight, else visit the ones that were waiting for funding.
ScanForCancel(p) ==
  /\ req[p].pc = "scan"
  /\ IF \E m \in Milestones : IsActive(milestone[m].status)
       THEN Return(p)
       ELSE Enter(p, [req[p] EXCEPT !.pc = "sweep",
                                    !.rest = {m \in Milestones :
                                       milestone[m].status = "pending_funding"}])
  /\ UNCHANGED <<dbVars, eventVars, envVars>>

NextInSweep(p) ==
  LET rest == req[p].rest
  IN /\ req[p].pc = "sweep"
     /\ IF rest = {}
          THEN Goto(p, "derive")
          ELSE \E m \in rest :
                 /\ \A k \in rest : m <= k
                 /\ Enter(p, [req[p] EXCEPT !.pc = "lock", !.m = m,
                                            !.rest = rest \ {m}])
     /\ UNCHANGED <<dbVars, eventVars, envVars>>

\* What the worker does with the event of a handler that failed: the row
\* goes back to the queue.
ReArm(p) ==
  LET r == req[p]
  IN /\ timer' = IF r.op = "auto_approve"
                   THEN [timer EXCEPT ![r.m] = @ \cup {r.sub}] ELSE timer
     /\ closeTimer' = IF r.op = "auto_close" THEN closeTimer + 1 ELSE closeTimer

\* Fault: the domain methods do not look at the status they start from.
LockMilestoneUnchecked(p) ==
  /\ req[p].pc = "lock"
  /\ Enter(p, [req[p] EXCEPT !.pc = "save", !.to = Target(req[p].op),
                             !.ver = milestone[req[p].m].version])
  /\ UNCHANGED <<dbVars, eventVars, envVars>>

\* withMilestoneLock, first half: GetByIDWithVersion and the mutation of
\* the copy.  The domain method refuses a milestone that has moved on; only
\* AutoApproveMilestone treats that as "nothing to change" and persists.
LockMilestone(p) ==
  LET r == req[p]
      s == milestone[r.m].status
      Keep(t) == Enter(p, [r EXCEPT !.pc = "save", !.to = t,
                                    !.ver = milestone[r.m].version])
  IN /\ r.pc = "lock"
     /\ CASE s = Expected(r.op)      -> Keep(Target(r.op))
          [] s # Expected(r.op) /\ r.op = "auto_approve" -> Keep(s)
          [] s # Expected(r.op) /\ r.op = "auto_close"   -> Goto(p, "sweep")
          [] OTHER                   -> Return(p)
     /\ UNCHANGED <<dbVars, eventVars, envVars>>

\* Fault: UPDATE ... WHERE id.
SaveMilestoneUnversioned(p) ==
  LET r == req[p] IN
  /\ r.pc = "save"
  /\ milestone' = [milestone EXCEPT ![r.m] =
                     [status |-> r.to, version |-> r.ver + 1]]
  /\ Goto(p, IF Sweep(r.op) THEN "sweep" ELSE "derive")
  /\ UNCHANGED <<proposal, payVars, eventVars, envVars>>

\* Second half: UPDATE ... WHERE id AND version.  On a conflict a sweep
\* carries on and every other handler fails.
SaveMilestone(p) ==
  LET r == req[p]
      current == milestone[r.m].version = r.ver
      next == IF Sweep(r.op) THEN "sweep" ELSE "derive"
  IN /\ r.pc = "save"
     /\ IF current
          THEN /\ milestone' = [milestone EXCEPT ![r.m] =
                                  [status |-> r.to, version |-> r.ver + 1]]
               /\ Goto(p, next)
               /\ UNCHANGED eventVars
          ELSE /\ IF Sweep(r.op)
                    THEN Goto(p, next) /\ UNCHANGED eventVars
                    ELSE Return(p) /\ ReArm(p)
               /\ UNCHANGED milestone
     /\ UNCHANGED <<proposal, payVars, envVars>>

\* Fault: a rejected completion leaves the macro status where it was.
RecomputeMacroStatusForwardOnly(p) ==
  LET derived == DeriveMacroStatus(Statuses)
      skip == \/ OutsideProjection(req[p].row.status)
              \/ req[p].row.status = "completion_requested" /\ derived = "active"
  IN /\ req[p].pc = "derive"
     /\ IF skip
          THEN Goto(p, "finish")
          ELSE Enter(p, [req[p] EXCEPT !.pc = "write",
                                       !.row = [@ EXCEPT !.status = derived]])
     /\ UNCHANGED <<dbVars, eventVars, envVars>>

\* recomputeMacroStatus, first half: the statuses are listed and projected
\* onto the handler's copy of the proposal.
RecomputeMacroStatus(p) ==
  LET derived == DeriveMacroStatus(Statuses)
      skip == \/ OutsideProjection(req[p].row.status)
              \/ derived = "disputed" /\ req[p].row.status # "disputed"
  IN /\ req[p].pc = "derive"
     /\ IF skip
          THEN Goto(p, "finish")
          ELSE Enter(p, [req[p] EXCEPT !.pc = "write",
                                       !.row = [@ EXCEPT !.status = derived]])
     /\ UNCHANGED <<dbVars, eventVars, envVars>>

\* ProposalRepository.Update: the whole row, from the copy.
WriteProposal(p) ==
  /\ req[p].pc = "write"
  /\ proposal' = req[p].row
  /\ Goto(p, "finish")
  /\ UNCHANGED <<milestone, payVars, eventVars, envVars>>

\* Fault: a second submission keeps the timer of the first.
FinishSubmitOnce(p) ==
  /\ req[p].pc = "finish" /\ req[p].op = "submit"
  /\ timer' = IF timer[req[p].m] = {}
                THEN [timer EXCEPT ![req[p].m] = {req[p].ver + 1}] ELSE timer
  /\ Return(p)
  /\ UNCHANGED <<dbVars, closeTimer, envVars>>

\* Fault: only the first milestone is timed.
FinishSubmitFirstOnly(p) ==
  /\ req[p].pc = "finish" /\ req[p].op = "submit"
  /\ timer' = IF req[p].m = 1
                THEN [timer EXCEPT ![1] = @ \cup {req[p].ver + 1}] ELSE timer
  /\ Return(p)
  /\ UNCHANGED <<dbVars, closeTimer, envVars>>

\* The rest of RequestCompletion: schedule the auto-approval.
FinishSubmit(p) ==
  /\ req[p].pc = "finish" /\ req[p].op = "submit"
  /\ timer' = [timer EXCEPT ![req[p].m] = @ \cup {req[p].ver + 1}]
  /\ Return(p)
  /\ UNCHANGED <<dbVars, closeTimer, envVars>>

\* Fault: the automatic release forgets the auto-close timer.
FinishReleaseManualOnly(p) ==
  LET waiting == \E m \in Milestones :
                   /\ IsCurrentActive(Statuses, m)
                   /\ milestone[m].status = "pending_funding"
  IN /\ req[p].pc = "finish" /\ req[p].op \in {"complete", "auto_approve"}
     /\ IF req[p].row.status = "completed"
          THEN closeOut' = closeOut + 1 /\ UNCHANGED closeTimer
          ELSE /\ closeTimer' = IF waiting /\ req[p].op = "complete"
                                  THEN closeTimer + 1 ELSE closeTimer
               /\ UNCHANGED closeOut
     /\ Return(p)
     /\ UNCHANGED <<dbVars, timer, onboarded, crashes>>

\* The rest of CompleteProposal and AutoApproveMilestone: the end-of-project
\* effects when the copy says completed, else the auto-close timer of the
\* milestone that now waits for funding.
FinishRelease(p) ==
  LET waiting == \E m \in Milestones :
                   /\ IsCurrentActive(Statuses, m)
                   /\ milestone[m].status = "pending_funding"
  IN /\ req[p].pc = "finish" /\ req[p].op \in {"complete", "auto_approve"}
     /\ IF req[p].row.status = "completed"
          THEN closeOut' = closeOut + 1 /\ UNCHANGED closeTimer
          ELSE /\ closeTimer' = IF waiting THEN closeTimer + 1 ELSE closeTimer
               /\ UNCHANGED closeOut
     /\ Return(p)
     /\ UNCHANGED <<dbVars, timer, onboarded, crashes>>

\* Handlers with nothing left to do but send messages.
FinishOther(p) ==
  /\ req[p].pc = "finish"
  /\ req[p].op \notin {"submit", "complete", "auto_approve"}
  /\ Return(p)
  /\ UNCHANGED <<dbVars, eventVars, envVars>>

Step(p) ==
  \/ LoadForFunding(p) \/ ReadCurrent(p) \/ CreatePaymentIntent(p)
  \/ ScanForCancel(p)  \/ NextInSweep(p) \/ LockMilestone(p)
  \/ SaveMilestone(p)  \/ RecomputeMacroStatus(p) \/ WriteProposal(p)
  \/ FinishSubmit(p)   \/ FinishRelease(p) \/ FinishOther(p)

-----------------------------------------------------------------------------
(***************************************************************************)
(* The environment.                                                        *)
(***************************************************************************)
\* The client pays the PaymentIntent on Stripe's side.
SettleIntent(m) ==
  /\ payment[m] = "pending"
  /\ payment' = [payment EXCEPT ![m] = "settled"]
  /\ UNCHANGED <<milestone, proposal, newest, eventVars, envVars, req>>

\* The provider completes Stripe onboarding.
CompleteOnboarding ==
  /\ ~ onboarded
  /\ onboarded' = TRUE
  /\ UNCHANGED <<dbVars, eventVars, closeOut, crashes, req>>

\* A handler is cut off: the process dies, or a database call fails.  The
\* event of a worker is retried, a request is not.
Crash(p) ==
  /\ ~ IsIdle(p) /\ crashes < MaxCrashes
  /\ crashes' = crashes + 1
  /\ ReArm(p)
  /\ Return(p)
  /\ UNCHANGED <<dbVars, onboarded, closeOut>>

UserRequest(p) ==
  \/ AcceptProposal(p) \/ DeclineProposal(p) \/ CancelProposal(p)
  \/ ConfirmPayment(p) \/ AdminActivateProposal(p)
  \/ \E op \in {"pay", "submit", "complete", "reject"} : LoadProposal(p, op)

WorkerEvent(w) ==
  \/ \E m \in Milestones : PaymentSucceeded(w, m) \/ FireAutoApprove(w, m)
  \/ FireAutoClose(w)

Next ==
  \/ \E p \in Users : UserRequest(p)
  \/ \E w \in Workers : WorkerEvent(w)
  \/ \E p \in Procs : Step(p) \/ Crash(p)
  \/ \E m \in Milestones : SettleIntent(m)
  \/ CompleteOnboarding

Spec == Init /\ [][Next]_vars

(***************************************************************************)
(* A handler that has started runs on, and the worker, which claims due    *)
(* rows in fires_at order on every tick, gets to every event that keeps    *)
(* being due.  A confirmation is retried until the payment is recorded;    *)
(* repeating it afterwards is possible and never owed.  Nothing is assumed *)
(* of the users, of Stripe or of the provider.                             *)
(***************************************************************************)
Fairness ==
  /\ \A p \in Procs : WF_vars(Step(p))
  /\ \A w \in Workers :
       /\ SF_vars(FireAutoClose(w))
       /\ \A m \in Milestones : SF_vars(FireAutoApprove(w, m))
       /\ \A m \in Milestones :
            SF_vars(payment[m] = "settled" /\ PaymentSucceeded(w, m))

LiveSpec == Spec /\ Fairness

-----------------------------------------------------------------------------
(***************************************************************************)
(* Type correctness of every row, record and in-flight handler.            *)
(***************************************************************************)
RowType == [status : ProposalStatus, dispute : Nat]

RequestType ==
  [pc : Steps, op : Operations \cup {"none"}, m : 0 .. N, ver : Nat,
   to : MilestoneStatus \cup {"none"}, row : RowType,
   rest : SUBSET Milestones, sub : Nat]

TypeOK ==
  /\ milestone \in [Milestones -> [status : MilestoneStatus, version : Nat]]
  /\ proposal \in RowType
  /\ payment \in [Milestones -> {"none", "pending", "settled", "succeeded"}]
  /\ newest \in 0 .. N
  /\ timer \in [Milestones -> SUBSET Nat]
  /\ closeTimer \in Nat
  /\ onboarded \in BOOLEAN
  /\ closeOut \in Nat
  /\ crashes \in Nat
  /\ req \in [Procs -> RequestType]

(***************************************************************************)
(* The rows and versions refine the contract of module Escrow: whatever    *)
(* two handlers do to each other between their reads and their writes, the *)
(* version guard of milestone_repository.go Update turns it into one legal *)
(* transition of one milestone, or into nothing.                           *)
(***************************************************************************)
E == INSTANCE Escrow WITH status <- Statuses

ImplementsEscrow == E!Spec

(***************************************************************************)
(* Strict-sequential escrow over the rows: once a milestone has been       *)
(* funded every earlier milestone is over, though GetCurrentActive and the *)
(* versioned write that relies on its answer are separate statements.      *)
(***************************************************************************)
SequentialEscrow == E!Sequential

(***************************************************************************)
(* No stale copy can make the platform believe in a completion that did    *)
(* not happen: whenever the proposals row says completed, or the           *)
(* end-of-project effects (bonus credits, first-earning date) have run,    *)
(* every milestone is released.  (The doc of CancelProposal says completed *)
(* also of a contract that is cancelled after a release.  The code does    *)
(* not do that: such a contract stays active, and this is what is stated.) *)
(***************************************************************************)
CompletedMeansAllReleased ==
  proposal.status = "completed" \/ closeOut > 0 => AllReleased(Statuses)

(***************************************************************************)
(* No milestone enters escrow on a contract nobody has ever paid for: the  *)
(* confirmation endpoints ask Stripe before they call the proposal         *)
(* service.  (The admin's forced activation, which does not, is left out   *)
(* of the instances that check this.)                                      *)
(***************************************************************************)
FundingFollowsAPayment ==
  (\E m \in Milestones : EverFunded(milestone[m].status))
     => \E m \in Milestones : payment[m] = "succeeded"

(***************************************************************************)
(* What a handler between its read and its write may rely on, however many *)
(* others ran in between: a versioned write that is going to succeed still *)
(* finds the row in the status the domain method checked (or leaves it     *)
(* there); a funding in flight has every earlier milestone behind it, for  *)
(* good; a copy of the proposal that says completed is right.              *)
(***************************************************************************)
LockOps == {"fund", "submit", "complete", "reject", "cancel", "auto_approve",
            "auto_close"}

OnItsWay(r) ==
  /\ r.pc = "load" => r.op = "fund"
  /\ r.pc = "current" => r.op \in {"pay", "fund", "submit", "complete", "reject"}
  /\ r.pc \in {"scan", "sweep"} => Sweep(r.op)
  /\ r.pc \in {"lock", "save"} => r.op \in LockOps
  /\ r.pc \in {"lock", "save", "intent"} => r.m \in Milestones

WriteIsLegal(r) ==
  r.pc = "save" =>
    /\ r.ver <= milestone[r.m].version
    /\ r.ver = milestone[r.m].version =>
         \/ r.to = milestone[r.m].status
         \/ milestone[r.m].status = Expected(r.op) /\ r.to = Target(r.op)

FundingIsInOrder(r) ==
  r.pc \in {"lock", "save"} /\ r.op = "fund" =>
    \A i \in Milestones : i < r.m => IsTerminal(milestone[i].status)

CopyIsRight(r) == r.row.status = "completed" => AllReleased(Statuses)

Sound(r) ==
  OnItsWay(r) /\ WriteIsLegal(r) /\ FundingIsInOrder(r) /\ CopyIsRight(r)

HandlerInv == \A p \in Procs : Sound(req[p])

-----------------------------------------------------------------------------
(***************************************************************************)
(* Properties of one handler at a time, with no crash: what the services   *)
(* promise when nothing interferes.                                        *)
(***************************************************************************)
Quiescent == \A p \in Procs : IsIdle(p)

(***************************************************************************)
(* "The macro status of a proposal is a projection of its milestones"      *)
(* (recomputeMacroStatus): between handlers the proposals row agrees with  *)
(* the milestone rows.  It is the projection that the code computes, which *)
(* after a cancellation is not what the doc of CancelProposal announces    *)
(* (completed if a milestone was released, else declined) but active or    *)
(* accepted.                                                               *)
(***************************************************************************)
MacroStatusIsProjection ==
  Quiescent /\ ~ OutsideProjection(proposal.status)
    => proposal.status = DeriveMacroStatus(Statuses)

(***************************************************************************)
(* No escrow outside a contract: while the proposal is pending, declined   *)
(* or withdrawn no payment record and no funded milestone exists, so that  *)
(* a refused offer never holds money.                                      *)
(***************************************************************************)
NoEscrowOutsideContract ==
  OutsideProjection(proposal.status) =>
    \A m \in Milestones : /\ payment[m] = "none"
                          /\ ~ EverFunded(milestone[m].status)

(***************************************************************************)
(* The end-of-project effects of runEndOfProjectEffects, which nothing     *)
(* deduplicates, have run exactly once when a contract is completed and    *)
(* not at all before, whether the client or the timer released the last    *)
(* milestone.                                                              *)
(***************************************************************************)
CloseOutExactlyOnce ==
  Quiescent => closeOut = IF proposal.status = "completed" THEN 1 ELSE 0

(***************************************************************************)
(* Every submission that waits for a review has an auto-approval scheduled *)
(* for it (RequestCompletion).                                             *)
(***************************************************************************)
SubmissionIsTimed ==
  Quiescent /\ onboarded =>
    \A m \in Milestones : milestone[m].status = "submitted" =>
        milestone[m].version \in timer[m]

-----------------------------------------------------------------------------
(***************************************************************************)
(* Statements of the repository's documentation that the code does not     *)
(* keep.                                                                   *)
(***************************************************************************)
(***************************************************************************)
(* Every milestone that holds or has held escrow was paid for itself       *)
(* (milestone.Fund is "called after the Stripe PaymentIntent has been      *)
(* captured"; ConfirmPaymentAndActivate: "duplicate webhook deliveries     *)
(* don't double-fund").                                                    *)
(***************************************************************************)
FundedIsPaid ==
  \A m \in Milestones :
    EverFunded(milestone[m].status) => payment[m] = "succeeded"

(***************************************************************************)
(* An auto-approval releases the submission it was scheduled for: a        *)
(* rejection and a new submission reset the timer "from zero"              *)
(* (milestone.Reject, RejectCompletion).                                   *)
(***************************************************************************)
AutoApprovalActsOnItsSubmission ==
  \A p \in Procs :
    req[p].op = "auto_approve" /\ req[p].pc = "save" /\ req[p].to = "released"
      => req[p].ver = req[p].sub

(***************************************************************************)
(* The end-of-project effects run at most once: an auto-approval that      *)
(* loses the race against a manual approval "is a no-op"                   *)
(* (AutoApproveMilestone).                                                 *)
(***************************************************************************)
CloseOutAtMostOnce == closeOut <= 1

-----------------------------------------------------------------------------
(***************************************************************************)
(* Liveness.                                                               *)
(***************************************************************************)
(***************************************************************************)
(* A submission does not stay in review for ever, whatever the client      *)
(* does: the scheduler releases it if nobody else acts.                    *)
(***************************************************************************)
SubmittedIsSettled ==
  \A m \in Milestones :
    milestone[m].status = "submitted" ~> milestone[m].status # "submitted"

(***************************************************************************)
(* A client who disappears after a release does not leave milestones open: *)
(* the next one ends up paid for or cancelled.  This speaks of milestones  *)
(* only.  The proposals row stays active when all that is left has been    *)
(* cancelled, though scheduleProposalAutoClose is there to avoid           *)
(* "leaving the proposal in limbo forever".                                *)
(***************************************************************************)
GhostedProposalCloses ==
  \A m \in Milestones \ {1} :
    milestone[m - 1].status = "released" /\ milestone[m].status = "pending_funding"
      ~> milestone[m].status # "pending_funding"

(***************************************************************************)
(* A milestone for which Stripe has taken the money does not wait for ever *)
(* when the client's browser never confirms: the webhook alone gets it     *)
(* funded, unless a sweep cancels it first.                                *)
(***************************************************************************)
PaidMilestoneMovesOn ==
  \A m \in Milestones :
    payment[m] = "settled" ~> milestone[m].status # "pending_funding"
=============================================================================
