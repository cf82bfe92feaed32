-------------------------------- MODULE Dispute --------------------------------
(***************************************************************************)
(* Disputes over the milestones of one proposal (internal/app/dispute):    *)
(* the requests of the two parties, the admin's decision, the scheduler    *)
(* that escalates or settles what nobody answers, and the distribution of  *)
(* the money.  The proposal and milestone rows are shared with the         *)
(* proposal service, which appears here in coarse steps (Contract has it   *)
(* in full), and so is the payment record, which the provider's own payout *)
(* request also reads.                                                     *)
(*                                                                         *)
(* A handler is a sequence of statements in separate transactions, one     *)
(* action each.  disputes rows are written under a version; the proposals  *)
(* row and the offers are not.  What a handler decides from its copy of a  *)
(* row is written only if the row has not changed since, so the copy       *)
(* itself need not be kept: req[p].fresh says that the row is still the    *)
(* one that was read.  Where a versioned write directly follows its read   *)
(* the two are one action.                                                 *)
(***************************************************************************)
EXTENDS Milestone, Sequences, FiniteSets, SequencesExt, FiniteSetsExt

CONSTANTS
  N,            \* milestones of the contract
  Disputes,     \* dispute ids that may be drawn
  NoDispute,
  Procs,        \* processes that serve requests or run the scheduler
  Amount,       \* price of a milestone
  Shares,       \* splits somebody may ask for: what the provider keeps
  MaxOffers,    \* bound: offers made on one dispute
  MaxEvents     \* bound: requests begun and steps that fail, the scheduler's
                \* own work aside

Milestones == 1 .. N
Parties == {"client", "provider"}

ASSUME DisputeAssumption ==
  /\ N \in Nat \ {0} /\ Amount \in Nat \ {0} /\ Shares \subseteq 0 .. Amount
  /\ NoDispute \notin Disputes /\ IsFiniteSet(Procs) /\ IsFiniteSet(Disputes)
  /\ MaxOffers \in Nat \ {0} /\ MaxEvents \in Nat

VARIABLES
  milestone,   \* proposal_milestones rows: [status, dispute]
  proposal,    \* the proposals row: [status, dispute]
  dispute,     \* disputes rows
  offers,      \* offers[d]: dispute_counter_proposals rows, in order
  record,      \* record[m]: payment_records row [status, payout, transfer]
  ledger,      \* Stripe: transfers made, by idempotency key, and refunds
  req,         \* the handler each process is in the middle of
  distributed, \* distributed[d]: times the money of d was handed out
  events,      \* requests begun and steps failed so far
  calm         \* so far no fault, and no handler began while another ran

caseVars  == <<dispute, offers>>
workVars  == <<milestone, proposal>>
moneyVars == <<record, ledger>>
history   == <<distributed, events, calm>>
vars == <<caseVars, workVars, moneyVars, req, history>>

Statuses == [m \in Milestones |-> milestone[m].status]

IsOpen(row) == row.status \in {"open", "negotiation", "escalated"}

NoVerdict == [how |-> "none", share |-> 0]

Unused == [status |-> "none", ms |-> 1, by |-> "client", claim |-> 0, replied |-> FALSE,
           asked |-> "nobody", verdict |-> NoVerdict]

Idle == [pc |-> "idle", op |-> "none", by |-> "nobody", d |-> NoDispute, m |-> 1,
         fresh |-> FALSE, offer |-> 0, share |-> 0,
         row |-> [status |-> "active", dispute |-> NoDispute]]

\* A contract under way: the first milestone is funded, the others wait.
Init ==
  /\ milestone = [m \in Milestones |->
       [status |-> IF m = 1 THEN "funded" ELSE "pending_funding",
        dispute |-> NoDispute]]
  /\ proposal = [status |-> "active", dispute |-> NoDispute]
  /\ dispute = [d \in Disputes |-> Unused]
  /\ offers = [d \in Disputes |-> <<>>]
  /\ record = [m \in Milestones |->
       [status |-> IF m = 1 THEN "succeeded" ELSE "none",
        payout |-> Amount, transfer |-> "pending"]]
  /\ ledger = [transfers |-> {}, refunded |-> [m \in Milestones |-> 0]]
  /\ req = [p \in Procs |-> Idle]
  /\ distributed = [d \in Disputes |-> 0]
  /\ events = 0
  /\ calm = TRUE

-----------------------------------------------------------------------------
IsIdle(p) == req[p].pc = "idle"
Quiet == \A p \in Procs : IsIdle(p)

Begin(p, r) ==
  /\ IsIdle(p)
  /\ req' = [req EXCEPT ![p] = r]
  /\ IF r.by = "nobody" THEN UNCHANGED events
     ELSE events < MaxEvents /\ events' = events + 1
  /\ calm' = (calm /\ Quiet)
  /\ UNCHANGED distributed

Goto(p, step) == req' = [req EXCEPT ![p].pc = step]
Return(p) == req' = [req EXCEPT ![p] = Idle]

At(p, step) == req[p].pc = step

(***************************************************************************)
(* OpenDispute.                                                            *)
(***************************************************************************)
\* Handlers that will still draw an id, or add an offer to d.
Drawing == {p \in Procs : req[p].pc \in {"existing", "create"}}
Offering(d) == {p \in Procs : /\ req[p].d = d
                              /\ \/ req[p].pc \in {"freeze", "mark", "offer", "propose"}
                                 \/ req[p].pc = "supersede" /\ req[p].op = "counter"}

\* A party asks for more than nothing of the milestone's price.
CanClaim(by, share) == IF by = "client" THEN share < Amount ELSE share > 0

OpenDispute(p) ==
  /\ proposal.status \in {"active", "completion_requested"}
  /\ Cardinality(Drawing) < Cardinality({d \in Disputes : dispute[d] = Unused})
  /\ \E by \in Parties, share \in Shares :
       /\ CanClaim(by, share)
       /\ Begin(p, [Idle EXCEPT !.pc = "existing", !.op = "open", !.by = by,
                                !.share = share])
  /\ UNCHANGED <<caseVars, workVars, moneyVars>>

CheckExisting(p) ==
  /\ At(p, "existing")
  /\ IF \E d \in Disputes : IsOpen(dispute[d]) THEN Return(p) ELSE Goto(p, "create")
  /\ UNCHANGED <<caseVars, workVars, moneyVars, history>>

\* GetCurrentActive, NewDispute and the INSERT.
CreateDispute(p) ==
  LET Disputable(m) == /\ IsCurrentActive(Statuses, m)
                       /\ milestone[m].status \in {"funded", "submitted"}
  IN /\ At(p, "create")
     /\ \/ /\ \A m \in Milestones : ~ Disputable(m)
           /\ Return(p)
           /\ UNCHANGED dispute
        \/ \E m \in Milestones, d \in Disputes :
             /\ Disputable(m) /\ dispute[d] = Unused
             /\ dispute' = [dispute EXCEPT ![d] =
                  [Unused EXCEPT !.status = "open", !.ms = m, !.by = req[p].by,
                                 !.claim = req[p].share]]
             /\ req' = [req EXCEPT ![p].pc = "freeze", ![p].d = d, ![p].m = m]
     /\ UNCHANGED <<offers, workVars, moneyVars, history>>

\* Fault: a milestone that is over can be frozen too.
FreezeAny(p) ==
  /\ At(p, "freeze")
  /\ milestone' = [milestone EXCEPT ![req[p].m] =
                     [status |-> "disputed", dispute |-> req[p].d]]
  /\ Goto(p, "mark")
  /\ UNCHANGED <<caseVars, proposal, moneyVars, history>>

\* markMilestoneDisputed.  When the milestone has moved on, the request
\* fails and the dispute stays behind.
Freeze(p) ==
  LET m == req[p].m
      still == milestone[m].status \in {"funded", "submitted"}
  IN /\ At(p, "freeze")
     /\ IF still
          THEN /\ milestone' = [milestone EXCEPT ![m] =
                                  [status |-> "disputed", dispute |-> req[p].d]]
               /\ Goto(p, "mark")
          ELSE Return(p) /\ UNCHANGED milestone
     /\ UNCHANGED <<caseVars, proposal, moneyVars, history>>

\* Fault: only the milestone is frozen.
MarkProposalForgotten(p) ==
  /\ At(p, "mark")
  /\ Goto(p, "offer")
  /\ UNCHANGED <<caseVars, workVars, moneyVars, history>>

\* MarkDisputed on the copy that was found active, written back whole.
MarkProposal(p) ==
  /\ At(p, "mark")
  /\ proposal' = [status |-> "disputed", dispute |-> req[p].d]
  /\ Goto(p, "offer")
  /\ UNCHANGED <<caseVars, milestone, moneyVars, history>>

AddOffer(p) ==
  offers' = [offers EXCEPT ![req[p].d] =
               Append(@, [by |-> req[p].by, share |-> req[p].share,
                          status |-> "pending"])]

\* The claim is also the first offer.
FirstOffer(p) ==
  /\ At(p, "offer")
  /\ AddOffer(p)
  /\ Return(p)
  /\ UNCHANGED <<dispute, workVars, moneyVars, history>>

-----------------------------------------------------------------------------
(***************************************************************************)
(* Requests on an open dispute.  Each starts by reading the row.           *)
(***************************************************************************)
On(op, by, d, step) ==
  [Idle EXCEPT !.pc = step, !.op = op, !.by = by, !.d = d, !.fresh = TRUE]

CounterPropose(p) ==
  /\ \E d \in Disputes, by \in Parties, share \in Shares :
       /\ IsOpen(dispute[d])
       /\ Len(offers[d]) + Cardinality(Offering(d)) < MaxOffers
       /\ Begin(p, [On("counter", by, d, "supersede") EXCEPT !.share = share])
  /\ UNCHANGED <<caseVars, workVars, moneyVars>>

\* No look at the status here: Resolve does it after the offer is updated.
RespondToCounter(p) ==
  /\ \E d \in Disputes, by \in Parties, op \in {"accept", "reject"} :
       /\ dispute[d] # Unused
       /\ \E i \in 1 .. Len(offers[d]) :
            offers[d][i].status = "pending" /\ offers[d][i].by # by
       /\ Begin(p, On(op, by, d, "consider"))
  /\ UNCHANGED <<caseVars, workVars, moneyVars>>

\* Direct while the respondent has not reacted, by consent from then on.
CancelDispute(p) ==
  /\ \E d \in Disputes, by \in Parties :
       LET direct == by = dispute[d].by /\ ~ dispute[d].replied
       IN /\ IsOpen(dispute[d])
          /\ direct \/ dispute[d].asked = "nobody"
          /\ Begin(p, IF direct THEN On("cancel", by, d, "save")
                                ELSE On("ask", by, d, "supersede"))
  /\ UNCHANGED <<caseVars, workVars, moneyVars>>

\* Whatever the status is.
RespondToCancellation(p) ==
  /\ \E d \in Disputes, by \in Parties, op \in {"agree", "refuse"} :
       /\ dispute[d].asked \in Parties \ {by}
       /\ Begin(p, On(op, by, d, "save"))
  /\ UNCHANGED <<caseVars, workVars, moneyVars>>

AdminResolve(p) ==
  /\ \E d \in Disputes, share \in Shares :
       /\ dispute[d].status = "escalated"
       /\ Begin(p, [On("decide", "admin", d, "save") EXCEPT !.share = share])
  /\ UNCHANGED <<caseVars, workVars, moneyVars>>

\* Fault: the scheduler leaves a negotiation alone.
TickOpenOnly(p) ==
  /\ \E d \in Disputes :
       /\ dispute[d].status = "open"
       /\ Begin(p, IF dispute[d].replied THEN On("escalate", "nobody", d, "save")
                   ELSE [On("auto", "nobody", d, "save") EXCEPT !.share = dispute[d].claim])
  /\ UNCHANGED <<caseVars, workVars, moneyVars>>

\* The scheduler finds d inactive for a week.
Tick(p) ==
  /\ \E d \in Disputes :
       /\ dispute[d].status \in {"open", "negotiation"}
       /\ Begin(p, IF dispute[d].status = "open" /\ ~ dispute[d].replied
                   THEN [On("auto", "nobody", d, "save") EXCEPT !.share = dispute[d].claim]
                   ELSE On("escalate", "nobody", d, "save"))
  /\ UNCHANGED <<caseVars, workVars, moneyVars>>

\* The same escalation, on request.
ForceEscalate(p) ==
  /\ \E d \in Disputes :
       /\ dispute[d].status \in {"open", "negotiation"}
       /\ Begin(p, On("escalate", "nobody", d, "save"))
  /\ UNCHANGED <<caseVars, workVars, moneyVars>>

-----------------------------------------------------------------------------
\* SupersedeAllPending.
Supersede(p) ==
  LET d == req[p].d IN
  /\ At(p, "supersede")
  /\ offers' = [offers EXCEPT ![d] = [i \in DOMAIN @ |->
       IF @[i].status = "pending" THEN [@[i] EXCEPT !.status = "superseded"] ELSE @[i]]]
  /\ Goto(p, IF req[p].op = "counter" THEN "propose" ELSE "save")
  /\ UNCHANGED <<dispute, workVars, moneyVars, history>>

CreateCounterProposal(p) ==
  /\ At(p, "propose")
  /\ AddOffer(p)
  /\ Goto(p, "save")
  /\ UNCHANGED <<dispute, workVars, moneyVars, history>>

\* GetCounterProposalByID, Accept or Reject on the copy ...
Consider(p) ==
  LET r == req[p]
      Mine(i) == offers[r.d][i].status = "pending" /\ offers[r.d][i].by # r.by
  IN /\ At(p, "consider")
     /\ \/ /\ \A i \in DOMAIN offers[r.d] : ~ Mine(i)
           /\ Return(p)
        \/ \E i \in DOMAIN offers[r.d] :
             /\ Mine(i)
             /\ req' = [req EXCEPT ![p].pc = "answer", ![p].offer = i,
                          ![p].share = IF r.op = "accept" THEN offers[r.d][i].share ELSE 0]
     /\ UNCHANGED <<caseVars, workVars, moneyVars, history>>

\* ... and UpdateCounterProposal, unversioned.
Answer(p) ==
  /\ At(p, "answer")
  /\ offers' = [offers EXCEPT ![req[p].d][req[p].offer].status =
                  IF req[p].op = "accept" THEN "accepted" ELSE "rejected"]
  /\ Goto(p, "save")
  /\ UNCHANGED <<dispute, workVars, moneyVars, history>>

Rule(row, how, share) ==
  [row EXCEPT !.status = "resolved", !.verdict = [how |-> how, share |-> share]]

\* What the handler made of its copy.
Saved(r, row) ==
  CASE r.op = "counter"  -> [row EXCEPT !.status = IF @ = "open" THEN "negotiation" ELSE @,
                                        !.replied = @ \/ r.by # row.by, !.asked = "nobody"]
    [] r.op = "accept"   -> Rule(row, "amicable", r.share)
    [] r.op = "reject"   -> [row EXCEPT !.replied = @ \/ r.by # row.by]
    [] r.op = "ask"      -> [row EXCEPT !.asked = r.by]
    [] r.op = "refuse"   -> [row EXCEPT !.asked = "nobody"]
    [] r.op = "escalate" -> [row EXCEPT !.status = "escalated"]
    [] r.op = "decide"   -> Rule(row, "admin", r.share)
    [] r.op = "auto"     -> Rule(row, "auto", r.share)
    [] r.op \in {"cancel", "agree"} -> [row EXCEPT !.status = "cancelled"]

Rulings == {"accept", "decide", "auto"}

\* Every other copy of row d is out of date from now on.
Continue(p, step) ==
  req' = [q \in Procs |->
            IF q = p THEN IF step = "idle" THEN Idle
                          ELSE [req[p] EXCEPT !.pc = step, !.fresh = FALSE]
            ELSE IF req[q].d = req[p].d THEN [req[q] EXCEPT !.fresh = FALSE]
            ELSE req[q]]

\* Fault: UPDATE ... WHERE id.
SaveUnversioned(p) ==
  LET r == req[p]
      refused == r.op = "accept" /\ ~ IsOpen(dispute[r.d])
  IN /\ At(p, "save")
     /\ IF refused
          THEN Return(p) /\ UNCHANGED dispute
          ELSE /\ dispute' = [dispute EXCEPT ![r.d] = Saved(r, @)]
               /\ Continue(p, IF r.op \in Rulings THEN "settle"
                              ELSE IF r.op \in {"cancel", "agree"} THEN "reload"
                              ELSE "idle")
     /\ UNCHANGED <<offers, workVars, moneyVars, history>>

\* UPDATE ... WHERE id AND version; the request fails on a conflict.  An
\* agreement on a dispute that is over is refused only here, by Resolve.
SaveDispute(p) ==
  LET r == req[p]
      refused == r.op = "accept" /\ ~ IsOpen(dispute[r.d])
  IN /\ At(p, "save")
     /\ IF refused \/ ~ r.fresh
          THEN Return(p) /\ UNCHANGED dispute
          ELSE /\ dispute' = [dispute EXCEPT ![r.d] = Saved(r, @)]
               /\ Continue(p, IF r.op \in Rulings THEN "settle"
                              ELSE IF r.op \in {"cancel", "agree"} THEN "reload"
                              ELSE "idle")
     /\ UNCHANGED <<offers, workVars, moneyVars, history>>

\* After a cancellation: the proposal is loaded again, and written back as
\* active if it was disputed.  The milestone is not touched.
ReloadProposal(p) ==
  /\ At(p, "reload")
  /\ IF proposal.status = "disputed" THEN Goto(p, "rewrite") ELSE Return(p)
  /\ UNCHANGED <<caseVars, workVars, moneyVars, history>>

Reactivate(p) ==
  /\ At(p, "rewrite")
  /\ proposal' = [status |-> "active", dispute |-> NoDispute]
  /\ Return(p)
  /\ UNCHANGED <<caseVars, milestone, moneyVars, history>>

-----------------------------------------------------------------------------
(***************************************************************************)
(* restoreProposalAndDistribute, and the scheduler's shorter version of it *)
(* that gives up on a proposal that is not disputed and never looks at the *)
(* milestones.  A step of the former that fails is logged and skipped.     *)
(***************************************************************************)
LoadForSettling(p) ==
  /\ At(p, "settle")
  /\ IF req[p].op = "auto" /\ proposal.status # "disputed"
       THEN Return(p)
       ELSE req' = [req EXCEPT ![p].pc = IF req[p].op = "auto" THEN "complete" ELSE "thaw",
                               ![p].row = proposal]
  /\ UNCHANGED <<caseVars, workVars, moneyVars, history>>

\* restoreMilestoneFromDispute.
Thaw(p) ==
  LET m == dispute[req[p].d].ms IN
  /\ At(p, "thaw")
  /\ milestone' = IF milestone[m].status = "disputed"
       THEN [milestone EXCEPT ![m] =
               [status |-> IF req[p].share = 0 THEN "refunded" ELSE "released",
                dispute |-> NoDispute]]
       ELSE milestone
  /\ Goto(p, "sweep")
  /\ UNCHANGED <<caseVars, proposal, moneyVars, history>>

\* cancelPendingFundingMilestones, one milestone at a time.
Sweep(p) ==
  LET waiting == {m \in Milestones : milestone[m].status = "pending_funding"} IN
  /\ At(p, "sweep")
  /\ \/ /\ waiting = {}
        /\ Goto(p, "complete")
        /\ UNCHANGED milestone
     \/ \E m \in waiting :
          /\ \A k \in waiting : m <= k
          /\ milestone' = [milestone EXCEPT ![m].status = "cancelled"]
          /\ UNCHANGED req
  /\ UNCHANGED <<caseVars, proposal, moneyVars, history>>

CompleteProposal(p) ==
  /\ At(p, "complete")
  /\ proposal' = IF req[p].row.status = "disputed"
                   THEN [status |-> "completed", dispute |-> NoDispute]
                   ELSE proposal
  /\ Goto(p, "transfer")
  /\ UNCHANGED <<caseVars, milestone, moneyVars, history>>

\* The record of the proposal created last.
Newest == Max({m \in Milestones : record[m].status # "none"})

\* CreateTransfer with an idempotency key: key 0 stands for the one made of
\* the proposal and the amount, m for the one made of record m.
Transferred(key, amount) ==
  IF \E t \in ledger.transfers :
       t.key = key /\ (key = 0 => t.amount = amount)
    THEN ledger
    ELSE [ledger EXCEPT !.transfers = @ \cup {[key |-> key, amount |-> amount]}]

\* Fault: a transfer that cannot be made leaves the record as it was.
TransferPartialToProviderLazily(p) ==
  LET share == req[p].share
      rec == record[Newest]
  IN /\ At(p, "transfer")
     /\ \/ /\ share = 0 \/ rec.status # "succeeded"
           /\ UNCHANGED moneyVars
        \/ /\ share > 0 /\ rec.status = "succeeded"
           /\ UNCHANGED moneyVars
        \/ /\ share > 0 /\ rec.status = "succeeded"
           /\ ledger' = Transferred(0, share)
           /\ record' = IF rec.transfer = "completed" THEN record
                        ELSE [record EXCEPT ![Newest].payout = share,
                                            ![Newest].transfer = "completed"]
     /\ distributed' = [distributed EXCEPT ![req[p].d] = @ + 1]
     /\ Goto(p, "refund")
     /\ UNCHANGED <<caseVars, workVars, events, calm>>

\* Fault: Stripe is asked for a transfer of nothing.
TransferPartialToProviderAlways(p) ==
  LET share == req[p].share
      rec == record[Newest]
  IN /\ At(p, "transfer")
     /\ IF rec.status = "succeeded"
          THEN /\ ledger' = Transferred(0, share)
               /\ record' = [record EXCEPT ![Newest].payout = share,
                                           ![Newest].transfer = "completed"]
          ELSE UNCHANGED moneyVars
     /\ distributed' = [distributed EXCEPT ![req[p].d] = @ + 1]
     /\ Goto(p, "refund")
     /\ UNCHANGED <<caseVars, workVars, events, calm>>

\* TransferPartialToProvider, if the provider keeps anything: deferred when
\* there is no Stripe account or Stripe refuses, else made.
TransferPartialToProvider(p) ==
  LET share == req[p].share
      rec == record[Newest]
  IN /\ At(p, "transfer")
     /\ \/ /\ share = 0 \/ rec.status # "succeeded"
           /\ UNCHANGED moneyVars
        \/ /\ share > 0 /\ rec.status = "succeeded"
           /\ record' = [record EXCEPT ![Newest].payout = share]
           /\ UNCHANGED ledger
        \/ /\ share > 0 /\ rec.status = "succeeded"
           /\ ledger' = Transferred(0, share)
           /\ record' = IF rec.transfer = "completed" THEN record
                        ELSE [record EXCEPT ![Newest].payout = share,
                                            ![Newest].transfer = "completed"]
     /\ distributed' = [distributed EXCEPT ![req[p].d] = @ + 1]
     /\ Goto(p, "refund")
     /\ UNCHANGED <<caseVars, workVars, events, calm>>

\* RefundToClient, if anything is left for the client.  Stripe refuses to
\* refund more than was charged; the refund carries no idempotency key.
RefundToClient(p) ==
  LET left == Amount - req[p].share
      m == Newest
  IN /\ At(p, "refund")
     /\ IF left > 0 /\ ledger.refunded[m] + left <= Amount
          THEN /\ ledger' = [ledger EXCEPT !.refunded[m] = @ + left]
               /\ record' = IF record[m].payout = 0 /\ record[m].status = "succeeded"
                              THEN [record EXCEPT ![m].status = "refunded"] ELSE record
          ELSE UNCHANGED moneyVars
     /\ Return(p)
     /\ UNCHANGED <<caseVars, workVars, history>>

-----------------------------------------------------------------------------
(***************************************************************************)
(* The neighbours.                                                         *)
(***************************************************************************)
\* What the proposal service does to the current milestone: [from, to].
WorkOps == {<<"pending_funding", "funded">>, <<"funded", "submitted">>,
            <<"submitted", "funded">>, <<"submitted", "released">>}

\* A handler of the proposal service loads the proposal ...
BeginWork(p) ==
  /\ \E m \in Milestones, w \in WorkOps :
       /\ IsCurrentActive(Statuses, m) /\ milestone[m].status = w[1]
       /\ Begin(p, [Idle EXCEPT !.pc = "work", !.op = w[2],
                                !.by = "neighbour", !.row = proposal])
  /\ UNCHANGED <<caseVars, workVars, moneyVars>>

\* ... moves the current milestone under its lock, projects the result onto
\* its copy of the proposal ...
Work(p) ==
  LET to == req[p].op
      Ready(m) == /\ IsCurrentActive(Statuses, m)
                  /\ <<milestone[m].status, to>> \in WorkOps
  IN /\ At(p, "work")
     /\ \/ /\ \A m \in Milestones : ~ Ready(m)
           /\ Return(p)
           /\ UNCHANGED <<milestone, record>>
        \/ \E m \in Milestones :
             /\ Ready(m)
             /\ milestone' = [milestone EXCEPT ![m].status = to]
             /\ req' = [req EXCEPT ![p].pc = "write", ![p].m = m,
                          ![p].row.status = DeriveMacroStatus([Statuses EXCEPT ![m] = to])]
             /\ record' = IF milestone[m].status = "pending_funding"
                            THEN [record EXCEPT ![m].status = "succeeded"] ELSE record
     /\ UNCHANGED <<caseVars, proposal, ledger, history>>

\* The provider is paid from record m, if it has not been.
PayOut(m) ==
  /\ record[m].status = "succeeded" /\ record[m].transfer = "pending"
  /\ record[m].payout > 0
  /\ ledger' = Transferred(m, record[m].payout)
  /\ record' = [record EXCEPT ![m].transfer = "completed"]

\* ... writes the copy back whole and, after a release, may transfer.
WriteWork(p) ==
  /\ At(p, "write")
  /\ proposal' = req[p].row
  /\ \/ UNCHANGED moneyVars
     \/ req[p].op = "released" /\ PayOut(req[p].m)
  /\ Return(p)
  /\ UNCHANGED <<caseVars, milestone, history>>

\* The provider withdraws what completed proposals owe.
RequestPayout(m) ==
  /\ proposal.status = "completed"
  /\ PayOut(m)
  /\ calm' = (calm /\ Quiet)
  /\ UNCHANGED <<caseVars, workVars, req, distributed, events>>

\* A handler is cut off: its process dies, a query fails, or the milestone
\* changes between the two halves of a versioned update.
Crash(p) ==
  /\ ~ IsIdle(p) /\ events < MaxEvents
  /\ Return(p)
  /\ events' = events + 1 /\ calm' = FALSE
  /\ UNCHANGED <<caseVars, workVars, moneyVars, distributed>>

After(step) == CASE step = "thaw" -> "sweep" [] step = "sweep" -> "complete"
                 [] step = "complete" -> "transfer" [] step = "transfer" -> "refund"

\* A step of a settlement fails and the next one follows.
StepFails(p) ==
  /\ req[p].pc \in {"thaw", "sweep", "complete", "transfer"} /\ events < MaxEvents
  /\ Goto(p, After(req[p].pc))
  /\ events' = events + 1 /\ calm' = FALSE
  /\ UNCHANGED <<caseVars, workVars, moneyVars, distributed>>

Start(p) ==
  \/ OpenDispute(p) \/ CounterPropose(p) \/ RespondToCounter(p)
  \/ CancelDispute(p) \/ RespondToCancellation(p) \/ AdminResolve(p)
  \/ Tick(p) \/ ForceEscalate(p) \/ BeginWork(p)

Step(p) ==
  \/ CheckExisting(p) \/ CreateDispute(p) \/ Freeze(p) \/ MarkProposal(p)
  \/ FirstOffer(p) \/ Supersede(p) \/ CreateCounterProposal(p)
  \/ Consider(p) \/ Answer(p) \/ SaveDispute(p) \/ ReloadProposal(p)
  \/ Reactivate(p) \/ LoadForSettling(p) \/ Thaw(p) \/ Sweep(p)
  \/ CompleteProposal(p) \/ TransferPartialToProvider(p)
  \/ RefundToClient(p) \/ Work(p) \/ WriteWork(p)

Next ==
  \/ \E p \in Procs : Start(p) \/ Step(p) \/ Crash(p) \/ StepFails(p)
  \/ \E m \in Milestones : RequestPayout(m)

Spec == Init /\ [][Next]_vars

LiveSpec ==
  /\ Spec
  /\ \A p \in Procs : WF_vars(Step(p))
  /\ SF_vars(\E p \in Procs : Tick(p))

-----------------------------------------------------------------------------
(***************************************************************************)
(* Properties.                                                             *)
(***************************************************************************)
Steps == {"idle", "existing", "create", "freeze", "mark", "offer", "supersede",
          "propose", "consider", "answer", "save", "reload", "rewrite", "settle",
          "thaw", "sweep", "complete", "transfer", "refund", "work", "write"}

Ops == {"none", "open", "counter", "accept", "reject", "cancel", "ask", "agree",
        "refuse", "decide", "auto", "escalate", "funded", "submitted", "released"}

Row == [status : {"active", "completion_requested", "disputed", "completed",
                  "accepted"},
        dispute : Disputes \cup {NoDispute}]

Handler == [pc : Steps, op : Ops, by : Parties \cup {"nobody", "admin", "neighbour"},
            d : Disputes \cup {NoDispute}, m : Milestones, fresh : BOOLEAN,
            offer : Nat, share : 0 .. Amount, row : Row]

Verdict == [how : {"none", "amicable", "admin", "auto"}, share : 0 .. Amount]

(***************************************************************************)
(* The type invariant.                                                     *)
(***************************************************************************)
TypeOK ==
  /\ milestone \in [Milestones ->
       [status : MilestoneStatus, dispute : Disputes \cup {NoDispute}]]
  /\ proposal \in Row
  /\ dispute \in [Disputes ->
       [status : {"none", "open", "negotiation", "escalated", "resolved", "cancelled"},
        ms : Milestones, by : Parties, claim : 0 .. Amount, replied : BOOLEAN,
        asked : Parties \cup {"nobody"}, verdict : Verdict]]
  /\ offers \in [Disputes -> Seq([by : Parties, share : 0 .. Amount,
       status : {"pending", "accepted", "rejected", "superseded"}])]
  /\ record \in [Milestones ->
       [status : {"none", "succeeded", "refunded"}, payout : 0 .. Amount,
        transfer : {"pending", "completed"}]]
  /\ ledger \in [transfers : SUBSET [key : 0 .. N, amount : 1 .. Amount],
                refunded : [Milestones -> 0 .. Amount]]
  /\ req \in [Procs -> Handler]
  /\ distributed \in [Disputes -> Nat] /\ events \in 0 .. MaxEvents /\ calm \in BOOLEAN

(***************************************************************************)
(* The money of a dispute is handed out at most once, whoever rules on it  *)
(* at the same moment: the party that accepts, the admin, the scheduler.   *)
(* Refunds have no idempotency key, so only the version of the disputes    *)
(* row keeps two settlements apart.                                        *)
(***************************************************************************)
DistributedOnce == \A d \in Disputes : distributed[d] <= 1

(***************************************************************************)
(* A verdict is final, and founded when it is given: an amicable one is an *)
(* offer of the other party, an admin's follows an escalation, and the     *)
(* scheduler rules for the initiator only while the respondent is silent.  *)
(***************************************************************************)
Founded(d, v) ==
  CASE v.how = "amicable" -> \E i \in DOMAIN offers[d], p \in Procs :
                               /\ req[p].d = d /\ req[p].op = "accept"
                               /\ offers[d][i].by # req[p].by
                               /\ offers[d][i].share = v.share
    [] v.how = "admin"    -> dispute[d].status = "escalated"
    [] v.how = "auto"     -> /\ dispute[d].status = "open" /\ ~ dispute[d].replied
                             /\ v.share = dispute[d].claim
    [] OTHER              -> FALSE

VerdictsAreFounded ==
  [][\A d \in Disputes : dispute'[d].verdict # dispute[d].verdict =>
       dispute[d].verdict = NoVerdict /\ Founded(d, dispute'[d].verdict)]_vars

(***************************************************************************)
(* While a dispute is open the contract is frozen: its milestone and the   *)
(* proposal both say so, and name it; and a proposal that says so has an   *)
(* open dispute ("so the macro state and the milestone-level state stay    *)
(* coherent", OpenDispute).                                                *)
(***************************************************************************)
OpenMeansFrozen ==
  calm /\ Quiet =>
    /\ \A d \in Disputes : IsOpen(dispute[d]) =>
         /\ proposal = [status |-> "disputed", dispute |-> d]
         /\ milestone[dispute[d].ms] = [status |-> "disputed", dispute |-> d]
    /\ proposal.status = "disputed" =>
         proposal.dispute \in Disputes /\ IsOpen(dispute[proposal.dispute])

\* What the provider has got out of milestone m, and may still withdraw.
Received(m) == MapThenSumSet(LAMBDA t : t.amount,
                             {t \in ledger.transfers : t.key \in {0, m}})
Owed(m) == IF record[m].status = "succeeded" /\ record[m].transfer = "pending"
             THEN record[m].payout ELSE 0

(***************************************************************************)
(* A verdict that leaves the provider something is carried out: the two    *)
(* parts add up to the price and each party has got, or can withdraw, its  *)
(* own; the proposal is completed and, unless the scheduler ruled, the     *)
(* milestone is released and nothing is left to fund.                      *)
(***************************************************************************)
VerdictIsCarriedOut ==
  calm /\ Quiet =>
    \A d \in Disputes :
      LET v == dispute[d].verdict
          m == dispute[d].ms
      IN v.share > 0 =>
           /\ ledger.refunded[m] = Amount - v.share
           /\ Received(m) + Owed(m) = v.share
           /\ proposal = [status |-> "completed", dispute |-> NoDispute]
           /\ v.how # "auto" =>
                /\ milestone[m] = [status |-> "released", dispute |-> NoDispute]
                /\ \A k \in Milestones : milestone[k].status # "pending_funding"

(***************************************************************************)
(* The dispute handlers move milestones only along the lifecycle that      *)
(* Escrow promises, whatever the proposal service does meanwhile.          *)
(***************************************************************************)
E == INSTANCE Escrow WITH status <- Statuses

MilestonesAdvance == [][E!Next]_Statuses

(***************************************************************************)
(* Nobody is kept waiting by silence: the scheduler rules on, or escalates *)
(* to the admin, every dispute the parties leave alone.                    *)
(***************************************************************************)
SilenceIsEnded ==
  \A d \in Disputes : dispute[d].status \in {"open", "negotiation"}
                        ~> dispute[d].status \notin {"open", "negotiation"}

(***************************************************************************)
(* "The record's ProviderPayout MUST always reflect the admin / amiable /  *)
(* scheduler decision ... Otherwise RequestPayout later transfers the      *)
(* original proposal amount" (TransferPartialToProvider): a provider who   *)
(* was left nothing has got nothing and can withdraw nothing.              *)
(***************************************************************************)
NothingMeansNothing ==
  calm /\ Quiet =>
    \A d \in Disputes : dispute[d].verdict.how # "none" /\ dispute[d].verdict.share = 0
      => Received(dispute[d].ms) + Owed(dispute[d].ms) = 0
=============================================================================
