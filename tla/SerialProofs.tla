----------------------------- MODULE SerialProofs -----------------------------
(***************************************************************************)
(* What Contract promises when handlers run one at a time.  All four       *)
(* promises speak of the moments between two handlers (one of them of      *)
(* every moment); what makes them inductive is the situation at each step  *)
(* of the one handler that may be running: which row it has written and    *)
(* which it is about to, and that nothing it has read has changed since.   *)
(* The admin's forced activation, which funds a milestone of a proposal    *)
(* nobody accepted, is excluded.                                           *)
(***************************************************************************)
EXTENDS Serial, ContractProofs

St(m) == milestone[m].status

\* The steps at which a handler's copy of the proposal is the row.
Holding == {"current", "intent", "scan", "sweep", "lock", "save", "derive", "finish"}

ReleaseOps == {"complete", "auto_approve"}

\* Where a handler is, and its copy of the proposal.
Underway(r) ==
  /\ r.pc \in Holding => r.row = proposal
  /\ r.pc = "intent" => r.op = "pay"
  /\ r.pc = "derive" => r.op \in LockOps
  /\ r.pc = "write" => r.op \in LockOps \cup {"accept", "decline"}
  /\ r.op \in {"pay", "fund"} => ~ OutsideProjection(proposal.status)

\* No write fails: the milestones are still as the handler has found them.
Certain(r) ==
  /\ r.pc \in {"lock", "save"} => St(r.m) = Expected(r.op)
  /\ r.pc = "save" => r.to = Target(r.op) /\ r.ver = milestone[r.m].version
  /\ r.pc \in {"sweep", "lock", "save"} /\ Sweep(r.op) =>
       \A k \in r.rest : St(k) = "pending_funding" /\ (r.pc # "sweep" => k # r.m)

\* The milestone row is written, the proposal's is not.
Changed(r) == r.pc \in {"derive", "write"} /\ r.op \in LockOps /\ ~ Sweep(r.op)

(***************************************************************************)
(* The proposals row is the projection of the milestones but in between    *)
(* the two writes; a sweep does not change the projection.                 *)
(***************************************************************************)
Projected(r) ==
  /\ Changed(r) => /\ r.m \in Milestones /\ St(r.m) = Target(r.op)
                   /\ proposal.status # "completed"
  /\ ~ Changed(r) /\ ~ OutsideProjection(proposal.status) =>
       proposal.status = DeriveMacroStatus(Statuses)
  /\ r.pc = "write" =>
       IF r.op \in LockOps
       THEN /\ r.row.status = DeriveMacroStatus(Statuses)
            /\ ~ OutsideProjection(proposal.status)
       ELSE /\ r.row.status \in {"accepted", "declined"}
            /\ proposal.status = "pending"

\* The end-of-project effects are the last step of the handler that completes
\* the contract.
ClosedOut(r) ==
  closeOut = IF proposal.status = "completed"
                /\ ~ (r.pc = "finish" /\ r.op \in ReleaseOps)
             THEN 1 ELSE 0

\* The timer of a submission is set last, and taken first.
Timed(r) ==
  onboarded => \A m \in Milestones : St(m) = "submitted" =>
    \/ milestone[m].version \in timer[m]
    \/ /\ r.op = "submit" /\ r.pc \in {"derive", "write", "finish"}
       /\ r.m = m /\ milestone[m].version = r.ver + 1
    \/ r.op = "auto_approve" /\ r.pc \in {"lock", "save"} /\ r.m = m

(***************************************************************************)
(* The situation while r is the handler that runs, or none does.           *)
(***************************************************************************)
Situation(r) ==
  /\ \A m \in Milestones : St(m) # "disputed"
  /\ NoEscrowOutsideContract
  /\ Underway(r) /\ Certain(r) /\ Projected(r) /\ ClosedOut(r) /\ Timed(r)

SerialInv ==
  alone => /\ NoOverlap
           /\ Quiescent => Situation(Idle)
           /\ \A p \in Procs : ~ IsIdle(p) => Situation(req[p])

-----------------------------------------------------------------------------
(***************************************************************************)
(* Facts about the projection.                                             *)
(***************************************************************************)
LEMMA ProjectionIsInside ==
  ASSUME NEW st
  PROVE  ~ OutsideProjection(DeriveMacroStatus(st))
BY DEF DeriveMacroStatus, OutsideProjection

\* Nothing is disputed in a contract without disputed milestones.
LEMMA ProjectionOfNoDispute ==
  ASSUME NEW st, \A m \in DOMAIN st : st[m] # "disputed"
  PROVE  DeriveMacroStatus(st) # "disputed"
BY DEF DeriveMacroStatus

\* A contract on which no money was ever engaged projects to accepted.
LEMMA ProjectionOfAnOffer ==
  ASSUME TypeOK, \A m \in Milestones : ~ EverFunded(milestone[m].status)
  PROVE  DeriveMacroStatus(Statuses) = "accepted"
<1>1. DOMAIN Statuses = Milestones /\ \A m \in Milestones : Statuses[m] = milestone[m].status
  BY DEF Statuses
<1>2. \A m \in Milestones :
        Statuses[m] \notin {"disputed", "released", "submitted", "approved", "funded",
                            "refunded"}
  BY <1>1 DEF EverFunded, IsActive
<1>3. ~ AllReleased(Statuses)
  BY <1>1, <1>2, NMilestone DEF AllReleased
<1> QED BY <1>1, <1>2, <1>3 DEF DeriveMacroStatus

\* Cancelling a milestone that waits for funding does not show in it.
LEMMA CancellingDoesNotShow ==
  ASSUME NEW st, NEW st1, NEW m \in DOMAIN st, DOMAIN st1 = DOMAIN st,
         st[m] = "pending_funding", st1[m] = "cancelled",
         \A k \in DOMAIN st : k # m => st1[k] = st[k]
  PROVE  DeriveMacroStatus(st1) = DeriveMacroStatus(st)
<1>1. ~ AllReleased(st) /\ ~ AllReleased(st1)
  BY DEF AllReleased
<1>2. ASSUME NEW S, "pending_funding" \notin S, "cancelled" \notin S
      PROVE  (\E k \in DOMAIN st1 : st1[k] \in S) <=> (\E k \in DOMAIN st : st[k] \in S)
  BY <1>2
<1>3. (\E k \in DOMAIN st1 : st1[k] = "disputed") <=> (\E k \in DOMAIN st : st[k] = "disputed")
  OBVIOUS
<1>4. (\E k \in DOMAIN st1 : st1[k] \in {"submitted", "approved"})
        <=> (\E k \in DOMAIN st : st[k] \in {"submitted", "approved"})
  BY <1>2
<1>5. (\E k \in DOMAIN st1 : st1[k] \in {"funded", "released", "refunded"})
        <=> (\E k \in DOMAIN st : st[k] \in {"funded", "released", "refunded"})
  BY <1>2
<1> QED BY <1>1, <1>3, <1>4, <1>5 DEF DeriveMacroStatus

-----------------------------------------------------------------------------
(***************************************************************************)
(* The situation between two handlers is what the run checks.              *)
(***************************************************************************)
LEMMA IdleFields ==
  Idle.pc = "idle" /\ Idle.op = "none" /\ Idle \in RequestType
BY IdleIsARequest DEF Idle

LEMMA SituationMeans ==
  ASSUME IInv, SerialInv, alone
  PROVE  /\ MacroStatusIsProjection /\ NoEscrowOutsideContract
         /\ CloseOutExactlyOnce /\ SubmissionIsTimed
<1>1. NoEscrowOutsideContract
  BY DEF SerialInv, Situation, Quiescent
<1>2. ASSUME Quiescent
      PROVE  /\ MacroStatusIsProjection
             /\ CloseOutExactlyOnce /\ SubmissionIsTimed
  <2>1. Situation(Idle)
    BY <1>2 DEF SerialInv
  <2>2. MacroStatusIsProjection
    BY <2>1, IdleFields DEF Situation, Projected, Changed, MacroStatusIsProjection
  <2>3. CloseOutExactlyOnce
    BY <2>1, IdleFields DEF Situation, ClosedOut, CloseOutExactlyOnce
  <2>4. SubmissionIsTimed
    BY <2>1, IdleFields DEF Situation, Timed, SubmissionIsTimed, St
  <2> QED BY <2>2, <2>3, <2>4
<1> QED BY <1>1, <1>2 DEF MacroStatusIsProjection, CloseOutExactlyOnce, SubmissionIsTimed

-----------------------------------------------------------------------------
(***************************************************************************)
(* The situation depends on the rows, the timers and the effects.          *)
(***************************************************************************)
LEMMA SituationKept ==
  ASSUME NEW r, Situation(r), UNCHANGED <<milestone, proposal, closeOut>>,
         NoEscrowOutsideContract', Timed(r)'
  PROVE  Situation(r)'
BY DEF Situation, Underway, Certain, Projected, Changed, ClosedOut, St, Statuses

LEMMA SituationStays ==
  ASSUME NEW r, Situation(r),
         UNCHANGED <<milestone, proposal, payment, timer, onboarded, closeOut>>
  PROVE  Situation(r)'
<1>1. NoEscrowOutsideContract' /\ Timed(r)'
  BY DEF Situation, NoEscrowOutsideContract, Timed, St
<1> QED BY <1>1, SituationKept

\* The handler of p goes on in a situation it can be in, or ends.
Passes(p) == \E s : /\ Enter(p, s)
                    /\ s = Idle \/ s.pc # "idle"
                    /\ Situation(s)'

LEMMA Carry ==
  ASSUME TypeOK, NEW p \in Procs, \A q \in Procs : q # p => IsIdle(q), Passes(p)
  PROVE  SerialInv'
<1>1. PICK s : Enter(p, s) /\ (s = Idle \/ s.pc # "idle") /\ Situation(s)'
  BY DEF Passes
<1>2. req'[p] = s /\ \A q \in Procs : q # p => req'[q] = req[q]
  BY <1>1 DEF Enter, TypeOK
<1>3. \A q \in Procs : q # p => IsIdle(q)'
  BY <1>2 DEF IsIdle
<1>4. NoOverlap'
  BY <1>3 DEF NoOverlap
<1>5. ASSUME Quiescent'
      PROVE  Situation(Idle)'
  <2>1. s.pc = "idle"
    BY <1>2, <1>5 DEF Quiescent, IsIdle
  <2> QED BY <1>1, <2>1
<1>6. ASSUME NEW q \in Procs, ~ IsIdle(q)'
      PROVE  Situation(req[q])'
  <2>1. q = p
    BY <1>3, <1>6
  <2>2. \A t : t = req'[p] => Situation(t)'
    BY <1>1, <1>2
  <2> QED BY <2>1, <2>2
<1> QED BY <1>4, <1>5, <1>6 DEF SerialInv

\* A step that no handler makes, and that every situation survives.
LEMMA CarryAll ==
  ASSUME SerialInv, alone, UNCHANGED req, \A r : Situation(r) => Situation(r)'
  PROVE  SerialInv'
<1>1. NoOverlap' /\ (Quiescent' => Quiescent)
  BY DEF SerialInv, NoOverlap, Quiescent, IsIdle
<1>2. Quiescent' => Situation(Idle)'
  BY <1>1 DEF SerialInv
<1>3. ASSUME NEW q \in Procs, ~ IsIdle(q)'
      PROVE  Situation(req[q])'
  <2>1. PICK r : r = req[q] /\ r = req'[q]
    OBVIOUS
  <2>2. Situation(r)
    BY <1>3, <2>1 DEF SerialInv, IsIdle
  <2> QED BY <2>1, <2>2
<1> QED BY <1>1, <1>2, <1>3 DEF SerialInv

-----------------------------------------------------------------------------
\* A process that was idle begins with handler r.
Begins(p, r) == IsIdle(p) /\ Enter(p, r) /\ r.pc # "idle"

(***************************************************************************)
(* Entry points: between two handlers, with a copy of the proposal or      *)
(* without one.                                                            *)
(***************************************************************************)
LEMMA EntersCalmly ==
  ASSUME TypeOK, NEW p \in Procs, Situation(Idle),
         NEW step \in {"current", "scan", "load"}, NEW op \in LockOps \cup {"pay"},
         NEW r, Enter(p, r), r.pc = step, r.op = op, r.rest = {},
         step # "load" => r.row = proposal,
         op \in {"pay", "fund"} => ~ OutsideProjection(proposal.status),
         UNCHANGED <<milestone, proposal, payment, timer, onboarded, closeOut>>
  PROVE  Passes(p)
<1>1. Situation(r)
  BY IdleFields DEF Situation, Underway, Certain, Projected, Changed, ClosedOut, Timed,
     Holding
<1>2. Situation(r)'
  BY <1>1, SituationStays
<1> QED BY <1>2 DEF Passes

LEMMA LoadsCalmly ==
  ASSUME TypeOK, NEW p \in Procs, Situation(Idle),
         NEW step \in {"current", "scan"}, NEW op \in LockOps \cup {"pay"},
         op \in {"pay", "fund"} => ~ OutsideProjection(proposal.status),
         Enter(p, [Idle EXCEPT !.pc = step, !.op = op, !.row = proposal]),
         UNCHANGED <<milestone, proposal, payment, timer, onboarded, closeOut>>
  PROVE  Passes(p)
<1>2. PICK r : r = [Idle EXCEPT !.pc = step, !.op = op, !.row = proposal]
  OBVIOUS
<1>3. r.pc = step /\ r.op = op /\ r.row = proposal /\ r.rest = {}
  BY <1>2 DEF Idle
<1>4. Enter(p, r)
  BY <1>2
<1> QED BY <1>3, <1>4, EntersCalmly

LEMMA MarksPaidCalmly ==
  ASSUME TypeOK, NEW p \in Procs, Situation(Idle), NEW m \in Milestones, MarkPaid(p, m)
  PROVE  Passes(p)
<1>1. ~ OutsideProjection(proposal.status)
  BY DEF MarkPaid, HasPaid, Situation, NoEscrowOutsideContract
<1>3. PICK r : r = [Idle EXCEPT !.pc = "load", !.op = "fund"]
  OBVIOUS
<1>4. r.pc = "load" /\ r.op = "fund" /\ r.rest = {}
  BY <1>3 DEF Idle
<1>5. Situation(r)
  BY <1>1, <1>4, IdleFields DEF Situation, Underway, Certain, Projected, Changed,
     ClosedOut, Timed, Holding
<1>6. UNCHANGED <<milestone, proposal, timer, onboarded, closeOut>> /\ Enter(p, r)
  BY <1>3 DEF MarkPaid, eventVars, envVars
<1>7. NoEscrowOutsideContract' /\ Timed(r)'
  BY <1>1, <1>5, <1>6 DEF NoEscrowOutsideContract, Situation, Timed, St
<1>8. Situation(r)'
  BY <1>5, <1>6, <1>7, SituationKept
<1> QED BY <1>4, <1>6, <1>8 DEF Passes

LEMMA AnswersCalmly ==
  ASSUME TypeOK, NEW p \in Procs, Situation(Idle), NEW op \in {"accept", "decline"},
         NEW status \in {"accepted", "declined"}, Answer(p, op, status)
  PROVE  Passes(p)
<1>1. PICK r : /\ r = [Idle EXCEPT !.pc = "write", !.op = op,
                                   !.row = [proposal EXCEPT !.status = status]]
               /\ Enter(p, r)
  BY DEF Answer
<1>2. /\ proposal.status = "pending"
      /\ UNCHANGED <<milestone, proposal, payment, timer, onboarded, closeOut>>
  BY DEF Answer, dbVars, payVars, eventVars, envVars
<1>3. [proposal EXCEPT !.status = status] \in RowType
      /\ [proposal EXCEPT !.status = status].status = status
  BY DEF TypeOK, RowType, ProposalStatus
<1>4. r.pc = "write" /\ r.op = op /\ r.row.status = status
  BY <1>1, <1>3 DEF Idle
<1>5. Situation(r)
  BY <1>2, <1>4, IdleFields DEF Situation, Underway, Certain, Projected, Changed,
     ClosedOut, Timed, Holding, LockOps, OutsideProjection
<1>6. Situation(r)'
  BY <1>2, <1>5, SituationStays
<1> QED BY <1>1, <1>4, <1>6 DEF Passes

LEMMA RequestsCalmly ==
  ASSUME TypeOK, NEW p \in Users, Situation(Idle), UserRequest(p), "activate" \notin Ops
  PROVE  Passes(p)
<1> USE DEF dbVars, payVars, eventVars, envVars
<1>0. p \in Procs /\ ~ AdminActivateProposal(p)
  BY DEF Procs, AdminActivateProposal
<1>1. CASE AcceptProposal(p) \/ DeclineProposal(p)
  BY <1>0, <1>1, AnswersCalmly DEF AcceptProposal, DeclineProposal
<1>2. CASE CancelProposal(p)
  BY <1>0, <1>2, LoadsCalmly DEF CancelProposal, LockOps
<1>3. CASE ConfirmPayment(p)
  BY <1>0, <1>3, MarksPaidCalmly DEF ConfirmPayment
<1>4. ASSUME NEW op \in {"pay", "submit", "complete", "reject"}, LoadProposal(p, op)
      PROVE  Passes(p)
  BY <1>0, <1>4, LoadsCalmly DEF LoadProposal, LockOps, OutsideProjection
<1> QED BY <1>0, <1>1, <1>2, <1>3, <1>4 DEF UserRequest

LEMMA LoadsBegin ==
  ASSUME NEW p, NEW step \in {"current", "scan"}, NEW op, IsIdle(p),
         Enter(p, [Idle EXCEPT !.pc = step, !.op = op, !.row = proposal])
  PROVE  \E r : Begins(p, r)
<1>1. PICK r : /\ r = [Idle EXCEPT !.pc = step, !.op = op, !.row = proposal]
               /\ Enter(p, r)
  OBVIOUS
<1>2. r.pc # "idle"
  BY <1>1 DEF Idle
<1> QED BY <1>1, <1>2 DEF Begins

LEMMA MarksPaidBegins ==
  ASSUME NEW p, NEW m, IsIdle(p), MarkPaid(p, m)
  PROVE  \E r : Begins(p, r)
<1>1. PICK r : r = [Idle EXCEPT !.pc = "load", !.op = "fund"] /\ Enter(p, r)
  BY DEF MarkPaid
<1>2. r.pc # "idle"
  BY <1>1 DEF Idle
<1> QED BY <1>1, <1>2 DEF Begins

\* A worker begins with an event, or is done with it at once; the latter may
\* happen beside a handler.
LEMMA WorkersCalmly ==
  ASSUME TypeOK, NEW w \in Workers, WorkerEvent(w)
  PROVE  \/ UNCHANGED req /\ \A r : Situation(r) => Situation(r)'
         \/ \E r : Begins(w, r) /\ (Situation(Idle) => Passes(w))
<1> USE DEF dbVars, payVars, eventVars, envVars
<1>0. w \in Procs
  BY DEF Procs
<1>1. ASSUME NEW m \in Milestones, PaymentSucceeded(w, m)
      PROVE  \E r : Begins(w, r) /\ (Situation(Idle) => Passes(w))
  <2>1. \E r : Begins(w, r)
    BY <1>1, MarksPaidBegins DEF PaymentSucceeded
  <2> QED BY <1>0, <1>1, <2>1, MarksPaidCalmly DEF PaymentSucceeded
<1>2. ASSUME NEW m \in Milestones, FireAutoApprove(w, m)
      PROVE  \/ UNCHANGED req /\ \A r : Situation(r) => Situation(r)'
             \/ \E r : Begins(w, r) /\ (Situation(Idle) => Passes(w))
  <2>0. PICK v \in timer[m] :
          /\ timer' = [timer EXCEPT ![m] = @ \ {v}]
          /\ IF milestone[m].status = "submitted" /\ onboarded
               THEN Enter(w, [Idle EXCEPT !.pc = "lock", !.op = "auto_approve",
                                          !.m = m, !.row = proposal, !.sub = v])
               ELSE UNCHANGED req
    BY <1>2 DEF FireAutoApprove
  <2>1. UNCHANGED <<milestone, proposal, payment, onboarded, closeOut>>
    BY <1>2 DEF FireAutoApprove
  <2>2. /\ \A k \in Milestones : k # m => timer'[k] = timer[k]
    BY <2>0 DEF TypeOK
  <2>3. CASE milestone[m].status = "submitted" /\ onboarded
    <3>1. PICK r : /\ r = [Idle EXCEPT !.pc = "lock", !.op = "auto_approve",
                                      !.m = m, !.row = proposal, !.sub = v]
                   /\ Enter(w, r)
      BY <2>0, <2>3
    <3>2. /\ r.pc = "lock" /\ r.op = "auto_approve" /\ r.m = m /\ r.row = proposal
          /\ r.rest = {}
      BY <3>1 DEF Idle
    <3>3. Begins(w, r)
      BY <1>2, <3>1, <3>2 DEF Begins, FireAutoApprove
    <3>4. ASSUME Situation(Idle)
          PROVE  Passes(w)
      <4>1. NoEscrowOutsideContract /\ NoEscrowOutsideContract'
        BY <2>1, <3>4 DEF Situation, NoEscrowOutsideContract
      <4>2. Underway(r) /\ Certain(r) /\ Projected(r) /\ ClosedOut(r)
        BY <2>3, <3>2, <3>4, IdleFields DEF Situation, Underway, Certain, Projected,
           Changed, ClosedOut, Expected, St, Sweep
      <4>3. Timed(r) /\ Timed(r)'
        BY <2>1, <2>2, <3>2, <3>4, IdleFields DEF Situation, Timed, St
      <4>4. Situation(r)'
        BY <2>1, <3>4, <4>1, <4>2, <4>3, SituationKept DEF Situation
      <4> QED BY <3>1, <3>2, <4>4 DEF Passes
    <3> QED BY <3>3, <3>4
  <2>4. CASE ~ (milestone[m].status = "submitted" /\ onboarded)
    <3>1. UNCHANGED req
      BY <2>0, <2>4
    <3>2. ASSUME NEW r, Situation(r)
          PROVE  Situation(r)'
      <4>1. Timed(r)' /\ NoEscrowOutsideContract'
        BY <2>1, <2>2, <2>4, <3>2 DEF Situation, Timed, St, NoEscrowOutsideContract
      <4> QED BY <2>1, <3>2, <4>1, SituationKept
    <3> QED BY <3>1, <3>2
  <2> QED BY <2>3, <2>4
<1>3. CASE FireAutoClose(w)
  <2>1. UNCHANGED <<milestone, proposal, payment, timer, onboarded, closeOut>>
    BY <1>3 DEF FireAutoClose
  <2>2. CASE UNCHANGED req
    BY <2>1, <2>2, SituationStays
  <2>3. CASE Enter(w, [Idle EXCEPT !.pc = "scan", !.op = "auto_close", !.row = proposal])
    <3>1. \E r : Begins(w, r)
      BY <1>3, <2>3, LoadsBegin DEF FireAutoClose
    <3> QED BY <1>0, <2>1, <2>3, <3>1, LoadsCalmly DEF LockOps
  <2> QED BY <1>3, <2>2, <2>3 DEF FireAutoClose
<1> QED BY <1>1, <1>2, <1>3 DEF WorkerEvent

-----------------------------------------------------------------------------
(***************************************************************************)
(* The steps of a handler.                                                 *)
(***************************************************************************)
\* A handler that ends where the row is the projection, and owes nothing.
LEMMA EndsCalmly ==
  ASSUME NEW p \in Procs, NEW r, Situation(r), Return(p), ~ Changed(r),
         r.pc \notin {"finish", "write"}, ~ (r.op = "auto_approve"),
         UNCHANGED <<milestone, proposal, timer, onboarded, closeOut>>,
         NoEscrowOutsideContract'
  PROVE  Passes(p)
<1>1. /\ Underway(Idle) /\ Certain(Idle) /\ Projected(Idle) /\ ClosedOut(Idle)
  BY IdleFields DEF Situation, Underway, Certain, Projected, Changed, ClosedOut, Holding
<1>2. Timed(Idle) /\ Timed(Idle)'
  BY IdleFields DEF Situation, Timed, Changed, St, LockOps, Sweep
<1>3. Situation(Idle)'
  BY <1>1, <1>2, SituationKept DEF Situation
<1> QED BY <1>3 DEF Passes, Return

LEMMA LooksCalmly ==
  ASSUME TypeOK, NEW p \in Procs, NEW r \in RequestType, r = req[p],
         Situation(r), OnItsWay(r),
         LoadForFunding(p) \/ ReadCurrent(p) \/ ScanForCancel(p) \/ NextInSweep(p)
  PROVE  Passes(p)
<1> USE DEF dbVars, payVars, eventVars, envVars
<1>0. /\ UNCHANGED <<milestone, proposal, payment, timer, onboarded, closeOut>>
      /\ r.pc \in {"load", "current", "scan", "sweep"}
  BY DEF LoadForFunding, ReadCurrent, ScanForCancel, NextInSweep
<1>1. ASSUME Return(p), r.pc \in {"current", "scan"}
      PROVE  Passes(p)
  <2>1. NoEscrowOutsideContract'
    BY <1>0 DEF Situation, NoEscrowOutsideContract
  <2>2. r.op # "auto_approve" /\ ~ Changed(r)
    BY <1>1 DEF OnItsWay, Sweep, Changed
  <2> QED BY <1>0, <1>1, <2>1, <2>2, EndsCalmly
<1>2. ASSUME NEW s, Enter(p, s), s.pc # "idle", Situation(s)
      PROVE  Passes(p)
  BY <1>0, <1>2, SituationStays DEF Passes
<1>3. CASE LoadForFunding(p)
  <2>1. PICK s : /\ s = [r EXCEPT !.pc = "current", !.row = proposal]
                 /\ Enter(p, s)
    BY <1>3 DEF LoadForFunding
  <2>2. s.pc = "current" /\ s.row = proposal /\ s.op = r.op /\ r.pc = "load"
    BY <1>3, <2>1 DEF RequestType, LoadForFunding
  <2>3. Situation(s)
    BY <2>2 DEF Situation, Underway, Certain, Projected, Changed, ClosedOut, Timed, OnItsWay
  <2> QED BY <1>2, <2>1, <2>2, <2>3
<1>4. CASE ReadCurrent(p)
  <2>0. r.pc = "current" /\ r.op \in {"pay", "fund", "submit", "complete", "reject"}
    BY <1>4 DEF ReadCurrent, OnItsWay
  <2>1. CASE Return(p)
    BY <1>1, <2>0, <2>1
  <2>2. CASE ~ Return(p)
    <3>1. PICK m \in Milestones :
            /\ milestone[m].status = Expected(r.op)
            /\ Enter(p, [r EXCEPT !.pc = IF r.op = "pay" THEN "intent" ELSE "lock",
                                  !.m = m])
      BY <1>4, <2>2 DEF ReadCurrent
    <3>2. PICK s : /\ s = [r EXCEPT !.pc = IF r.op = "pay" THEN "intent" ELSE "lock",
                                   !.m = m]
                   /\ Enter(p, s)
      BY <3>1
    <3>3. /\ s.pc = IF r.op = "pay" THEN "intent" ELSE "lock"
          /\ s.m = m /\ s.op = r.op /\ s.row = r.row /\ s.rest = r.rest
      BY <3>2 DEF RequestType
    <3>4. Situation(s)
      BY <2>0, <3>1, <3>3 DEF Situation, Underway, Certain, Projected, Changed, ClosedOut,
         Timed, Holding, Sweep, St
    <3>5. s.pc # "idle"
      BY <3>3
    <3> QED BY <1>2, <3>2, <3>4, <3>5
  <2> QED BY <2>1, <2>2
<1>5. CASE ScanForCancel(p)
  <2>0. r.pc = "scan" /\ Sweep(r.op)
    BY <1>5 DEF ScanForCancel, OnItsWay
  <2>1. CASE Return(p)
    BY <1>1, <2>0, <2>1
  <2>2. CASE ~ Return(p)
    <3>1. PICK s : /\ s = [r EXCEPT !.pc = "sweep",
                                    !.rest = {m \in Milestones :
                                       milestone[m].status = "pending_funding"}]
                   /\ Enter(p, s)
      BY <1>5, <2>2 DEF ScanForCancel
    <3>2. /\ s.pc = "sweep" /\ s.op = r.op /\ s.row = r.row
          /\ \A k \in s.rest : St(k) = "pending_funding"
      BY <3>1 DEF RequestType, St
    <3>3. Situation(s)
      BY <2>0, <3>2 DEF Situation, Underway, Certain, Projected, Changed, ClosedOut,
         Timed, Holding, Sweep
    <3> QED BY <1>2, <3>1, <3>2, <3>3
  <2> QED BY <2>1, <2>2
<1>6. CASE NextInSweep(p)
  <2>0. r.pc = "sweep" /\ r.op \in {"cancel", "auto_close"}
    BY <1>6 DEF NextInSweep, OnItsWay, Sweep
  <2>1. CASE r.rest = {}
    <3>1. PICK s : s = [r EXCEPT !.pc = "derive"] /\ Enter(p, s)
      BY <1>6, <2>1 DEF NextInSweep, Goto
    <3>2. s.pc = "derive" /\ s.op = r.op /\ s.row = r.row
      BY <3>1 DEF RequestType
    <3>3. Situation(s)
      BY <2>0, <3>2 DEF Situation, Underway, Certain, Projected, Changed, ClosedOut,
         Timed, Holding, Sweep, LockOps
    <3> QED BY <1>2, <3>1, <3>2, <3>3
  <2>2. CASE r.rest # {}
    <3>1. PICK m \in r.rest :
            Enter(p, [r EXCEPT !.pc = "lock", !.m = m, !.rest = r.rest \ {m}])
      BY <1>6, <2>2 DEF NextInSweep
    <3>2. PICK s : /\ s = [r EXCEPT !.pc = "lock", !.m = m, !.rest = r.rest \ {m}]
                   /\ Enter(p, s)
      BY <3>1
    <3>3. /\ s.pc = "lock" /\ s.op = r.op /\ s.row = r.row /\ s.m = m
          /\ s.rest = r.rest \ {m}
      BY <3>2 DEF RequestType
    <3>4. Situation(s)
      BY <2>0, <3>1, <3>3 DEF Situation, Underway, Certain, Projected, Changed, ClosedOut,
         Timed, Holding, Sweep, Expected
    <3> QED BY <1>2, <3>2, <3>3, <3>4
  <2> QED BY <2>1, <2>2
<1> QED BY <1>3, <1>4, <1>5, <1>6

\* The domain method finds the milestone as it must be.
LEMMA LocksCalmly ==
  ASSUME TypeOK, NEW p \in Procs, NEW r \in RequestType, r = req[p],
         Situation(r), OnItsWay(r), LockMilestone(p)
  PROVE  Passes(p)
<1>0. /\ UNCHANGED <<milestone, proposal, payment, timer, onboarded, closeOut>>
      /\ r.pc = "lock" /\ St(r.m) = Expected(r.op)
  BY DEF LockMilestone, Situation, Certain, dbVars, payVars, eventVars, envVars
<1>1. PICK s : /\ s = [r EXCEPT !.pc = "save", !.to = Target(r.op),
                                !.ver = milestone[r.m].version]
               /\ Enter(p, s)
  BY <1>0 DEF LockMilestone, St
<1>2. /\ s.pc = "save" /\ s.to = Target(r.op) /\ s.ver = milestone[r.m].version
      /\ s.op = r.op /\ s.m = r.m /\ s.row = r.row /\ s.rest = r.rest
  BY <1>1 DEF RequestType
<1>3. Situation(s)
  BY <1>0, <1>2 DEF Situation, Underway, Certain, Projected, Changed, ClosedOut, Timed,
     Holding
<1>4. Situation(s)'
  BY <1>0, <1>3, SituationStays
<1> QED BY <1>1, <1>2, <1>4 DEF Passes

\* A payment is opened on an accepted contract only.
LEMMA IntendsCalmly ==
  ASSUME TypeOK, NEW p \in Procs, NEW r \in RequestType, r = req[p],
         Situation(r), CreatePaymentIntent(p)
  PROVE  Passes(p)
<1>1. /\ UNCHANGED <<milestone, proposal, timer, onboarded, closeOut>>
      /\ r.pc = "intent" /\ Return(p)
  BY DEF CreatePaymentIntent, eventVars, envVars
<1>2. r.op = "pay" /\ ~ OutsideProjection(proposal.status)
  BY <1>1 DEF Situation, Underway
<1>3. NoEscrowOutsideContract'
  BY <1>1, <1>2 DEF NoEscrowOutsideContract
<1> QED BY <1>1, <1>2, <1>3, EndsCalmly DEF Changed

\* The row is written: a milestone moves as the handler decided.
LEMMA SavesCalmly ==
  ASSUME IInv, NEW p \in Procs, NEW r \in RequestType, r = req[p],
         Situation(r), SaveMilestone(p)
  PROVE  Passes(p)
<1>0. /\ UNCHANGED <<proposal, payment, onboarded, closeOut>>
      /\ r.pc = "save" /\ r.m \in Milestones /\ r.op \in LockOps
  BY DEF SaveMilestone, payVars, envVars, IInv, HandlerInv, Sound, OnItsWay
<1>1. /\ St(r.m) = Expected(r.op) /\ r.to = Target(r.op)
      /\ r.ver = milestone[r.m].version
  BY <1>0 DEF Situation, Certain
<1>2. /\ milestone' = [milestone EXCEPT ![r.m] =
                         [status |-> r.to, version |-> r.ver + 1]]
      /\ timer' = timer
      /\ Enter(p, [r EXCEPT !.pc = IF Sweep(r.op) THEN "sweep" ELSE "derive"])
  BY <1>1 DEF SaveMilestone, Goto, eventVars
<1>3. /\ St(r.m)' = Target(r.op) /\ milestone'[r.m].version = r.ver + 1
      /\ \A k \in Milestones : k # r.m => milestone'[k] = milestone[k] /\ St(k)' = St(k)
  BY <1>0, <1>1, <1>2 DEF St, IInv, TypeOK
<1>4. PICK s : /\ s = [r EXCEPT !.pc = IF Sweep(r.op) THEN "sweep" ELSE "derive"]
               /\ Enter(p, s)
  BY <1>2
<1>5. /\ s.pc = IF Sweep(r.op) THEN "sweep" ELSE "derive"
      /\ s.op = r.op /\ s.m = r.m /\ s.ver = r.ver /\ s.row = r.row /\ s.rest = r.rest
  BY <1>4 DEF RequestType
<1>6. \A m \in Milestones : St(m)' # "disputed"
  BY <1>0, <1>3 DEF Situation, Target, LockOps
<1>7. NoEscrowOutsideContract'
  <2> SUFFICES ASSUME OutsideProjection(proposal.status), NEW m \in Milestones
               PROVE  payment'[m] = "none" /\ ~ EverFunded(St(m)')
    BY <1>0 DEF NoEscrowOutsideContract, St
  <2>1. /\ \A k \in Milestones : payment[k] = "none" /\ ~ EverFunded(St(k))
        /\ r.op # "fund"
    BY DEF Situation, NoEscrowOutsideContract, Underway, St
  <2>2. Sweep(r.op)
    BY <1>0, <1>1, <2>1 DEF LockOps, Expected, EverFunded, IsActive, Sweep
  <2>3. Target(r.op) = "cancelled"
    BY <2>2 DEF Sweep, Target
  <2> QED BY <1>0, <1>3, <2>1, <2>3 DEF EverFunded, IsActive
<1>8. CASE Sweep(r.op)
  <2>1. s.pc = "sweep" /\ Expected(r.op) = "pending_funding" /\ Target(r.op) = "cancelled"
    BY <1>5, <1>8 DEF Sweep, Expected, Target
  <2>2. Underway(s)'
    BY <1>0, <1>5, <1>8, <2>1 DEF Situation, Underway, Holding, Sweep
  <2>3. Certain(s)'
    BY <1>0, <1>3, <1>5, <1>8, <2>1 DEF Situation, Certain, RequestType
  <2>4. DeriveMacroStatus(Statuses)' = DeriveMacroStatus(Statuses)
    <3>1. PICK st, st1 : st = Statuses /\ st1 = Statuses'
      OBVIOUS
    <3>2. /\ DOMAIN st = Milestones /\ DOMAIN st1 = Milestones
          /\ st[r.m] = "pending_funding" /\ st1[r.m] = "cancelled"
          /\ \A k \in Milestones : k # r.m => st1[k] = st[k]
      BY <1>0, <1>1, <1>3, <2>1, <3>1 DEF Statuses, St
    <3>3. DeriveMacroStatus(st1) = DeriveMacroStatus(st)
      BY <1>0, <3>2, CancellingDoesNotShow
    <3> QED BY <3>1, <3>3
  <2>5. Projected(s)'
    BY <1>0, <1>5, <1>8, <2>1, <2>4 DEF Situation, Projected, Changed
  <2>6. ClosedOut(s)'
    BY <1>0, <1>5, <2>1 DEF Situation, ClosedOut
  <2>7. Timed(s)'
    BY <1>0, <1>2, <1>3, <1>5, <1>8, <2>1 DEF Situation, Timed, Sweep, St
  <2>8. Situation(s)'
    BY <1>6, <1>7, <2>2, <2>3, <2>5, <2>6, <2>7 DEF Situation
  <2> QED BY <1>4, <2>1, <2>8 DEF Passes
<1>9. CASE ~ Sweep(r.op)
  <2>1. s.pc = "derive"
    BY <1>5, <1>9
  <2>2. Underway(s)'
    BY <1>0, <1>5, <2>1 DEF Situation, Underway, Holding
  <2>3. Certain(s)'
    BY <2>1 DEF Certain
  <2>4. proposal.status # "completed"
    <3>1. Expected(r.op) # "released"
      BY <1>0 DEF Expected, LockOps
    <3>2. ~ AllReleased(Statuses)
      BY <1>0, <1>1, <3>1 DEF AllReleased, Statuses, St
    <3> QED BY <3>2 DEF IInv, CompletedMeansAllReleased
  <2>5. Projected(s)'
    BY <1>0, <1>3, <1>5, <1>9, <2>1, <2>4 DEF Projected, Changed
  <2>6. ClosedOut(s)'
    BY <1>0, <1>5, <2>1 DEF Situation, ClosedOut
  <2>7. Timed(s)'
    BY <1>0, <1>2, <1>3, <1>5, <2>1 DEF Situation, Timed, Target, LockOps, St
  <2>8. Situation(s)'
    BY <1>6, <1>7, <2>2, <2>3, <2>5, <2>6, <2>7 DEF Situation
  <2> QED BY <1>4, <2>1, <2>8 DEF Passes
<1> QED BY <1>8, <1>9

\* The milestones are projected onto the copy of the proposal.
LEMMA DerivesCalmly ==
  ASSUME TypeOK, NEW p \in Procs, NEW r \in RequestType, r = req[p],
         Situation(r), RecomputeMacroStatus(p)
  PROVE  Passes(p)
<1>0. /\ UNCHANGED <<milestone, proposal, payment, timer, onboarded, closeOut>>
      /\ r.pc = "derive" /\ r.op \in LockOps /\ r.row = proposal
  BY DEF RecomputeMacroStatus, Situation, Underway, Holding, dbVars, payVars, eventVars,
     envVars
<1>1. DeriveMacroStatus(Statuses) # "disputed"
  <2>1. \A m \in DOMAIN Statuses : Statuses[m] # "disputed"
    BY DEF Situation, Statuses, St
  <2> QED BY <2>1, ProjectionOfNoDispute
<1>2. CASE OutsideProjection(proposal.status)
  <2>1. PICK s : s = [r EXCEPT !.pc = "finish"] /\ Enter(p, s)
    BY <1>0, <1>2 DEF RecomputeMacroStatus, Goto
  <2>2. /\ s.pc = "finish" /\ s.op = r.op /\ s.m = r.m /\ s.ver = r.ver
        /\ s.row = r.row
    BY <2>1 DEF RequestType
  <2>3. Situation(s)
    BY <1>0, <1>2, <2>2 DEF Situation, Underway, Certain, Projected, Changed, ClosedOut,
       Timed, Holding, OutsideProjection
  <2>4. Situation(s)'
    BY <1>0, <2>3, SituationStays
  <2> QED BY <2>1, <2>2, <2>4 DEF Passes
<1>3. CASE ~ OutsideProjection(proposal.status)
  <2>1. PICK s : /\ s = [r EXCEPT !.pc = "write",
                           !.row = [@ EXCEPT !.status = DeriveMacroStatus(Statuses)]]
                 /\ Enter(p, s)
    BY <1>0, <1>1, <1>3 DEF RecomputeMacroStatus
  <2>2. /\ s.pc = "write" /\ s.op = r.op /\ s.m = r.m /\ s.ver = r.ver
        /\ s.row.status = DeriveMacroStatus(Statuses)
    BY <2>1 DEF RequestType, RowType
  <2>3. Situation(s)
    BY <1>0, <1>3, <2>2 DEF Situation, Underway, Certain, Projected, Changed, ClosedOut,
       Timed, Holding
  <2>4. Situation(s)'
    BY <1>0, <2>3, SituationStays
  <2> QED BY <2>1, <2>2, <2>4 DEF Passes
<1> QED BY <1>2, <1>3

\* The proposals row catches up with the milestones, or is accepted or declined.
LEMMA WritesCalmly ==
  ASSUME IInv, NEW p \in Procs, NEW r \in RequestType, r = req[p],
         Situation(r), WriteProposal(p)
  PROVE  Passes(p)
<1>0. /\ UNCHANGED <<milestone, payment, timer, onboarded, closeOut>>
      /\ r.pc = "write" /\ proposal' = r.row
  BY DEF WriteProposal, payVars, eventVars, envVars
<1>1. PICK s : s = [r EXCEPT !.pc = "finish"] /\ Enter(p, s)
  BY DEF WriteProposal, Goto
<1>2. s.pc = "finish" /\ s.op = r.op /\ s.m = r.m /\ s.ver = r.ver /\ s.row = r.row
  BY <1>1 DEF RequestType
<1> DEFINE derived == DeriveMacroStatus(Statuses)
<1>3. ~ OutsideProjection(derived) /\ derived' = derived
  BY <1>0, ProjectionIsInside DEF Statuses
<1>4. NoEscrowOutsideContract'
  <2>1. CASE r.op \in LockOps
    BY <1>0, <1>3, <2>1 DEF Situation, Projected, NoEscrowOutsideContract
  <2>2. CASE r.op \notin LockOps
    <3>1. proposal.status = "pending"
      BY <1>0, <2>2 DEF Situation, Projected
    <3> QED BY <1>0, <3>1 DEF Situation, NoEscrowOutsideContract, OutsideProjection
  <2> QED BY <2>1, <2>2
<1>5. Underway(s)' /\ Certain(s)' /\ Timed(s)'
  <2>1. r.op \in {"pay", "fund"} => ~ OutsideProjection(proposal'.status)
    BY <1>0, <1>3 DEF Situation, Underway, Projected, LockOps
  <2> QED BY <1>0, <1>2, <2>1 DEF Situation, Underway, Certain, Timed, Holding, St
<1>6. Projected(s)'
  <2>1. CASE r.op \in LockOps
    BY <1>0, <1>2, <1>3, <2>1 DEF Situation, Projected, Changed
  <2>2. CASE r.op \notin LockOps
    <3>1. /\ proposal.status = "pending" /\ r.row.status \in {"accepted", "declined"}
      BY <1>0, <2>2 DEF Situation, Projected
    <3>2. derived = "accepted"
      BY <3>1, ProjectionOfAnOffer
      DEF IInv, Situation, NoEscrowOutsideContract, OutsideProjection
    <3> QED BY <1>0, <1>2, <1>3, <3>1, <3>2 DEF Projected, Changed, OutsideProjection
  <2> QED BY <2>1, <2>2
<1>7. ClosedOut(s)'
  <2>1. CASE r.op \in LockOps /\ Sweep(r.op)
    <3>1. proposal.status = r.row.status /\ r.op \notin ReleaseOps
      BY <1>0, <2>1 DEF Situation, Projected, Changed, Sweep, ReleaseOps
    <3> QED BY <1>0, <1>2, <3>1 DEF Situation, ClosedOut
  <2>2. CASE r.op \in ReleaseOps
    <3>1. proposal.status # "completed"
      BY <1>0, <2>2 DEF Situation, Projected, Changed, ReleaseOps, LockOps, Sweep
    <3> QED BY <1>0, <1>2, <2>2, <3>1 DEF Situation, ClosedOut
  <2>3. CASE r.op \in {"fund", "submit", "reject"}
    <3>1. /\ proposal.status # "completed"
          /\ r.m \in Milestones /\ St(r.m) = Target(r.op) /\ r.row.status = derived
      BY <1>0, <2>3 DEF Situation, Projected, Changed, LockOps, Sweep
    <3>2. ~ AllReleased(Statuses)
      BY <2>3, <3>1 DEF AllReleased, Statuses, St, Target
    <3>3. r.row.status # "completed"
      BY <3>1, <3>2, DeriveMacroStatusFacts
    <3> QED BY <1>0, <1>2, <3>1, <3>3 DEF Situation, ClosedOut
  <2>4. CASE r.op \notin LockOps
    <3>1. proposal.status = "pending" /\ r.row.status \in {"accepted", "declined"}
      BY <1>0, <2>4 DEF Situation, Projected
    <3> QED BY <1>0, <1>2, <3>1 DEF Situation, ClosedOut
  <2> QED BY <2>1, <2>2, <2>3, <2>4 DEF LockOps, ReleaseOps, Sweep
<1>8. Situation(s)'
  BY <1>0, <1>4, <1>5, <1>6, <1>7 DEF Situation, St
<1> QED BY <1>1, <1>2, <1>8 DEF Passes

\* What is left of a handler: the timer of a submission, the effects of a
\* completion, or nothing.
LEMMA FinishesCalmly ==
  ASSUME TypeOK, NEW p \in Procs, NEW r \in RequestType, r = req[p],
         Situation(r), FinishSubmit(p) \/ FinishRelease(p) \/ FinishOther(p)
  PROVE  Passes(p)
<1>0. /\ UNCHANGED <<milestone, proposal, payment, onboarded>>
      /\ r.pc = "finish" /\ r.row = proposal /\ Return(p)
  BY DEF FinishSubmit, FinishRelease, FinishOther, Situation, Underway, Holding, dbVars,
     payVars, eventVars, envVars
<1>1. /\ NoEscrowOutsideContract' /\ \A m \in Milestones : St(m)' # "disputed"
  BY <1>0 DEF Situation, NoEscrowOutsideContract, St
<1>2. Underway(Idle)' /\ Certain(Idle)'
  BY IdleFields DEF Underway, Certain, Holding
<1>3. Projected(Idle)'
  BY <1>0, IdleFields DEF Situation, Projected, Changed, Statuses
<1>4. ClosedOut(Idle)'
  <2>1. CASE FinishRelease(p)
    BY <1>0, <2>1, IdleFields DEF FinishRelease, Situation, ClosedOut, ReleaseOps
  <2>2. CASE FinishSubmit(p) \/ FinishOther(p)
    BY <1>0, <2>2, IdleFields DEF FinishSubmit, FinishOther, Situation, ClosedOut,
       ReleaseOps, envVars
  <2> QED BY <2>1, <2>2
<1>5. Timed(Idle)'
  <2>1. CASE FinishSubmit(p)
    <3>1. timer' = [timer EXCEPT ![r.m] = @ \cup {r.ver + 1}]
      BY <2>1 DEF FinishSubmit
    <3>2. ASSUME NEW m \in Milestones
          PROVE  /\ timer[m] \subseteq timer'[m]
                 /\ m = r.m => r.ver + 1 \in timer'[m]
      BY <3>1 DEF TypeOK
    <3> QED BY <1>0, <3>2 DEF Situation, Timed, St
  <2>2. CASE FinishRelease(p) \/ FinishOther(p)
    <3>1. timer' = timer /\ r.op # "submit"
      BY <1>0, <2>2 DEF FinishRelease, FinishOther, eventVars
    <3> QED BY <1>0, <3>1 DEF Situation, Timed, St
  <2> QED BY <2>1, <2>2
<1>6. Situation(Idle)'
  BY <1>1, <1>2, <1>3, <1>4, <1>5 DEF Situation
<1> QED BY <1>0, <1>6 DEF Passes, Return

-----------------------------------------------------------------------------
LEMMA InitSerial ==
  ASSUME Init
  PROVE  SerialInv
<1>1. \A q \in Procs : IsIdle(q)
  BY IdleFields DEF Init, IsIdle
<1>2. Situation(Idle)
  BY IdleFields DEF Init, Situation, Underway, Certain, Projected, Changed, ClosedOut,
     Timed, NoEscrowOutsideContract, OutsideProjection, EverFunded, IsActive, Holding, St
<1> QED BY <1>1, <1>2 DEF SerialInv, NoOverlap

LEMMA StepsCalmly ==
  ASSUME IInv, SerialInv, alone, NEW p \in Procs, Step(p)
  PROVE  SerialInv'
<1>1. ~ IsIdle(p)
  BY DEF Step, LoadForFunding, ReadCurrent, CreatePaymentIntent, ScanForCancel,
     NextInSweep, LockMilestone, SaveMilestone, RecomputeMacroStatus, WriteProposal,
     FinishSubmit, FinishRelease, FinishOther, IsIdle
<1>2. \A q \in Procs : q # p => IsIdle(q)
  BY <1>1 DEF SerialInv, NoOverlap
<1>3. PICK r \in RequestType : r = req[p]
  BY DEF IInv, TypeOK
<1>4. Situation(r) /\ OnItsWay(r) /\ TypeOK
  BY <1>1, <1>3 DEF SerialInv, IInv, HandlerInv, Sound
<1>5. Passes(p)
  BY <1>3, <1>4, LooksCalmly, LocksCalmly, IntendsCalmly, SavesCalmly, DerivesCalmly,
     WritesCalmly, FinishesCalmly DEF Step
<1> QED BY <1>2, <1>4, <1>5, Carry

\* Who begins while alone stays true begins between two handlers.
LEMMA BeginsAlone ==
  ASSUME TypeOK, SerialInv, alone, NoOverlap', NEW p \in Procs, NEW r,
         Begins(p, r)
  PROVE  Situation(Idle) /\ \A q \in Procs : IsIdle(q)
<1>1. req'[p] = r /\ \A q \in Procs : q # p => req'[q] = req[q]
  BY DEF Enter, TypeOK, Begins
<1>2. ASSUME NEW q \in Procs, ~ IsIdle(q)
      PROVE  FALSE
  <2>1. q # p /\ ~ IsIdle(q)' /\ ~ IsIdle(p)'
    BY <1>1, <1>2 DEF IsIdle, Begins
  <2> QED BY <2>1 DEF NoOverlap
<1> QED BY <1>2 DEF SerialInv, Quiescent

LEMMA RequestsBegin ==
  ASSUME NEW p, UserRequest(p), "activate" \notin Ops
  PROVE  \E r : Begins(p, r)
<1>1. ASSUME NEW op, NEW status, Answer(p, op, status)
      PROVE  \E r : Begins(p, r)
  <2>1. PICK r : /\ r = [Idle EXCEPT !.pc = "write", !.op = op,
                                     !.row = [proposal EXCEPT !.status = status]]
                 /\ Enter(p, r)
    BY <1>1 DEF Answer
  <2>2. r.pc # "idle"
    BY <2>1 DEF Idle
  <2> QED BY <1>1, <2>1, <2>2 DEF Answer, Begins
<1>2. CASE CancelProposal(p)
  BY <1>2, LoadsBegin DEF CancelProposal
<1>3. ASSUME NEW op, LoadProposal(p, op)
      PROVE  \E r : Begins(p, r)
  BY <1>3, LoadsBegin DEF LoadProposal
<1>4. CASE ConfirmPayment(p)
  BY <1>4, MarksPaidBegins DEF ConfirmPayment
<1> QED BY <1>1, <1>2, <1>3, <1>4
        DEF UserRequest, AcceptProposal, DeclineProposal, AdminActivateProposal

LEMMA SerialKept ==
  ASSUME IInv, SerialInv, [SerialNext]_<<vars, alone>>, "activate" \notin Ops
  PROVE  SerialInv'
<1> SUFFICES ASSUME alone'
             PROVE  SerialInv'
  BY DEF SerialInv
<1>0. TypeOK
  BY DEF IInv
<1>1. CASE UNCHANGED <<vars, alone>>
  <2>1. /\ alone /\ UNCHANGED req
        /\ UNCHANGED <<milestone, proposal, payment, timer, onboarded, closeOut>>
    BY <1>1 DEF vars, dbVars, payVars, eventVars, envVars
  <2> QED BY <2>1, SituationStays, CarryAll
<1>2. CASE SerialNext
  <2>0. /\ Next /\ alone /\ crashes' = crashes /\ NoOverlap'
        /\ onboarded' # onboarded => proposal.status = "pending"
    BY <1>2 DEF SerialNext, StaysAlone
  <2>1. ASSUME NEW p \in Users, UserRequest(p)
        PROVE  SerialInv'
    <3>0. p \in Procs
      BY DEF Procs
    <3>1. Situation(Idle) /\ \A q \in Procs : IsIdle(q)
      BY <1>0, <2>0, <2>1, <3>0, RequestsBegin, BeginsAlone
    <3> QED BY <1>0, <2>1, <3>0, <3>1, RequestsCalmly, Carry
  <2>2. ASSUME NEW w \in Workers, WorkerEvent(w)
        PROVE  SerialInv'
    <3>0. w \in Procs
      BY DEF Procs
    <3>1. CASE UNCHANGED req /\ \A r : Situation(r) => Situation(r)'
      BY <2>0, <3>1, CarryAll
    <3>2. CASE \E r : Begins(w, r) /\ (Situation(Idle) => Passes(w))
      <4>1. Situation(Idle) /\ \A q \in Procs : IsIdle(q)
        BY <1>0, <2>0, <3>0, <3>2, BeginsAlone
      <4> QED BY <1>0, <3>0, <3>2, <4>1, Carry
    <3> QED BY <1>0, <2>2, <3>1, <3>2, WorkersCalmly
  <2>3. ASSUME NEW p \in Procs, Step(p)
        PROVE  SerialInv'
    BY <2>0, <2>3, StepsCalmly
  <2>4. ASSUME NEW p \in Procs, Crash(p)
        PROVE  FALSE
    BY <1>0, <2>0, <2>4 DEF Crash, TypeOK
  <2>5. ASSUME NEW m \in Milestones, SettleIntent(m)
        PROVE  SerialInv'
    <3>1. /\ payment[m] = "pending" /\ UNCHANGED req
          /\ UNCHANGED <<milestone, proposal, timer, onboarded, closeOut>>
      BY <2>5 DEF SettleIntent, eventVars, envVars
    <3>2. ASSUME NEW r, Situation(r)
          PROVE  Situation(r)'
      <4>1. ~ OutsideProjection(proposal.status)
        BY <3>1, <3>2 DEF Situation, NoEscrowOutsideContract
      <4>2. NoEscrowOutsideContract' /\ Timed(r)'
        BY <3>1, <3>2, <4>1 DEF Situation, NoEscrowOutsideContract, Timed, St
      <4> QED BY <3>1, <3>2, <4>2, SituationKept
    <3> QED BY <2>0, <3>1, <3>2, CarryAll
  <2>6. CASE CompleteOnboarding
    <3>1. /\ proposal.status = "pending"
          /\ UNCHANGED <<milestone, proposal, payment, timer, closeOut, req>>
      BY <2>0, <2>6 DEF CompleteOnboarding, dbVars, payVars, eventVars
    <3>2. ASSUME NEW r, Situation(r)
          PROVE  Situation(r)'
      <4>1. \A m \in Milestones : St(m) # "submitted"
        BY <3>1, <3>2 DEF Situation, NoEscrowOutsideContract, OutsideProjection,
           EverFunded, IsActive, St
      <4>2. NoEscrowOutsideContract' /\ Timed(r)'
        BY <3>1, <3>2, <4>1 DEF Situation, NoEscrowOutsideContract, Timed, St
      <4> QED BY <3>1, <3>2, <4>2, SituationKept
    <3> QED BY <2>0, <3>1, <3>2, CarryAll
  <2> QED BY <2>0, <2>1, <2>2, <2>3, <2>4, <2>5, <2>6 DEF Next
<1> QED BY <1>1, <1>2

LEMMA SerialInductive ==
  ASSUME "activate" \notin Ops
  PROVE  SerialSpec => [](IInv /\ SerialInv)
<1>1. SerialSpec => Spec
  <2>1. [SerialNext]_<<vars, alone>> => [Next]_vars
    BY DEF SerialNext
  <2> QED BY <2>1, PTL DEF SerialSpec, Spec
<1>2. Init => SerialInv
  BY InitSerial
<1>3. IInv /\ SerialInv /\ [SerialNext]_<<vars, alone>> => SerialInv'
  BY SerialKept
<1> QED BY <1>1, <1>2, <1>3, Inductive, PTL DEF SerialSpec

(***************************************************************************)
(* Between two handlers, as long as none overlapped or was cut off, the    *)
(* proposals row is the projection of its milestones                       *)
(* (recomputeMacroStatus).                                                 *)
(***************************************************************************)
THEOREM StatusIsProjection ==
  ASSUME "activate" \notin Ops
  PROVE  SerialSpec => []AloneStatusIsProjection
<1>1. IInv /\ SerialInv => AloneStatusIsProjection
  BY SituationMeans DEF AloneStatusIsProjection
<1> QED BY <1>1, SerialInductive, PTL

(***************************************************************************)
(* As long as no handlers overlapped and none was cut off, no money is     *)
(* asked for or held on an offer that is open or was refused               *)
(* (InitiatePayment and the two confirmations).                            *)
(***************************************************************************)
THEOREM OffersHoldNoMoney ==
  ASSUME "activate" \notin Ops
  PROVE  SerialSpec => []AloneNoEscrowOutside
<1>1. IInv /\ SerialInv => AloneNoEscrowOutside
  BY SituationMeans DEF AloneNoEscrowOutside
<1> QED BY <1>1, SerialInductive, PTL

(***************************************************************************)
(* As long as no handlers overlapped and none was cut off, the end-of-     *)
(* project effects run exactly once on a contract that completes, by hand  *)
(* or by the timer (runEndOfProjectEffects).                               *)
(***************************************************************************)
THEOREM EffectsRunOnce ==
  ASSUME "activate" \notin Ops
  PROVE  SerialSpec => []AloneCloseOutOnce
<1>1. IInv /\ SerialInv => AloneCloseOutOnce
  BY SituationMeans DEF AloneCloseOutOnce
<1> QED BY <1>1, SerialInductive, PTL

(***************************************************************************)
(* As long as no handlers overlapped and none was cut off, a submission of *)
(* an onboarded provider has its own auto-approve event, whatever became   *)
(* of the events of earlier submissions (RequestCompletion).               *)
(***************************************************************************)
THEOREM SubmissionsAreTimed ==
  ASSUME "activate" \notin Ops
  PROVE  SerialSpec => []AloneSubmissionIsTimed
<1>1. IInv /\ SerialInv => AloneSubmissionIsTimed
  BY SituationMeans DEF AloneSubmissionIsTimed
<1> QED BY <1>1, SerialInductive, PTL
=============================================================================
