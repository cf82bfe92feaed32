---------------------------- MODULE ContractProofs ----------------------------
(***************************************************************************)
(* Proofs about Contract, for any number of milestones, processes,         *)
(* rejections and crashes.                                                 *)
(*                                                                         *)
(* The inductive invariant is IInv.  The properties alone are not          *)
(* inductive: that a successful write is legal depends on what the handler *)
(* read earlier, which HandlerInv relates to the rows as they are now.     *)
(***************************************************************************)
EXTENDS Contract, TLAPS

IInv == /\ TypeOK
        /\ SequentialEscrow
        /\ CompletedMeansAllReleased
        /\ HandlerInv

(***************************************************************************)
(* The transition a handler has in mind is one the domain entity allows.   *)
(***************************************************************************)
LEMMA TargetIsLegal ==
  ASSUME NEW op \in LockOps
  PROVE  /\ Expected(op) \in MilestoneStatus
         /\ Target(op) \in MilestoneStatus
         /\ CanPersist(Expected(op), Target(op))
         /\ ~ IsTerminal(Expected(op))
BY DEF LockOps, Expected, Target, MilestoneStatus, CanPersist, CanTransitionTo,
       IsTerminal

(***************************************************************************)
(* The projection yields a proposal status, and "completed" only when      *)
(* every milestone is released.                                            *)
(***************************************************************************)
LEMMA DeriveMacroStatusFacts ==
  ASSUME NEW st
  PROVE  /\ DeriveMacroStatus(st) \in ProposalStatus
         /\ DeriveMacroStatus(st) = "completed" => AllReleased(st)
BY DEF DeriveMacroStatus, ProposalStatus

(***************************************************************************)
(* Only a versioned write that finds its version changes the milestone     *)
(* rows (milestone_repository.go Update), and it changes one.              *)
(***************************************************************************)
RowWrite(p) ==
  LET r == req[p] IN
  /\ r.pc = "save"
  /\ milestone[r.m].version = r.ver
  /\ milestone' = [milestone EXCEPT ![r.m] =
                     [status |-> r.to, version |-> r.ver + 1]]

\* A step of the system changes no milestone row, or is the versioned write
\* of one handler.
LEMMA RowsChangeByWrites ==
  ASSUME [Next]_vars
  PROVE  \/ UNCHANGED milestone
         \/ \E p \in Procs : RowWrite(p)
<1>1. ASSUME NEW p \in Users, UserRequest(p)
      PROVE  UNCHANGED milestone
  BY <1>1 DEF UserRequest, AcceptProposal, DeclineProposal, CancelProposal,
       ConfirmPayment, AdminActivateProposal, LoadProposal, Answer, MarkPaid, dbVars
<1>2. ASSUME NEW w \in Workers, WorkerEvent(w)
      PROVE  UNCHANGED milestone
  BY <1>2 DEF WorkerEvent, PaymentSucceeded, FireAutoApprove, FireAutoClose,
       MarkPaid, dbVars
<1>3. ASSUME NEW p \in Procs, Step(p), ~ SaveMilestone(p)
      PROVE  UNCHANGED milestone
  BY <1>3 DEF Step, LoadForFunding, ReadCurrent, CreatePaymentIntent,
       ScanForCancel, NextInSweep, LockMilestone, RecomputeMacroStatus,
       WriteProposal, FinishSubmit, FinishRelease, FinishOther, dbVars
<1>4. ASSUME NEW p \in Procs, SaveMilestone(p)
      PROVE  UNCHANGED milestone \/ RowWrite(p)
  BY <1>4 DEF SaveMilestone, RowWrite
<1>5. ASSUME NEW p \in Procs, Crash(p)
      PROVE  UNCHANGED milestone
  BY <1>5 DEF Crash, dbVars
<1>6. ASSUME NEW m \in Milestones, SettleIntent(m)
      PROVE  UNCHANGED milestone
  BY <1>6 DEF SettleIntent
<1>7. CASE CompleteOnboarding
  BY <1>7 DEF CompleteOnboarding, dbVars
<1>8. CASE UNCHANGED vars
  BY <1>8 DEF vars, dbVars
<1> QED
  BY <1>1, <1>2, <1>3, <1>4, <1>5, <1>6, <1>7, <1>8 DEF Next

(***************************************************************************)
(* What such a write does, under the invariant: one legal transition of a  *)
(* milestone that is not over, and funding in sequence.                    *)
(***************************************************************************)
LegalMove(m, next) ==
  /\ CanPersist(milestone[m].status, next)
  /\ ~ IsTerminal(milestone[m].status)
  /\ next = "funded" =>
       \A i \in Milestones : i < m => IsTerminal(milestone[i].status)

\* Under the invariants, a write that finds its version leaves the status as
\* it is or makes a legal move.
LEMMA RowWriteIsLegal ==
  ASSUME TypeOK, SequentialEscrow, HandlerInv, NEW p \in Procs, RowWrite(p)
  PROVE  /\ req[p].m \in Milestones
         /\ req[p].to \in MilestoneStatus
         /\ \/ req[p].to = milestone[req[p].m].status
            \/ LegalMove(req[p].m, req[p].to)
<1> DEFINE r == req[p]
           s == milestone[r.m].status
<1>1. /\ r.m \in Milestones
      /\ r.op \in LockOps
      /\ \/ r.to = s
         \/ s = Expected(r.op) /\ r.to = Target(r.op)
  BY DEF HandlerInv, Sound, OnItsWay, WriteIsLegal, RowWrite
<1>2. s \in MilestoneStatus
  BY <1>1 DEF TypeOK
<1>3. CASE r.to = s
  BY <1>1, <1>2, <1>3
<1>4. CASE s = Expected(r.op) /\ r.to = Target(r.op)
  <2>1. r.to \in MilestoneStatus /\ CanPersist(s, r.to) /\ ~ IsTerminal(s)
    BY <1>1, <1>4, TargetIsLegal
  <2>2. ASSUME r.to = "funded", NEW i \in Milestones, i < r.m
        PROVE  IsTerminal(milestone[i].status)
    <3>1. r.op \in {"fund", "reject"}
      BY <1>1, <1>4, <2>2 DEF LockOps, Target
    <3>2. CASE r.op = "fund"
      BY <2>2, <3>2 DEF HandlerInv, Sound, FundingIsInOrder, RowWrite
    <3>3. CASE r.op = "reject"
      <4>1. EverFunded(s)
        BY <1>4, <3>3 DEF Expected, EverFunded, IsActive
      <4>2. EverFunded(Statuses[r.m]) => IsTerminal(Statuses[i])
        BY <1>1, <2>2 DEF SequentialEscrow, E!Sequential, Milestones, E!Milestones,
             E!EverFunded, E!IsTerminal, EverFunded, IsTerminal, E!IsActive, IsActive
      <4> QED
        BY <1>1, <4>1, <4>2 DEF Statuses
    <3> QED
      BY <3>1, <3>2, <3>3
  <2> QED
    BY <1>1, <2>1, <2>2 DEF LegalMove
<1> QED
  BY <1>1, <1>3, <1>4

(***************************************************************************)
(* The rows of two consecutive states: a version that has not moved guards *)
(* an unchanged status, and a milestone that is over stays as it is.       *)
(***************************************************************************)
LEMMA RowsAreMonotone ==
  ASSUME TypeOK, SequentialEscrow, HandlerInv, [Next]_vars, NEW m \in Milestones
  PROVE  /\ milestone[m].version <= milestone'[m].version
         /\ milestone'[m].version = milestone[m].version =>
              milestone'[m].status = milestone[m].status
         /\ IsTerminal(milestone[m].status) =>
              milestone'[m].status = milestone[m].status
<1>0. milestone[m] \in [status : MilestoneStatus, version : Nat]
  BY DEF TypeOK
<1>1. CASE UNCHANGED milestone
  BY <1>0, <1>1
<1>2. ASSUME NEW p \in Procs, RowWrite(p)
      PROVE  /\ milestone[m].version <= milestone'[m].version
             /\ milestone'[m].version = milestone[m].version =>
                  milestone'[m].status = milestone[m].status
             /\ IsTerminal(milestone[m].status) =>
                  milestone'[m].status = milestone[m].status
  <2>1. CASE m # req[p].m
    BY <1>0, <1>2, <2>1 DEF RowWrite, TypeOK
  <2>2. CASE m = req[p].m
    <3>1. milestone'[m] = [status |-> req[p].to, version |-> milestone[m].version + 1]
      BY <1>2, <2>2 DEF RowWrite, TypeOK
    <3>2. req[p].to = milestone[m].status \/ ~ IsTerminal(milestone[m].status)
      BY <1>2, <2>2, RowWriteIsLegal DEF LegalMove
    <3> QED
      BY <1>0, <3>1, <3>2
  <2> QED
    BY <2>1, <2>2
<1> QED
  BY <1>1, <1>2, RowsChangeByWrites

\* Once every milestone is released, no step changes that.
LEMMA ReleasedIsStable ==
  ASSUME TypeOK, SequentialEscrow, HandlerInv, [Next]_vars, AllReleased(Statuses)
  PROVE  AllReleased(Statuses)'
<1>1. ASSUME NEW m \in Milestones
      PROVE  milestone'[m].status = "released"
  <2>1. milestone[m].status = "released"
    BY DEF AllReleased, Statuses
  <2> QED
    BY <2>1, RowsAreMonotone DEF IsTerminal
<1> QED
  BY <1>1 DEF AllReleased, Statuses

(***************************************************************************)
(* The type invariant, action by action.                                   *)
(***************************************************************************)
LEMMA IdleIsARequest == Idle \in RequestType
<1>1. 0 \in 0 .. N
  BY ContractAssumption
<1> QED
  BY <1>1 DEF Idle, RequestType, RowType, Steps, ProposalStatus

\* The last milestone is a milestone: there is at least one.
LEMMA NMilestone == N \in Milestones
BY ContractAssumption DEF Milestones

\* The records the entry points put in req (a handler that starts with or
\* without a copy of the proposal, or an event of the worker) are requests.
LEMMA EntriesAreRequests ==
  ASSUME NEW step \in Steps, NEW op \in Operations, NEW row \in RowType,
         NEW m \in Milestones, NEW v \in Nat
  PROVE  /\ [Idle EXCEPT !.pc = step, !.op = op] \in RequestType
         /\ [Idle EXCEPT !.pc = step, !.op = op, !.row = row] \in RequestType
         /\ [Idle EXCEPT !.pc = step, !.op = op, !.m = m, !.row = row, !.sub = v]
              \in RequestType
<1>1. m \in 0 .. N
  BY ContractAssumption DEF Milestones
<1> QED
  BY <1>1, IdleIsARequest DEF RequestType

\* A handler that moves on to its next step is still a request.
LEMMA StepsAreRequests ==
  ASSUME NEW r \in RequestType, NEW step \in Steps
  PROVE  [r EXCEPT !.pc = step] \in RequestType
BY DEF RequestType

\* ... also when it takes a fresh copy of the proposal row,
LEMMA CopiesAreRequests ==
  ASSUME NEW r \in RequestType, NEW step \in Steps, NEW row \in RowType
  PROVE  [r EXCEPT !.pc = step, !.row = row] \in RequestType
BY DEF RequestType

\* ... when it projects the milestones onto the status of its copy,
LEMMA ProjectionsAreRequests ==
  ASSUME NEW r \in RequestType, NEW step \in Steps, NEW status \in ProposalStatus
  PROVE  [r EXCEPT !.pc = step, !.row = [@ EXCEPT !.status = status]] \in RequestType
<1>1. [r.row EXCEPT !.status = status] \in RowType
  BY DEF RequestType, RowType
<1> QED
  BY <1>1 DEF RequestType

\* ... when it settles on the current milestone,
LEMMA ChoicesAreRequests ==
  ASSUME NEW r \in RequestType, NEW step \in Steps, NEW m \in Milestones
  PROVE  [r EXCEPT !.pc = step, !.m = m] \in RequestType
<1>1. m \in 0 .. N
  BY ContractAssumption DEF Milestones
<1> QED
  BY <1>1 DEF RequestType

\* ... when a cancellation sweep takes its next milestone,
LEMMA SweepsAreRequests ==
  ASSUME NEW r \in RequestType, NEW step \in Steps, NEW rest \in SUBSET Milestones
  PROVE  /\ [r EXCEPT !.pc = step, !.rest = rest] \in RequestType
         /\ \A m \in Milestones :
              [r EXCEPT !.pc = step, !.m = m, !.rest = rest] \in RequestType
<1>1. Milestones \subseteq 0 .. N
  BY ContractAssumption DEF Milestones
<1>2. [r EXCEPT !.pc = step, !.rest = rest] \in RequestType
  BY DEF RequestType
<1>3. ASSUME NEW m \in Milestones
      PROVE  [r EXCEPT !.pc = step, !.m = m, !.rest = rest] \in RequestType
  BY <1>1 DEF RequestType
<1> QED
  BY <1>2, <1>3

\* ... and when the domain method has decided on the next status.
LEMMA DecisionsAreRequests ==
  ASSUME NEW r \in RequestType, NEW step \in Steps, NEW t \in MilestoneStatus,
         NEW v \in Nat
  PROVE  [r EXCEPT !.pc = step, !.to = t, !.ver = v] \in RequestType
BY DEF RequestType

\* The initial rows, counters and idle processes have their types.
LEMMA InitIsTyped == Init => TypeOK
<1> SUFFICES ASSUME Init PROVE TypeOK
  OBVIOUS
<1>1. OnboardedAtStart \in BOOLEAN /\ N \in Nat
  BY ContractAssumption
<1> QED
  BY <1>1, IdleIsARequest DEF Init, TypeOK, RowType, ProposalStatus, MilestoneStatus,
       Milestones

\* Every step preserves type correctness, given that writes are legal.
LEMMA TypeIsInductive ==
  ASSUME TypeOK, SequentialEscrow, HandlerInv, [Next]_vars
  PROVE  TypeOK'
<1> USE DEF TypeOK
<1>0. N \in Nat /\ Milestones \subseteq 0 .. N
  BY ContractAssumption DEF Milestones
<1>1. milestone' \in [Milestones -> [status : MilestoneStatus, version : Nat]]
  <2>1. ASSUME NEW p \in Procs, RowWrite(p)
        PROVE  milestone' \in [Milestones -> [status : MilestoneStatus, version : Nat]]
    <3>1. req[p].to \in MilestoneStatus
      BY <2>1, RowWriteIsLegal
    <3>2. req[p].ver \in Nat
      BY DEF RequestType
    <3>3. [status |-> req[p].to, version |-> req[p].ver + 1]
            \in [status : MilestoneStatus, version : Nat]
      BY <3>1, <3>2
    <3> QED
      BY <2>1, <3>3 DEF RowWrite
  <2> QED
    BY <2>1, RowsChangeByWrites
<1>2. ASSUME NEW p \in Procs, NEW r \in RequestType, Enter(p, r)
      PROVE  req' \in [Procs -> RequestType]
  BY <1>2 DEF Enter
<1>3. ASSUME NEW p \in Procs, Return(p)
      PROVE  req' \in [Procs -> RequestType]
  BY <1>2, <1>3, IdleIsARequest DEF Return
<1>4. ASSUME NEW p \in Procs, NEW step \in Steps, Goto(p, step)
      PROVE  req' \in [Procs -> RequestType]
  BY <1>2, <1>4, StepsAreRequests DEF Goto
<1>5. ASSUME NEW p \in Procs, ReArm(p)
      PROVE  timer' \in [Milestones -> SUBSET Nat] /\ closeTimer' \in Nat
  <2>1. req[p].sub \in Nat
    BY DEF RequestType
  <2>2. \A m \in Milestones : timer[m] \cup {req[p].sub} \in SUBSET Nat
    BY <2>1
  <2>3. [timer EXCEPT ![req[p].m] = @ \cup {req[p].sub}] \in [Milestones -> SUBSET Nat]
    BY <2>2
  <2> QED
    BY <1>5, <2>3 DEF ReArm
<1>6. ASSUME NEW p \in Users, UserRequest(p)
      PROVE  TypeOK'
  <2> p \in Procs
    BY DEF Procs
  <2>1. CASE AcceptProposal(p) \/ DeclineProposal(p)
    <3>1. PICK op \in Operations, status \in ProposalStatus : Answer(p, op, status)
      BY <2>1 DEF AcceptProposal, DeclineProposal, Operations, ProposalStatus
    <3>2. [proposal EXCEPT !.status = status] \in RowType
      BY DEF RowType
    <3>3. req' \in [Procs -> RequestType]
      BY <1>2, <3>1, <3>2, EntriesAreRequests, NMilestone DEF Answer, Steps
    <3> QED
      BY <1>1, <3>1, <3>3 DEF Answer, dbVars, payVars, eventVars, envVars
  <2>2. CASE CancelProposal(p)
    <3>1. req' \in [Procs -> RequestType]
      BY <1>2, <2>2, EntriesAreRequests, NMilestone DEF CancelProposal, Steps, Operations
    <3> QED
      BY <1>1, <2>2, <3>1 DEF CancelProposal, dbVars, payVars, eventVars, envVars
  <2>3. CASE ConfirmPayment(p) \/ AdminActivateProposal(p)
    <3>1. req' \in [Procs -> RequestType]
      BY <1>2, <2>3, EntriesAreRequests, NMilestone
      DEF ConfirmPayment, AdminActivateProposal, MarkPaid, Steps, Operations
    <3> QED
      BY <1>1, <2>3, <3>1 DEF ConfirmPayment, AdminActivateProposal, MarkPaid,
         dbVars, payVars, eventVars, envVars
  <2>4. ASSUME NEW op \in {"pay", "submit", "complete", "reject"}, LoadProposal(p, op)
        PROVE  TypeOK'
    <3>1. req' \in [Procs -> RequestType]
      BY <1>2, <2>4, EntriesAreRequests, NMilestone, ZenonT(30)
         DEF LoadProposal, Steps, Operations
    <3> QED
      BY <1>1, <2>4, <3>1 DEF LoadProposal, dbVars, payVars, eventVars, envVars
  <2> QED
    BY <1>6, <2>1, <2>2, <2>3, <2>4 DEF UserRequest
<1>7. ASSUME NEW w \in Workers, WorkerEvent(w)
      PROVE  TypeOK'
  <2> w \in Procs
    BY DEF Procs
  <2>1. ASSUME NEW m \in Milestones, PaymentSucceeded(w, m)
        PROVE  TypeOK'
    <3>1. req' \in [Procs -> RequestType]
      BY <1>2, <2>1, EntriesAreRequests DEF PaymentSucceeded, MarkPaid, Steps, Operations
    <3> QED
      BY <1>1, <2>1, <3>1 DEF PaymentSucceeded, MarkPaid, eventVars, envVars
  <2>2. ASSUME NEW m \in Milestones, FireAutoApprove(w, m)
        PROVE  TypeOK'
    <3>1. PICK v \in timer[m] :
            /\ timer' = [timer EXCEPT ![m] = @ \ {v}]
            /\ \/ UNCHANGED req
               \/ Enter(w, [Idle EXCEPT !.pc = "lock", !.op = "auto_approve",
                                        !.m = m, !.row = proposal, !.sub = v])
      BY <2>2 DEF FireAutoApprove
    <3>2. v \in Nat /\ timer' \in [Milestones -> SUBSET Nat]
      BY <3>1
    <3>3. [Idle EXCEPT !.pc = "lock", !.op = "auto_approve", !.m = m,
                       !.row = proposal, !.sub = v] \in RequestType
      BY <3>2, EntriesAreRequests DEF Steps, Operations
    <3>4. req' \in [Procs -> RequestType]
      BY <1>2, <3>1, <3>3
    <3> QED
      BY <1>0, <1>1, <2>2, <3>2, <3>4 DEF FireAutoApprove, dbVars, payVars, envVars
  <2>3. CASE FireAutoClose(w)
    <3>1. req' \in [Procs -> RequestType]
      BY <1>2, <2>3, EntriesAreRequests, NMilestone DEF FireAutoClose, Steps, Operations
    <3> QED
      BY <1>1, <2>3, <3>1 DEF FireAutoClose, dbVars, payVars, envVars
  <2> QED
    BY <1>7, <2>1, <2>2, <2>3 DEF WorkerEvent
<1>8. ASSUME NEW p \in Procs, Step(p)
      PROVE  TypeOK'
  <2>1. CASE LoadForFunding(p)
    <3>1. req' \in [Procs -> RequestType]
      BY <1>2, <2>1, CopiesAreRequests DEF LoadForFunding, Steps
    <3> QED
      BY <1>1, <2>1, <3>1 DEF LoadForFunding, dbVars, payVars, eventVars, envVars
  <2>2. CASE ReadCurrent(p)
    <3>1. req' \in [Procs -> RequestType]
      <4>1. CASE Return(p)
        BY <1>3, <4>1
      <4>2. CASE \E m \in Milestones, step \in {"intent", "lock"} :
                   Enter(p, [req[p] EXCEPT !.pc = step, !.m = m])
        BY <1>2, <4>2, ChoicesAreRequests DEF Steps
      <4> QED
        BY <2>2, <4>1, <4>2 DEF ReadCurrent
    <3> QED
      BY <1>0, <1>1, <2>2, <3>1 DEF ReadCurrent, dbVars, payVars, eventVars, envVars
  <2>3. CASE CreatePaymentIntent(p)
    <3>1. req' \in [Procs -> RequestType]
      BY <1>3, <2>3 DEF CreatePaymentIntent
    <3>2. req[p].m \in Milestones
      BY <2>3 DEF CreatePaymentIntent, HandlerInv, Sound, OnItsWay
    <3> QED
      BY <1>0, <1>1, <2>3, <3>1, <3>2 DEF CreatePaymentIntent, eventVars, envVars
  <2>4. CASE ScanForCancel(p)
    <3>1. req' \in [Procs -> RequestType]
      <4>1. {m \in Milestones : milestone[m].status = "pending_funding"}
              \in SUBSET Milestones
        OBVIOUS
      <4> QED
        BY <1>2, <1>3, <2>4, <4>1, SweepsAreRequests DEF ScanForCancel, Steps
    <3> QED
      BY <1>0, <1>1, <2>4, <3>1 DEF ScanForCancel, dbVars, payVars, eventVars, envVars
  <2>5. CASE NextInSweep(p)
    <3>1. req' \in [Procs -> RequestType]
      <4>1. req[p].rest \in SUBSET Milestones
        BY DEF RequestType
      <4>2. CASE Goto(p, "derive")
        BY <1>4, <4>2 DEF Steps
      <4>3. CASE \E m \in req[p].rest :
                   Enter(p, [req[p] EXCEPT !.pc = "lock", !.m = m,
                                           !.rest = req[p].rest \ {m}])
        <5>1. PICK m \in req[p].rest :
                     Enter(p, [req[p] EXCEPT !.pc = "lock", !.m = m,
                                             !.rest = req[p].rest \ {m}])
          BY <4>3
        <5>2. m \in Milestones /\ req[p].rest \ {m} \in SUBSET Milestones
          BY <4>1
        <5> QED
          BY <1>2, <5>1, <5>2, SweepsAreRequests DEF Steps
      <4> QED
        BY <2>5, <4>2, <4>3 DEF NextInSweep
    <3> QED
      BY <1>0, <1>1, <2>5, <3>1 DEF NextInSweep, dbVars, payVars, eventVars, envVars
  <2>6. CASE LockMilestone(p)
    <3>1. /\ req[p].m \in Milestones
          /\ Target(req[p].op) \in MilestoneStatus
      BY <2>6, TargetIsLegal DEF LockMilestone, HandlerInv, Sound, OnItsWay
    <3>2. /\ milestone[req[p].m].status \in MilestoneStatus
          /\ milestone[req[p].m].version \in Nat
      BY <3>1
    <3>3. req' \in [Procs -> RequestType]
      <4>1. ASSUME NEW t \in MilestoneStatus,
                   Enter(p, [req[p] EXCEPT !.pc = "save", !.to = t,
                                           !.ver = milestone[req[p].m].version])
            PROVE  req' \in [Procs -> RequestType]
        BY <1>2, <3>2, <4>1, DecisionsAreRequests DEF Steps
      <4> QED
        BY <1>3, <1>4, <2>6, <3>1, <3>2, <4>1 DEF LockMilestone, Steps
    <3> QED
      BY <1>0, <1>1, <2>6, <3>3 DEF LockMilestone, dbVars, payVars, eventVars, envVars
  <2>7. CASE SaveMilestone(p)
    <3>1. /\ req' \in [Procs -> RequestType]
          /\ timer' \in [Milestones -> SUBSET Nat] /\ closeTimer' \in Nat
      BY <1>3, <1>4, <1>5, <2>7 DEF SaveMilestone, Steps, eventVars
    <3> QED
      BY <1>0, <1>1, <2>7, <3>1 DEF SaveMilestone, payVars, envVars
  <2>8. CASE RecomputeMacroStatus(p)
    <3>1. req' \in [Procs -> RequestType]
      <4>1. CASE Goto(p, "finish")
        BY <1>4, <4>1 DEF Steps
      <4>2. CASE Enter(p, [req[p] EXCEPT !.pc = "write",
                             !.row = [@ EXCEPT !.status = DeriveMacroStatus(Statuses)]])
        BY <1>2, <4>2, DeriveMacroStatusFacts, ProjectionsAreRequests DEF Steps
      <4> QED
        BY <2>8, <4>1, <4>2 DEF RecomputeMacroStatus
    <3> QED
      BY <1>0, <1>1, <2>8, <3>1 DEF RecomputeMacroStatus, dbVars, payVars, eventVars, envVars
  <2>9. CASE WriteProposal(p)
    <3>1. req' \in [Procs -> RequestType] /\ req[p].row \in RowType
      BY <1>4, <2>9 DEF WriteProposal, RequestType, Steps
    <3> QED
      BY <1>0, <1>1, <2>9, <3>1 DEF WriteProposal, payVars, eventVars, envVars
  <2>10. CASE FinishSubmit(p)
    <3>1. req' \in [Procs -> RequestType] /\ req[p].ver + 1 \in Nat
      BY <1>3, <2>10 DEF FinishSubmit, RequestType
    <3> QED
      BY <1>0, <1>1, <2>10, <3>1 DEF FinishSubmit, dbVars, payVars, envVars
  <2>11. CASE FinishRelease(p)
    <3>1. req' \in [Procs -> RequestType]
      BY <1>3, <2>11 DEF FinishRelease
    <3> QED
      BY <1>0, <1>1, <2>11, <3>1 DEF FinishRelease, dbVars, payVars
  <2>12. CASE FinishOther(p)
    <3>1. req' \in [Procs -> RequestType]
      BY <1>3, <2>12 DEF FinishOther
    <3> QED
      BY <1>0, <1>1, <2>12, <3>1 DEF FinishOther, dbVars, payVars, eventVars, envVars
  <2> QED
    BY <1>8, <2>1, <2>2, <2>3, <2>4, <2>5, <2>6, <2>7, <2>8, <2>9, <2>10, <2>11,
       <2>12 DEF Step
<1>9. ASSUME NEW p \in Procs, Crash(p)
      PROVE  TypeOK'
  <2>1. /\ req' \in [Procs -> RequestType]
        /\ timer' \in [Milestones -> SUBSET Nat] /\ closeTimer' \in Nat
    BY <1>3, <1>5, <1>9 DEF Crash
  <2> QED
    BY <1>1, <1>9, <2>1 DEF Crash, dbVars, payVars
<1>10. ASSUME NEW m \in Milestones, SettleIntent(m)
       PROVE  TypeOK'
  BY <1>1, <1>10 DEF SettleIntent, eventVars, envVars
<1>11. CASE CompleteOnboarding
  BY <1>1, <1>11 DEF CompleteOnboarding, dbVars, payVars, eventVars
<1>12. CASE UNCHANGED vars
  BY <1>1, <1>12 DEF vars, dbVars, payVars, eventVars, envVars
<1> QED
  BY <1>6, <1>7, <1>8, <1>9, <1>10, <1>11, <1>12 DEF Next

(***************************************************************************)
(* A sound handler stays sound while others write: their write moves the   *)
(* version it holds, and what it knows to be over stays over.              *)
(***************************************************************************)
LEMMA SoundIsStable ==
  ASSUME TypeOK, SequentialEscrow, HandlerInv, [Next]_vars,
         NEW r \in RequestType, Sound(r)
  PROVE  Sound(r)'
<1>1. OnItsWay(r)'
  BY DEF Sound, OnItsWay
<1>2. WriteIsLegal(r)'
  <2> SUFFICES ASSUME r.pc = "save"
               PROVE  WriteIsLegal(r)'
    BY DEF WriteIsLegal
  <2>1. r.m \in Milestones /\ r.ver \in Nat
    BY DEF Sound, OnItsWay, RequestType
  <2>2. milestone[r.m].version \in Nat /\ milestone'[r.m].version \in Nat
    BY <2>1, TypeIsInductive DEF TypeOK
  <2>3. /\ milestone[r.m].version <= milestone'[r.m].version
        /\ milestone'[r.m].version = milestone[r.m].version =>
             milestone'[r.m].status = milestone[r.m].status
    BY <2>1, RowsAreMonotone
  <2> QED
    BY <2>1, <2>2, <2>3 DEF Sound, WriteIsLegal
<1>3. FundingIsInOrder(r)'
  BY RowsAreMonotone DEF Sound, FundingIsInOrder
<1>4. CopyIsRight(r)'
  BY ReleasedIsStable DEF Sound, CopyIsRight
<1> QED
  BY <1>1, <1>2, <1>3, <1>4 DEF Sound

(***************************************************************************)
(* What a handler does makes its own record sound, with respect to the     *)
(* rows it has just read.                                                  *)
(***************************************************************************)
LEMMA IdleIsSound == Sound(Idle)
BY DEF Sound, OnItsWay, WriteIsLegal, FundingIsInOrder, CopyIsRight, Idle

\* Whatever starts a handler (a request, a webhook, a timer) leaves its
\* process with a sound request.
LEMMA NewEntriesAreSound ==
  ASSUME TypeOK, CompletedMeansAllReleased, NEW p \in Procs,
         \/ p \in Users /\ UserRequest(p)
         \/ p \in Workers /\ WorkerEvent(p)
  PROVE  UNCHANGED req \/ \E r \in RequestType : Enter(p, r) /\ Sound(r)
<1>0. /\ Idle \in RequestType
      /\ Idle.pc = "idle" /\ Idle.row.status = "pending"
  BY IdleIsARequest DEF Idle
<1>1. proposal \in RowType
  BY DEF TypeOK
<1>2. ASSUME NEW step \in Steps, NEW op \in Operations,
             step \in {"load", "current", "scan", "write"},
             step = "load" => op = "fund",
             step = "current" => op \in {"pay", "submit", "complete", "reject"},
             step = "scan" => Sweep(op)
      PROVE  /\ [Idle EXCEPT !.pc = step, !.op = op] \in RequestType
             /\ Sound([Idle EXCEPT !.pc = step, !.op = op])
             /\ [Idle EXCEPT !.pc = step, !.op = op, !.row = proposal] \in RequestType
             /\ Sound([Idle EXCEPT !.pc = step, !.op = op, !.row = proposal])
  <2>1. /\ [Idle EXCEPT !.pc = step, !.op = op] \in RequestType
        /\ [Idle EXCEPT !.pc = step, !.op = op, !.row = proposal] \in RequestType
    BY <1>1, EntriesAreRequests, NMilestone
  <2>2. Sound([Idle EXCEPT !.pc = step, !.op = op])
    BY <1>0, <1>2 DEF RequestType, Sound, OnItsWay, WriteIsLegal, FundingIsInOrder,
       CopyIsRight
  <2>3. Sound([Idle EXCEPT !.pc = step, !.op = op, !.row = proposal])
    BY <1>0, <1>2 DEF RequestType, CompletedMeansAllReleased, Sound, OnItsWay,
       WriteIsLegal, FundingIsInOrder, CopyIsRight
  <2> QED
    BY <2>1, <2>2, <2>3
<1>3. ASSUME NEW op \in Operations, NEW status \in ProposalStatus,
             status # "completed", Answer(p, op, status)
      PROVE  \E r \in RequestType : Enter(p, r) /\ Sound(r)
  <2> DEFINE row == [proposal EXCEPT !.status = status]
             r == [Idle EXCEPT !.pc = "write", !.op = op, !.row = row]
  <2>1. row \in RowType /\ row.status = status
    BY <1>1 DEF RowType
  <2>2. r \in RequestType
    BY <2>1, EntriesAreRequests, NMilestone DEF Steps
  <2>3. r.pc = "write" /\ r.row = row
    BY <1>0 DEF RequestType
  <2>4. Sound(r)
    BY <1>3, <2>1, <2>3 DEF Sound, OnItsWay, WriteIsLegal, FundingIsInOrder,
       CopyIsRight
  <2> QED
    BY <1>3, <2>2, <2>4 DEF Answer
<1>4. CASE UserRequest(p)
  <2>1. CASE AcceptProposal(p) \/ DeclineProposal(p)
    BY <1>3, <2>1 DEF AcceptProposal, DeclineProposal, Operations, ProposalStatus
  <2>2. CASE CancelProposal(p)
    BY <1>2, <2>2 DEF CancelProposal, Operations, Steps, Sweep
  <2>3. CASE ConfirmPayment(p) \/ AdminActivateProposal(p)
    BY <1>2, <2>3 DEF ConfirmPayment, AdminActivateProposal, MarkPaid, Operations, Steps
  <2>4. ASSUME NEW op \in {"pay", "submit", "complete", "reject"}, LoadProposal(p, op)
        PROVE  \E r \in RequestType : Enter(p, r) /\ Sound(r)
    BY <1>2, <2>4 DEF LoadProposal, Operations, Steps
  <2> QED
    BY <1>4, <2>1, <2>2, <2>3, <2>4 DEF UserRequest
<1>5. CASE WorkerEvent(p)
  <2>1. ASSUME NEW m \in Milestones, PaymentSucceeded(p, m)
        PROVE  \E r \in RequestType : Enter(p, r) /\ Sound(r)
    BY <1>2, <2>1 DEF PaymentSucceeded, MarkPaid, Operations, Steps
  <2>2. ASSUME NEW m \in Milestones, FireAutoApprove(p, m)
        PROVE  UNCHANGED req \/ \E r \in RequestType : Enter(p, r) /\ Sound(r)
    <3>1. ASSUME NEW v \in timer[m]
          PROVE  LET r == [Idle EXCEPT !.pc = "lock", !.op = "auto_approve", !.m = m,
                                       !.row = proposal, !.sub = v]
                 IN  r \in RequestType /\ Sound(r)
      <4> DEFINE r == [Idle EXCEPT !.pc = "lock", !.op = "auto_approve", !.m = m,
                                   !.row = proposal, !.sub = v]
      <4>1. v \in Nat
        BY DEF TypeOK
      <4>2. r \in RequestType
        BY <1>1, <4>1, EntriesAreRequests DEF Steps, Operations
      <4>3. /\ r.pc = "lock" /\ r.op = "auto_approve" /\ r.m = m
            /\ r.row = proposal
        BY <1>0 DEF RequestType
      <4>4. Sound(r)
        BY <4>3 DEF LockOps, CompletedMeansAllReleased, Sound, OnItsWay,
           WriteIsLegal, FundingIsInOrder, CopyIsRight
      <4> QED
        BY <4>2, <4>4
    <3> QED
      BY <2>2, <3>1 DEF FireAutoApprove
  <2>3. CASE FireAutoClose(p)
    BY <1>2, <2>3 DEF FireAutoClose, Operations, Steps, Sweep
  <2> QED
    BY <1>5, <2>1, <2>2, <2>3 DEF WorkerEvent
<1> QED
  BY <1>4, <1>5

SoundNext(p) ==
  \E r \in RequestType :
    Enter(p, r) /\ Sound(r) /\ r.op \in {req[p].op, "none"}

\* Every step of a sound handler leaves it sound, as far as its own process
\* is concerned.
LEMMA NewStepsAreSound ==
  ASSUME TypeOK, CompletedMeansAllReleased, HandlerInv, NEW p \in Procs, Step(p)
  PROVE  SoundNext(p)
<1> DEFINE q == req[p]
<1>0. /\ q \in RequestType /\ proposal \in RowType
      /\ Sound(q)
  BY DEF TypeOK, HandlerInv
<1>1. ASSUME Return(p)
      PROVE  SoundNext(p)
  <2>1. Idle.op = "none"
    BY DEF Idle
  <2> QED
    BY <1>1, <2>1, IdleIsARequest, IdleIsSound DEF Return, SoundNext
<1>2. ASSUME NEW step \in {"sweep", "derive", "finish"}, Goto(p, step),
             step = "sweep" => Sweep(q.op)
      PROVE  SoundNext(p)
  <2> DEFINE r == [q EXCEPT !.pc = step]
  <2>1. r \in RequestType
    BY <1>0, StepsAreRequests DEF Steps
  <2>2. r.pc = step /\ r.op = q.op /\ r.row = q.row
    BY <1>0 DEF RequestType
  <2>3. Sound(r)
    BY <1>0, <1>2, <2>2
    DEF Sound, OnItsWay, WriteIsLegal, FundingIsInOrder, CopyIsRight
  <2> QED
    BY <1>2, <2>1, <2>2, <2>3 DEF Goto, SoundNext
<1>3. CASE LoadForFunding(p)
  <2> DEFINE r == [q EXCEPT !.pc = "current", !.row = proposal]
  <2>1. r \in RequestType
    BY <1>0, CopiesAreRequests DEF Steps
  <2>2. r.pc = "current" /\ r.op = q.op /\ r.row = proposal
    BY <1>0 DEF RequestType
  <2>3. q.op = "fund"
    BY <1>0, <1>3 DEF LoadForFunding, Sound, OnItsWay
  <2>4. Sound(r)
    BY <2>2, <2>3
    DEF Sound, OnItsWay, WriteIsLegal, FundingIsInOrder, CopyIsRight,
        CompletedMeansAllReleased
  <2> QED
    BY <1>3, <2>1, <2>2, <2>4 DEF LoadForFunding, SoundNext
<1>4. CASE ReadCurrent(p)
  <2>1. q.op \in {"pay", "fund", "submit", "complete", "reject"}
    BY <1>0, <1>4 DEF ReadCurrent, Sound, OnItsWay
  <2>2. ASSUME NEW m \in Milestones, IsCurrentActive(Statuses, m),
               Enter(p, [q EXCEPT !.pc = IF q.op = "pay" THEN "intent" ELSE "lock",
                                  !.m = m])
        PROVE  SoundNext(p)
    <3> DEFINE r == [q EXCEPT !.pc = IF q.op = "pay" THEN "intent" ELSE "lock",
                              !.m = m]
    <3>1. r \in RequestType
      BY <1>0, ChoicesAreRequests DEF Steps
    <3>2. /\ r.pc = IF q.op = "pay" THEN "intent" ELSE "lock"
          /\ r.op = q.op /\ r.m = m /\ r.row = q.row
      BY <1>0 DEF RequestType
    <3>3. \A i \in Milestones : i < m => IsTerminal(milestone[i].status)
      BY <2>2 DEF IsCurrentActive, Statuses
    <3>4. OnItsWay(r)
      BY <2>1, <3>2 DEF OnItsWay, LockOps
    <3>5. WriteIsLegal(r) /\ FundingIsInOrder(r)
      BY <3>2, <3>3 DEF WriteIsLegal, FundingIsInOrder
    <3>6. CopyIsRight(r)
      BY <1>0, <3>2 DEF Sound, CopyIsRight
    <3> QED
      BY <2>2, <3>1, <3>2, <3>4, <3>5, <3>6 DEF Sound, SoundNext
  <2> QED
    BY <1>1, <1>4, <2>2 DEF ReadCurrent
<1>5. CASE ScanForCancel(p)
  <2>1. Sweep(q.op)
    BY <1>0, <1>5 DEF ScanForCancel, Sound, OnItsWay
  <2>2. ASSUME NEW rest \in SUBSET Milestones,
               Enter(p, [q EXCEPT !.pc = "sweep", !.rest = rest])
        PROVE  SoundNext(p)
    <3> DEFINE r == [q EXCEPT !.pc = "sweep", !.rest = rest]
    <3>1. r \in RequestType
      BY <1>0, SweepsAreRequests DEF Steps
    <3>2. r.pc = "sweep" /\ r.op = q.op /\ r.row = q.row
      BY <1>0 DEF RequestType
    <3>3. Sound(r)
      BY <1>0, <2>1, <3>2
      DEF Sound, OnItsWay, WriteIsLegal, FundingIsInOrder, CopyIsRight
    <3> QED
      BY <2>2, <3>1, <3>2, <3>3 DEF SoundNext
  <2>3. {m \in Milestones : milestone[m].status = "pending_funding"}
          \in SUBSET Milestones
    OBVIOUS
  <2> QED
    BY <1>1, <1>5, <2>2, <2>3 DEF ScanForCancel
<1>6. CASE NextInSweep(p)
  <2>1. Sweep(q.op) /\ q.rest \in SUBSET Milestones
    BY <1>0, <1>6 DEF NextInSweep, Sound, OnItsWay, RequestType
  <2>2. ASSUME NEW m \in q.rest,
               Enter(p, [q EXCEPT !.pc = "lock", !.m = m, !.rest = q.rest \ {m}])
        PROVE  SoundNext(p)
    <3> DEFINE r == [q EXCEPT !.pc = "lock", !.m = m, !.rest = q.rest \ {m}]
    <3>1. m \in Milestones /\ q.rest \ {m} \in SUBSET Milestones
      BY <2>1
    <3>2. r \in RequestType
      BY <1>0, <3>1, SweepsAreRequests DEF Steps
    <3>3. r.pc = "lock" /\ r.op = q.op /\ r.m = m /\ r.row = q.row
      BY <1>0 DEF RequestType
    <3>4. Sound(r)
      BY <1>0, <2>1, <3>1, <3>3
      DEF Sound, OnItsWay, WriteIsLegal, FundingIsInOrder, CopyIsRight, Sweep, LockOps
    <3> QED
      BY <2>2, <3>2, <3>3, <3>4 DEF SoundNext
  <2> QED
    BY <1>2, <1>6, <2>2 DEF NextInSweep
<1>7. CASE LockMilestone(p)
  <2> DEFINE s == milestone[q.m].status
             v == milestone[q.m].version
  <2>1. q.op \in LockOps /\ q.m \in Milestones
    BY <1>0, <1>7 DEF LockMilestone, Sound, OnItsWay
  <2>2. s \in MilestoneStatus /\ v \in Nat
    BY <2>1 DEF TypeOK
  <2>3. ASSUME NEW t \in MilestoneStatus,
               t = s \/ (s = Expected(q.op) /\ t = Target(q.op)),
               Enter(p, [q EXCEPT !.pc = "save", !.to = t, !.ver = v])
        PROVE  SoundNext(p)
    <3> DEFINE r == [q EXCEPT !.pc = "save", !.to = t, !.ver = v]
    <3>1. r \in RequestType
      BY <1>0, <2>2, DecisionsAreRequests DEF Steps
    <3>2. /\ r.pc = "save" /\ r.to = t /\ r.ver = v
          /\ r.op = q.op /\ r.m = q.m /\ r.row = q.row
      BY <1>0 DEF RequestType
    <3>3. OnItsWay(r) /\ CopyIsRight(r)
      BY <1>0, <2>1, <3>2 DEF Sound, OnItsWay, CopyIsRight
    <3>4. WriteIsLegal(r)
      BY <2>2, <2>3, <3>2 DEF WriteIsLegal
    <3>5. FundingIsInOrder(r)
      BY <1>0, <1>7, <3>2 DEF LockMilestone, Sound, FundingIsInOrder
    <3> QED
      BY <2>3, <3>1, <3>2, <3>3, <3>4, <3>5 DEF Sound, SoundNext
  <2>4. CASE s = Expected(q.op)
    <3>1. Enter(p, [q EXCEPT !.pc = "save", !.to = Target(q.op), !.ver = v])
      BY <1>7, <2>4 DEF LockMilestone
    <3> QED
      BY <2>1, <2>3, <2>4, <3>1, TargetIsLegal
  <2>5. CASE s # Expected(q.op) /\ q.op = "auto_approve"
    <3>1. Enter(p, [q EXCEPT !.pc = "save", !.to = s, !.ver = v])
      BY <1>7, <2>5 DEF LockMilestone
    <3> QED
      BY <2>2, <2>3, <3>1
  <2>6. CASE s # Expected(q.op) /\ q.op = "auto_close"
    <3>1. Goto(p, "sweep")
      BY <1>7, <2>6 DEF LockMilestone
    <3> QED
      BY <1>2, <2>6, <3>1 DEF Sweep
  <2>7. CASE s # Expected(q.op) /\ q.op \notin {"auto_approve", "auto_close"}
    <3>1. Return(p)
      BY <1>7, <2>7 DEF LockMilestone
    <3> QED
      BY <1>1, <3>1
  <2> QED
    BY <2>4, <2>5, <2>6, <2>7
<1>8. CASE SaveMilestone(p)
  BY <1>1, <1>2, <1>8 DEF SaveMilestone
<1>9. CASE RecomputeMacroStatus(p)
  <2> DEFINE derived == DeriveMacroStatus(Statuses)
             row == [q.row EXCEPT !.status = derived]
             r == [q EXCEPT !.pc = "write", !.row = row]
  <2>1. CASE Goto(p, "finish")
    BY <1>2, <2>1
  <2>2. CASE Enter(p, r)
    <3>1. row \in RowType /\ row.status = derived
      BY <1>0, DeriveMacroStatusFacts DEF RequestType, RowType
    <3>2. r \in RequestType
      BY <1>0, <3>1, CopiesAreRequests DEF Steps
    <3>3. r.pc = "write" /\ r.row = row /\ r.op = q.op
      BY <1>0 DEF RequestType
    <3>4. Sound(r)
      BY <3>1, <3>3, DeriveMacroStatusFacts
      DEF Sound, OnItsWay, WriteIsLegal, FundingIsInOrder, CopyIsRight
    <3> QED
      BY <2>2, <3>2, <3>3, <3>4 DEF SoundNext
  <2> QED
    BY <1>9, <2>1, <2>2 DEF RecomputeMacroStatus
<1>10. CASE WriteProposal(p)
  BY <1>2, <1>10 DEF WriteProposal
<1>11. CASE CreatePaymentIntent(p) \/ FinishSubmit(p) \/ FinishRelease(p) \/ FinishOther(p)
  BY <1>1, <1>11 DEF CreatePaymentIntent, FinishSubmit, FinishRelease, FinishOther
<1> QED
  BY <1>3, <1>4, <1>5, <1>6, <1>7, <1>8, <1>9, <1>10, <1>11 DEF Step

(***************************************************************************)
(* The inductive step, conjunct by conjunct.                               *)
(***************************************************************************)
LEMMA HandlersStaySound ==
  ASSUME IInv, [Next]_vars
  PROVE  HandlerInv'
<1> SUFFICES ASSUME NEW q \in Procs
             PROVE  Sound(req[q])'
  BY DEF HandlerInv
<1> USE DEF IInv
<1>1. ASSUME NEW r \in RequestType, Sound(r), req'[q] = r
      PROVE  Sound(req[q])'
  <2>1. Sound(r)'
    BY <1>1, SoundIsStable
  <2> QED
    BY <1>1, <2>1
    DEF Sound, OnItsWay, WriteIsLegal, FundingIsInOrder, CopyIsRight
<1>2. ASSUME req'[q] = req[q]
      PROVE  Sound(req[q])'
  BY <1>1, <1>2 DEF TypeOK, HandlerInv
<1>3. ASSUME NEW p \in Procs, NEW r \in RequestType, Enter(p, r), Sound(r)
      PROVE  Sound(req[q])'
  <2>1. CASE q = p
    <3>1. req'[q] = r
      BY <1>3, <2>1 DEF Enter, TypeOK
    <3> QED
      BY <1>1, <1>3, <3>1
  <2>2. CASE q # p
    <3>1. req'[q] = req[q]
      BY <1>3, <2>2 DEF Enter, TypeOK
    <3> QED
      BY <1>2, <3>1
  <2> QED
    BY <2>1, <2>2
<1>4. ASSUME NEW p \in Procs,
             \/ p \in Users /\ UserRequest(p)
             \/ p \in Workers /\ WorkerEvent(p)
      PROVE  Sound(req[q])'
  BY <1>2, <1>3, <1>4, NewEntriesAreSound
<1>5. ASSUME NEW p \in Procs, Step(p)
      PROVE  Sound(req[q])'
  BY <1>3, <1>5, NewStepsAreSound DEF SoundNext
<1>6. ASSUME NEW p \in Procs, Crash(p)
      PROVE  Sound(req[q])'
  BY <1>3, <1>6, IdleIsARequest, IdleIsSound DEF Crash, Return
<1>7. CASE UNCHANGED req
  BY <1>2, <1>7
<1>8. CASE (\E m \in Milestones : SettleIntent(m)) \/ CompleteOnboarding
  BY <1>7, <1>8 DEF SettleIntent, CompleteOnboarding
<1>9. CASE UNCHANGED vars
  BY <1>7, <1>9 DEF vars
<1> QED
  BY <1>4, <1>5, <1>6, <1>8, <1>9 DEF Next, Procs

\* Strict-sequential escrow is preserved by every step.
LEMMA SequenceIsKept ==
  ASSUME IInv, [Next]_vars
  PROVE  SequentialEscrow'
<1> DEFINE Seq(rows) ==
      \A i, j \in Milestones :
        i < j /\ EverFunded(rows[j].status) => IsTerminal(rows[i].status)
<1>1. Seq(milestone)
  BY DEF IInv, SequentialEscrow, E!Sequential, E!Milestones, Milestones, Statuses,
     E!EverFunded, EverFunded, E!IsTerminal, IsTerminal, E!IsActive, IsActive
<1>2. ASSUME NEW i \in Milestones, NEW j \in Milestones, i < j,
             EverFunded(milestone'[j].status)
      PROVE  IsTerminal(milestone'[i].status)
  <2>1. IsTerminal(milestone[i].status) => IsTerminal(milestone'[i].status)
    BY RowsAreMonotone DEF IInv
  <2>2. CASE EverFunded(milestone[j].status)
    BY <1>1, <1>2, <2>1, <2>2
  <2>3. CASE ~ EverFunded(milestone[j].status)
    <3>1. PICK p \in Procs : RowWrite(p)
      BY <1>2, <2>3, RowsChangeByWrites
    <3>2. req[p].m = j /\ milestone'[j].status = req[p].to
      BY <1>2, <2>3, <3>1 DEF RowWrite, IInv, TypeOK
    <3>3. LegalMove(j, req[p].to)
      BY <1>2, <2>3, <3>1, <3>2, RowWriteIsLegal DEF IInv
    <3>4. milestone'[j].status = "funded"
      BY <1>2, <2>3, <3>2, <3>3
      DEF LegalMove, CanPersist, CanTransitionTo, EverFunded, IsActive
    <3> QED
      BY <1>2, <2>1, <3>2, <3>3, <3>4 DEF LegalMove
  <2> QED
    BY <2>2, <2>3
<1>3. Seq(milestone')
  BY <1>2
<1> QED
  BY <1>3 DEF SequentialEscrow, E!Sequential, E!Milestones, Milestones, Statuses,
     E!EverFunded, EverFunded, E!IsTerminal, IsTerminal, E!IsActive, IsActive

\* A completion the proposals row or the end-of-project effects report stays
\* true, and is true when it is first reported.
LEMMA CompletionIsKept ==
  ASSUME IInv, [Next]_vars
  PROVE  CompletedMeansAllReleased'
<1> USE DEF IInv
<1>1. AllReleased(Statuses) => AllReleased(Statuses)'
  BY ReleasedIsStable
<1>2. CASE UNCHANGED <<proposal, closeOut>>
  BY <1>1, <1>2 DEF CompletedMeansAllReleased
<1>3. ASSUME NEW p \in Procs, WriteProposal(p)
      PROVE  CompletedMeansAllReleased'
  BY <1>1, <1>3 DEF WriteProposal, CompletedMeansAllReleased, HandlerInv, Sound,
     CopyIsRight, envVars
<1>4. ASSUME NEW p \in Procs, FinishRelease(p)
      PROVE  CompletedMeansAllReleased'
  BY <1>1, <1>4 DEF FinishRelease, CompletedMeansAllReleased, HandlerInv, Sound,
     CopyIsRight, dbVars
<1>5. ASSUME NEW p \in Users, UserRequest(p)
      PROVE  UNCHANGED <<proposal, closeOut>>
  BY <1>5 DEF UserRequest, AcceptProposal, DeclineProposal, CancelProposal,
     ConfirmPayment, AdminActivateProposal, LoadProposal, Answer, MarkPaid, dbVars,
     envVars
<1>6. ASSUME NEW w \in Workers, WorkerEvent(w)
      PROVE  UNCHANGED <<proposal, closeOut>>
  BY <1>6 DEF WorkerEvent, PaymentSucceeded, FireAutoApprove, FireAutoClose,
     MarkPaid, dbVars, envVars
<1>7. ASSUME NEW p \in Procs, Step(p), ~ WriteProposal(p), ~ FinishRelease(p)
      PROVE  UNCHANGED <<proposal, closeOut>>
  BY <1>7 DEF Step, LoadForFunding, ReadCurrent, CreatePaymentIntent, ScanForCancel,
     NextInSweep, LockMilestone, SaveMilestone, RecomputeMacroStatus, FinishSubmit,
     FinishOther, dbVars, envVars
<1>8. ASSUME NEW p \in Procs, Crash(p)
      PROVE  UNCHANGED <<proposal, closeOut>>
  BY <1>8 DEF Crash, dbVars
<1>9. CASE (\E m \in Milestones : SettleIntent(m)) \/ CompleteOnboarding
  BY <1>2, <1>9 DEF SettleIntent, CompleteOnboarding, dbVars, envVars
<1>10. CASE UNCHANGED vars
  BY <1>2, <1>10 DEF vars, dbVars, envVars
<1> QED
  BY <1>2, <1>3, <1>4, <1>5, <1>6, <1>7, <1>8, <1>9, <1>10 DEF Next

\* The inductive invariant holds initially.
LEMMA InitIsSound == Init => IInv
<1> SUFFICES ASSUME Init PROVE IInv
  OBVIOUS
<1>1. TypeOK
  BY InitIsTyped
<1>2. \A m \in Milestones : Statuses[m] = "pending_funding"
  BY DEF Init, Statuses
<1>3. SequentialEscrow
  BY <1>2 DEF SequentialEscrow, E!Sequential, E!Milestones, Milestones, E!EverFunded,
     E!IsActive
<1>4. CompletedMeansAllReleased
  BY DEF Init, CompletedMeansAllReleased
<1>5. HandlerInv
  BY IdleIsSound DEF Init, HandlerInv
<1> QED
  BY <1>1, <1>3, <1>4, <1>5 DEF IInv

(***************************************************************************)
(* IInv holds initially and is kept by every step.                         *)
(***************************************************************************)
THEOREM Inductive == Spec => []IInv
<1>1. Init => IInv
  BY InitIsSound
<1>2. IInv /\ [Next]_vars => IInv'
  <2> SUFFICES ASSUME IInv, [Next]_vars PROVE IInv'
    OBVIOUS
  <2>1. TypeOK'
    BY TypeIsInductive DEF IInv
  <2> QED
    BY <2>1, HandlersStaySound, SequenceIsKept, CompletionIsKept DEF IInv
<1> QED
  BY <1>1, <1>2, PTL DEF Spec

(***************************************************************************)
(* Every row, record and handler in flight stays well typed.               *)
(***************************************************************************)
THEOREM TypeCorrect == Spec => []TypeOK
<1>1. IInv => TypeOK
  BY DEF IInv
<1> QED
  BY <1>1, Inductive, PTL

(***************************************************************************)
(* Strict-sequential escrow holds whatever the interleaving of handlers,   *)
(* for any number of milestones and processes.                             *)
(***************************************************************************)
THEOREM EscrowIsSequential == Spec => []SequentialEscrow
<1>1. IInv => SequentialEscrow
  BY DEF IInv
<1> QED
  BY <1>1, Inductive, PTL

(***************************************************************************)
(* A proposal is never wrongly completed, nor its end-of-project effects   *)
(* run before every milestone is released.                                 *)
(***************************************************************************)
THEOREM CompletionIsTrue == Spec => []CompletedMeansAllReleased
<1>1. IInv => CompletedMeansAllReleased
  BY DEF IInv
<1> QED
  BY <1>1, Inductive, PTL

(***************************************************************************)
(* What a handler holds between its read and its write stays sound.        *)
(***************************************************************************)
THEOREM HandlersAreSound == Spec => []HandlerInv
<1>1. IInv => HandlerInv
  BY DEF IInv
<1> QED
  BY <1>1, Inductive, PTL

(***************************************************************************)
(* The rows implement the abstract contract: each step of a handler is one *)
(* legal transition of one milestone, in sequence, or invisible.           *)
(***************************************************************************)
THEOREM RowsImplementEscrow == Spec => ImplementsEscrow
<1>1. Init => E!Init
  BY DEF Init, E!Init, Statuses, E!Milestones, Milestones
<1>2. ASSUME IInv, [Next]_vars
      PROVE  [E!Next]_Statuses
  <2>1. CASE UNCHANGED milestone
    BY <2>1 DEF Statuses
  <2>2. ASSUME NEW p \in Procs, RowWrite(p)
        PROVE  [E!Next]_Statuses
    <3> DEFINE m == req[p].m
               to == req[p].to
    <3>1. /\ m \in Milestones /\ to \in MilestoneStatus
          /\ to = milestone[m].status \/ LegalMove(m, to)
      BY <1>2, <2>2, RowWriteIsLegal DEF IInv
    <3>2. /\ Statuses' = [Statuses EXCEPT ![m] = to]
          /\ Statuses[m] = milestone[m].status
      <4>1. Statuses[m] = milestone[m].status
        BY <3>1 DEF Statuses
      <4>2. ASSUME NEW i \in Milestones
            PROVE  milestone'[i].status = IF i = m THEN to ELSE milestone[i].status
        BY <1>2, <2>2 DEF RowWrite, IInv, TypeOK
      <4> QED
        BY <4>1, <4>2 DEF Statuses
    <3>3. CASE to = milestone[m].status
      <4>1. Statuses' = Statuses
        BY <3>1, <3>2, <3>3 DEF Statuses
      <4> QED
        BY <4>1
    <3>4. CASE LegalMove(m, to)
      <4>1. E!Advance(m, to)
        BY <3>1, <3>2, <3>4
        DEF LegalMove, E!Advance, E!CanPersist, CanPersist, E!CanTransitionTo,
            CanTransitionTo, E!IsCurrentActive, E!IsTerminal, IsTerminal, Statuses
      <4>2. \/ E!Fund(m) \/ E!Cancel(m) \/ E!Submit(m) \/ E!Reject(m)
            \/ E!Approve(m) \/ E!Release(m) \/ E!Dispute(m) \/ E!Settle(m)
        BY <3>2, <4>1
        DEF E!Fund, E!Cancel, E!Submit, E!Reject, E!Approve, E!Release, E!Dispute, E!Settle,
            E!Advance, E!CanPersist, E!CanTransitionTo
      <4> QED
        BY <3>1, <4>2 DEF E!Next, E!Milestones, Milestones
    <3> QED
      BY <3>1, <3>3, <3>4
  <2> QED
    BY <1>2, <2>1, <2>2, RowsChangeByWrites
<1> QED
  BY <1>1, <1>2, Inductive, PTL DEF Spec, ImplementsEscrow, E!Spec

(***************************************************************************)
(* Funding follows a payment.  The strengthening: a payment has succeeded  *)
(* before any handler is on its way to fund.                               *)
(***************************************************************************)
Paid == \E m \in Milestones : payment[m] = "succeeded"

PaidInv ==
  /\ FundingFollowsAPayment
  /\ \A p \in Procs : req[p].pc # "idle" /\ req[p].op = "fund" => Paid

\* A payment that has succeeded is never taken back.
LEMMA PaidIsStable ==
  ASSUME IInv, [Next]_vars, Paid
  PROVE  Paid'
<1> USE DEF IInv
<1>0. payment \in [Milestones -> {"none", "pending", "settled", "succeeded"}]
  BY DEF TypeOK
<1>1. CASE UNCHANGED payment
  BY <1>1 DEF Paid
<1>2. ASSUME NEW p \in Procs, NEW m \in Milestones, MarkPaid(p, m)
      PROVE  Paid'
  BY <1>0, <1>2 DEF MarkPaid, Paid
<1>3. ASSUME NEW p \in Procs, CreatePaymentIntent(p)
      PROVE  Paid'
  BY <1>0, <1>3 DEF CreatePaymentIntent, Paid
<1>4. ASSUME NEW m \in Milestones, SettleIntent(m)
      PROVE  Paid'
  BY <1>0, <1>4 DEF SettleIntent, Paid
<1>5. ASSUME NEW p \in Users, UserRequest(p)
      PROVE  Paid'
  BY <1>1, <1>2, <1>5 DEF UserRequest, AcceptProposal, DeclineProposal, CancelProposal,
     ConfirmPayment, AdminActivateProposal, LoadProposal, Answer, dbVars, payVars, Procs
<1>6. ASSUME NEW w \in Workers, WorkerEvent(w)
      PROVE  Paid'
  BY <1>1, <1>2, <1>6 DEF WorkerEvent, PaymentSucceeded, FireAutoApprove,
     FireAutoClose, dbVars, payVars, Procs
<1>7. ASSUME NEW p \in Procs, Step(p), ~ CreatePaymentIntent(p)
      PROVE  Paid'
  BY <1>1, <1>7 DEF Step, LoadForFunding, ReadCurrent, ScanForCancel, NextInSweep,
     LockMilestone, SaveMilestone, RecomputeMacroStatus, WriteProposal, FinishSubmit,
     FinishRelease, FinishOther, dbVars, payVars
<1>8. ASSUME NEW p \in Procs, Crash(p)
      PROVE  Paid'
  BY <1>1, <1>8 DEF Crash, dbVars, payVars
<1>9. CASE CompleteOnboarding
  BY <1>1, <1>9 DEF CompleteOnboarding, dbVars, payVars
<1>10. CASE UNCHANGED vars
  BY <1>1, <1>10 DEF vars, dbVars, payVars
<1> QED
  BY <1>3, <1>4, <1>5, <1>6, <1>7, <1>8, <1>9, <1>10 DEF Next

(***************************************************************************)
(* A handler that is funding now was funding before, or has just seen a    *)
(* payment that succeeded.                                                 *)
(***************************************************************************)
LEMMA FundersHaveSeenAPayment ==
  ASSUME IInv, PaidInv, [Next]_vars, "activate" \notin Ops, NEW q \in Procs,
         req'[q].pc # "idle", req'[q].op = "fund"
  PROVE  Paid'
<1> USE DEF IInv
<1>0. /\ req \in [Procs -> RequestType] /\ Idle \in RequestType
      /\ Idle.pc = "idle" /\ Idle.op = "none"
  BY IdleIsARequest DEF TypeOK, Idle
<1>1. CASE UNCHANGED req
  BY <1>1, PaidIsStable DEF PaidInv
<1>2. ASSUME NEW p \in Procs, NEW r \in RequestType, Enter(p, r),
             r.pc # "idle" /\ r.op = "fund" => Paid'
      PROVE  Paid'
  BY <1>0, <1>2, PaidIsStable DEF PaidInv, Enter
<1>3. ASSUME NEW p \in Procs, NEW m \in Milestones, MarkPaid(p, m)
      PROVE  Paid'
  BY <1>3 DEF MarkPaid, Paid, TypeOK
<1>4. ASSUME NEW p \in Procs, NEW op \in Operations \ {"fund"},
             NEW r \in RequestType, Enter(p, r), r.op = op
      PROVE  Paid'
  BY <1>2, <1>4
<1>5. ASSUME NEW p \in Users, UserRequest(p)
      PROVE  Paid'
  <2> p \in Procs
    BY DEF Procs
  <2>1. CASE ConfirmPayment(p)
    BY <1>3, <2>1 DEF ConfirmPayment
  <2>2. CASE ~ ConfirmPayment(p)
    <3>1. ~ AdminActivateProposal(p)
      BY DEF AdminActivateProposal
    <3>2. PICK op \in Operations \ {"fund"}, step \in Steps, row \in RowType :
                 Enter(p, [Idle EXCEPT !.pc = step, !.op = op, !.row = row])
      <4>1. CASE AcceptProposal(p) \/ DeclineProposal(p)
        <5>1. \A status \in ProposalStatus :
                 [proposal EXCEPT !.status = status] \in RowType
          BY DEF TypeOK, RowType
        <5> QED
          BY <4>1, <5>1 DEF AcceptProposal, DeclineProposal, Answer, Operations,
             Steps, ProposalStatus
      <4>2. CASE CancelProposal(p)
        BY <4>2 DEF CancelProposal, Operations, Steps, TypeOK
      <4>3. ASSUME NEW op \in {"pay", "submit", "complete", "reject"},
                   LoadProposal(p, op)
            PROVE  \E step \in Steps, row \in RowType :
                     Enter(p, [Idle EXCEPT !.pc = step, !.op = op, !.row = row])
        BY <4>3 DEF LoadProposal, Steps, TypeOK
      <4>4. {"pay", "submit", "complete", "reject"} \subseteq Operations \ {"fund"}
        BY DEF Operations
      <4> QED
        BY <1>5, <2>2, <3>1, <4>1, <4>2, <4>3, <4>4 DEF UserRequest
    <3>3. [Idle EXCEPT !.pc = step, !.op = op, !.row = row] \in RequestType
      BY EntriesAreRequests, NMilestone
    <3>4. [Idle EXCEPT !.pc = step, !.op = op, !.row = row].op = op
      BY <1>0 DEF RequestType
    <3> QED
      BY <1>4, <3>2, <3>3, <3>4
  <2> QED
    BY <2>1, <2>2
<1>6. ASSUME NEW w \in Workers, WorkerEvent(w)
      PROVE  Paid'
  <2> w \in Procs
    BY DEF Procs
  <2>1. ASSUME NEW m \in Milestones, PaymentSucceeded(w, m)
        PROVE  Paid'
    BY <1>3, <2>1 DEF PaymentSucceeded
  <2>2. ASSUME NEW m \in Milestones, FireAutoApprove(w, m)
        PROVE  Paid'
    <3>1. CASE UNCHANGED req
      BY <1>1, <3>1
    <3>2. CASE ~ UNCHANGED req
      <4>1. PICK v \in timer[m] :
              Enter(w, [Idle EXCEPT !.pc = "lock", !.op = "auto_approve", !.m = m,
                                    !.row = proposal, !.sub = v])
        BY <2>2, <3>2 DEF FireAutoApprove
      <4> DEFINE r == [Idle EXCEPT !.pc = "lock", !.op = "auto_approve", !.m = m,
                                   !.row = proposal, !.sub = v]
      <4>2. r \in RequestType
        BY EntriesAreRequests DEF TypeOK, Steps, Operations
      <4>3. r.op = "auto_approve"
        BY <1>0 DEF RequestType
      <4> QED
        BY <1>2, <4>1, <4>2, <4>3
    <3> QED
      BY <3>1, <3>2
  <2>3. CASE FireAutoClose(w)
    <3>1. CASE UNCHANGED req
      BY <1>1, <3>1
    <3>2. CASE ~ UNCHANGED req
      <4> DEFINE r == [Idle EXCEPT !.pc = "scan", !.op = "auto_close", !.row = proposal]
      <4>1. Enter(w, r)
        BY <2>3, <3>2 DEF FireAutoClose
      <4>2. r \in RequestType
        BY EntriesAreRequests, NMilestone DEF TypeOK, Steps, Operations
      <4>3. r.op = "auto_close"
        BY <1>0 DEF RequestType
      <4> QED
        BY <1>2, <4>1, <4>2, <4>3
    <3> QED
      BY <3>1, <3>2
  <2> QED
    BY <1>6, <2>1, <2>2, <2>3 DEF WorkerEvent
<1>7. ASSUME NEW p \in Procs, Step(p)
      PROVE  Paid'
  <2>1. req[p].pc # "idle"
    BY <1>7 DEF Step, LoadForFunding, ReadCurrent, CreatePaymentIntent, ScanForCancel,
       NextInSweep, LockMilestone, SaveMilestone, RecomputeMacroStatus, WriteProposal,
       FinishSubmit, FinishRelease, FinishOther
  <2>2. PICK r \in RequestType :
               Enter(p, r) /\ r.op \in {req[p].op, "none"}
    BY <1>7, NewStepsAreSound DEF SoundNext
  <2> QED
    BY <1>2, <2>1, <2>2, PaidIsStable DEF PaidInv
<1>8. ASSUME NEW p \in Procs, Crash(p)
      PROVE  Paid'
  BY <1>0, <1>2, <1>8 DEF Crash, Return
<1>9. CASE (\E m \in Milestones : SettleIntent(m)) \/ CompleteOnboarding
  BY <1>1, <1>9 DEF SettleIntent, CompleteOnboarding
<1>10. CASE UNCHANGED vars
  BY <1>1, <1>10 DEF vars
<1> QED
  BY <1>5, <1>6, <1>7, <1>8, <1>9, <1>10 DEF Next

\* Without the admin's forced activation, only a handler that has seen a
\* payment succeed can fund a milestone; the invariant is preserved.
LEMMA FundingIsPaidFor ==
  ASSUME IInv, PaidInv, [Next]_vars, "activate" \notin Ops
  PROVE  PaidInv'
<1>1. ASSUME NEW m \in Milestones, EverFunded(milestone'[m].status)
      PROVE  Paid'
  <2>1. CASE EverFunded(milestone[m].status)
    BY <2>1, PaidIsStable DEF PaidInv, FundingFollowsAPayment, Paid
  <2>2. CASE ~ EverFunded(milestone[m].status)
    <3>1. PICK p \in Procs : RowWrite(p)
      BY <1>1, <2>2, RowsChangeByWrites
    <3>2. req[p].m = m /\ milestone'[m].status = req[p].to
      BY <1>1, <2>2, <3>1 DEF RowWrite, IInv, TypeOK
    <3>3. /\ milestone[m].status = Expected(req[p].op)
          /\ req[p].to = Target(req[p].op)
          /\ req[p].op \in LockOps
      BY <1>1, <2>2, <3>1, <3>2
      DEF IInv, HandlerInv, Sound, OnItsWay, WriteIsLegal, RowWrite
    <3>4. req[p].op = "fund"
      BY <1>1, <2>2, <3>2, <3>3 DEF LockOps, Expected, Target, EverFunded, IsActive
    <3> QED
      BY <3>1, <3>4, PaidIsStable DEF PaidInv, RowWrite
  <2> QED
    BY <2>1, <2>2
<1>2. FundingFollowsAPayment'
  BY <1>1 DEF FundingFollowsAPayment, Paid
<1>3. \A p \in Procs : req'[p].pc # "idle" /\ req'[p].op = "fund" => Paid'
  BY FundersHaveSeenAPayment
<1> QED
  BY <1>2, <1>3 DEF PaidInv

(***************************************************************************)
(* Without the admin's forced activation nothing enters escrow on a        *)
(* contract nobody has paid for.                                           *)
(***************************************************************************)
THEOREM FundingIsAfterAPayment ==
  ASSUME "activate" \notin Ops
  PROVE  Spec => []FundingFollowsAPayment
<1>1. Init => PaidInv
  BY DEF Init, PaidInv, FundingFollowsAPayment, Idle, EverFunded, IsActive
<1>2. IInv /\ PaidInv /\ [Next]_vars => PaidInv'
  BY FundingIsPaidFor
<1>3. PaidInv => FundingFollowsAPayment
  BY DEF PaidInv
<1> QED
  BY <1>1, <1>2, <1>3, Inductive, PTL DEF Spec
=============================================================================
