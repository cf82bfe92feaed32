--------------------------- MODULE DisputeCalmProofs ---------------------------
(***************************************************************************)
(* What a dispute promises when no two handlers overlap and nothing fails: *)
(* an open dispute freezes its contract, and a verdict is carried out to   *)
(* the cent.  Both only speak of the moments between two handlers; what    *)
(* makes them inductive is the situation at every step of the one handler  *)
(* that may be running: how far the case it is about has got, and which of *)
(* the rows that the code writes one after the other are written by then.  *)
(***************************************************************************)
EXTENDS DisputeProofs

Used(d) == dispute[d].status # "none"
St(m) == milestone[m].status

\* No handler overlaps another.
Alone == \A p, q \in Procs : ~ IsIdle(p) /\ ~ IsIdle(q) => p = q

\* A milestone has a payment record from its funding on.
Recorded ==
  \A m \in Milestones :
    record[m].status = "none" <=> St(m) \in {"pending_funding", "cancelled"}

(***************************************************************************)
(* One dispute at most is ever opened (its milestone never becomes funded  *)
(* again), and the proposal service does nothing from then on.             *)
(***************************************************************************)
Books(r) ==
  /\ \A d \in Disputes : ~ Used(d) => dispute[d] = Unused
  /\ \A d, e \in Disputes : Used(d) /\ Used(e) => d = e
  /\ r.pc \in CaseSteps => Used(r.d)
  /\ r.pc \in {"work", "write"} => \A d \in Disputes : ~ Used(d)
  /\ Recorded

(***************************************************************************)
(* Before any dispute: the provider has been paid the price of released    *)
(* milestones at most, and a completed contract is released.               *)
(***************************************************************************)
Working(r) ==
  /\ proposal.status # "disputed"
  /\ proposal.status = "completed" => AllReleased(Statuses)
  /\ r.pc \in {"work", "write"} => r.row.status # "disputed"
  /\ r.pc = "write" =>
       /\ r.row.status = "completed" => AllReleased(Statuses)
       /\ r.op = "released" => St(r.m) = "released"
  /\ \A t \in ledger.transfers :
       t.key \in Milestones /\ record[t.key].transfer = "completed"
  /\ \A m \in Milestones :
       /\ St(m) # "disputed" /\ record[m].status # "refunded"
       /\ record[m].payout = Amount /\ ledger.refunded[m] = 0
       /\ record[m].transfer = "completed" => St(m) = "released"

(***************************************************************************)
(* The milestones around the one of dispute d.                             *)
(***************************************************************************)
Ordered(d, r) ==
  LET m == dispute[d].ms
  IN /\ \A k \in Milestones : k < m => IsTerminal(St(k))
     /\ \A k \in Milestones : k > m => St(k) \in {"pending_funding", "cancelled"}
     /\ r.pc = "freeze" => r.m = m /\ St(m) \in {"funded", "submitted"}
     /\ r.pc # "freeze" =>
          /\ St(m) \in {"disputed", "released", "refunded"}
          /\ dispute[d].verdict.how \in {"none", "auto"} => St(m) = "disputed"

Frozen(d) ==
  /\ proposal = [status |-> "disputed", dispute |-> d]
  /\ milestone[dispute[d].ms] = [status |-> "disputed", dispute |-> d]

\* The steps at which the proposal is still disputed and the dispute over.
Closing == {"settle", "thaw", "sweep", "complete", "reload", "rewrite"}

(***************************************************************************)
(* OpenDispute freezes the milestone, then the proposal; whoever closes    *)
(* the dispute writes it first and the proposal afterwards.                *)
(***************************************************************************)
Coherent(d, r) ==
  /\ r.pc \in {"freeze", "mark"} => IsOpen(dispute[d]) /\ proposal.status # "disputed"
  /\ r.pc = "mark" =>
       milestone[dispute[d].ms] = [status |-> "disputed", dispute |-> d]
  /\ IsOpen(dispute[d]) /\ r.pc \notin {"freeze", "mark"} => Frozen(d)
  /\ r.pc \in {"reload", "rewrite"} => ~ IsOpen(dispute[d])
  /\ r.pc = "rewrite" => proposal.status = "disputed"
  /\ proposal.status = "disputed" =>
       proposal.dispute = d /\ (IsOpen(dispute[d]) \/ r.pc \in Closing)

\* The transfers that hand out money of milestone m.
Touching(m) == {t \in ledger.transfers : t.key \in {0, m}}

Untouched(m) ==
  /\ record[m] = [status |-> "succeeded", payout |-> Amount, transfer |-> "pending"]
  /\ ledger.refunded[m] = 0 /\ Touching(m) = {}

\* The provider's part of milestone m is paid, or can be withdrawn.
Allotted(m, share) ==
  /\ record[m].status = "succeeded" /\ record[m].payout = share
  /\ \/ record[m].transfer = "pending" /\ Touching(m) = {}
     \/ /\ record[m].transfer = "completed"
        /\ \E key \in 0 .. N : Touching(m) = {[key |-> key, amount |-> share]}

NoneWaits == \A k \in Milestones : St(k) # "pending_funding"

Thawed(m, share) ==
  milestone[m] = [status |-> IF share = 0 THEN "refunded" ELSE "released",
                  dispute |-> NoDispute]

(***************************************************************************)
(* A verdict is carried out step by step: the milestone, those that wait   *)
(* for funding, the proposal, the transfer, the refund.                    *)
(***************************************************************************)
CarriedOut(d, r) ==
  LET m == dispute[d].ms
      v == dispute[d].verdict
  IN /\ v.how # "auto" /\ r.pc \notin {"settle", "thaw"} => Thawed(m, v.share)
     /\ v.how # "auto" /\ r.pc \notin {"settle", "thaw", "sweep"} => NoneWaits
     /\ r.pc \notin {"settle", "thaw", "sweep", "complete"} =>
          proposal = [status |-> "completed", dispute |-> NoDispute]
     /\ v.share > 0 /\ r.pc \notin SettleSteps =>
          /\ Allotted(m, v.share)
          /\ ledger.refunded[m] = IF r.pc = "refund" THEN 0 ELSE Amount - v.share

Settling(d, r) ==
  LET v == dispute[d].verdict
  IN /\ IsOpen(dispute[d]) \/ r.pc \in SettleSteps => Untouched(dispute[d].ms)
     /\ r.pc \in SettleSteps \cup {"refund"} =>
          v.how # "none" /\ r.share = v.share /\ (r.op = "auto" <=> v.how = "auto")
     /\ r.pc \in {"settle", "thaw"} => Frozen(d)
     /\ r.pc \in {"thaw", "sweep", "complete"} => r.row.status = "disputed"
     /\ r.pc \in {"thaw", "sweep"} => v.how # "auto"
     /\ v = NoVerdict \/ (v.how # "none" /\ CarriedOut(d, r))

(***************************************************************************)
(* The situation while r is the handler that runs, or none does.           *)
(***************************************************************************)
Situation(r) ==
  /\ Books(r)
  /\ (\A d \in Disputes : ~ Used(d)) => Working(r)
  /\ \A d \in Disputes : Used(d) => Ordered(d, r) /\ Coherent(d, r) /\ Settling(d, r)

CalmInv ==
  calm => /\ Alone
          /\ Quiet => Situation(Idle)
          /\ \A p \in Procs : ~ IsIdle(p) => Situation(req[p])

-----------------------------------------------------------------------------
(***************************************************************************)
(* The sum of nothing, and of one transfer.                                *)
(***************************************************************************)
LEMMA ReceivedNothing ==
  ASSUME NEW m, Touching(m) = {}
  PROVE  Received(m) = 0
<1> DEFINE Sum(i, s) == IF s = {} THEN 0
                        ELSE LET x == CHOOSE x \in s : TRUE IN x.amount + i[s \ {x}]
           iter == CHOOSE i : i = [s \in SUBSET {} |-> Sum(i, s)]
<1>1. \E i : i = [s \in SUBSET {} |-> Sum(i, s)]
  <2> DEFINE i0 == [s \in SUBSET {} |-> 0]
  <2>1. i0 = [s \in SUBSET {} |-> Sum(i0, s)]
    OBVIOUS
  <2> QED BY <2>1
<1>2. iter = [s \in SUBSET {} |-> Sum(iter, s)]
  BY <1>1
<1>3. iter[{}] = 0
  BY <1>2
<1>4. Received(m) = iter[{}]
  BY DEF Received, MapThenSumSet, MapThenFoldSet, Touching
<1> QED BY <1>3, <1>4

LEMMA ReceivedOnce ==
  ASSUME NEW m, NEW u, u.amount \in Nat, Touching(m) = {u}
  PROVE  Received(m) = u.amount
<1> DEFINE Sum(i, s) == IF s = {} THEN 0
                        ELSE LET x == CHOOSE x \in s : TRUE IN x.amount + i[s \ {x}]
           iter == CHOOSE i : i = [s \in SUBSET {u} |-> Sum(i, s)]
<1>1. \E i : i = [s \in SUBSET {u} |-> Sum(i, s)]
  <2> DEFINE i0 == [s \in SUBSET {u} |-> IF s = {} THEN 0 ELSE u.amount]
  <2>1. ASSUME NEW s \in SUBSET {u}, s # {}
        PROVE  Sum(i0, s) = u.amount
    <3>1. s = {u} /\ s \ {u} = {} /\ {} \in SUBSET {u}
      BY <2>1
    <3>2. (CHOOSE x \in s : TRUE) = u
      BY <3>1
    <3>3. i0[{}] = 0
      OBVIOUS
    <3> QED BY <3>1, <3>2, <3>3
  <2>2. i0 = [s \in SUBSET {u} |-> Sum(i0, s)]
    BY <2>1
  <2> QED BY <2>2
<1>2. iter = [s \in SUBSET {u} |-> Sum(iter, s)]
  BY <1>1
<1>3. iter[{u}] = u.amount
  <2>1. iter[{}] = 0
    BY <1>2
  <2> HIDE DEF iter
  <2>2. iter[{u}] = Sum(iter, {u})
    BY <1>2
  <2>3. (CHOOSE x \in {u} : TRUE) = u /\ {u} \ {u} = {}
    OBVIOUS
  <2> QED BY <2>1, <2>2, <2>3
<1>4. Received(m) = iter[{u}]
  BY DEF Received, MapThenSumSet, MapThenFoldSet, Touching
<1> QED BY <1>3, <1>4

-----------------------------------------------------------------------------
(***************************************************************************)
(* What the situation says between two handlers is what the runs check.    *)
(***************************************************************************)
LEMMA AllottedSum ==
  ASSUME TypeOK, NEW m \in Milestones, NEW share \in 1 .. Amount, Allotted(m, share)
  PROVE  Received(m) + Owed(m) = share
<1>1. share \in Nat
  BY DisputeAssumption
<1>2. CASE record[m].transfer = "pending" /\ Touching(m) = {}
  BY <1>1, <1>2, ReceivedNothing DEF Allotted, Owed
<1>3. CASE record[m].transfer = "completed"
  <2>1. PICK key \in 0 .. N : Touching(m) = {[key |-> key, amount |-> share]}
    BY <1>3 DEF Allotted
  <2> DEFINE u == [key |-> key, amount |-> share]
  <2>2. u.amount = share /\ Touching(m) = {u}
    BY <2>1
  <2> HIDE DEF u
  <2>3. Received(m) = share
    BY <1>1, <2>2, ReceivedOnce
  <2> QED BY <1>1, <1>3, <2>3 DEF Owed
<1> QED BY <1>2, <1>3 DEF Allotted

LEMMA SituationMeans ==
  ASSUME DInv, CalmInv
  PROVE  OpenMeansFrozen /\ VerdictIsCarriedOut
<1> SUFFICES ASSUME calm, Quiet
             PROVE  OpenMeansFrozen /\ VerdictIsCarriedOut
  BY DEF OpenMeansFrozen, VerdictIsCarriedOut
<1>1. Situation(Idle)
  BY DEF CalmInv
<1>2. Idle.pc = "idle"
  BY DEF Idle
<1>3. OpenMeansFrozen
  <2>1. ASSUME NEW d \in Disputes, IsOpen(dispute[d])
        PROVE  Frozen(d)
    BY <1>1, <1>2, <2>1 DEF Situation, Coherent, Used, IsOpen
  <2>2. ASSUME proposal.status = "disputed"
        PROVE  proposal.dispute \in Disputes /\ IsOpen(dispute[proposal.dispute])
    <3>1. PICK d \in Disputes : Used(d)
      BY <1>1, <2>2 DEF Situation, Working
    <3> QED BY <1>1, <1>2, <2>2, <3>1 DEF Situation, Coherent, Closing
  <2> QED BY <2>1, <2>2 DEF OpenMeansFrozen, Frozen
<1>4. VerdictIsCarriedOut
  <2> SUFFICES ASSUME NEW d \in Disputes, dispute[d].verdict.share > 0
               PROVE  LET v == dispute[d].verdict
                          m == dispute[d].ms
                      IN /\ ledger.refunded[m] = Amount - v.share
                         /\ Received(m) + Owed(m) = v.share
                         /\ proposal = [status |-> "completed", dispute |-> NoDispute]
                         /\ v.how # "auto" =>
                              /\ milestone[m] = [status |-> "released",
                                                 dispute |-> NoDispute]
                              /\ \A k \in Milestones :
                                   milestone[k].status # "pending_funding"
    BY DEF VerdictIsCarriedOut
  <2> DEFINE v == dispute[d].verdict
             m == dispute[d].ms
  <2>1. m \in Milestones /\ v.share \in 1 .. Amount /\ v # NoVerdict
    <3>1. dispute[d] \in DisputeRow
      BY DEF DInv, TypeOK, DisputeRow
    <3>2. m \in Milestones /\ v \in Verdict
      BY <3>1 DEF DisputeRow
    <3>3. v.share \in 0 .. Amount
      BY <3>2 DEF Verdict
    <3> QED BY <3>2, <3>3, DisputeAssumption DEF NoVerdict
  <2>2. Used(d)
    BY <2>1 DEF DInv, NoVerdictYet, Used
  <2>3. CarriedOut(d, Idle)
    BY <1>1, <2>1, <2>2 DEF Situation, Settling
  <2>4. Allotted(m, v.share) /\ ledger.refunded[m] = Amount - v.share
    BY <1>2, <2>1, <2>3 DEF CarriedOut, SettleSteps
  <2>5. Received(m) + Owed(m) = v.share
    BY <2>1, <2>4, AllottedSum DEF DInv
  <2>6. /\ proposal = [status |-> "completed", dispute |-> NoDispute]
        /\ v.how # "auto" => Thawed(m, v.share) /\ NoneWaits
    BY <1>2, <2>3 DEF CarriedOut
  <2>7. v.share # 0
    BY <2>1, DisputeAssumption
  <2>8. v.how # "auto" =>
          /\ milestone[m] = [status |-> "released", dispute |-> NoDispute]
          /\ \A k \in Milestones : milestone[k].status # "pending_funding"
    BY <2>6, <2>7 DEF Thawed, NoneWaits, St
  <2> HIDE DEF m, v
  <2> QED BY <2>4, <2>5, <2>6, <2>8 DEF m, v
<1> QED BY <1>3, <1>4

-----------------------------------------------------------------------------
(***************************************************************************)
(* The situation depends on the rows and on the handler, not on the other  *)
(* variables.                                                              *)
(***************************************************************************)
LEMMA SameRows ==
  ASSUME NEW r, Situation(r),
         UNCHANGED <<dispute, milestone, proposal, record, ledger>>
  PROVE  Situation(r)'
<1>1. Books(r)'
  BY DEF Situation, Books, Recorded, Used, St
<1>2. (\A d \in Disputes : ~ Used(d))' => Working(r)'
  BY DEF Situation, Working, Used, St, Statuses
<1>3. ASSUME NEW d \in Disputes, Used(d)'
      PROVE  Ordered(d, r)' /\ Coherent(d, r)' /\ Settling(d, r)'
  <2>1. Ordered(d, r) /\ Coherent(d, r) /\ Settling(d, r)
    BY <1>3 DEF Situation, Used
  <2>2. Ordered(d, r)'
    BY <2>1 DEF Ordered, St
  <2>3. Coherent(d, r)'
    BY <2>1 DEF Coherent, Frozen
  <2>4. Settling(d, r)'
    BY <2>1 DEF Settling, CarriedOut, Frozen, Untouched, Touching, Allotted,
                Thawed, NoneWaits, St
  <2> QED BY <2>2, <2>3, <2>4
<1> QED BY <1>1, <1>2, <1>3 DEF Situation

\* Steps between which no row changes that the situation speaks of.
AtRest == {"idle", "existing", "create", "offer", "supersede", "propose", "consider",
           "answer", "save"}

LEMMA Resting ==
  ASSUME NEW r, NEW s, Situation(r), r.pc \in AtRest, s.pc \in AtRest,
         s.pc \in CaseSteps => Used(s.d),
         UNCHANGED <<dispute, milestone, proposal, record, ledger>>
  PROVE  Situation(s)'
<1> USE DEF AtRest
<1>1. Books(s)
  BY DEF Situation, Books
<1>2. (\A d \in Disputes : ~ Used(d)) => Working(s)
  BY DEF Situation, Working
<1>3. ASSUME NEW d \in Disputes, Used(d)
      PROVE  Ordered(d, s) /\ Coherent(d, s) /\ Settling(d, s)
  <2>1. Ordered(d, r) /\ Coherent(d, r) /\ Settling(d, r)
    BY <1>3 DEF Situation
  <2>2. Ordered(d, s) /\ Coherent(d, s)
    BY <2>1 DEF Ordered, Coherent, Closing
  <2>3. Settling(d, s)
    BY <2>1 DEF Settling, CarriedOut, SettleSteps
  <2> QED BY <2>2, <2>3
<1>4. Situation(s)
  BY <1>1, <1>2, <1>3 DEF Situation
<1> QED BY <1>4, SameRows

\* The handler of p goes on in a situation it can be in, or ends.
Passes(p) == \E s : /\ req'[p] = s
                    /\ s = Idle \/ s.pc # "idle"
                    /\ Situation(s)'

LEMMA OthersWait ==
  ASSUME DInv, NEW p \in Procs, NEW q \in Procs, q # p, IsIdle(q),
         Start(p) \/ Step(p)
  PROVE  IsIdle(q)'
<1>1. req[q] \in Handler /\ req[q].pc = "idle"
  BY DEF DInv, TypeOK, IsIdle
<1>2. ASSUME NEW step, Continue(p, step)
      PROVE  IsIdle(q)'
  <2>1. [req[q] EXCEPT !.fresh = FALSE].pc = "idle"
    BY <1>1 DEF Handler
  <2> QED BY <1>1, <1>2, <2>1 DEF Continue, IsIdle
<1>3. ASSUME req'[q] = req[q]
      PROVE  IsIdle(q)'
  BY <1>1, <1>3 DEF IsIdle
<1>4. CASE Start(p)
  <2>1. \E s : req' = [req EXCEPT ![p] = s]
    BY <1>4 DEF Start, OpenDispute, CounterPropose, RespondToCounter, CancelDispute,
       RespondToCancellation, AdminResolve, Tick, ForceEscalate, BeginWork, Begin
  <2> QED BY <1>3, <2>1 DEF DInv, TypeOK
<1>5. CASE SaveDispute(p)
  BY <1>2, <1>3, <1>5 DEF SaveDispute, Return, DInv, TypeOK
<1>6. CASE Step(p) /\ ~ SaveDispute(p)
  <2>1. req'[q] = req[q]
    BY <1>6 DEF Step, CheckExisting, CreateDispute, Freeze, MarkProposal, FirstOffer,
       Supersede, CreateCounterProposal, Consider, Answer, ReloadProposal, Reactivate,
       LoadForSettling, Thaw, Sweep, CompleteProposal, TransferPartialToProvider,
       RefundToClient, Work, WriteWork, Goto, Return, DInv, TypeOK
  <2> QED BY <1>3, <2>1
<1> QED BY <1>4, <1>5, <1>6

LEMMA Carry ==
  ASSUME DInv, NEW p \in Procs, \A q \in Procs : q # p => IsIdle(q),
         Start(p) \/ Step(p), Passes(p)
  PROVE  CalmInv'
<1>1. PICK s : req'[p] = s /\ (s = Idle \/ s.pc # "idle") /\ Situation(s)'
  BY DEF Passes
<1>2. \A q \in Procs : q # p => IsIdle(q)'
  BY OthersWait
<1>3. Alone'
  BY <1>2 DEF Alone
<1>4. ASSUME Quiet'
      PROVE  Situation(Idle)'
  <2>1. s.pc = "idle"
    BY <1>1, <1>4 DEF Quiet, IsIdle
  <2> QED BY <1>1, <2>1
<1>5. ASSUME NEW q \in Procs, ~ IsIdle(q)'
      PROVE  Situation(req[q])'
  <2>1. q = p
    BY <1>2, <1>5
  <2>2. \A t : t = req'[p] => Situation(t)'
    BY <1>1
  <2> QED BY <2>1, <2>2
<1> QED BY <1>3, <1>4, <1>5 DEF CalmInv

-----------------------------------------------------------------------------
(***************************************************************************)
(* Handlers begin between two others, on a dispute that exists; the        *)
(* proposal service begins on none.                                        *)
(***************************************************************************)
LEMMA BeginsCalmly ==
  ASSUME DInv, CalmInv, NEW p \in Procs, NEW r, Begin(p, r), calm'
  PROVE  calm /\ Situation(Idle) /\ (\A q \in Procs : IsIdle(q)) /\ req'[p] = r
BY DEF Begin, CalmInv, Quiet, DInv, TypeOK

LEMMA BeginsAtRest ==
  ASSUME DInv, CalmInv, NEW p \in Procs, NEW r, Begin(p, r), calm',
         UNCHANGED <<caseVars, workVars, moneyVars>>,
         r.pc \in AtRest \ {"idle"},
         r.pc \in CaseSteps => Used(r.d)
  PROVE  Passes(p)
<1>1. Idle.pc \in AtRest
  BY DEF Idle, AtRest
<1>2. Situation(Idle) /\ req'[p] = r
  BY BeginsCalmly
<1>3. Situation(r)'
  BY <1>1, <1>2, Resting DEF caseVars, workVars, moneyVars
<1> QED BY <1>2, <1>3 DEF Passes

\* While a dispute exists no milestone is current and at work.
LEMMA NoWorkOnACase ==
  ASSUME DInv, NEW d \in Disputes, Used(d), NEW r, Ordered(d, r), Settling(d, r),
         r.pc \notin {"freeze", "settle", "thaw", "sweep"},
         NEW m \in Milestones, IsCurrentActive(Statuses, m)
  PROVE  milestone[m].status = "disputed"
<1> DEFINE k == dispute[d].ms
<1>1. k \in Milestones
  BY DEF DInv, TypeOK
<1> HIDE DEF k
<1>2. /\ ~ IsTerminal(St(m))
      /\ \A i \in Milestones : i < m => IsTerminal(St(i))
  BY DEF IsCurrentActive, Statuses, St
<1>3. /\ \A i \in Milestones : i < k => IsTerminal(St(i))
      /\ \A i \in Milestones : i > k => St(i) \in {"pending_funding", "cancelled"}
      /\ St(k) \in {"disputed", "released", "refunded"}
  BY DEF Ordered, k
<1>4. ~ (m < k)
  BY <1>2, <1>3
<1>5. CASE m = k
  BY <1>2, <1>3, <1>5 DEF IsTerminal, St
<1>6. CASE m > k
  <2>1. St(k) # "disputed" /\ St(m) = "pending_funding"
    BY <1>1, <1>2, <1>3, <1>6 DEF IsTerminal
  <2>2. dispute[d].verdict # NoVerdict /\ dispute[d].verdict.how # "auto"
    BY <2>1 DEF Ordered, NoVerdict, k
  <2> QED BY <2>1, <2>2 DEF Settling, CarriedOut, NoneWaits
<1> QED BY <1>1, <1>4, <1>5, <1>6 DEF Milestones

LEMMA StartsCalmly ==
  ASSUME DInv, CalmInv, NEW p \in Procs, Start(p), calm'
  PROVE  Passes(p)
<1> USE DEF AtRest, CaseSteps, SettleSteps
<1>0. UNCHANGED <<caseVars, workVars, moneyVars>>
  BY DEF Start, OpenDispute, CounterPropose, RespondToCounter, CancelDispute,
         RespondToCancellation, AdminResolve, Tick, ForceEscalate, BeginWork
<1>1. CASE OpenDispute(p)
  <2>1. PICK by, share :
          Begin(p, [Idle EXCEPT !.pc = "existing", !.op = "open", !.by = by,
                                !.share = share])
    BY <1>1 DEF OpenDispute
  <2> DEFINE r == [Idle EXCEPT !.pc = "existing", !.op = "open", !.by = by,
                               !.share = share]
  <2>2. r.pc = "existing"
    <3>1. ASSUME NEW i \in Handler
          PROVE  [i EXCEPT !.pc = "existing", !.op = "open", !.by = by,
                           !.share = share].pc = "existing"
      BY DEF Handler
    <3> QED BY <3>1, IdleTyped
  <2> HIDE DEF r
  <2> QED BY <1>0, <2>1, <2>2, BeginsAtRest DEF r
<1>2. ASSUME NEW r, r.pc \in {"supersede", "consider", "save"}, Used(r.d), Begin(p, r)
      PROVE  Passes(p)
  BY <1>0, <1>2, BeginsAtRest
<1>3. ASSUME NEW d \in Disputes, Used(d), NEW op \in Ops,
             NEW by \in Parties \cup {"nobody", "admin"}, NEW share \in 0 .. Amount
      PROVE  \A step \in {"supersede", "consider", "save"} :
               /\ Begin(p, On(op, by, d, step)) => Passes(p)
               /\ Begin(p, [On(op, by, d, step) EXCEPT !.share = share]) => Passes(p)
  <2> SUFFICES ASSUME NEW step \in {"supersede", "consider", "save"}
               PROVE  /\ Begin(p, On(op, by, d, step)) => Passes(p)
                      /\ Begin(p, [On(op, by, d, step) EXCEPT !.share = share])
                           => Passes(p)
    OBVIOUS
  <2>1. step \in Steps
    BY DEF Steps
  <2> DEFINE r == On(op, by, d, step)
             s == [r EXCEPT !.share = share]
  <2>2. r \in Handler /\ r.pc = step /\ r.d = d
    BY <2>1, Starting
  <2> HIDE DEF r
  <2>3. s.pc = step /\ s.d = d
    BY <2>2 DEF Handler
  <2> HIDE DEF s
  <2>4. Begin(p, r) => Passes(p)
    BY <1>2, <1>3, <2>2
  <2>5. Begin(p, s) => Passes(p)
    BY <1>2, <1>3, <2>3
  <2> QED BY <2>4, <2>5 DEF r, s
<1>4. CASE CounterPropose(p)
  <2>1. PICK d \in Disputes, by \in Parties, share \in Shares :
          /\ IsOpen(dispute[d])
          /\ Begin(p, [On("counter", by, d, "supersede") EXCEPT !.share = share])
    BY <1>4 DEF CounterPropose
  <2>2. Used(d) /\ share \in 0 .. Amount /\ "counter" \in Ops
    BY <2>1, IdleTyped DEF IsOpen, Used, Ops
  <2> QED BY <1>3, <2>1, <2>2
<1>5. CASE RespondToCounter(p)
  <2>1. PICK d \in Disputes, by \in Parties, op \in {"accept", "reject"} :
          dispute[d] # Unused /\ Begin(p, On(op, by, d, "consider"))
    BY <1>5 DEF RespondToCounter
  <2>2. Used(d) /\ op \in Ops
    BY <2>1, BeginsCalmly DEF Situation, Books, Ops
  <2> QED BY <1>3, <2>1, <2>2, IdleTyped
<1>6. CASE CancelDispute(p)
  <2>1. PICK d \in Disputes, by \in Parties :
          /\ IsOpen(dispute[d])
          /\ \/ Begin(p, On("cancel", by, d, "save"))
             \/ Begin(p, On("ask", by, d, "supersede"))
    BY <1>6 DEF CancelDispute
  <2>2. Used(d) /\ {"cancel", "ask"} \subseteq Ops
    BY <2>1 DEF IsOpen, Used, Ops
  <2> QED BY <1>3, <2>1, <2>2, IdleTyped
<1>7. CASE RespondToCancellation(p)
  <2>1. PICK d \in Disputes, by \in Parties, op \in {"agree", "refuse"} :
          dispute[d].asked \in Parties \ {by} /\ Begin(p, On(op, by, d, "save"))
    BY <1>7 DEF RespondToCancellation
  <2>2. dispute[d] # Unused
    BY <2>1 DEF Unused, Parties
  <2>3. Used(d) /\ op \in Ops
    BY <2>1, <2>2, BeginsCalmly DEF Situation, Books, Ops
  <2> QED BY <1>3, <2>1, <2>3, IdleTyped
<1>8. CASE AdminResolve(p)
  <2>1. PICK d \in Disputes, share \in Shares :
          /\ dispute[d].status = "escalated"
          /\ Begin(p, [On("decide", "admin", d, "save") EXCEPT !.share = share])
    BY <1>8 DEF AdminResolve
  <2>2. Used(d) /\ share \in 0 .. Amount /\ "decide" \in Ops
    BY <2>1, IdleTyped DEF Used, Ops
  <2> QED BY <1>3, <2>1, <2>2
<1>9. CASE Tick(p) \/ ForceEscalate(p)
  <2>1. PICK d \in Disputes :
          /\ dispute[d].status \in {"open", "negotiation"}
          /\ \/ Begin(p, On("escalate", "nobody", d, "save"))
             \/ Begin(p, [On("auto", "nobody", d, "save") EXCEPT !.share = dispute[d].claim])
    BY <1>9 DEF Tick, ForceEscalate
  <2>2. Used(d) /\ dispute[d].claim \in 0 .. Amount /\ {"auto", "escalate"} \subseteq Ops
    BY <2>1 DEF Used, Ops, DInv, TypeOK
  <2>3. {"auto", "escalate"} \subseteq Ops
    BY DEF Ops
  <2> QED BY <1>3, <2>1, <2>2, <2>3
<1>10. CASE BeginWork(p)
  <2>1. PICK m \in Milestones, w \in WorkOps :
          /\ IsCurrentActive(Statuses, m) /\ milestone[m].status = w[1]
          /\ Begin(p, [Idle EXCEPT !.pc = "work", !.op = w[2], !.by = "neighbour",
                                   !.row = proposal])
    BY <1>10 DEF BeginWork
  <2>2. ASSUME NEW i \in Handler
        PROVE  LET t == [i EXCEPT !.pc = "work", !.op = w[2], !.by = "neighbour",
                                  !.row = proposal]
               IN t.pc = "work" /\ t.row = proposal
    BY DEF Handler
  <2>3. PICK r : Begin(p, r) /\ r.pc = "work" /\ r.row = proposal
    BY <2>1, <2>2, IdleTyped
  <2>4. Situation(Idle) /\ req'[p] = r
    BY <2>3, BeginsCalmly
  <2>5. Idle.pc = "idle"
    BY DEF Idle
  <2>6. \A d \in Disputes : ~ Used(d)
    <3>1. milestone[m].status # "disputed"
      BY <2>1 DEF WorkOps
    <3>2. ASSUME NEW d \in Disputes, Used(d)
          PROVE  Ordered(d, Idle) /\ Settling(d, Idle)
      BY <2>4, <3>2 DEF Situation
    <3> QED BY <2>1, <2>5, <3>1, <3>2, NoWorkOnACase
  <2>7. Books(r)
    BY <2>3, <2>4, <2>6 DEF Situation, Books
  <2>8. Working(r)
    BY <2>3, <2>4, <2>6 DEF Situation, Working
  <2>9. Situation(r)
    BY <2>6, <2>7, <2>8 DEF Situation
  <2>10. UNCHANGED <<dispute, milestone, proposal, record, ledger>>
    BY <1>0 DEF caseVars, workVars, moneyVars
  <2>11. Situation(r)'
    BY <2>9, <2>10, SameRows
  <2>12. r.pc # "idle"
    BY <2>3
  <2> QED BY <2>4, <2>11, <2>12 DEF Passes
<1> QED BY <1>1, <1>4, <1>5, <1>6, <1>7, <1>8, <1>9, <1>10 DEF Start

(***************************************************************************)
(* Steps that look at rows only, or write offers.                          *)
(***************************************************************************)
LEMMA IdlePasses ==
  ASSUME DInv, NEW p \in Procs, NEW r, Situation(r), r.pc \in AtRest, Return(p),
         UNCHANGED <<dispute, milestone, proposal, record, ledger>>
  PROVE  Passes(p)
<1>1. Idle.pc = "idle" /\ req'[p] = Idle
  BY DEF Idle, Return, DInv, TypeOK
<1>2. Situation(Idle)'
  BY <1>1, Resting DEF AtRest, CaseSteps, SettleSteps
<1> QED BY <1>1, <1>2 DEF Passes

LEMMA LooksCalmly ==
  ASSUME DInv, NEW p \in Procs, NEW r \in Handler, r = req[p], Situation(r),
         CheckExisting(p) \/ FirstOffer(p) \/ Supersede(p) \/ CreateCounterProposal(p)
           \/ Consider(p) \/ Answer(p)
  PROVE  Passes(p)
<1> USE DEF AtRest, CaseSteps, SettleSteps
<1>1. UNCHANGED <<dispute, milestone, proposal, record, ledger>>
  BY DEF CheckExisting, FirstOffer, Supersede, CreateCounterProposal, Consider, Answer,
         caseVars, workVars, moneyVars
<1>2. r.pc \in {"existing", "offer", "supersede", "propose", "consider", "answer"}
  BY DEF CheckExisting, FirstOffer, Supersede, CreateCounterProposal, Consider, Answer, At
<1>3. CASE Return(p)
  BY <1>1, <1>2, <1>3, IdlePasses
<1>4. ASSUME NEW s, req'[p] = s, s.pc \in {"create", "propose", "save", "answer"},
             s.d = r.d, r.pc = "existing" => s.pc = "create"
      PROVE  Passes(p)
  <2>1. s.pc \in CaseSteps => Used(s.d)
    BY <1>2, <1>4 DEF Situation, Books
  <2>2. Situation(s)'
    BY <1>1, <1>2, <1>4, <2>1, Resting
  <2> QED BY <1>4, <2>2 DEF Passes
<1>5. ASSUME NEW step \in {"create", "propose", "save"}, Goto(p, step),
             r.pc = "existing" => step = "create"
      PROVE  Passes(p)
  <2>1. req'[p] = [r EXCEPT !.pc = step]
    BY <1>5 DEF Goto, DInv, TypeOK
  <2>2. LET s == [r EXCEPT !.pc = step] IN s.pc = step /\ s.d = r.d
    BY DEF Handler
  <2> QED BY <1>4, <1>5, <2>1, <2>2
<1>6. CASE CheckExisting(p)
  BY <1>3, <1>5, <1>6 DEF CheckExisting
<1>7. CASE FirstOffer(p)
  BY <1>3, <1>7 DEF FirstOffer
<1>8. CASE Supersede(p)
  BY <1>5, <1>8 DEF Supersede, At
<1>9. CASE CreateCounterProposal(p)
  BY <1>5, <1>9 DEF CreateCounterProposal, At
<1>10. CASE Answer(p)
  BY <1>5, <1>10 DEF Answer, At
<1>11. CASE Consider(p)
  <2>1. ASSUME NEW i, NEW share,
               req' = [req EXCEPT ![p].pc = "answer", ![p].offer = i, ![p].share = share]
        PROVE  Passes(p)
    <3> DEFINE s == [r EXCEPT !.pc = "answer", !.offer = i, !.share = share]
    <3>1. req'[p] = s
      BY <2>1 DEF DInv, TypeOK, Handler
    <3>2. s.pc = "answer" /\ s.d = r.d
      BY DEF Handler
    <3> HIDE DEF s
    <3>3. r.pc = "consider"
      BY <1>11 DEF Consider, At
    <3> QED BY <1>4, <3>1, <3>2, <3>3
  <2> QED BY <1>3, <1>11, <2>1 DEF Consider
<1> QED BY <1>6, <1>7, <1>8, <1>9, <1>10, <1>11

(***************************************************************************)
(* A handler at one of its steps after the first goes to another.          *)
(***************************************************************************)
LEMMA Goes ==
  ASSUME DInv, NEW p \in Procs, NEW r \in Handler, r = req[p], NEW step \in Steps,
         Goto(p, step)
  PROVE  \E s : /\ req'[p] = s /\ s.pc = step /\ s.op = r.op /\ s.d = r.d
                /\ s.m = r.m /\ s.share = r.share /\ s.row = r.row
<1>1. req'[p] = [r EXCEPT !.pc = step]
  BY DEF Goto, DInv, TypeOK
<1>2. LET s == [r EXCEPT !.pc = step]
      IN  /\ s.pc = step /\ s.op = r.op /\ s.d = r.d
          /\ s.m = r.m /\ s.share = r.share /\ s.row = r.row
  BY DEF Handler
<1> QED BY <1>1, <1>2

LEMMA OnTheCase ==
  ASSUME DInv, NEW r \in Handler, HandlerOK(r), Situation(r), r.pc \in CaseSteps,
         NEW s, s.pc \in CaseSteps => s.d = r.d, s.pc \notin {"work", "write"},
         UNCHANGED dispute, Recorded',
         Ordered(r.d, s)', Coherent(r.d, s)', Settling(r.d, s)'
  PROVE  Situation(s)'
<1>1. r.d \in Disputes /\ Used(r.d) /\ \A e \in Disputes : Used(e) => e = r.d
  BY DEF HandlerOK, Situation, Books
<1>2. Books(s)'
  BY <1>1 DEF Situation, Books, Used
<1> QED BY <1>1, <1>2 DEF Situation, Used

\* What is known of the case while its handler runs.
LEMMA TheCase ==
  ASSUME DInv, NEW r \in Handler, HandlerOK(r), Situation(r), r.pc \in CaseSteps
  PROVE  /\ r.d \in Disputes /\ dispute[r.d].ms \in Milestones /\ Recorded
         /\ Ordered(r.d, r) /\ Coherent(r.d, r) /\ Settling(r.d, r)
         /\ IsOpen(dispute[r.d]) => dispute[r.d].verdict = NoVerdict
<1>1. r.d \in Disputes /\ Used(r.d)
  BY DEF HandlerOK, Situation, Books
<1> QED BY <1>1 DEF Situation, Books, DInv, TypeOK, NoVerdictYet, IsOpen

-----------------------------------------------------------------------------
(***************************************************************************)
(* A dispute is opened on the current milestone of a contract without one. *)
(***************************************************************************)
LEMMA CreatesCalmly ==
  ASSUME DInv, E!Sequential, NEW p \in Procs, NEW r \in Handler, r = req[p],
         Situation(r), CreateDispute(p)
  PROVE  Passes(p)
<1>0. r.pc = "create" /\ UNCHANGED <<milestone, proposal, record, ledger>>
  BY DEF CreateDispute, At, workVars, moneyVars
<1>1. CASE Return(p) /\ UNCHANGED dispute
  BY <1>0, <1>1, IdlePasses DEF AtRest
<1>2. ASSUME NEW m \in Milestones, NEW d \in Disputes,
             IsCurrentActive(Statuses, m), St(m) \in {"funded", "submitted"},
             dispute[d] = Unused,
             dispute' = [dispute EXCEPT ![d] =
               [Unused EXCEPT !.status = "open", !.ms = m, !.by = r.by,
                              !.claim = r.share]],
             req' = [req EXCEPT ![p].pc = "freeze", ![p].d = d, ![p].m = m]
      PROVE  Passes(p)
  <2>1. PICK s : req'[p] = s /\ s.pc = "freeze" /\ s.d = d /\ s.m = m
    <3>1. LET s == [r EXCEPT !.pc = "freeze", !.d = d, !.m = m]
          IN  s.pc = "freeze" /\ s.d = d /\ s.m = m
      BY DEF Handler
    <3>2. req'[p] = [r EXCEPT !.pc = "freeze", !.d = d, !.m = m]
      BY <1>2 DEF DInv, TypeOK, Handler
    <3> QED BY <3>1, <3>2
  <2>2. PICK row : /\ dispute' = [dispute EXCEPT ![d] = row]
                   /\ row.status = "open" /\ row.ms = m /\ row.verdict = NoVerdict
    <3>1. ASSUME NEW u \in DisputeRow
          PROVE  LET v == [u EXCEPT !.status = "open", !.ms = m, !.by = r.by,
                                    !.claim = r.share]
                 IN v.status = "open" /\ v.ms = m /\ v.verdict = u.verdict
      BY DEF DisputeRow
    <3>2. Unused \in DisputeRow
      BY <1>2 DEF DInv, TypeOK, DisputeRow
    <3>3. Unused.verdict = NoVerdict
      BY DEF Unused
    <3> QED BY <1>2, <3>1, <3>2, <3>3
  <2>3. \A e \in Disputes : dispute'[e] = IF e = d THEN row ELSE dispute[e]
    BY <2>2 DEF DInv, TypeOK
  <2>4. \A e \in Disputes : ~ Used(e)
    <3>1. ASSUME NEW e \in Disputes, Used(e)
          PROVE  Ordered(e, r) /\ Settling(e, r)
      BY <3>1 DEF Situation
    <3>2. milestone[m].status # "disputed"
      BY <1>2 DEF St
    <3> QED BY <1>0, <1>2, <3>1, <3>2, NoWorkOnACase
  <2>5. \A e \in Disputes : Used(e)' <=> e = d
    BY <2>2, <2>3, <2>4 DEF Used
  <2>6. \A k \in Milestones : St(k)' = St(k)
    BY <1>0 DEF St
  <2>7. Books(s)'
    <3>1. Recorded'
      BY <1>0, <2>6 DEF Situation, Books, Recorded
    <3> QED BY <2>1, <2>3, <2>4, <2>5, <3>1 DEF Situation, Books
  <2>8. Ordered(d, s)'
    <3>1. \A k \in Milestones : k < m => IsTerminal(St(k))
      BY <1>2 DEF IsCurrentActive, Statuses, St
    <3>2. ASSUME NEW k \in Milestones, k > m
          PROVE  St(k) \in {"pending_funding", "cancelled"}
      <4>1. ~ IsTerminal(St(m)) /\ m < k
        BY <1>2, <3>2 DEF IsTerminal, Milestones
      <4>2. ~ EverFunded(St(k))
        BY <4>1 DEF E!Sequential, E!Milestones, Milestones, Statuses, St, E!EverFunded,
           EverFunded, E!IsActive, IsActive, E!IsTerminal, IsTerminal
      <4>3. St(k) \in MilestoneStatus
        BY DEF DInv, TypeOK, St
      <4> QED BY <4>2, <4>3 DEF MilestoneStatus, EverFunded, IsActive
    <3>3. dispute'[d].ms = m
      BY <2>2, <2>3
    <3> QED BY <1>2, <2>1, <2>6, <3>1, <3>2, <3>3 DEF Ordered
  <2>9. Working(r)
    BY <2>4 DEF Situation
  <2>10. Coherent(d, s)'
    BY <1>0, <2>1, <2>2, <2>3, <2>9 DEF Coherent, Working, IsOpen
  <2>11. Untouched(m)
    <3>1. /\ record[m].payout = Amount /\ record[m].transfer # "completed"
          /\ record[m].status # "refunded" /\ ledger.refunded[m] = 0
      BY <1>2, <2>9 DEF Working
    <3>2. record[m].status # "none"
      BY <1>2 DEF Situation, Books, Recorded
    <3>3. record[m] \in [status : {"none", "succeeded", "refunded"},
                         payout : 0 .. Amount, transfer : {"pending", "completed"}]
      BY DEF DInv, TypeOK
    <3>4. record[m] = [status |-> "succeeded", payout |-> Amount, transfer |-> "pending"]
      BY <3>1, <3>2, <3>3
    <3>5. Touching(m) = {}
      BY <2>9, <3>1 DEF Touching, Working, Milestones
    <3> QED BY <3>1, <3>4, <3>5 DEF Untouched
  <2>12. Settling(d, s)'
    <3>1. Untouched(m)'
      BY <1>0, <2>11 DEF Untouched, Touching
    <3>2. dispute'[d].ms = m /\ dispute'[d].verdict = NoVerdict
      BY <2>2, <2>3
    <3> QED BY <2>1, <3>1, <3>2 DEF Settling, SettleSteps
  <2>13. Situation(s)'
    BY <2>5, <2>7, <2>8, <2>10, <2>12 DEF Situation
  <2> QED BY <2>1, <2>13 DEF Passes
<1> QED BY <1>1, <1>2 DEF CreateDispute, St

LEMMA FreezesCalmly ==
  ASSUME DInv, NEW p \in Procs, NEW r \in Handler, r = req[p], HandlerOK(r),
         Situation(r), Freeze(p) \/ MarkProposal(p)
  PROVE  Passes(p)
<1> DEFINE d == r.d
           m == dispute[d].ms
<1>0. UNCHANGED <<dispute, record, ledger>>
  BY DEF Freeze, MarkProposal, caseVars, moneyVars
<1>1. r.pc \in {"freeze", "mark"} /\ r.pc \in CaseSteps
  BY DEF Freeze, MarkProposal, At, CaseSteps
<1>2. /\ d \in Disputes /\ m \in Milestones /\ Recorded
      /\ Ordered(d, r) /\ Coherent(d, r) /\ Settling(d, r)
      /\ IsOpen(dispute[d]) /\ dispute[d].verdict = NoVerdict
  BY <1>1, TheCase DEF Coherent
<1>3. m' = m /\ IsOpen(dispute[d])' /\ (dispute[d].verdict = NoVerdict)'
  BY <1>0, <1>2
<1>4. CASE Freeze(p)
  <2>1. r.pc = "freeze" /\ r.m = m /\ St(m) \in {"funded", "submitted"}
    BY <1>2, <1>4 DEF Freeze, At, Ordered
  <2>2. /\ milestone' = [milestone EXCEPT ![m] = [status |-> "disputed", dispute |-> d]]
        /\ Goto(p, "mark") /\ proposal' = proposal
    BY <1>4, <2>1 DEF Freeze, St
  <2>3. PICK s : req'[p] = s /\ s.pc = "mark" /\ s.d = d
    BY <2>2, Goes DEF Steps
  <2>4. /\ milestone'[m] = [status |-> "disputed", dispute |-> d]
        /\ \A k \in Milestones : St(k)' = IF k = m THEN "disputed" ELSE St(k)
    BY <1>2, <2>2 DEF DInv, TypeOK, St
  <2> HIDE DEF m, d
  <2>5. Recorded'
    BY <1>0, <1>2, <2>1, <2>4 DEF Recorded
  <2>6. Ordered(d, s)'
    BY <1>2, <1>3, <2>3, <2>4 DEF Ordered, m, Milestones
  <2>7. Coherent(d, s)'
    BY <1>2, <1>3, <2>1, <2>2, <2>3, <2>4 DEF Coherent, m
  <2>8. Settling(d, s)'
    BY <1>0, <1>2, <1>3, <2>3 DEF Settling, SettleSteps, Untouched, Touching
  <2>9. Situation(s)'
    BY <1>0, <1>1, <2>3, <2>5, <2>6, <2>7, <2>8, OnTheCase DEF d
  <2> QED BY <2>3, <2>9 DEF Passes
<1>5. CASE MarkProposal(p)
  <2>1. r.pc = "mark" /\ Goto(p, "offer") /\ UNCHANGED milestone
        /\ proposal' = [status |-> "disputed", dispute |-> d]
    BY <1>5 DEF MarkProposal, At
  <2>2. PICK s : req'[p] = s /\ s.pc = "offer" /\ s.d = d
    BY <2>1, Goes DEF Steps
  <2>3. milestone[m] = [status |-> "disputed", dispute |-> d]
    BY <1>2, <2>1 DEF Coherent
  <2> HIDE DEF m, d
  <2>4. Recorded'
    BY <1>0, <1>2, <2>1 DEF Recorded, St
  <2>5. Ordered(d, s)'
    BY <1>2, <1>3, <2>1, <2>2 DEF Ordered, m, St
  <2>6. Coherent(d, s)'
    BY <1>3, <2>1, <2>2, <2>3 DEF Coherent, Frozen, m
  <2>7. Settling(d, s)'
    BY <1>0, <1>2, <1>3, <2>2 DEF Settling, SettleSteps, Untouched, Touching
  <2>8. Situation(s)'
    BY <1>0, <1>1, <2>2, <2>4, <2>5, <2>6, <2>7, OnTheCase DEF d
  <2> QED BY <2>2, <2>8 DEF Passes
<1> QED BY <1>4, <1>5

(***************************************************************************)
(* A cancelled dispute gives the proposal back.                            *)
(***************************************************************************)
LEMMA RestoresCalmly ==
  ASSUME DInv, NEW p \in Procs, NEW r \in Handler, r = req[p], HandlerOK(r),
         Situation(r), ReloadProposal(p) \/ Reactivate(p)
  PROVE  Passes(p)
<1> DEFINE d == r.d
           m == dispute[d].ms
<1>0. UNCHANGED <<dispute, milestone, record, ledger>>
  BY DEF ReloadProposal, Reactivate, caseVars, workVars, moneyVars
<1>1. r.pc \in {"reload", "rewrite"} /\ r.pc \in CaseSteps
  BY DEF ReloadProposal, Reactivate, At, CaseSteps
<1>2. /\ d \in Disputes /\ m \in Milestones /\ Recorded
      /\ Ordered(d, r) /\ Coherent(d, r) /\ Settling(d, r) /\ ~ IsOpen(dispute[d])
  BY <1>1, TheCase DEF Coherent
<1>3. m' = m /\ ~ IsOpen(dispute[d])' /\ UNCHANGED dispute[d].verdict
  BY <1>0, <1>2
<1>4. Recorded'
  BY <1>0, <1>2 DEF Recorded, St
<1> HIDE DEF m, d
<1>5. ASSUME NEW s, s.pc \in {"idle", "rewrite"}
      PROVE  Ordered(d, s)'
  BY <1>0, <1>1, <1>2, <1>3, <1>5 DEF Ordered, m, St
<1>6. ASSUME NEW s, s.pc \in {"idle", "rewrite"},
             (proposal = [status |-> "completed", dispute |-> NoDispute]) =>
                UNCHANGED proposal
      PROVE  Settling(d, s)'
  <2>1. dispute[d].verdict = NoVerdict \/ CarriedOut(d, r)
    BY <1>2 DEF Settling
  <2>2. CarriedOut(d, r) => CarriedOut(d, s)'
    BY <1>0, <1>1, <1>3, <1>6 DEF CarriedOut, SettleSteps, Thawed, NoneWaits, St,
       Allotted, Touching
  <2>3. dispute[d].verdict = NoVerdict \/ dispute[d].verdict.how # "none"
    BY <1>2 DEF Settling
  <2> QED BY <1>0, <1>3, <1>6, <2>1, <2>2, <2>3 DEF Settling, SettleSteps
<1>7. CASE Return(p) /\ proposal.status # "disputed" /\ UNCHANGED proposal
  <2>1. Idle.pc = "idle" /\ req'[p] = Idle
    BY <1>7 DEF Idle, Return, DInv, TypeOK
  <2>2. Coherent(d, Idle)'
    BY <1>0, <1>2, <1>7, <2>1 DEF Coherent
  <2>3. Situation(Idle)'
    BY <1>0, <1>1, <1>4, <1>5, <1>6, <1>7, <2>1, <2>2, OnTheCase
       DEF d, CaseSteps, SettleSteps
  <2> QED BY <2>1, <2>3 DEF Passes
<1>8. CASE Goto(p, "rewrite") /\ proposal.status = "disputed" /\ UNCHANGED proposal
           /\ r.pc = "reload"
  <2>1. PICK s : req'[p] = s /\ s.pc = "rewrite" /\ s.d = d
    BY <1>8, Goes DEF Steps, d
  <2>2. Coherent(d, s)'
    BY <1>0, <1>2, <1>8, <2>1 DEF Coherent, Closing
  <2>3. Situation(s)'
    BY <1>0, <1>1, <1>4, <1>5, <1>6, <1>8, <2>1, <2>2, OnTheCase DEF d
  <2> QED BY <2>1, <2>3 DEF Passes
<1>9. CASE ReloadProposal(p)
  BY <1>7, <1>8, <1>9 DEF ReloadProposal, workVars, At
<1>10. CASE Reactivate(p)
  <2>1. proposal' = [status |-> "active", dispute |-> NoDispute] /\ Return(p)
    BY <1>10 DEF Reactivate
  <2>2. proposal.status = "disputed"
    BY <1>2, <1>10 DEF Reactivate, At, Coherent
  <2>3. Idle.pc = "idle" /\ req'[p] = Idle
    BY <2>1 DEF Idle, Return, DInv, TypeOK
  <2>4. Coherent(d, Idle)'
    BY <1>0, <1>2, <2>1, <2>3 DEF Coherent
  <2>5. Situation(Idle)'
    BY <1>0, <1>1, <1>4, <1>5, <1>6, <2>2, <2>3, <2>4, OnTheCase
       DEF d, CaseSteps, SettleSteps
  <2> QED BY <2>3, <2>5 DEF Passes
<1> QED BY <1>9, <1>10

(***************************************************************************)
(* A settlement, until the money moves.                                    *)
(***************************************************************************)
LEMMA SettlesCalmly ==
  ASSUME DInv, NEW p \in Procs, NEW r \in Handler, r = req[p], HandlerOK(r),
         Situation(r),
         LoadForSettling(p) \/ Thaw(p) \/ Sweep(p) \/ CompleteProposal(p)
  PROVE  Passes(p)
<1> DEFINE d == r.d
           m == dispute[d].ms
           v == dispute[d].verdict
<1>0. UNCHANGED <<dispute, record, ledger>>
  BY DEF LoadForSettling, Thaw, Sweep, CompleteProposal, caseVars, moneyVars
<1>1. r.pc \in {"settle", "thaw", "sweep", "complete"} /\ r.pc \in CaseSteps
  BY DEF LoadForSettling, Thaw, Sweep, CompleteProposal, At, CaseSteps, SettleSteps
<1>2. /\ d \in Disputes /\ m \in Milestones /\ Recorded
      /\ Ordered(d, r) /\ Coherent(d, r) /\ Settling(d, r)
      /\ IsOpen(dispute[d]) => v = NoVerdict
  BY <1>1, TheCase
<1> HIDE DEF m, d, v
<1>3. /\ v.how # "none" /\ r.share = v.share /\ (r.op = "auto" <=> v.how = "auto")
      /\ Untouched(m) /\ CarriedOut(d, r) /\ ~ IsOpen(dispute[d])
  <2>1. v.how # "none" /\ r.share = v.share /\ (r.op = "auto" <=> v.how = "auto")
        /\ Untouched(m)
    BY <1>1, <1>2 DEF Settling, SettleSteps, v, m
  <2>2. v # NoVerdict
    BY <2>1 DEF NoVerdict
  <2> QED BY <1>2, <2>1, <2>2 DEF Settling, v
<1>4. m' = m /\ v' = v /\ ~ IsOpen(dispute[d])' /\ Untouched(m)'
  BY <1>0, <1>3 DEF m, d, v, Untouched, Touching
\* What is left to show of the next step.
<1>5. ASSUME NEW s, s.pc \in SettleSteps, s.d = d, s.share = r.share, s.op = r.op,
             Recorded', Ordered(d, s)', Coherent(d, s)', CarriedOut(d, s)',
             s.pc = "thaw" => Frozen(d)', s.pc # "settle",
             s.pc \in {"thaw", "sweep", "complete"} => s.row.status = "disputed",
             s.pc \in {"thaw", "sweep"} => v.how # "auto",
             req'[p] = s
      PROVE  Passes(p)
  <2>1. Settling(d, s)'
    BY <1>3, <1>4, <1>5 DEF Settling, m, v, SettleSteps
  <2>2. s.pc \notin {"work", "write", "idle"}
    BY <1>5 DEF SettleSteps
  <2>3. Situation(s)'
    BY <1>0, <1>1, <1>5, <2>1, <2>2, OnTheCase DEF d
  <2> QED BY <1>5, <2>2, <2>3 DEF Passes
<1>6. CASE LoadForSettling(p)
  <2>1. Frozen(d) /\ r.pc = "settle"
    BY <1>2, <1>6 DEF LoadForSettling, At, Settling
  <2>2. UNCHANGED <<milestone, proposal>> /\ proposal.status = "disputed"
    BY <1>6, <2>1 DEF LoadForSettling, Frozen, workVars
  <2>3. PICK s : /\ req'[p] = s /\ s.pc = IF r.op = "auto" THEN "complete" ELSE "thaw"
                 /\ s.d = d /\ s.share = r.share /\ s.op = r.op
                 /\ s.row.status = "disputed"
    <3>1. PICK step, row : /\ step = IF r.op = "auto" THEN "complete" ELSE "thaw"
                           /\ row = proposal
      OBVIOUS
    <3>2. req'[p] = [r EXCEPT !.pc = step, !.row = row]
      BY <1>6, <2>2, <3>1 DEF LoadForSettling, DInv, TypeOK, Handler
    <3>3. LET s == [r EXCEPT !.pc = step, !.row = row]
          IN  /\ s.pc = step /\ s.row = row
              /\ s.d = r.d /\ s.share = r.share /\ s.op = r.op
      BY DEF Handler
    <3> QED BY <2>2, <3>1, <3>2, <3>3 DEF d
  <2>4. Recorded' /\ Frozen(d)'
    BY <1>0, <1>2, <2>1, <2>2 DEF Recorded, St, Frozen
  <2>5. Ordered(d, s)'
    BY <1>0, <1>2, <2>1, <2>2, <2>3 DEF Ordered, St
  <2>6. Coherent(d, s)'
    BY <1>0, <1>2, <1>4, <2>1, <2>2, <2>3 DEF Coherent, Closing
  <2>7. CarriedOut(d, s)'
    BY <1>3, <1>4, <2>3 DEF CarriedOut, SettleSteps, v
  <2> QED BY <1>3, <1>5, <2>3, <2>4, <2>5, <2>6, <2>7 DEF SettleSteps
<1>7. CASE Thaw(p)
  <2>1. Frozen(d) /\ r.pc = "thaw" /\ v.how # "auto" /\ r.row.status = "disputed"
    BY <1>2, <1>7 DEF Thaw, At, Settling, v
  <2>2. /\ milestone' = [milestone EXCEPT ![m] =
             [status |-> IF v.share = 0 THEN "refunded" ELSE "released",
              dispute |-> NoDispute]]
        /\ Goto(p, "sweep") /\ UNCHANGED proposal
    <3>1. milestone[m].status = "disputed"
      BY <2>1 DEF Frozen, m
    <3>2. m = dispute[req[p].d].ms /\ req[p].share = v.share
      BY <1>3 DEF m, d
    <3> QED BY <1>7, <3>1, <3>2 DEF Thaw
  <2>3. PICK s : /\ req'[p] = s /\ s.pc = "sweep" /\ s.d = d /\ s.share = r.share
                 /\ s.op = r.op /\ s.row = r.row
    BY <2>2, Goes DEF Steps, d
  <2>4. /\ Thawed(m, v.share)' /\ St(m)' \in {"released", "refunded"}
        /\ \A k \in Milestones : k # m => milestone'[k] = milestone[k] /\ St(k)' = St(k)
    BY <1>2, <1>4, <2>2 DEF DInv, TypeOK, St, Thawed
  <2>5. Recorded'
    <3>1. record[m].status # "none"
      BY <1>3 DEF Untouched
    <3> QED BY <1>0, <1>2, <1>4, <2>4, <3>1 DEF Recorded
  <2>6. Ordered(d, s)'
    BY <1>2, <1>3, <1>4, <2>1, <2>3, <2>4 DEF Ordered, m, v, Milestones
  <2>7. Coherent(d, s)'
    BY <1>0, <1>2, <1>4, <2>1, <2>2, <2>3 DEF Coherent, Closing
  <2>8. CarriedOut(d, s)'
    BY <1>4, <2>3, <2>4 DEF CarriedOut, SettleSteps, v, m
  <2>9. s.pc \in SettleSteps /\ s.pc # "thaw" /\ s.pc # "settle"
    BY <2>3 DEF SettleSteps
  <2> QED BY <1>5, <2>1, <2>3, <2>5, <2>6, <2>7, <2>8, <2>9
<1>8. CASE Sweep(p)
  <2>1. /\ r.pc = "sweep" /\ v.how # "auto" /\ r.row.status = "disputed"
        /\ Thawed(m, v.share) /\ UNCHANGED proposal
    BY <1>2, <1>3, <1>8 DEF Sweep, At, Settling, v, m, CarriedOut
  <2>2. CASE Goto(p, "complete") /\ UNCHANGED milestone /\ NoneWaits
    <3>1. PICK s : /\ req'[p] = s /\ s.pc = "complete" /\ s.d = d /\ s.share = r.share
                   /\ s.op = r.op /\ s.row = r.row
      BY <2>2, Goes DEF Steps, d
    <3>2. Recorded' /\ NoneWaits' /\ Thawed(m, v.share)'
      BY <1>0, <1>2, <1>4, <2>1, <2>2 DEF Recorded, St, NoneWaits, Thawed
    <3>3. Ordered(d, s)'
      BY <1>0, <1>2, <2>1, <2>2, <3>1 DEF Ordered, St
    <3>4. Coherent(d, s)'
      BY <1>0, <1>2, <1>4, <2>1, <2>2, <3>1 DEF Coherent, Closing
    <3>5. CarriedOut(d, s)'
      BY <1>4, <3>1, <3>2 DEF CarriedOut, SettleSteps, v, m
    <3>6. s.pc \in SettleSteps /\ s.pc \notin {"thaw", "settle", "sweep"}
      BY <3>1 DEF SettleSteps
    <3> QED BY <1>5, <2>1, <3>1, <3>2, <3>3, <3>4, <3>5, <3>6
  <2>3. ASSUME NEW k \in Milestones, St(k) = "pending_funding", UNCHANGED req,
               milestone' = [milestone EXCEPT ![k].status = "cancelled"]
        PROVE  Passes(p)
    <3>1. k # m
      BY <2>1, <2>3 DEF Thawed, St
    <3>2. /\ milestone'[m] = milestone[m]
          /\ \A i \in Milestones : St(i)' = IF i = k THEN "cancelled" ELSE St(i)
      BY <1>2, <2>3, <3>1 DEF DInv, TypeOK, St
    <3>3. Recorded'
      BY <1>0, <1>2, <2>3, <3>2 DEF Recorded
    <3>4. Thawed(m, v.share)'
      BY <1>4, <2>1, <3>2 DEF Thawed
    <3>5. Ordered(d, r)'
      <4>1. \A i \in Milestones : i < m => IsTerminal(St(i)')
        BY <1>2, <2>3, <3>2 DEF Ordered, m, IsTerminal
      <4>2. \A i \in Milestones : i > m => St(i)' \in {"pending_funding", "cancelled"}
        BY <1>2, <3>2 DEF Ordered, m
      <4>3. St(m)' \in {"disputed", "released", "refunded"}
            /\ (v.how \in {"none", "auto"} => St(m)' = "disputed")
        BY <1>2, <1>4, <2>1, <3>1, <3>2 DEF Ordered, m, v
      <4> QED BY <1>4, <2>1, <4>1, <4>2, <4>3 DEF Ordered, m, v
    <3>6. Coherent(d, r)'
      BY <1>0, <1>2, <1>4, <2>1 DEF Coherent, Closing
    <3>7. CarriedOut(d, r)'
      BY <1>4, <2>1, <3>4 DEF CarriedOut, SettleSteps, v, m
    <3>8. r.pc \in SettleSteps /\ r.pc # "thaw" /\ r.pc # "settle" /\ req'[p] = r
      BY <2>1, <2>3 DEF SettleSteps
    <3> QED BY <1>5, <2>1, <3>3, <3>5, <3>6, <3>7, <3>8 DEF d
  <2> QED BY <1>8, <2>2, <2>3 DEF Sweep, NoneWaits, St
<1>9. CASE CompleteProposal(p)
  <2>1. /\ r.pc = "complete" /\ r.row.status = "disputed" /\ UNCHANGED milestone
        /\ v.how # "auto" => Thawed(m, v.share) /\ NoneWaits
    BY <1>2, <1>3, <1>9 DEF CompleteProposal, At, Settling, v, m, CarriedOut
  <2>2. proposal' = [status |-> "completed", dispute |-> NoDispute] /\ Goto(p, "transfer")
    BY <1>9, <2>1 DEF CompleteProposal
  <2>3. PICK s : /\ req'[p] = s /\ s.pc = "transfer" /\ s.d = d /\ s.share = r.share
                 /\ s.op = r.op
    BY <2>2, Goes DEF Steps, d
  <2>4. Recorded' /\ (v.how # "auto" => Thawed(m, v.share)' /\ NoneWaits')
    BY <1>0, <1>2, <1>4, <2>1 DEF Recorded, St, NoneWaits, Thawed
  <2>5. Ordered(d, s)'
    BY <1>0, <1>2, <2>1, <2>3 DEF Ordered, St
  <2>6. Coherent(d, s)'
    BY <1>4, <2>2, <2>3 DEF Coherent
  <2>7. CarriedOut(d, s)'
    BY <1>4, <2>2, <2>3, <2>4 DEF CarriedOut, SettleSteps, v, m
  <2>8. s.pc \in SettleSteps /\ s.pc \notin {"thaw", "settle", "sweep", "complete"}
    BY <2>3 DEF SettleSteps
  <2> QED BY <1>5, <2>3, <2>4, <2>5, <2>6, <2>7, <2>8
<1> QED BY <1>6, <1>7, <1>8, <1>9

-----------------------------------------------------------------------------
(***************************************************************************)
(* The record created last, which the settlement pays from, is the one of  *)
(* the disputed milestone: the later ones were never funded.               *)
(***************************************************************************)
LEMMA NewestIsTheCase ==
  ASSUME DInv, NEW d \in Disputes, NEW r, Recorded, Ordered(d, r), r.pc # "freeze"
  PROVE  Newest = dispute[d].ms /\ record[dispute[d].ms].status # "none"
<1> DEFINE m == dispute[d].ms
           S == {k \in Milestones : record[k].status # "none"}
<1>1. m \in Milestones
  BY DEF DInv, TypeOK
<1> HIDE DEF m
<1>2. m \in S
  BY <1>1 DEF Recorded, Ordered, m
<1>3. \A k \in S : k <= m
  BY <1>1 DEF Recorded, Ordered, m, Milestones
<1>4. Max(S) = m
  <2>1. S \subseteq Nat /\ m \in Nat
    BY <1>1 DEF Milestones
  <2> HIDE DEF S
  <2>2. \A x \in S : (\A y \in S : x >= y) => x = m
    BY <1>2, <1>3, <2>1
  <2>3. \A y \in S : m >= y
    BY <1>3, <2>1
  <2> QED BY <1>2, <2>2, <2>3 DEF Max
<1> QED BY <1>2, <1>4 DEF Newest, m

\* Of the ledger only the named field changes.
LEMMA LedgerFields ==
  ASSUME DInv, NEW t, NEW m, NEW x
  PROVE  /\ [ledger EXCEPT !.transfers = @ \cup {t}].transfers = ledger.transfers \cup {t}
         /\ [ledger EXCEPT !.transfers = @ \cup {t}].refunded = ledger.refunded
         /\ [ledger EXCEPT !.refunded[m] = @ + x].transfers = ledger.transfers
         /\ [ledger EXCEPT !.refunded[m] = @ + x].refunded =
              [ledger.refunded EXCEPT ![m] = @ + x]
BY DEF DInv, TypeOK

LEMMA TransfersCalmly ==
  ASSUME DInv, NEW p \in Procs, NEW r \in Handler, r = req[p], HandlerOK(r),
         Situation(r), TransferPartialToProvider(p)
  PROVE  Passes(p)
<1> DEFINE d == r.d
           m == dispute[d].ms
           v == dispute[d].verdict
<1>0. UNCHANGED <<dispute, milestone, proposal>> /\ Goto(p, "refund")
  BY DEF TransferPartialToProvider, caseVars, workVars
<1>1. r.pc = "transfer" /\ r.pc \in CaseSteps
  BY DEF TransferPartialToProvider, At, CaseSteps, SettleSteps
<1>2. /\ d \in Disputes /\ m \in Milestones /\ Recorded
      /\ Ordered(d, r) /\ Coherent(d, r) /\ Settling(d, r)
      /\ IsOpen(dispute[d]) => v = NoVerdict
  BY <1>1, TheCase
<1> HIDE DEF m, d, v
<1>3. /\ v.how # "none" /\ r.share = v.share /\ (r.op = "auto" <=> v.how = "auto")
      /\ Untouched(m) /\ CarriedOut(d, r) /\ ~ IsOpen(dispute[d])
  <2>1. v.how # "none" /\ r.share = v.share /\ (r.op = "auto" <=> v.how = "auto")
        /\ Untouched(m)
    BY <1>1, <1>2 DEF Settling, SettleSteps, v, m
  <2>2. v # NoVerdict
    BY <2>1 DEF NoVerdict
  <2> QED BY <1>2, <2>1, <2>2 DEF Settling, v
<1>4. m' = m /\ v' = v /\ ~ IsOpen(dispute[d])'
  BY <1>0, <1>3 DEF m, d, v
<1>5. PICK s : /\ req'[p] = s /\ s.pc = "refund" /\ s.d = d /\ s.share = r.share
               /\ s.op = r.op
  BY <1>0, Goes DEF Steps, d
<1>6. Newest = m
  BY <1>1, <1>2, NewestIsTheCase DEF m
<1>7. PICK n, share : n = m /\ share = v.share
  OBVIOUS
<1>8. /\ n \in Milestones /\ share \in 0 .. Amount
  BY <1>2, <1>3, <1>7 DEF Handler
<1>9. /\ record[n] = [status |-> "succeeded", payout |-> Amount, transfer |-> "pending"]
      /\ ledger.refunded[n] = 0 /\ Touching(n) = {}
  BY <1>3, <1>7 DEF Untouched
<1>10. /\ \A k \in Milestones : record'[k].status = record[k].status
       /\ share > 0 => Allotted(n, share)' /\ ledger'.refunded[n] = 0
  <2>1. record \in [Milestones -> [status : {"none", "succeeded", "refunded"},
                       payout : 0 .. Amount, transfer : {"pending", "completed"}]]
    BY DEF DInv, TypeOK
  <2>2. CASE UNCHANGED moneyVars /\ ~ (share > 0)
    BY <2>2 DEF moneyVars
  <2>3. CASE record' = [record EXCEPT ![n].payout = share] /\ UNCHANGED ledger
    <3>1. /\ record'[n].status = "succeeded" /\ record'[n].payout = share
          /\ record'[n].transfer = "pending"
          /\ \A k \in Milestones : record'[k].status = record[k].status
      BY <1>8, <1>9, <2>1, <2>3
    <3> QED BY <1>9, <2>3, <3>1 DEF Allotted, Touching
  <2>4. CASE /\ ledger' = Transferred(0, share)
             /\ record' = [record EXCEPT ![n].payout = share, ![n].transfer = "completed"]
    <3>1. /\ record'[n].status = "succeeded" /\ record'[n].payout = share
          /\ record'[n].transfer = "completed"
          /\ \A k \in Milestones : record'[k].status = record[k].status
      BY <1>8, <1>9, <2>1, <2>4
    <3> DEFINE u == [key |-> 0, amount |-> share]
    <3>2. ledger' = [ledger EXCEPT !.transfers = @ \cup {u}]
      BY <1>9, <2>4 DEF Transferred, Touching
    <3>3. u.key = 0
      OBVIOUS
    <3> HIDE DEF u
    <3>4. ledger'.transfers = ledger.transfers \cup {u} /\ ledger'.refunded = ledger.refunded
      BY <3>2, LedgerFields
    <3>5. Touching(n)' = {u}
      BY <1>9, <3>3, <3>4 DEF Touching
    <3>6. 0 \in 0 .. N
      BY DisputeAssumption
    <3> QED BY <1>9, <3>1, <3>4, <3>5, <3>6 DEF Allotted, u
  <2>5. /\ Newest = n /\ req[p].share = share /\ record[Newest].status = "succeeded"
        /\ record[Newest].transfer # "completed"
    BY <1>3, <1>6, <1>7, <1>9
  <2>6. CASE share > 0
    BY <2>3, <2>4, <2>5, <2>6 DEF TransferPartialToProvider
  <2>7. CASE ~ (share > 0)
    BY <2>2, <2>5, <2>7 DEF TransferPartialToProvider
  <2> QED BY <2>6, <2>7
<1>11. Recorded'
  BY <1>0, <1>2, <1>10 DEF Recorded, St
<1>12. Ordered(d, s)'
  BY <1>0, <1>1, <1>2, <1>5 DEF Ordered, St
<1>13. Coherent(d, s)'
  BY <1>0, <1>1, <1>2, <1>4, <1>5 DEF Coherent, Closing
<1>14. Settling(d, s)'
  <2>1. /\ proposal' = [status |-> "completed", dispute |-> NoDispute]
        /\ v.how # "auto" => Thawed(m, v.share)' /\ NoneWaits'
    BY <1>0, <1>1, <1>3, <1>4 DEF CarriedOut, Thawed, NoneWaits, St, m, v
  <2>2. v.share > 0 => Allotted(m, v.share)' /\ ledger'.refunded[m] = 0
    BY <1>4, <1>7, <1>10
  <2>3. CarriedOut(d, s)'
    BY <1>4, <1>5, <2>1, <2>2 DEF CarriedOut, m, v
  <2> QED BY <1>3, <1>4, <1>5, <2>3 DEF Settling, SettleSteps, v
<1>15. Situation(s)'
  BY <1>0, <1>1, <1>5, <1>11, <1>12, <1>13, <1>14, OnTheCase DEF d
<1> QED BY <1>5, <1>15 DEF Passes

LEMMA RefundsCalmly ==
  ASSUME DInv, NEW p \in Procs, NEW r \in Handler, r = req[p], HandlerOK(r),
         Situation(r), RefundToClient(p)
  PROVE  Passes(p)
<1> DEFINE d == r.d
           m == dispute[d].ms
           v == dispute[d].verdict
<1>0. UNCHANGED <<dispute, milestone, proposal>> /\ Return(p)
  BY DEF RefundToClient, caseVars, workVars
<1>1. r.pc = "refund" /\ r.pc \in CaseSteps
  BY DEF RefundToClient, At, CaseSteps
<1>2. /\ d \in Disputes /\ m \in Milestones /\ Recorded
      /\ Ordered(d, r) /\ Coherent(d, r) /\ Settling(d, r)
      /\ IsOpen(dispute[d]) => v = NoVerdict
  BY <1>1, TheCase
<1> HIDE DEF m, d, v
<1>3. /\ v.how # "none" /\ r.share = v.share /\ CarriedOut(d, r) /\ ~ IsOpen(dispute[d])
  <2>1. v.how # "none" /\ r.share = v.share
    BY <1>1, <1>2 DEF Settling, v
  <2>2. v # NoVerdict
    BY <2>1 DEF NoVerdict
  <2> QED BY <1>2, <2>1, <2>2 DEF Settling, v
<1>4. m' = m /\ v' = v /\ ~ IsOpen(dispute[d])'
  BY <1>0, <1>3 DEF m, d, v
<1>5. Idle.pc = "idle" /\ req'[p] = Idle
  BY <1>0 DEF Idle, Return, DInv, TypeOK
<1>6. Newest = m /\ record[m].status # "none"
  BY <1>1, <1>2, NewestIsTheCase DEF m
<1>7. PICK n, share : n = m /\ share = v.share
  OBVIOUS
<1>8. /\ n \in Milestones /\ share \in 0 .. Amount /\ record[n].status # "none"
  BY <1>2, <1>3, <1>6, <1>7 DEF Handler
<1>9. share > 0 => Allotted(n, share) /\ ledger.refunded[n] = 0
  BY <1>1, <1>3, <1>7 DEF CarriedOut, SettleSteps, m, v
<1>10. /\ \A k \in Milestones : record'[k].status = "none" <=> record[k].status = "none"
       /\ share > 0 => Allotted(n, share)' /\ ledger'.refunded[n] = Amount - share
  <2> DEFINE left == Amount - share
  <2>1. record \in [Milestones -> [status : {"none", "succeeded", "refunded"},
                       payout : 0 .. Amount, transfer : {"pending", "completed"}]]
        /\ ledger.refunded \in [Milestones -> 0 .. Amount]
    BY DEF DInv, TypeOK
  <2>2. IF left > 0 /\ ledger.refunded[n] + left <= Amount
          THEN /\ ledger' = [ledger EXCEPT !.refunded[n] = @ + left]
               /\ record' = IF record[n].payout = 0 /\ record[n].status = "succeeded"
                              THEN [record EXCEPT ![n].status = "refunded"] ELSE record
          ELSE UNCHANGED <<record, ledger>>
    BY <1>3, <1>6, <1>7 DEF RefundToClient, moneyVars
  <2>3. left \in 0 .. Amount /\ Amount \in Nat /\ share \in Nat
    BY <1>8, DisputeAssumption
  <2>4. \A k \in Milestones : record'[k].status = "none" <=> record[k].status = "none"
    BY <1>8, <2>1, <2>2
  <2>5. ASSUME share > 0
        PROVE  Allotted(n, share)' /\ ledger'.refunded[n] = left
    <3>1. UNCHANGED record
      BY <1>9, <2>2, <2>3, <2>5 DEF Allotted
    <3>2. CASE left = 0
      BY <1>9, <2>2, <2>3, <2>5, <3>2 DEF Allotted, Touching
    <3>3. CASE left > 0
      <4>1. ledger' = [ledger EXCEPT !.refunded[n] = @ + left]
        BY <1>9, <2>2, <2>3, <2>5, <3>3
      <4> HIDE DEF left
      <4>2. /\ ledger'.transfers = ledger.transfers
            /\ ledger'.refunded = [ledger.refunded EXCEPT ![n] = @ + left]
        BY <4>1, LedgerFields
      <4>3. ledger'.refunded[n] = left
        BY <1>8, <1>9, <2>1, <2>3, <2>5, <4>2
      <4> QED BY <1>9, <2>5, <3>1, <4>2, <4>3 DEF Allotted, Touching
    <3> QED BY <2>3, <3>2, <3>3
  <2> QED BY <2>4, <2>5
<1>11. Recorded'
  BY <1>0, <1>2, <1>10 DEF Recorded, St
<1>12. Ordered(d, Idle)'
  BY <1>0, <1>1, <1>2, <1>5 DEF Ordered, St
<1>13. Coherent(d, Idle)'
  BY <1>0, <1>1, <1>2, <1>4, <1>5 DEF Coherent, Closing
<1>14. Settling(d, Idle)'
  <2>1. /\ proposal' = [status |-> "completed", dispute |-> NoDispute]
        /\ v.how # "auto" => Thawed(m, v.share)' /\ NoneWaits'
    BY <1>0, <1>1, <1>3, <1>4 DEF CarriedOut, Thawed, NoneWaits, St, m, v
  <2>2. v.share > 0 => Allotted(m, v.share)' /\ ledger'.refunded[m] = Amount - v.share
    BY <1>4, <1>7, <1>10
  <2>3. CarriedOut(d, Idle)'
    BY <1>4, <1>5, <2>1, <2>2 DEF CarriedOut, m, v
  <2> QED BY <1>3, <1>4, <1>5, <2>3 DEF Settling, SettleSteps, v
<1>15. Situation(Idle)'
  BY <1>0, <1>1, <1>5, <1>11, <1>12, <1>13, <1>14, OnTheCase
     DEF d, CaseSteps, SettleSteps
<1> QED BY <1>5, <1>15 DEF Passes

-----------------------------------------------------------------------------
(***************************************************************************)
(* The row is saved: a ruling starts the settlement, a cancellation the    *)
(* way back, anything else leaves an open dispute open.                    *)
(***************************************************************************)
LEMMA SavedFacts ==
  ASSUME NEW r \in Handler, NEW row \in DisputeRow, r.op \in SaveOps
  PROVE  /\ Saved(r, row).ms = row.ms
         /\ r.op \in Rulings =>
              /\ Saved(r, row).status = "resolved"
              /\ Saved(r, row).verdict.share = r.share
              /\ Saved(r, row).verdict.how \in {"amicable", "admin", "auto"}
              /\ Saved(r, row).verdict.how = "auto" <=> r.op = "auto"
         /\ r.op \notin Rulings => Saved(r, row).verdict = row.verdict
         /\ r.op \in {"cancel", "agree"} => Saved(r, row).status = "cancelled"
         /\ r.op \notin Rulings \cup {"cancel", "agree"} =>
              \/ Saved(r, row).status = row.status
              \/ row.status = "open" /\ Saved(r, row).status = "negotiation"
              \/ r.op = "escalate" /\ Saved(r, row).status = "escalated"
<1> USE DEF Saved, SaveOps, Rulings
<1>1. ASSUME NEW how
      PROVE  LET n == Rule(row, how, r.share)
             IN  /\ n.ms = row.ms /\ n.status = "resolved"
                 /\ n.verdict.share = r.share /\ n.verdict.how = how
  BY DEF Rule, DisputeRow
<1>2. CASE r.op = "accept"
  BY <1>1, <1>2
<1>3. CASE r.op = "decide"
  BY <1>1, <1>3
<1>4. CASE r.op = "auto"
  BY <1>1, <1>4
<1>5. CASE r.op = "counter"
  BY <1>5 DEF DisputeRow
<1>6. CASE r.op \in {"reject", "ask", "refuse"}
  BY <1>6 DEF DisputeRow
<1>7. CASE r.op \in {"escalate", "cancel", "agree"}
  BY <1>7 DEF DisputeRow
<1> QED BY <1>2, <1>3, <1>4, <1>5, <1>6, <1>7

LEMMA SavesCalmly ==
  ASSUME DInv, NEW p \in Procs, NEW r \in Handler, r = req[p], HandlerOK(r),
         Situation(r), SaveDispute(p)
  PROVE  Passes(p)
<1> DEFINE d == r.d
           m == dispute[d].ms
           v == dispute[d].verdict
<1>0. UNCHANGED <<milestone, proposal, record, ledger>>
  BY DEF SaveDispute, workVars, moneyVars
<1>1. r.pc = "save" /\ r.pc \in CaseSteps /\ r.op \in SaveOps
  BY DEF SaveDispute, At, CaseSteps, HandlerOK
<1>2. /\ d \in Disputes /\ m \in Milestones /\ Recorded
      /\ Ordered(d, r) /\ Coherent(d, r) /\ Settling(d, r)
      /\ IsOpen(dispute[d]) => v = NoVerdict
  BY <1>1, TheCase
<1>3. CASE Return(p) /\ UNCHANGED dispute
  BY <1>0, <1>1, <1>3, IdlePasses DEF AtRest
<1>4. ASSUME NEW step \in {"idle", "reload", "settle"}, r.fresh,
             r.op = "accept" => IsOpen(dispute[d]),
             dispute' = [dispute EXCEPT ![d] = Saved(r, dispute[d])],
             Continue(p, step),
             step = IF r.op \in Rulings THEN "settle"
                    ELSE IF r.op \in {"cancel", "agree"} THEN "reload" ELSE "idle"
      PROVE  Passes(p)
  <2>1. PICK row, new : row = dispute[d] /\ new = Saved(r, row)
    OBVIOUS
  <2>2. row \in DisputeRow
    BY <1>2, <2>1 DEF DInv, TypeOK, DisputeRow
  <2>3. /\ new.ms = row.ms
        /\ r.op \in Rulings =>
             /\ new.status = "resolved" /\ new.verdict.share = r.share
             /\ new.verdict.how \in {"amicable", "admin", "auto"}
             /\ new.verdict.how = "auto" <=> r.op = "auto"
        /\ r.op \notin Rulings => new.verdict = row.verdict
        /\ r.op \in {"cancel", "agree"} => new.status = "cancelled"
        /\ r.op \notin Rulings \cup {"cancel", "agree"} =>
             \/ new.status = row.status
             \/ row.status = "open" /\ new.status = "negotiation"
             \/ r.op = "escalate" /\ new.status = "escalated"
    BY <1>1, <2>1, <2>2, SavedFacts
  <2>4. \A e \in Disputes : dispute'[e] = IF e = d THEN new ELSE dispute[e]
    BY <1>4, <2>1 DEF DInv, TypeOK
  <2>5. /\ Used(d) /\ \A e \in Disputes : Used(e) => e = d
        /\ \A e \in Disputes : ~ Used(e) => dispute[e] = Unused
    BY <1>1, <1>2 DEF Situation, Books
  <2>6. r.op \in Rulings => IsOpen(row)
    BY <1>1, <1>4, <2>1 DEF HandlerOK, Rulings, IsOpen
  <2>7. r.op \notin Rulings \cup {"cancel", "agree"} => (IsOpen(new) <=> IsOpen(row))
    BY <1>1, <1>4, <2>1, <2>3 DEF HandlerOK, IsOpen
  <2>8. new.status # "none"
    <3>1. row.status # "none"
      BY <2>1, <2>5 DEF Used
    <3>2. r.op \notin Rulings \cup {"cancel", "agree"} => new.status # "none"
      BY <2>3, <3>1
    <3> QED BY <2>3, <3>2
  <2>9. PICK s : /\ req'[p] = s /\ (s = Idle \/ s.pc # "idle") /\ s.pc = step
                 /\ step # "idle" => s.d = d /\ s.share = r.share /\ s.op = r.op
    <3>1. CASE step = "idle"
      <4>1. Idle.pc = "idle" /\ req'[p] = Idle
        BY <1>4, <3>1 DEF Continue, Idle
      <4> QED BY <3>1, <4>1
    <3>2. CASE step # "idle"
      <4>1. req'[p] = [r EXCEPT !.pc = step, !.fresh = FALSE]
        BY <1>4, <3>2 DEF Continue
      <4>2. LET s == [r EXCEPT !.pc = step, !.fresh = FALSE]
            IN  s.pc = step /\ s.d = r.d /\ s.share = r.share /\ s.op = r.op
        BY DEF Handler
      <4> QED BY <3>2, <4>1, <4>2
    <3> QED BY <3>1, <3>2
  <2>10. \A e \in Disputes : Used(e)' <=> e = d
    BY <2>4, <2>5, <2>8 DEF Used
  <2>11. m' = m /\ dispute'[d] = new /\ m = row.ms /\ v = row.verdict
    BY <1>2, <2>1, <2>3, <2>4
  <2> HIDE DEF m, d, v
  <2>12. Books(s)'
    <3>1. Recorded'
      BY <1>0, <1>2 DEF Recorded, St
    <3> QED BY <1>2, <1>4, <2>4, <2>5, <2>8, <2>9, <2>10, <3>1
            DEF Books, CaseSteps, SettleSteps
  <2>13. Ordered(d, s)'
    <3>1. r.op \in Rulings => v = NoVerdict
      BY <1>2, <2>1, <2>6
    <3>2. r.op \in Rulings => St(m) = "disputed"
      BY <1>1, <1>2, <3>1 DEF Ordered, m, v, NoVerdict
    <3>3. s.pc # "freeze"
      BY <2>9
    <3>4. r.op \notin Rulings => dispute'[d].verdict = v
      BY <2>3, <2>11
    <3>5. /\ \A k \in Milestones : k < m => IsTerminal(St(k))
          /\ \A k \in Milestones : k > m => St(k) \in {"pending_funding", "cancelled"}
          /\ St(m) \in {"disputed", "released", "refunded"}
          /\ v.how \in {"none", "auto"} => St(m) = "disputed"
      BY <1>1, <1>2 DEF Ordered, m, v
    <3> QED BY <1>0, <2>11, <3>2, <3>3, <3>4, <3>5 DEF Ordered, m, St
  <2>14. Coherent(d, s)'
    <3>1. IsOpen(row) => Frozen(d)
      BY <1>1, <1>2, <2>1 DEF Coherent
    <3>2. Frozen(d) => Frozen(d)'
      BY <1>0, <2>11 DEF Frozen, m
    <3>3. proposal.status = "disputed" => proposal.dispute = d /\ IsOpen(row)
      BY <1>1, <1>2, <2>1 DEF Coherent, Closing
    <3>4. step # "idle" => ~ IsOpen(new)
      BY <1>4, <2>3 DEF IsOpen
    <3>5. step = "idle" => (IsOpen(new) <=> IsOpen(row))
      BY <1>4, <2>7
    <3> QED BY <1>0, <2>9, <2>11, <3>1, <3>2, <3>3, <3>4, <3>5 DEF Coherent, Closing
  <2>15. Settling(d, s)'
    <3>1. IsOpen(row) => Untouched(m)'
      BY <1>0, <1>2, <2>1, <2>11 DEF Settling, Untouched, Touching, m
    <3>2. CASE r.op \in Rulings
      <4>1. s.pc = "settle" /\ Untouched(m)' /\ Frozen(d)
        BY <1>1, <1>2, <1>4, <2>1, <2>6, <2>9, <3>1, <3>2 DEF Coherent
      <4>2. Frozen(d)'
        BY <1>0, <2>11, <4>1 DEF Frozen, m
      <4>3. CarriedOut(d, s)'
        BY <4>1 DEF CarriedOut, SettleSteps
      <4> QED BY <1>4, <2>3, <2>9, <2>11, <3>2, <4>1, <4>2, <4>3 DEF Settling, m
    <3>3. CASE r.op \notin Rulings
      <4>1. s.pc \in {"idle", "reload"} /\ dispute'[d].verdict = v
        BY <1>4, <2>3, <2>9, <2>11, <3>3
      <4>2. v = NoVerdict \/ (v.how # "none" /\ CarriedOut(d, r))
        BY <1>2 DEF Settling, v
      <4>3. CarriedOut(d, r) => CarriedOut(d, s)'
        BY <1>0, <1>1, <2>11, <4>1 DEF CarriedOut, SettleSteps, Thawed, NoneWaits, St,
           Allotted, Touching, m, v
      <4>4. IsOpen(new) => IsOpen(row)
        BY <1>4, <2>3, <2>7, <3>3 DEF IsOpen
      <4> QED BY <2>11, <3>1, <4>1, <4>2, <4>3, <4>4 DEF Settling, SettleSteps, m
    <3> QED BY <3>2, <3>3
  <2>16. Situation(s)'
    BY <1>2, <2>10, <2>12, <2>13, <2>14, <2>15 DEF Situation
  <2> QED BY <2>9, <2>16 DEF Passes
<1> QED BY <1>3, <1>4 DEF SaveDispute

-----------------------------------------------------------------------------
(***************************************************************************)
(* The proposal service, while there is no dispute.                        *)
(***************************************************************************)
LEMMA WithoutCase ==
  ASSUME NEW r, Books(r), \A d \in Disputes : ~ Used(d), UNCHANGED dispute,
         NEW s, s.pc \notin CaseSteps, Recorded', Working(s)'
  PROVE  Situation(s)'
<1>1. \A d \in Disputes : ~ Used(d)' /\ (dispute[d] = Unused)'
  BY DEF Books, Used
<1>2. Books(s)'
  BY <1>1 DEF Books
<1> QED BY <1>1, <1>2 DEF Situation

LEMMA WorksCalmly ==
  ASSUME DInv, NEW p \in Procs, NEW r \in Handler, r = req[p], Situation(r), Work(p)
  PROVE  Passes(p)
<1>0. r.pc = "work" /\ UNCHANGED <<dispute, proposal, ledger>>
  BY DEF Work, At, caseVars
<1>1. Books(r) /\ Recorded /\ Working(r) /\ \A d \in Disputes : ~ Used(d)
  BY <1>0 DEF Situation, Books
<1>2. CASE Return(p) /\ UNCHANGED <<milestone, record>>
  <2>1. Idle.pc = "idle" /\ req'[p] = Idle
    BY <1>2 DEF Idle, Return, DInv, TypeOK
  <2>2. Recorded' /\ Working(Idle)'
    BY <1>0, <1>1, <1>2, <2>1 DEF Recorded, Working, St, Statuses
  <2>3. Situation(Idle)'
    BY <1>0, <1>1, <2>1, <2>2, WithoutCase DEF CaseSteps, SettleSteps
  <2> QED BY <2>1, <2>3 DEF Passes
<1>3. ASSUME NEW m \in Milestones, IsCurrentActive(Statuses, m),
             <<milestone[m].status, r.op>> \in WorkOps,
             milestone' = [milestone EXCEPT ![m].status = r.op],
             req' = [req EXCEPT ![p].pc = "write", ![p].m = m,
                       ![p].row.status = DeriveMacroStatus([Statuses EXCEPT ![m] = r.op])],
             record' = IF milestone[m].status = "pending_funding"
                         THEN [record EXCEPT ![m].status = "succeeded"] ELSE record
      PROVE  Passes(p)
  <2>1. /\ St(m) \in {"pending_funding", "funded", "submitted"}
        /\ r.op \in {"funded", "submitted", "released"}
        /\ r.op = "released" => St(m) = "submitted"
    BY <1>3 DEF WorkOps, St
  <2>2. \A k \in Milestones : St(k)' = IF k = m THEN r.op ELSE St(k)
    BY <1>3 DEF DInv, TypeOK, St
  <2>3. Statuses' = [Statuses EXCEPT ![m] = r.op] /\ DOMAIN Statuses' = Milestones
    BY <2>2 DEF Statuses, St
  <2>4. PICK st : st = DeriveMacroStatus([Statuses EXCEPT ![m] = r.op])
    OBVIOUS
  <2>5. PICK s : /\ req'[p] = s /\ s.pc = "write" /\ s.m = m /\ s.op = r.op
                 /\ s.row.status = st
    <3>1. req'[p] = [r EXCEPT !.pc = "write", !.m = m, !.row.status = st]
      BY <1>3, <2>4 DEF DInv, TypeOK, Handler, Row
    <3>2. LET s == [r EXCEPT !.pc = "write", !.m = m, !.row.status = st]
          IN s.pc = "write" /\ s.m = m /\ s.op = r.op /\ s.row.status = st
      BY DEF Handler, Row
    <3> QED BY <3>1, <3>2
  <2>6. /\ st # "disputed"
        /\ st = "completed" => AllReleased(Statuses)'
    <3>1. \A k \in Milestones : Statuses'[k] # "disputed"
      BY <1>1, <2>1, <2>2 DEF Working, Statuses, St
    <3>2. st = DeriveMacroStatus(Statuses')
      BY <2>3, <2>4
    <3> QED BY <2>3, <3>1, <3>2 DEF DeriveMacroStatus, AllReleased
  <2>7. /\ \A k \in Milestones : /\ record'[k].payout = record[k].payout
                                 /\ record'[k].transfer = record[k].transfer
        /\ \A k \in Milestones :
             record'[k].status = IF k = m /\ St(m) = "pending_funding" THEN "succeeded"
                                 ELSE record[k].status
    BY <1>3 DEF DInv, TypeOK, St
  <2>8. Recorded'
    BY <1>1, <2>1, <2>2, <2>7 DEF Recorded
  <2>9. proposal.status # "completed"
    BY <1>1, <2>1 DEF Working, AllReleased, Statuses, St
  <2>10. Working(s)'
    <3>1. \A t \in ledger.transfers :
            t.key \in Milestones /\ record'[t.key].transfer = "completed"
      BY <1>1, <2>7 DEF Working
    <3>2. \A k \in Milestones :
            /\ St(k)' # "disputed" /\ record'[k].status # "refunded"
            /\ record'[k].payout = Amount /\ ledger.refunded[k] = 0
            /\ record'[k].transfer = "completed" => St(k)' = "released"
      BY <1>1, <2>1, <2>2, <2>7 DEF Working
    <3>3. s.op = "released" => St(s.m)' = "released"
      BY <2>2, <2>5
    <3> QED BY <1>0, <1>1, <2>5, <2>6, <2>9, <3>1, <3>2, <3>3 DEF Working
  <2>11. Situation(s)'
    BY <1>0, <1>1, <2>5, <2>8, <2>10, WithoutCase DEF CaseSteps, SettleSteps
  <2> QED BY <2>5, <2>11 DEF Passes
<1> QED BY <1>2, <1>3 DEF Work

\* What PayOut does to the records and the ledger.
LEMMA PaidOut ==
  ASSUME DInv, NEW m \in Milestones, PayOut(m)
  PROVE  /\ record[m].status = "succeeded" /\ record[m].transfer = "pending"
         /\ record'[m].transfer = "completed"
         /\ \A k \in Milestones : record'[k].status = record[k].status
                                  /\ record'[k].payout = record[k].payout
         /\ \A k \in Milestones : k # m => record'[k] = record[k]
         /\ ledger'.refunded = ledger.refunded
         /\ \/ ledger'.transfers =
                 ledger.transfers \cup {[key |-> m, amount |-> record[m].payout]}
            \/ /\ ledger'.transfers = ledger.transfers
               /\ \E t \in ledger.transfers : t.key = m
<1>1. /\ record[m].status = "succeeded" /\ record[m].transfer = "pending"
      /\ record' = [record EXCEPT ![m].transfer = "completed"]
      /\ ledger' = Transferred(m, record[m].payout)
  BY DEF PayOut
<1>2. /\ record'[m].transfer = "completed"
      /\ \A k \in Milestones : record'[k].status = record[k].status
                               /\ record'[k].payout = record[k].payout
      /\ \A k \in Milestones : k # m => record'[k] = record[k]
  BY <1>1 DEF DInv, TypeOK
<1> DEFINE t == [key |-> m, amount |-> record[m].payout]
<1>3. \/ ledger' = [ledger EXCEPT !.transfers = @ \cup {t}]
      \/ ledger' = ledger /\ \E u \in ledger.transfers : u.key = m
  BY <1>1 DEF Transferred
<1> HIDE DEF t
<1>4. /\ ledger'.refunded = ledger.refunded
      /\ \/ ledger'.transfers = ledger.transfers \cup {t}
         \/ ledger'.transfers = ledger.transfers /\ \E u \in ledger.transfers : u.key = m
  BY <1>3, LedgerFields
<1> QED BY <1>1, <1>2, <1>4 DEF t

\* A payment for a released milestone keeps the books of a contract without
\* disputes.
LEMMA PaysWhileWorking ==
  ASSUME DInv, NEW m \in Milestones, PayOut(m), NEW r, Working(r), St(m) = "released",
         UNCHANGED milestone, NEW s, s.pc = "idle",
         (proposal.status # "disputed")',
         (proposal.status = "completed" => AllReleased(Statuses))'
  PROVE  Working(s)'
<1>1. \A t \in ledger'.transfers :
        t.key \in Milestones /\ record'[t.key].transfer = "completed"
  <2>1. ASSUME NEW t \in ledger'.transfers
        PROVE  t \in ledger.transfers \/ t.key = m
    BY PaidOut
  <2>2. \A k \in Milestones : record[k].transfer = "completed" =>
                                record'[k].transfer = "completed"
    BY PaidOut
  <2> QED BY <2>1, <2>2, PaidOut DEF Working
<1>2. \A k \in Milestones :
        /\ St(k)' # "disputed" /\ record'[k].status # "refunded"
        /\ record'[k].payout = Amount /\ ledger'.refunded[k] = 0
        /\ record'[k].transfer = "completed" => St(k)' = "released"
  BY PaidOut DEF Working, St
<1> QED BY <1>1, <1>2 DEF Working

LEMMA WritesCalmly ==
  ASSUME DInv, NEW p \in Procs, NEW r \in Handler, r = req[p], Situation(r), WriteWork(p)
  PROVE  Passes(p)
<1>0. r.pc = "write" /\ UNCHANGED <<dispute, milestone>> /\ proposal' = r.row
  BY DEF WriteWork, At, caseVars
<1>1. Books(r) /\ Recorded /\ Working(r) /\ \A d \in Disputes : ~ Used(d)
  BY <1>0 DEF Situation, Books
<1>2. Idle.pc = "idle" /\ req'[p] = Idle
  BY DEF Idle, Return, WriteWork, DInv, TypeOK
<1>3. /\ (proposal.status # "disputed")'
      /\ (proposal.status = "completed" => AllReleased(Statuses))'
  BY <1>0, <1>1 DEF Working, Statuses
<1>4. CASE UNCHANGED <<record, ledger>>
  <2>1. Recorded' /\ Working(Idle)'
    BY <1>0, <1>1, <1>2, <1>3, <1>4 DEF Recorded, Working, St
  <2>2. Situation(Idle)'
    BY <1>0, <1>1, <1>2, <2>1, WithoutCase DEF CaseSteps, SettleSteps
  <2> QED BY <1>2, <2>2 DEF Passes
<1>5. CASE r.op = "released" /\ PayOut(r.m)
  <2>1. r.m \in Milestones /\ St(r.m) = "released"
    BY <1>0, <1>1, <1>5 DEF Handler, Working
  <2>2. Working(Idle)'
    BY <1>0, <1>1, <1>2, <1>3, <1>5, <2>1, PaysWhileWorking
  <2>3. Recorded'
    BY <1>0, <1>1, <1>5, <2>1, PaidOut DEF Recorded, St
  <2>4. Situation(Idle)'
    BY <1>0, <1>1, <1>2, <2>2, <2>3, WithoutCase DEF CaseSteps, SettleSteps
  <2> QED BY <1>2, <2>4 DEF Passes
<1> QED BY <1>4, <1>5 DEF WriteWork, moneyVars

-----------------------------------------------------------------------------
(***************************************************************************)
(* The provider withdraws what a completed contract owes.                  *)
(***************************************************************************)
LEMMA PaysCalmly ==
  ASSUME DInv, CalmInv, NEW n \in Milestones, RequestPayout(n), calm'
  PROVE  CalmInv'
<1>0. /\ calm /\ Quiet /\ Situation(Idle) /\ PayOut(n) /\ proposal.status = "completed"
      /\ UNCHANGED <<dispute, milestone, proposal, req>>
  BY DEF RequestPayout, CalmInv, caseVars, workVars
<1> SUFFICES Situation(Idle)'
  <2>1. \A q \in Procs : IsIdle(q)'
    BY <1>0 DEF Quiet, IsIdle
  <2> QED BY <2>1 DEF CalmInv, Alone
<1>1. Idle.pc = "idle"
  BY DEF Idle
<1>2. Recorded'
  BY <1>0, PaidOut DEF Situation, Books, Recorded, St
<1>3. Books(Idle)
  BY <1>0 DEF Situation
<1>4. CASE \A d \in Disputes : ~ Used(d)
  <2>1. Working(Idle)
    BY <1>0, <1>4 DEF Situation
  <2>2. AllReleased(Statuses) /\ St(n) = "released"
    BY <1>0, <2>1 DEF Working, AllReleased, Statuses, St
  <2>3. (proposal.status # "disputed")' /\ AllReleased(Statuses)'
    BY <1>0, <2>2 DEF Statuses
  <2>4. Working(Idle)'
    BY <1>0, <1>1, <2>1, <2>2, <2>3, PaysWhileWorking
  <2>5. Situation(Idle)'
    BY <1>0, <1>1, <1>2, <1>3, <1>4, <2>4, WithoutCase DEF CaseSteps, SettleSteps
  <2> QED BY <2>5
<1>5. ASSUME NEW d \in Disputes, Used(d)
      PROVE  Ordered(d, Idle)' /\ Coherent(d, Idle)' /\ Settling(d, Idle)'
  <2> DEFINE m == dispute[d].ms
             v == dispute[d].verdict
  <2>1. Ordered(d, Idle) /\ Coherent(d, Idle) /\ Settling(d, Idle) /\ m \in Milestones
    BY <1>0, <1>5 DEF Situation, DInv, TypeOK
  <2> HIDE DEF m, v
  <2>2. m' = m /\ v' = v /\ ~ IsOpen(dispute[d])'
    BY <1>0, <1>1, <2>1 DEF m, v, Coherent, Frozen
  <2>3. Ordered(d, Idle)' /\ Coherent(d, Idle)'
    BY <1>0, <2>1 DEF Ordered, Coherent, St, Frozen
  <2>4. ASSUME v.share > 0, CarriedOut(d, Idle)
        PROVE  Allotted(m, v.share)' /\ ledger'.refunded[m] = Amount - v.share
    <3>1. Allotted(m, v.share) /\ ledger.refunded[m] = Amount - v.share
      BY <1>1, <2>4 DEF CarriedOut, SettleSteps, m, v
    <3>2. PICK k, share : k = m /\ share = v.share
      OBVIOUS
    <3>3. Allotted(k, share)'
      <4>1. k \in Milestones /\ k \in 0 .. N /\ Allotted(k, share)
        BY <2>1, <3>1, <3>2, DisputeAssumption DEF Milestones
      <4>2. CASE n = k
        <5>1. record[k].payout = share /\ Touching(k) = {}
          BY <1>0, <4>1, <4>2, PaidOut DEF Allotted
        <5> DEFINE u == [key |-> k, amount |-> share]
        <5>2. ledger'.transfers = ledger.transfers \cup {u}
          BY <1>0, <4>2, <5>1, PaidOut DEF Touching
        <5>3. u.key = k
          OBVIOUS
        <5> HIDE DEF u
        <5>4. Touching(k)' = {u}
          BY <5>1, <5>2, <5>3 DEF Touching
        <5> QED BY <1>0, <4>1, <4>2, <5>1, <5>4, PaidOut DEF Allotted, u
      <4>3. CASE n # k
        <5>1. record'[k] = record[k]
          BY <1>0, <4>1, <4>3, PaidOut
        <5> DEFINE u == [key |-> n, amount |-> record[n].payout]
        <5>2. u.key = n /\ n # 0
          BY DEF Milestones
        <5>3. ledger'.transfers \in {ledger.transfers, ledger.transfers \cup {u}}
          BY <1>0, PaidOut
        <5> HIDE DEF u
        <5>4. Touching(k)' = Touching(k)
          BY <4>3, <5>2, <5>3 DEF Touching
        <5> QED BY <4>1, <5>1, <5>4 DEF Allotted
      <4> QED BY <4>2, <4>3
    <3> QED BY <1>0, <2>2, <3>1, <3>2, <3>3, PaidOut
  <2>5. CarriedOut(d, Idle) => CarriedOut(d, Idle)'
    <3>1. ASSUME CarriedOut(d, Idle)
          PROVE  CarriedOut(d, Idle)'
      <4>1. /\ proposal' = [status |-> "completed", dispute |-> NoDispute]
            /\ v.how # "auto" => Thawed(m, v.share)' /\ NoneWaits'
        BY <1>0, <1>1, <2>2, <3>1 DEF CarriedOut, Thawed, NoneWaits, St, m, v
      <4> QED BY <1>1, <2>2, <2>4, <3>1, <4>1 DEF CarriedOut, m, v
    <3> QED BY <3>1
  <2>6. Settling(d, Idle)'
    BY <1>1, <2>1, <2>2, <2>5 DEF Settling, SettleSteps, v
  <2> QED BY <2>3, <2>6
<1>6. CASE \E d \in Disputes : Used(d)
  <2>1. Books(Idle)'
    BY <1>0, <1>2, <1>3 DEF Books, Used
  <2> QED BY <1>0, <1>5, <1>6, <2>1 DEF Situation, Used
<1> QED BY <1>4, <1>6

-----------------------------------------------------------------------------
(***************************************************************************)
(* Whatever moves milestones along the lifecycle keeps them in sequence.   *)
(***************************************************************************)
LEMMA SequenceKept ==
  ASSUME DInv, E!Sequential, [E!Next]_Statuses
  PROVE  E!Sequential'
<1> USE DEF Milestones
<1>1. \A i, j \in Milestones :
        i < j /\ EverFunded(Statuses[j]) => IsTerminal(Statuses[i])
  BY DEF E!Sequential, E!Milestones, E!EverFunded, EverFunded, E!IsActive, IsActive,
         E!IsTerminal, IsTerminal
<1>2. CASE UNCHANGED Statuses
  BY <1>2 DEF E!Sequential
<1>3. ASSUME NEW m \in Milestones, NEW next, CanPersist(Statuses[m], next),
             next = "funded" => IsCurrentActive(Statuses, m),
             Statuses' = [Statuses EXCEPT ![m] = next]
      PROVE  E!Sequential'
  <2>1. \A k \in Milestones : Statuses'[k] = IF k = m THEN next ELSE Statuses[k]
    BY <1>3 DEF Statuses
  <2>2. ASSUME NEW i \in Milestones, NEW j \in Milestones, i < j,
               EverFunded(Statuses'[j])
        PROVE  IsTerminal(Statuses'[i])
    <3>1. IsTerminal(Statuses[i]) => IsTerminal(Statuses'[i])
      BY <1>3, <2>1 DEF IsTerminal, CanPersist, CanTransitionTo
    <3>2. CASE EverFunded(Statuses[j])
      BY <1>1, <2>2, <3>1, <3>2
    <3>3. CASE ~ EverFunded(Statuses[j])
      <4>1. j = m /\ next = "funded"
        BY <1>3, <2>1, <2>2, <3>3 DEF CanPersist, CanTransitionTo, EverFunded, IsActive
      <4>2. IsTerminal(Statuses[i])
        BY <1>3, <2>2, <4>1 DEF IsCurrentActive, Statuses
      <4> QED BY <3>1, <4>2
    <3> QED BY <3>2, <3>3
  <2> QED BY <2>2 DEF E!Sequential, E!Milestones, E!EverFunded, EverFunded, E!IsActive,
                      IsActive, E!IsTerminal, IsTerminal
<1>4. CASE E!Next
  <2>1. PICK m \in Milestones : \E next : E!Advance(m, next)
    BY <1>4 DEF E!Next, E!Milestones, E!Fund, E!Cancel, E!Submit, E!Reject, E!Approve,
                E!Release, E!Dispute, E!Settle
  <2> QED BY <1>3, <2>1
          DEF E!Advance, E!CanPersist, CanPersist, E!CanTransitionTo, CanTransitionTo,
              E!IsCurrentActive, IsCurrentActive, E!IsTerminal, IsTerminal
<1> QED BY <1>2, <1>4

-----------------------------------------------------------------------------
LEMMA InitCalm ==
  ASSUME Init
  PROVE  CalmInv /\ E!Sequential
<1>1. Idle.pc = "idle"
  BY DEF Idle
<1>2. \A q \in Procs : IsIdle(q)
  BY <1>1 DEF Init, IsIdle
<1>3. \A d \in Disputes : dispute[d] = Unused /\ ~ Used(d)
  BY DEF Init, Used, Unused
<1>4. \A m \in Milestones :
        /\ St(m) = IF m = 1 THEN "funded" ELSE "pending_funding"
        /\ record[m].status = IF m = 1 THEN "succeeded" ELSE "none"
        /\ record[m].payout = Amount /\ record[m].transfer = "pending"
        /\ ledger.refunded[m] = 0
  BY DEF Init, St
<1>5. Books(Idle)
  BY <1>1, <1>3, <1>4 DEF Books, Recorded, CaseSteps, SettleSteps
<1>6. Working(Idle)
  BY <1>1, <1>4 DEF Working, Init
<1>7. Situation(Idle)
  BY <1>3, <1>5, <1>6 DEF Situation
<1>8. E!Sequential
  BY <1>4 DEF E!Sequential, E!Milestones, Milestones, Statuses, St, E!EverFunded,
     E!IsActive
<1> QED BY <1>2, <1>7, <1>8 DEF CalmInv, Alone

LEMMA StepsCalmly ==
  ASSUME DInv, E!Sequential, CalmInv, NEW p \in Procs, Step(p), calm'
  PROVE  CalmInv'
<1>1. calm /\ ~ IsIdle(p)
  BY DEF Step, CheckExisting, CreateDispute, Freeze, MarkProposal, FirstOffer, Supersede,
     CreateCounterProposal, Consider, Answer, SaveDispute, ReloadProposal, Reactivate,
     LoadForSettling, Thaw, Sweep, CompleteProposal, TransferPartialToProvider,
     RefundToClient, Work, WriteWork, At, IsIdle, history
<1>2. \A q \in Procs : q # p => IsIdle(q)
  BY <1>1 DEF CalmInv, Alone
<1>3. PICK r \in Handler : r = req[p]
  BY DEF DInv, TypeOK
<1>4. HandlerOK(r) /\ Situation(r)
  BY <1>1, <1>3 DEF DInv, HandlersOK, CalmInv
<1>5. Passes(p)
  BY <1>3, <1>4, LooksCalmly, CreatesCalmly, FreezesCalmly, SavesCalmly, RestoresCalmly,
     SettlesCalmly, TransfersCalmly, RefundsCalmly, WorksCalmly, WritesCalmly DEF Step
<1> QED BY <1>2, <1>5, Carry

LEMMA CalmKept ==
  ASSUME DInv, E!Sequential, CalmInv, [Next]_vars
  PROVE  CalmInv'
<1> SUFFICES ASSUME calm'
             PROVE  CalmInv'
  BY DEF CalmInv
<1>1. CASE UNCHANGED vars
  <2>1. UNCHANGED <<dispute, milestone, proposal, record, ledger, req, calm>>
    BY <1>1 DEF vars, caseVars, workVars, moneyVars, history
  <2>2. Alone' /\ (Quiet' => Quiet)
    BY <2>1 DEF CalmInv, Alone, Quiet, IsIdle
  <2>3. Quiet' => Situation(Idle)'
    BY <2>1, <2>2, SameRows DEF CalmInv
  <2>4. ASSUME NEW q \in Procs, ~ IsIdle(q)'
        PROVE  Situation(req[q])'
    <3>1. PICK r : r = req[q] /\ r = req'[q]
      BY <2>1
    <3>2. Situation(r)
      BY <2>1, <2>4, <3>1 DEF CalmInv, IsIdle
    <3>3. Situation(r)'
      BY <2>1, <3>2, SameRows
    <3> QED BY <3>1, <3>3
  <2> QED BY <2>2, <2>3, <2>4 DEF CalmInv
<1>2. ASSUME NEW p \in Procs, Start(p)
      PROVE  CalmInv'
  <2>1. \E r : Begin(p, r)
    BY <1>2 DEF Start, OpenDispute, CounterPropose, RespondToCounter, CancelDispute,
       RespondToCancellation, AdminResolve, Tick, ForceEscalate, BeginWork
  <2>2. \A q \in Procs : IsIdle(q)
    BY <2>1, BeginsCalmly
  <2> QED BY <1>2, <2>2, StartsCalmly, Carry
<1>3. ASSUME NEW p \in Procs, Crash(p) \/ StepFails(p)
      PROVE  FALSE
  BY <1>3 DEF Crash, StepFails
<1> QED BY <1>1, <1>2, <1>3, StepsCalmly, PaysCalmly DEF Next

LEMMA CalmInductive == Spec => [](DInv /\ CalmInv)
<1>1. DInv /\ E!Sequential /\ CalmInv /\ [Next]_vars => (E!Sequential /\ CalmInv)'
  BY MilestonesStep, SequenceKept, CalmKept
<1>2. Init => CalmInv /\ E!Sequential
  BY InitCalm
<1> QED BY <1>1, <1>2, Inductive, PTL DEF Spec

(***************************************************************************)
(* Between two handlers, as long as none overlapped or failed, an open     *)
(* dispute freezes its milestone and the proposal, and a disputed proposal *)
(* has an open dispute (OpenDispute writes the three rows in separate      *)
(* transactions; cancelling and settling write them back in another order).*)
(***************************************************************************)
THEOREM DisputesFreeze == Spec => []OpenMeansFrozen
<1>1. DInv /\ CalmInv => OpenMeansFrozen
  BY SituationMeans
<1> QED BY <1>1, CalmInductive, PTL

(***************************************************************************)
(* Between two handlers, as long as none overlapped or failed, a verdict   *)
(* that leaves the provider something has been carried out to the cent:    *)
(* refund and payment, paid or to be withdrawn, add up to the price, and   *)
(* the milestones and the proposal say that it is over                     *)
(* (restoreProposalAndDistribute and RequestPayout).                       *)
(***************************************************************************)
THEOREM VerdictsCarriedOut == Spec => []VerdictIsCarriedOut
<1>1. DInv /\ CalmInv => VerdictIsCarriedOut
  BY SituationMeans
<1> QED BY <1>1, CalmInductive, PTL
=============================================================================
