----------------------------- MODULE DisputeProofs -----------------------------
(***************************************************************************)
(* Proofs about Dispute, for any contract length, any disputes, processes, *)
(* amounts, splits and any number of requests and failures.                *)
(*                                                                         *)
(* That the money of a dispute is handed out once, and on founded verdicts *)
(* only, is not inductive alone.  What makes it so: a copy that is still   *)
(* fresh when it is saved shows the row the handler decided on             *)
(* (HandlersOK), an open dispute has no verdict yet, and one handler at    *)
(* most is settling a dispute, before any money went (OneSettlement).      *)
(***************************************************************************)
EXTENDS Dispute, SequenceTheorems, FiniteSetTheorems, TLAPS

SettleSteps == {"settle", "thaw", "sweep", "complete", "transfer"}

SaveOps == {"counter", "accept", "reject", "cancel", "ask", "agree", "refuse",
            "decide", "auto", "escalate"}

\* Steps at which the handler has a dispute.
CaseSteps == {"freeze", "mark", "offer", "supersede", "propose", "consider", "answer",
              "save", "reload", "rewrite", "refund"} \cup SettleSteps

\* Steps of the request that opens a dispute.
OpeningSteps == {"existing", "create", "freeze", "mark", "offer"}

(***************************************************************************)
(* What handler r knows at each of its steps.                              *)
(***************************************************************************)
HandlerOK(r) ==
  /\ r.pc \in CaseSteps => r.d \in Disputes
  /\ r.pc \in OpeningSteps \cup {"supersede", "propose"} \/ (r.pc = "save" /\ r.op = "ask") =>
       r.by \in Parties
  /\ r.pc = "supersede" => r.op \in {"counter", "ask"}
  /\ r.pc = "propose" => r.op = "counter"
  /\ r.pc \in {"consider", "answer"} => r.op \in {"accept", "reject"}
  /\ r.pc = "save" => r.op \in SaveOps
  /\ r.pc = "answer" \/ (r.pc = "save" /\ r.op = "accept") =>
       r.offer \in 1 .. Len(offers[r.d])
  /\ r.pc \in {"answer", "save"} /\ r.op = "accept" =>
       /\ offers[r.d][r.offer].by # r.by
       /\ offers[r.d][r.offer].share = r.share
  /\ r.pc = "save" /\ r.op = "decide" /\ r.fresh => dispute[r.d].status = "escalated"
  /\ r.pc = "save" /\ r.op = "auto" /\ r.fresh =>
       /\ dispute[r.d].status = "open" /\ ~ dispute[r.d].replied
       /\ r.share = dispute[r.d].claim
  /\ r.pc = "save" /\ r.op = "escalate" /\ r.fresh =>
       dispute[r.d].status \in {"open", "negotiation"}

HandlersOK == \A p \in Procs : HandlerOK(req[p])

\* An open dispute has no verdict, and without a verdict no money goes.
NoVerdictYet ==
  \A d \in Disputes :
    /\ dispute[d].status \in {"none", "open", "negotiation", "escalated"} =>
         dispute[d].verdict = NoVerdict
    /\ dispute[d].verdict = NoVerdict => distributed[d] = 0

OneSettlement ==
  \A d \in Disputes, p \in Procs :
    req[p].d = d /\ req[p].pc \in SettleSteps =>
      /\ dispute[d].verdict # NoVerdict /\ distributed[d] = 0
      /\ \A q \in Procs : req[q].d = d /\ req[q].pc \in SettleSteps => q = p

DInv == TypeOK /\ HandlersOK /\ NoVerdictYet /\ OneSettlement /\ DistributedOnce

Offer == [by : Parties, share : 0 .. Amount,
          status : {"pending", "accepted", "rejected", "superseded"}]

DisputeRow ==
  [status : {"none", "open", "negotiation", "escalated", "resolved", "cancelled"},
   ms : Milestones, by : Parties, claim : 0 .. Amount, replied : BOOLEAN,
   asked : Parties \cup {"nobody"}, verdict : Verdict]

-----------------------------------------------------------------------------
(***************************************************************************)
(* A step that leaves the case alone: one handler moves from r to s.       *)
(***************************************************************************)
LEMMA CaseUntouched ==
  ASSUME DInv, NEW p \in Procs, NEW s \in Handler,
         req' = [req EXCEPT ![p] = s],
         UNCHANGED <<dispute, offers, distributed>>,
         HandlerOK(s),
         s.pc \in SettleSteps => req[p].pc \in SettleSteps /\ s.d = req[p].d
  PROVE  HandlersOK' /\ NoVerdictYet' /\ OneSettlement' /\ DistributedOnce'
<1>1. \A q \in Procs : req'[q] = IF q = p THEN s ELSE req[q]
  BY DEF DInv, TypeOK
<1>2. HandlersOK'
  <2>1. ASSUME NEW q \in Procs
        PROVE  HandlerOK(req[q])'
    <3>1. HandlerOK(req'[q])
      BY <1>1 DEF DInv, HandlersOK
    <3> QED
      BY <3>1 DEF HandlerOK
  <2> QED
    BY <2>1 DEF HandlersOK
<1>3. NoVerdictYet' /\ DistributedOnce'
  BY DEF DInv, NoVerdictYet, DistributedOnce
<1>4. OneSettlement'
  <2>1. \A q \in Procs : req'[q].pc \in SettleSteps =>
                           req[q].pc \in SettleSteps /\ req'[q].d = req[q].d
    BY <1>1
  <2> QED
    BY <2>1 DEF DInv, OneSettlement
<1> QED BY <1>2, <1>3, <1>4

(***************************************************************************)
(* An offer that is added, answered or withdrawn keeps its author and its  *)
(* split.                                                                  *)
(***************************************************************************)
LEMMA OffersGrow ==
  ASSUME DInv, NEW p \in Procs, NEW s \in Handler, NEW c \in Disputes,
         NEW new \in Seq(Offer),
         req' = [req EXCEPT ![p] = s],
         offers' = [offers EXCEPT ![c] = new],
         UNCHANGED <<dispute, distributed>>,
         Len(offers[c]) <= Len(new),
         \A i \in 1 .. Len(offers[c]) : /\ new[i].by = offers[c][i].by
                                        /\ new[i].share = offers[c][i].share,
         HandlerOK(s),
         s.pc \notin SettleSteps
  PROVE  HandlersOK' /\ NoVerdictYet' /\ OneSettlement' /\ DistributedOnce'
<1>1. \A q \in Procs : req'[q] = IF q = p THEN s ELSE req[q]
  BY DEF DInv, TypeOK
<1>2. /\ \A d \in Disputes : offers'[d] = IF d = c THEN new ELSE offers[d]
      /\ \A d \in Disputes : Len(offers[d]) \in Nat
  BY LenProperties DEF DInv, TypeOK
<1>3. Len(new) \in Nat
  BY LenProperties
<1>4. ASSUME NEW q \in Procs
      PROVE  HandlerOK(req[q])'
  <2> DEFINE h == req'[q]
  <2>1. HandlerOK(h)
    BY <1>1 DEF DInv, HandlersOK
  <2>2. h \in Handler
    BY <1>1 DEF DInv, TypeOK
  <2>3. CASE h.d # c
    BY <1>2, <2>1, <2>3 DEF HandlerOK, OpeningSteps, CaseSteps
  <2>4. CASE h.d = c
    <3>1. offers'[c] = new
      BY <1>2
    <3>2. h.offer \in 1 .. Len(offers[c]) =>
            /\ h.offer \in 1 .. Len(new)
            /\ new[h.offer].by = offers[c][h.offer].by
            /\ new[h.offer].share = offers[c][h.offer].share
      BY <1>2, <1>3
    <3> QED
      BY <2>1, <2>4, <3>1, <3>2 DEF HandlerOK, OpeningSteps, CaseSteps
  <2> QED BY <2>3, <2>4
<1>5. NoVerdictYet' /\ DistributedOnce'
  BY DEF DInv, NoVerdictYet, DistributedOnce
<1>6. OneSettlement'
  <2>1. \A q \in Procs : req'[q].pc \in SettleSteps =>
                           req[q].pc \in SettleSteps /\ req'[q].d = req[q].d
    BY <1>1
  <2> QED
    BY <2>1 DEF DInv, OneSettlement
<1> QED BY <1>4, <1>5, <1>6 DEF HandlersOK

-----------------------------------------------------------------------------
WorkTyped ==
  /\ milestone \in [Milestones ->
       [status : MilestoneStatus, dispute : Disputes \cup {NoDispute}]]
  /\ proposal \in Row

MoneyTyped ==
  /\ record \in [Milestones ->
       [status : {"none", "succeeded", "refunded"}, payout : 0 .. Amount,
        transfer : {"pending", "completed"}]]
  /\ ledger \in [transfers : SUBSET [key : 0 .. N, amount : 1 .. Amount],
                refunded : [Milestones -> 0 .. Amount]]

HistoryTyped == events \in 0 .. MaxEvents /\ calm \in BOOLEAN

(***************************************************************************)
(* A handler moves on and touches rows other than the case's at most.      *)
(***************************************************************************)
LEMMA Walk ==
  ASSUME DInv, NEW p \in Procs, NEW s \in Handler,
         req' = [req EXCEPT ![p] = s],
         UNCHANGED <<dispute, offers, distributed>>,
         WorkTyped', MoneyTyped', HistoryTyped',
         HandlerOK(s),
         s.pc \in SettleSteps => req[p].pc \in SettleSteps /\ s.d = req[p].d
  PROVE  DInv'
<1>1. HandlersOK' /\ NoVerdictYet' /\ OneSettlement' /\ DistributedOnce'
  BY CaseUntouched
<1>2. req' \in [Procs -> Handler]
  BY DEF DInv, TypeOK
<1>3. TypeOK'
  BY <1>2 DEF DInv, TypeOK, WorkTyped, MoneyTyped, HistoryTyped
<1> QED BY <1>1, <1>3 DEF DInv

(***************************************************************************)
(* A handler begins.                                                       *)
(***************************************************************************)
LEMMA Beginning ==
  ASSUME DInv, NEW p \in Procs, NEW r \in Handler, Begin(p, r),
         UNCHANGED <<caseVars, workVars, moneyVars>>,
         HandlerOK(r), r.pc \notin SettleSteps
  PROVE  DInv'
<1>1. WorkTyped' /\ MoneyTyped'
  BY DEF DInv, TypeOK, WorkTyped, MoneyTyped, workVars, moneyVars
<1>2. HistoryTyped'
  BY DisputeAssumption DEF DInv, TypeOK, HistoryTyped, Begin, Quiet, IsIdle
<1>3. UNCHANGED <<dispute, offers, distributed>> /\ req' = [req EXCEPT ![p] = r]
  BY DEF Begin, caseVars
<1> QED BY <1>1, <1>2, <1>3, Walk

(***************************************************************************)
(* Handlers as they start out.                                             *)
(***************************************************************************)
LEMMA Typed ==
  ASSUME NEW pc \in Steps, NEW op \in Ops,
         NEW by \in Parties \cup {"nobody", "admin", "neighbour"},
         NEW d \in Disputes \cup {NoDispute}, NEW fresh \in BOOLEAN,
         NEW share \in 0 .. Amount, NEW row \in Row
  PROVE  [pc |-> pc, op |-> op, by |-> by, d |-> d, m |-> 1, fresh |-> fresh,
          offer |-> 0, share |-> share, row |-> row] \in Handler
<1>1. 1 \in Milestones
  BY DisputeAssumption DEF Milestones
<1> QED BY <1>1 DEF Handler

LEMMA IdleTyped ==
  /\ Idle \in Handler /\ HandlerOK(Idle)
  /\ 0 \in 0 .. Amount /\ Shares \subseteq 0 .. Amount
  /\ [status |-> "active", dispute |-> NoDispute] \in Row
<1>1. 0 \in 0 .. Amount /\ Shares \subseteq 0 .. Amount
  BY DisputeAssumption
<1>2. [status |-> "active", dispute |-> NoDispute] \in Row
  BY DEF Row
<1>3. Idle \in Handler
  BY <1>1, <1>2, Typed, ZenonT(30) DEF Idle, Steps, Ops
<1>4. HandlerOK(Idle)
  BY DEF Idle, HandlerOK, OpeningSteps, CaseSteps, SettleSteps
<1> QED BY <1>1, <1>2, <1>3, <1>4

LEMMA Starting ==
  ASSUME NEW pc \in Steps, NEW op \in Ops, NEW by \in Parties \cup {"nobody", "admin"},
         NEW d \in Disputes
  PROVE  LET r == On(op, by, d, pc)
         IN r \in Handler /\ r.pc = pc /\ r.op = op /\ r.by = by /\ r.d = d
<1>1. ASSUME NEW i \in Handler
      PROVE  LET t == [i EXCEPT !.pc = pc, !.op = op, !.by = by, !.d = d, !.fresh = TRUE]
             IN t \in Handler /\ t.pc = pc /\ t.op = op /\ t.by = by /\ t.d = d
  BY DEF Handler
<1> QED BY <1>1, IdleTyped DEF On

LEMMA StartingFor ==
  ASSUME NEW pc \in Steps, NEW op \in Ops, NEW by \in Parties \cup {"nobody", "admin"},
         NEW d \in Disputes, NEW share \in 0 .. Amount
  PROVE  LET s == [On(op, by, d, pc) EXCEPT !.share = share]
         IN /\ s \in Handler /\ s.pc = pc /\ s.op = op /\ s.by = by /\ s.d = d
            /\ s.share = share
<1>1. ASSUME NEW t \in Handler
      PROVE  LET u == [t EXCEPT !.share = share]
             IN /\ u \in Handler /\ u.pc = t.pc /\ u.op = t.op /\ u.by = t.by
                /\ u.d = t.d /\ u.share = share
  BY DEF Handler
<1> QED BY <1>1, Starting

-----------------------------------------------------------------------------
(***************************************************************************)
(* The requests, the scheduler and the neighbour begin.                    *)
(***************************************************************************)
LEMMA StartInv ==
  ASSUME DInv, NEW p \in Procs, Start(p)
  PROVE  DInv'
<1>0. UNCHANGED <<caseVars, workVars, moneyVars>>
  BY DEF Start, OpenDispute, CounterPropose, RespondToCounter, CancelDispute,
         RespondToCancellation, AdminResolve, Tick, ForceEscalate, BeginWork
<1>1. CASE OpenDispute(p)
  <2>1. PICK by \in Parties, share \in Shares :
          Begin(p, [Idle EXCEPT !.pc = "existing", !.op = "open", !.by = by,
                                !.share = share])
    BY <1>1 DEF OpenDispute
  <2> DEFINE r == [Idle EXCEPT !.pc = "existing", !.op = "open", !.by = by,
                               !.share = share]
  <2>2. r \in Handler /\ r.pc = "existing" /\ r.by \in Parties
    <3>1. ASSUME NEW i \in Handler
          PROVE  LET t == [i EXCEPT !.pc = "existing", !.op = "open", !.by = by,
                                    !.share = share]
                 IN t \in Handler /\ t.pc = "existing" /\ t.by \in Parties
      BY IdleTyped DEF Handler, Steps, Ops
    <3> QED BY <3>1, IdleTyped
  <2>3. HandlerOK(r)
    BY <2>2 DEF HandlerOK, OpeningSteps, CaseSteps, SettleSteps
  <2>4. Begin(p, r) /\ r.pc \notin SettleSteps
    BY <2>1, <2>2 DEF SettleSteps
  <2> HIDE DEF r
  <2> QED BY <1>0, <2>2, <2>3, <2>4, Beginning
<1>2. CASE CounterPropose(p)
  <2>1. PICK d \in Disputes, by \in Parties, share \in Shares :
          Begin(p, [On("counter", by, d, "supersede") EXCEPT !.share = share])
    BY <1>2 DEF CounterPropose
  <2> DEFINE r == [On("counter", by, d, "supersede") EXCEPT !.share = share]
  <2>2. /\ r \in Handler /\ r.pc = "supersede" /\ r.op = "counter" /\ r.d = d /\ r.by = by
    BY StartingFor, IdleTyped DEF Steps, Ops
  <2>3. HandlerOK(r)
    BY <2>2 DEF HandlerOK, OpeningSteps, CaseSteps
  <2>4. Begin(p, r) /\ r.pc \notin SettleSteps
    BY <2>1, <2>2 DEF SettleSteps
  <2> HIDE DEF r
  <2> QED BY <1>0, <2>2, <2>3, <2>4, Beginning
<1>3. CASE RespondToCounter(p)
  <2>1. PICK d \in Disputes, by \in Parties, op \in {"accept", "reject"} :
          Begin(p, On(op, by, d, "consider"))
    BY <1>3 DEF RespondToCounter
  <2> DEFINE r == On(op, by, d, "consider")
  <2>2. r \in Handler /\ r.pc = "consider" /\ r.op = op /\ r.d = d
    BY Starting DEF Steps, Ops
  <2>3. HandlerOK(r)
    BY <2>2 DEF HandlerOK, OpeningSteps, CaseSteps
  <2>4. Begin(p, r) /\ r.pc \notin SettleSteps
    BY <2>1, <2>2 DEF SettleSteps
  <2> HIDE DEF r
  <2> QED BY <1>0, <2>2, <2>3, <2>4, Beginning
<1>4. CASE CancelDispute(p)
  <2>1. PICK d \in Disputes, by \in Parties :
          Begin(p, On("cancel", by, d, "save")) \/ Begin(p, On("ask", by, d, "supersede"))
    BY <1>4 DEF CancelDispute
  <2>2. ASSUME NEW r, r = On("cancel", by, d, "save") \/ r = On("ask", by, d, "supersede")
        PROVE  r \in Handler /\ HandlerOK(r) /\ r.pc \notin SettleSteps
    <3>1. /\ r \in Handler /\ r.d = d /\ r.by = by
          /\ \/ r.op = "cancel" /\ r.pc = "save"
             \/ r.op = "ask" /\ r.pc = "supersede"
      BY <2>2, Starting DEF Steps, Ops
    <3> QED BY <3>1 DEF HandlerOK, OpeningSteps, CaseSteps, SaveOps, SettleSteps
  <2>3. PICK r : Begin(p, r) /\ (r = On("cancel", by, d, "save")
                                  \/ r = On("ask", by, d, "supersede"))
    BY <2>1
  <2> QED BY <1>0, <2>2, <2>3, Beginning
<1>5. CASE RespondToCancellation(p)
  <2>1. PICK d \in Disputes, by \in Parties, op \in {"agree", "refuse"} :
          Begin(p, On(op, by, d, "save"))
    BY <1>5 DEF RespondToCancellation
  <2> DEFINE r == On(op, by, d, "save")
  <2>2. r \in Handler /\ r.pc = "save" /\ r.op = op /\ r.d = d
    BY Starting DEF Steps, Ops
  <2>3. HandlerOK(r)
    BY <2>2 DEF HandlerOK, OpeningSteps, CaseSteps, SaveOps
  <2>4. Begin(p, r) /\ r.pc \notin SettleSteps
    BY <2>1, <2>2 DEF SettleSteps
  <2> HIDE DEF r
  <2> QED BY <1>0, <2>2, <2>3, <2>4, Beginning
<1>6. CASE AdminResolve(p)
  <2>1. PICK d \in Disputes, share \in Shares :
          /\ dispute[d].status = "escalated"
          /\ Begin(p, [On("decide", "admin", d, "save") EXCEPT !.share = share])
    BY <1>6 DEF AdminResolve
  <2> DEFINE r == [On("decide", "admin", d, "save") EXCEPT !.share = share]
  <2>2. r \in Handler /\ r.pc = "save" /\ r.op = "decide" /\ r.d = d
    BY StartingFor, IdleTyped, SMTT(30) DEF Steps, Ops
  <2>3. HandlerOK(r)
    BY <2>1, <2>2 DEF HandlerOK, OpeningSteps, CaseSteps, SaveOps
  <2>4. Begin(p, r) /\ r.pc \notin SettleSteps
    BY <2>1, <2>2 DEF SettleSteps
  <2> HIDE DEF r
  <2> QED BY <1>0, <2>2, <2>3, <2>4, Beginning
<1>7. ASSUME NEW d \in Disputes, dispute[d].status \in {"open", "negotiation"},
             Begin(p, On("escalate", "nobody", d, "save"))
      PROVE  DInv'
  <2> DEFINE r == On("escalate", "nobody", d, "save")
  <2>1. r \in Handler /\ r.pc = "save" /\ r.op = "escalate" /\ r.d = d
    BY Starting, SMTT(30) DEF Steps, Ops
  <2>2. HandlerOK(r)
    BY <1>7, <2>1 DEF HandlerOK, OpeningSteps, CaseSteps, SaveOps
  <2>3. Begin(p, r) /\ r.pc \notin SettleSteps
    BY <1>7, <2>1 DEF SettleSteps
  <2> HIDE DEF r
  <2> QED BY <1>0, <2>1, <2>2, <2>3, Beginning
<1>8. CASE Tick(p)
  <2>1. PICK d \in Disputes :
          /\ dispute[d].status \in {"open", "negotiation"}
          /\ \/ Begin(p, On("escalate", "nobody", d, "save"))
             \/ /\ dispute[d].status = "open" /\ ~ dispute[d].replied
                /\ Begin(p, [On("auto", "nobody", d, "save") EXCEPT !.share = dispute[d].claim])
    BY <1>8 DEF Tick
  <2>2. CASE Begin(p, On("escalate", "nobody", d, "save"))
    BY <1>7, <2>1, <2>2
  <2>3. CASE /\ dispute[d].status = "open" /\ ~ dispute[d].replied
             /\ Begin(p, [On("auto", "nobody", d, "save") EXCEPT !.share = dispute[d].claim])
    <3> DEFINE r == [On("auto", "nobody", d, "save") EXCEPT !.share = dispute[d].claim]
    <3>1. dispute[d].claim \in 0 .. Amount
      BY DEF DInv, TypeOK
    <3>2. /\ r \in Handler /\ r.pc = "save" /\ r.op = "auto" /\ r.d = d
          /\ r.share = dispute[d].claim
      BY <3>1, StartingFor DEF Steps, Ops
    <3>3. HandlerOK(r)
      BY <2>3, <3>2 DEF HandlerOK, OpeningSteps, CaseSteps, SaveOps
    <3>4. Begin(p, r) /\ r.pc \notin SettleSteps
      BY <2>3, <3>2 DEF SettleSteps
    <3> HIDE DEF r
    <3> QED BY <1>0, <3>2, <3>3, <3>4, Beginning
  <2> QED BY <2>1, <2>2, <2>3
<1>9. CASE ForceEscalate(p)
  BY <1>7, <1>9 DEF ForceEscalate
<1>10. CASE BeginWork(p)
  <2>1. PICK w \in WorkOps :
          Begin(p, [Idle EXCEPT !.pc = "work", !.op = w[2], !.by = "neighbour",
                                !.row = proposal])
    BY <1>10 DEF BeginWork
  <2> DEFINE r == [Idle EXCEPT !.pc = "work", !.op = w[2], !.by = "neighbour",
                               !.row = proposal]
  <2>2. w[2] \in Ops /\ proposal \in Row
    BY DEF WorkOps, Ops, DInv, TypeOK
  <2>3. r \in Handler /\ r.pc = "work"
    <3>1. ASSUME NEW i \in Handler
          PROVE  LET t == [i EXCEPT !.pc = "work", !.op = w[2], !.by = "neighbour",
                                    !.row = proposal]
                 IN t \in Handler /\ t.pc = "work"
      BY <2>2 DEF Handler, Steps
    <3> QED BY <3>1, IdleTyped
  <2>4. HandlerOK(r)
    BY <2>3 DEF HandlerOK, OpeningSteps, CaseSteps, SettleSteps
  <2>5. Begin(p, r) /\ r.pc \notin SettleSteps
    BY <2>1, <2>3 DEF SettleSteps
  <2> HIDE DEF r
  <2> QED BY <1>0, <2>3, <2>4, <2>5, Beginning
<1> QED
  BY <1>1, <1>2, <1>3, <1>4, <1>5, <1>6, <1>8, <1>9, <1>10 DEF Start

-----------------------------------------------------------------------------
(***************************************************************************)
(* What a step leaves alone stays well-typed.                              *)
(***************************************************************************)
LEMMA StillTyped ==
  ASSUME DInv
  PROVE  /\ WorkTyped /\ MoneyTyped
         /\ UNCHANGED workVars => WorkTyped'
         /\ UNCHANGED moneyVars => MoneyTyped'
         /\ UNCHANGED <<events, calm>> => HistoryTyped'
BY DEF DInv, TypeOK, WorkTyped, MoneyTyped, HistoryTyped, workVars, moneyVars

(***************************************************************************)
(* A handler ends.                                                         *)
(***************************************************************************)
LEMMA Returning ==
  ASSUME DInv, NEW p \in Procs, Return(p),
         UNCHANGED <<dispute, offers, distributed>>,
         WorkTyped', MoneyTyped', HistoryTyped'
  PROVE  DInv'
<1>1. req' = [req EXCEPT ![p] = Idle]
  BY DEF Return
<1>2. Idle.pc \notin SettleSteps
  BY DEF Idle, SettleSteps
<1> QED BY <1>1, <1>2, IdleTyped, Walk

(***************************************************************************)
(* A handler goes to a step at which all it needs to know is its dispute.  *)
(***************************************************************************)
LEMMA Going ==
  ASSUME DInv, NEW p \in Procs, NEW step \in Steps, NEW row \in Row,
         req' = [req EXCEPT ![p] = [req[p] EXCEPT !.pc = step, !.row = row]],
         UNCHANGED <<dispute, offers, distributed>>,
         WorkTyped', MoneyTyped', HistoryTyped',
         step \notin {"supersede", "propose", "consider", "answer", "save"},
         step \in CaseSteps => req[p].pc \in CaseSteps,
         step \in OpeningSteps => req[p].pc \in OpeningSteps,
         step \in SettleSteps => req[p].pc \in SettleSteps
  PROVE  DInv'
<1> DEFINE s == [req[p] EXCEPT !.pc = step, !.row = row]
<1>1. s \in Handler /\ s.pc = step /\ s.d = req[p].d /\ s.by = req[p].by
  <2>1. PICK r \in Handler : r = req[p]
    BY DEF DInv, TypeOK
  <2>2. [r EXCEPT !.pc = step, !.row = row] \in Handler
    BY DEF Handler
  <2>3. LET c == [r EXCEPT !.pc = step, !.row = row]
        IN c.pc = step /\ c.d = r.d /\ c.by = r.by
    BY DEF Handler
  <2> QED BY <2>1, <2>2, <2>3
<1>2. HandlerOK(req[p])
  BY DEF DInv, HandlersOK
<1>3. HandlerOK(s)
  BY <1>1, <1>2 DEF HandlerOK
<1> HIDE DEF s
<1>4. req' = [req EXCEPT ![p] = s]
  BY DEF s
<1> QED BY <1>1, <1>3, <1>4, Walk

LEMMA Stepping ==
  ASSUME DInv, NEW p \in Procs, NEW step \in Steps, Goto(p, step),
         UNCHANGED <<dispute, offers, distributed>>,
         WorkTyped', MoneyTyped', HistoryTyped',
         step \notin {"supersede", "propose", "consider", "answer", "save"},
         step \in CaseSteps => req[p].pc \in CaseSteps,
         step \in OpeningSteps => req[p].pc \in OpeningSteps,
         step \in SettleSteps => req[p].pc \in SettleSteps
  PROVE  DInv'
<1>1. req[p] \in Handler
  BY DEF DInv, TypeOK
<1>2. req[p].row \in Row
  BY <1>1 DEF Handler
<1>3. [req[p] EXCEPT !.pc = step] = [req[p] EXCEPT !.pc = step, !.row = req[p].row]
  BY <1>1 DEF Handler
<1>4. req' = [req EXCEPT ![p] = [req[p] EXCEPT !.pc = step, !.row = req[p].row]]
  BY <1>3 DEF Goto
<1> QED BY <1>2, <1>4, Going

(***************************************************************************)
(* The steps that touch the milestones and the proposal, or nothing.       *)
(***************************************************************************)
LEMMA RowsTyped ==
  ASSUME WorkTyped, NEW m \in Milestones, NEW st \in MilestoneStatus,
         NEW d \in Disputes \cup {NoDispute}
  PROVE  /\ [milestone EXCEPT ![m] = [status |-> st, dispute |-> d]] \in
              [Milestones -> [status : MilestoneStatus, dispute : Disputes \cup {NoDispute}]]
         /\ [milestone EXCEPT ![m].status = st] \in
              [Milestones -> [status : MilestoneStatus, dispute : Disputes \cup {NoDispute}]]
BY DEF WorkTyped

LEMMA OpeningInv ==
  ASSUME DInv, NEW p \in Procs,
         CheckExisting(p) \/ Freeze(p) \/ MarkProposal(p)
  PROVE  DInv'
<1> USE DEF caseVars, history, OpeningSteps, CaseSteps, SettleSteps, At
<1>1. req[p] \in Handler /\ HandlerOK(req[p])
  BY DEF DInv, TypeOK, HandlersOK
<1>2. CASE CheckExisting(p)
  <2>1. WorkTyped' /\ MoneyTyped' /\ HistoryTyped'
    BY <1>2, StillTyped DEF CheckExisting
  <2>2. CASE Return(p)
    BY <1>2, <2>1, <2>2, Returning DEF CheckExisting
  <2>3. CASE Goto(p, "create")
    BY <1>2, <2>1, <2>3, Stepping DEF CheckExisting, Steps
  <2> QED BY <1>2, <2>2, <2>3 DEF CheckExisting
<1>3. CASE Freeze(p)
  <2>1. WorkTyped'
    <3>1. req[p].m \in Milestones /\ req[p].d \in Disputes
      BY <1>1, <1>3 DEF Freeze, Handler, HandlerOK
    <3>2. /\ proposal' = proposal
          /\ \/ milestone' = milestone
             \/ milestone' = [milestone EXCEPT ![req[p].m] =
                                [status |-> "disputed", dispute |-> req[p].d]]
      BY <1>3 DEF Freeze
    <3>3. "disputed" \in MilestoneStatus
      BY DEF MilestoneStatus
    <3> QED BY <3>1, <3>2, <3>3, StillTyped, RowsTyped DEF WorkTyped
  <2>2. MoneyTyped' /\ HistoryTyped'
    BY <1>3, StillTyped DEF Freeze
  <2>3. CASE Return(p)
    BY <1>3, <2>1, <2>2, <2>3, Returning DEF Freeze
  <2>4. CASE Goto(p, "mark")
    BY <1>3, <2>1, <2>2, <2>4, Stepping DEF Freeze, Steps
  <2> QED BY <1>3, <2>3, <2>4 DEF Freeze
<1>4. CASE MarkProposal(p)
  <2>1. WorkTyped'
    BY <1>1, <1>4, StillTyped DEF MarkProposal, WorkTyped, Row, HandlerOK
  <2>2. MoneyTyped' /\ HistoryTyped'
    BY <1>4, StillTyped DEF MarkProposal
  <2> QED BY <1>4, <2>1, <2>2, Stepping DEF MarkProposal, Steps
<1> QED BY <1>2, <1>3, <1>4

(***************************************************************************)
(* The steps after a cancellation, and those of a settlement up to the     *)
(* money.                                                                  *)
(***************************************************************************)
LEMMA RestoringInv ==
  ASSUME DInv, NEW p \in Procs,
         ReloadProposal(p) \/ Reactivate(p) \/ LoadForSettling(p) \/ CompleteProposal(p)
  PROVE  DInv'
<1> USE DEF caseVars, history, OpeningSteps, CaseSteps, SettleSteps, At
<1>1. req[p] \in Handler /\ HandlerOK(req[p]) /\ proposal \in Row
  BY DEF DInv, TypeOK, HandlersOK
<1>2. CASE ReloadProposal(p)
  <2>1. WorkTyped' /\ MoneyTyped' /\ HistoryTyped'
    BY <1>2, StillTyped DEF ReloadProposal
  <2>2. CASE Return(p)
    BY <1>2, <2>1, <2>2, Returning DEF ReloadProposal
  <2>3. CASE Goto(p, "rewrite")
    BY <1>2, <2>1, <2>3, Stepping DEF ReloadProposal, Steps
  <2> QED BY <1>2, <2>2, <2>3 DEF ReloadProposal
<1>3. CASE Reactivate(p)
  <2>1. WorkTyped'
    BY <1>3, IdleTyped, StillTyped DEF Reactivate, WorkTyped
  <2>2. MoneyTyped' /\ HistoryTyped'
    BY <1>3, StillTyped DEF Reactivate
  <2> QED BY <1>3, <2>1, <2>2, Returning DEF Reactivate
<1>4. CASE LoadForSettling(p)
  <2>1. WorkTyped' /\ MoneyTyped' /\ HistoryTyped'
    BY <1>4, StillTyped DEF LoadForSettling
  <2>2. CASE Return(p)
    BY <1>4, <2>1, <2>2, Returning DEF LoadForSettling
  <2>3. CASE \E step \in {"complete", "thaw"} :
               req' = [req EXCEPT ![p].pc = step, ![p].row = proposal]
    <3>1. PICK step \in {"complete", "thaw"} :
               req' = [req EXCEPT ![p].pc = step, ![p].row = proposal]
      BY <2>3
    <3>2. [req EXCEPT ![p].pc = step, ![p].row = proposal]
            = [req EXCEPT ![p] = [req[p] EXCEPT !.pc = step, !.row = proposal]]
      BY <1>1 DEF DInv, TypeOK, Handler
    <3> QED BY <1>1, <1>4, <2>1, <3>1, <3>2, Going DEF LoadForSettling, Steps
  <2> QED BY <1>4, <2>2, <2>3 DEF LoadForSettling
<1>5. CASE CompleteProposal(p)
  <2>1. WorkTyped'
    BY <1>5, StillTyped DEF CompleteProposal, WorkTyped, Row
  <2>2. MoneyTyped' /\ HistoryTyped'
    BY <1>5, StillTyped DEF CompleteProposal
  <2> QED BY <1>5, <2>1, <2>2, Stepping DEF CompleteProposal, Steps
<1> QED BY <1>2, <1>3, <1>4, <1>5

LEMMA ThawingInv ==
  ASSUME DInv, NEW p \in Procs, Thaw(p) \/ Sweep(p)
  PROVE  DInv'
<1> USE DEF caseVars, history, OpeningSteps, CaseSteps, SettleSteps, At
<1>1. req[p] \in Handler /\ HandlerOK(req[p])
  BY DEF DInv, TypeOK, HandlersOK
<1>2. "released" \in MilestoneStatus /\ "refunded" \in MilestoneStatus
      /\ "cancelled" \in MilestoneStatus
  BY DEF MilestoneStatus
<1>3. CASE Thaw(p)
  <2> DEFINE m == dispute[req[p].d].ms
  <2>1. m \in Milestones
    BY <1>1, <1>3 DEF Thaw, HandlerOK, DInv, TypeOK
  <2>2. /\ proposal' = proposal
        /\ \/ milestone' = milestone
           \/ \E st \in {"released", "refunded"} :
                milestone' = [milestone EXCEPT ![m] = [status |-> st, dispute |-> NoDispute]]
    BY <1>3 DEF Thaw
  <2>3. WorkTyped'
    BY <1>2, <2>1, <2>2, StillTyped, RowsTyped DEF WorkTyped
  <2>4. MoneyTyped' /\ HistoryTyped'
    BY <1>3, StillTyped DEF Thaw
  <2> QED BY <1>3, <2>3, <2>4, Stepping DEF Thaw, Steps
<1>4. CASE Sweep(p)
  <2>1. MoneyTyped' /\ HistoryTyped'
    BY <1>4, StillTyped DEF Sweep
  <2>2. CASE Goto(p, "complete") /\ UNCHANGED milestone
    <3>1. WorkTyped'
      BY <1>4, <2>2, StillTyped DEF Sweep, workVars
    <3> QED BY <1>4, <2>1, <2>2, <3>1, Stepping DEF Sweep, Steps
  <2>3. CASE UNCHANGED req /\ \E m \in Milestones :
               milestone' = [milestone EXCEPT ![m].status = "cancelled"]
    <3>1. WorkTyped'
      BY <1>2, <1>4, <2>3, StillTyped, RowsTyped DEF Sweep, WorkTyped
    <3>2. req' = [req EXCEPT ![p] = req[p]]
      BY <2>3 DEF DInv, TypeOK
    <3> QED BY <1>1, <1>4, <2>1, <3>1, <3>2, Walk DEF Sweep
  <2> QED BY <1>4, <2>2, <2>3 DEF Sweep
<1> QED BY <1>3, <1>4

-----------------------------------------------------------------------------
(***************************************************************************)
(* The steps that work on the offers.                                      *)
(***************************************************************************)
LEMMA OfferStep ==
  ASSUME DInv, NEW p \in Procs, NEW s \in Handler, NEW c \in Disputes,
         NEW new \in Seq(Offer),
         req' = [req EXCEPT ![p] = s],
         offers' = [offers EXCEPT ![c] = new],
         UNCHANGED <<dispute, workVars, moneyVars, history>>,
         Len(offers[c]) <= Len(new),
         \A i \in 1 .. Len(offers[c]) : /\ new[i].by = offers[c][i].by
                                        /\ new[i].share = offers[c][i].share,
         HandlerOK(s),
         s.pc \notin SettleSteps
  PROVE  DInv'
<1>1. HandlersOK' /\ NoVerdictYet' /\ OneSettlement' /\ DistributedOnce'
  BY OffersGrow DEF history
<1>2. req' \in [Procs -> Handler]
  BY DEF DInv, TypeOK
<1>3. offers' \in [Disputes -> Seq(Offer)]
  BY DEF DInv, TypeOK, Offer
<1>4. TypeOK'
  BY <1>2, <1>3 DEF DInv, TypeOK, workVars, moneyVars, history, Offer
<1> QED BY <1>1, <1>4 DEF DInv

\* A handler whose step alone changes.
LEMMA Moved ==
  ASSUME NEW r \in Handler, NEW step \in Steps
  PROVE  LET s == [r EXCEPT !.pc = step]
         IN /\ s \in Handler /\ s.pc = step /\ s.op = r.op /\ s.by = r.by
            /\ s.d = r.d /\ s.m = r.m /\ s.fresh = r.fresh /\ s.offer = r.offer
            /\ s.share = r.share /\ s.row = r.row
BY DEF Handler

LEMMA OffersInv ==
  ASSUME DInv, NEW p \in Procs,
         FirstOffer(p) \/ CreateCounterProposal(p) \/ Supersede(p) \/ Answer(p)
  PROVE  DInv'
<1> USE DEF CaseSteps, SettleSteps, OpeningSteps, At
<1> DEFINE r == req[p]
           old == offers[r.d]
<1>1. r \in Handler /\ HandlerOK(r)
  BY DEF DInv, TypeOK, HandlersOK
<1>2. r.d \in Disputes
  BY <1>1 DEF FirstOffer, CreateCounterProposal, Supersede, Answer, HandlerOK
<1>3. old \in Seq(Offer) /\ Len(old) \in Nat
  BY <1>2, LenProperties DEF DInv, TypeOK, Offer
<1>4. ASSUME NEW s \in Handler, AddOffer(p), req' = [req EXCEPT ![p] = s],
             UNCHANGED <<dispute, workVars, moneyVars, history>>,
             r.by \in Parties, HandlerOK(s), s.pc \notin SettleSteps
      PROVE  DInv'
  <2> DEFINE o == [by |-> r.by, share |-> r.share, status |-> "pending"]
             new == Append(old, o)
  <2>1. o \in Offer
    BY <1>1, <1>4 DEF Offer, Handler
  <2>2. /\ new \in Seq(Offer) /\ Len(old) <= Len(new)
        /\ \A i \in 1 .. Len(old) : new[i] = old[i]
    BY <1>3, <2>1, AppendProperties
  <2>3. offers' = [offers EXCEPT ![r.d] = new]
    BY <1>4 DEF AddOffer
  <2> HIDE DEF o, new
  <2> QED BY <1>2, <1>4, <2>2, <2>3, OfferStep
<1>5. CASE FirstOffer(p)
  BY <1>1, <1>4, <1>5, IdleTyped DEF FirstOffer, Return, HandlerOK, Idle
<1>6. ASSUME NEW step \in Steps, Goto(p, step)
      PROVE  /\ [r EXCEPT !.pc = step] \in Handler
             /\ req' = [req EXCEPT ![p] = [r EXCEPT !.pc = step]]
  <2>1. [r EXCEPT !.pc = step] \in Handler
    BY <1>1, Moved
  <2>2. req' = [req EXCEPT ![p] = [r EXCEPT !.pc = step]]
    BY <1>6 DEF Goto
  <2> QED BY <2>1, <2>2
<1>7. CASE CreateCounterProposal(p)
  <2> DEFINE s == [r EXCEPT !.pc = "save"]
  <2>1. r.op = "counter" /\ r.by \in Parties
    BY <1>1, <1>7 DEF CreateCounterProposal, HandlerOK
  <2>2. s \in Handler /\ s.pc = "save" /\ s.op = "counter" /\ s.d = r.d
    <3>1. "save" \in Steps /\ r \in Handler
      BY <1>1 DEF Steps
    <3> QED BY <2>1, <3>1, Moved
  <2>3. HandlerOK(s)
    BY <1>2, <2>2 DEF HandlerOK, SaveOps
  <2>4. req' = [req EXCEPT ![p] = s]
    BY <1>6, <1>7 DEF CreateCounterProposal, Steps
  <2>5. s.pc \notin SettleSteps
    BY <2>2
  <2> HIDE DEF s
  <2> QED BY <1>4, <1>7, <2>1, <2>2, <2>3, <2>4, <2>5 DEF CreateCounterProposal
<1>8. CASE Supersede(p)
  <2> DEFINE new == [i \in DOMAIN old |->
               IF old[i].status = "pending" THEN [old[i] EXCEPT !.status = "superseded"]
               ELSE old[i]]
             step == IF r.op = "counter" THEN "propose" ELSE "save"
             s == [r EXCEPT !.pc = step]
  <2>1. DOMAIN old = 1 .. Len(old) /\ \A i \in 1 .. Len(old) : old[i] \in Offer
    BY <1>3, ElementOfSeq, LenProperties
  <2>2. \A i \in 1 .. Len(old) : /\ new[i] \in Offer /\ new[i].by = old[i].by
                                 /\ new[i].share = old[i].share
    BY <2>1 DEF Offer
  <2>3. new \in Seq(Offer) /\ Len(new) = Len(old)
    <3>1. new \in [1 .. Len(old) -> Offer]
      BY <2>1, <2>2
    <3> HIDE DEF new
    <3>2. new \in Seq(Offer)
      BY <1>3, <3>1
    <3>3. DOMAIN new = 1 .. Len(new) /\ Len(new) \in Nat
      BY <3>2, LenProperties
    <3> QED BY <1>3, <3>1, <3>2, <3>3
  <2>4. offers' = [offers EXCEPT ![r.d] = new]
    BY <1>8 DEF Supersede
  <2>5. step \in Steps /\ step \in {"propose", "save"} /\ (step = "propose" <=> r.op = "counter")
    BY DEF Steps
  <2>6. req' = [req EXCEPT ![p] = s]
    BY <1>6, <1>8, <2>5 DEF Supersede
  <2> HIDE DEF step
  <2>7. s \in Handler /\ s.pc = step /\ s.op = r.op /\ s.d = r.d /\ s.by = r.by
    BY <1>1, <2>5, Moved
  <2> HIDE DEF s, new
  <2>8. r.op \in {"counter", "ask"} /\ r.by \in Parties
    BY <1>1, <1>8 DEF Supersede, HandlerOK
  <2>9. HandlerOK(s) /\ s.pc \notin SettleSteps
    BY <1>2, <2>5, <2>7, <2>8 DEF HandlerOK, SaveOps
  <2>10. UNCHANGED <<dispute, workVars, moneyVars, history>>
    BY <1>8 DEF Supersede
  <2>11. Len(old) <= Len(new)
    BY <1>3, <2>3
  <2> QED BY <1>2, <2>2, <2>3, <2>4, <2>6, <2>7, <2>9, <2>10, <2>11, OfferStep
<1>9. CASE Answer(p)
  <2> DEFINE i == r.offer
             st == IF r.op = "accept" THEN "accepted" ELSE "rejected"
             new == [old EXCEPT ![i].status = st]
             s == [r EXCEPT !.pc = "save"]
  <2>1. i \in 1 .. Len(old) /\ r.op \in {"accept", "reject"}
    BY <1>1, <1>9 DEF Answer, HandlerOK
  <2>2. \A j \in 1 .. Len(old) : old[j] \in Offer
    BY <1>3, ElementOfSeq
  <2>3. [old[i] EXCEPT !.status = st] \in Offer
    BY <2>1, <2>2 DEF Offer
  <2>4. new \in Seq(Offer) /\ Len(new) = Len(old)
        /\ \A j \in 1 .. Len(old) :
             new[j] = IF j = i THEN [old[i] EXCEPT !.status = st] ELSE old[j]
    <3>1. new = [old EXCEPT ![i] = [old[i] EXCEPT !.status = st]]
      OBVIOUS
    <3> HIDE DEF st
    <3> QED BY <1>3, <2>1, <2>3, <3>1, ExceptSeq
  <2>5. \A j \in 1 .. Len(old) : new[j].by = old[j].by /\ new[j].share = old[j].share
    BY <2>1, <2>2, <2>4, SMTT(30) DEF Offer
  <2>6. offers' = [offers EXCEPT ![r.d] = new]
    BY <1>9 DEF Answer
  <2>7. req' = [req EXCEPT ![p] = s]
    BY <1>6, <1>9 DEF Answer, Steps
  <2>8. /\ s \in Handler /\ s.pc = "save" /\ s.op = r.op /\ s.d = r.d /\ s.by = r.by
        /\ s.offer = r.offer /\ s.share = r.share
    <3>1. "save" \in Steps
      BY DEF Steps
    <3> HIDE DEF new, st
    <3> QED BY <1>1, <3>1, Moved
  <2> HIDE DEF s, new
  <2>9. HandlerOK(s) /\ s.pc \notin SettleSteps
    BY <1>1, <1>2, <1>9, <2>1, <2>8 DEF HandlerOK, SaveOps, Answer
  <2>10. UNCHANGED <<dispute, workVars, moneyVars, history>>
    BY <1>9 DEF Answer
  <2>11. Len(old) <= Len(new)
    BY <1>3, <2>4
  <2> QED BY <1>2, <2>4, <2>5, <2>6, <2>7, <2>8, <2>9, <2>10, <2>11, OfferStep
<1> QED BY <1>5, <1>7, <1>8, <1>9

-----------------------------------------------------------------------------
(***************************************************************************)
(* Payment records and transfers stay well-typed.                          *)
(***************************************************************************)
Records == [Milestones -> [status : {"none", "succeeded", "refunded"},
                           payout : 0 .. Amount, transfer : {"pending", "completed"}]]

LedgerTyped(l) ==
  l \in [transfers : SUBSET [key : 0 .. N, amount : 1 .. Amount],
        refunded : [Milestones -> 0 .. Amount]]

\* m may be any value: an update outside the domain changes nothing.
LEMMA RecordsTyped ==
  ASSUME MoneyTyped, NEW m, NEW a \in 0 .. Amount
  PROVE  /\ record \in Records /\ LedgerTyped(ledger)
         /\ [record EXCEPT ![m].payout = a] \in Records
         /\ [record EXCEPT ![m].transfer = "completed"] \in Records
         /\ [record EXCEPT ![m].payout = a, ![m].transfer = "completed"] \in Records
         /\ [record EXCEPT ![m].status = "refunded"] \in Records
         /\ [record EXCEPT ![m].status = "succeeded"] \in Records
<1>1. record \in Records /\ LedgerTyped(ledger)
  BY DEF MoneyTyped, Records, LedgerTyped
<1>2. CASE m \in Milestones
  BY <1>1, <1>2 DEF Records
<1>3. CASE m \notin Milestones
  BY <1>1, <1>3 DEF Records
<1> QED BY <1>1, <1>2, <1>3

LEMMA TransfersTyped ==
  ASSUME MoneyTyped, NEW key \in 0 .. N, NEW a \in 0 .. Amount, a > 0
  PROVE  LedgerTyped(Transferred(key, a))
<1>1. a \in 1 .. Amount
  BY DisputeAssumption
<1>2. [key |-> key, amount |-> a] \in [key : 0 .. N, amount : 1 .. Amount]
  BY <1>1
<1>3. ASSUME NEW t \in [key : 0 .. N, amount : 1 .. Amount]
      PROVE  LedgerTyped([ledger EXCEPT !.transfers = @ \cup {t}])
  BY DEF MoneyTyped, LedgerTyped
<1> QED BY <1>2, <1>3 DEF Transferred, MoneyTyped, LedgerTyped

LEMMA PaysOut ==
  ASSUME DInv, NEW m \in Milestones, PayOut(m)
  PROVE  MoneyTyped'
<1>1. MoneyTyped
  BY StillTyped
<1>2. m \in 0 .. N /\ record[m].payout \in 0 .. Amount /\ record[m].payout > 0
  BY <1>1, DisputeAssumption DEF PayOut, MoneyTyped, Milestones
<1>3. LedgerTyped(ledger')
  BY <1>1, <1>2, TransfersTyped DEF PayOut
<1>4. record' \in Records
  BY <1>1, <1>2, RecordsTyped DEF PayOut
<1> QED BY <1>3, <1>4 DEF MoneyTyped, Records, LedgerTyped

LEMMA WorkInv ==
  ASSUME DInv, NEW p \in Procs, Work(p) \/ WriteWork(p)
  PROVE  DInv'
<1> USE DEF caseVars, history, OpeningSteps, CaseSteps, SettleSteps, At
<1>1. req[p] \in Handler /\ HandlerOK(req[p]) /\ MoneyTyped /\ WorkTyped
  BY StillTyped DEF DInv, TypeOK, HandlersOK
<1>2. CASE Work(p)
  <2>1. HistoryTyped'
    BY <1>2, StillTyped DEF Work
  <2>2. CASE Return(p) /\ UNCHANGED <<milestone, record>>
    <3>1. WorkTyped' /\ MoneyTyped'
      BY <1>2, <2>2, StillTyped DEF Work, workVars, moneyVars
    <3> QED BY <1>2, <2>1, <2>2, <3>1, Returning DEF Work
  <2>3. ASSUME NEW m \in Milestones, NEW st, <<milestone[m].status, req[p].op>> \in WorkOps,
               milestone' = [milestone EXCEPT ![m].status = req[p].op],
               st = DeriveMacroStatus([Statuses EXCEPT ![m] = req[p].op]),
               req' = [req EXCEPT ![p].pc = "write", ![p].m = m, ![p].row.status = st],
               record' = IF milestone[m].status = "pending_funding"
                            THEN [record EXCEPT ![m].status = "succeeded"] ELSE record
        PROVE  DInv'
    <3> DEFINE s == [req[p] EXCEPT !.pc = "write", !.m = m, !.row.status = st]
    <3>1. st \in {"active", "completion_requested", "disputed", "completed", "accepted"}
      BY <2>3 DEF DeriveMacroStatus
    <3>2. s \in Handler /\ s.pc = "write"
      BY <1>1, <3>1 DEF Handler, Row, Steps
    <3>3. HandlerOK(s) /\ s.pc \notin SettleSteps
      BY <3>2 DEF HandlerOK
    <3>4. req' = [req EXCEPT ![p] = s]
      BY <1>1, <2>3 DEF DInv, TypeOK, Handler, Row
    <3>5. WorkTyped'
      <4>1. req[p].op \in MilestoneStatus
        BY <2>3 DEF WorkOps, MilestoneStatus
      <4> QED BY <1>1, <1>2, <2>3, <4>1, RowsTyped DEF Work, WorkTyped
    <3>6. MoneyTyped'
      <4>1. record' \in Records
        BY <1>1, <2>3, IdleTyped, RecordsTyped
      <4> QED BY <1>1, <1>2, <4>1 DEF Work, Records, MoneyTyped
    <3> HIDE DEF s
    <3> QED BY <1>2, <2>1, <3>2, <3>3, <3>4, <3>5, <3>6, Walk DEF Work
  <2> QED BY <1>2, <2>2, <2>3 DEF Work
<1>3. CASE WriteWork(p)
  <2>1. HistoryTyped'
    BY <1>3, StillTyped DEF WriteWork
  <2>2. WorkTyped'
    BY <1>1, <1>3 DEF WriteWork, WorkTyped, Handler
  <2>3. MoneyTyped'
    <3>1. req[p].m \in Milestones
      BY <1>1 DEF Handler
    <3> QED BY <1>3, <3>1, StillTyped, PaysOut DEF WriteWork
  <2> QED BY <1>3, <2>1, <2>2, <2>3, Returning DEF WriteWork
<1> QED BY <1>2, <1>3

LEMMA RequestPayoutInv ==
  ASSUME DInv, NEW m \in Milestones, RequestPayout(m)
  PROVE  DInv'
<1>1. MoneyTyped'
  BY PaysOut DEF RequestPayout
<1>2. TypeOK'
  BY <1>1 DEF RequestPayout, DInv, TypeOK, MoneyTyped, caseVars, workVars, Quiet, IsIdle
<1>3. HandlersOK'
  BY DEF RequestPayout, DInv, HandlersOK, HandlerOK, caseVars
<1>4. NoVerdictYet' /\ OneSettlement' /\ DistributedOnce'
  BY DEF RequestPayout, DInv, NoVerdictYet, OneSettlement, DistributedOnce, caseVars
<1> QED BY <1>2, <1>3, <1>4 DEF DInv

LEMMA RefundInv ==
  ASSUME DInv, NEW p \in Procs, RefundToClient(p)
  PROVE  DInv'
<1> DEFINE left == Amount - req[p].share
           m == Newest
<1>1. req[p] \in Handler /\ MoneyTyped
  BY StillTyped DEF DInv, TypeOK
<1>2. left \in 0 .. Amount
  BY <1>1, DisputeAssumption DEF Handler
<1>3. record' \in Records
  BY <1>1, <1>2, RecordsTyped DEF RefundToClient, moneyVars
<1>4. LedgerTyped(ledger')
  <2>1. LedgerTyped(ledger)
    BY <1>1, <1>2, RecordsTyped
  <2>2. CASE UNCHANGED ledger
    BY <2>1, <2>2
  <2>3. CASE /\ left > 0 /\ ledger.refunded[m] + left <= Amount
             /\ ledger' = [ledger EXCEPT !.refunded[m] = @ + left]
    <3> HIDE DEF m, left
    <3>1. CASE m \in Milestones
      BY <1>2, <2>1, <2>3, <3>1, DisputeAssumption DEF LedgerTyped
    <3>2. CASE m \notin Milestones
      <4> DEFINE x == ledger.refunded[m] + left
      <4>1. ledger' = [ledger EXCEPT !.refunded = [ledger.refunded EXCEPT ![m] = x]]
        BY <2>3
      <4> HIDE DEF x
      <4>2. [ledger.refunded EXCEPT ![m] = x] \in [Milestones -> 0 .. Amount]
        BY <2>1, <3>2 DEF LedgerTyped
      <4> QED BY <2>1, <4>1, <4>2 DEF LedgerTyped
    <3> QED BY <3>1, <3>2
  <2> QED BY <2>2, <2>3 DEF RefundToClient, moneyVars
<1>5. MoneyTyped'
  BY <1>3, <1>4 DEF Records, LedgerTyped, MoneyTyped
<1>6. WorkTyped' /\ HistoryTyped'
  BY StillTyped DEF RefundToClient, history
<1> QED BY <1>5, <1>6, Returning DEF RefundToClient, caseVars, history

LEMMA FailingInv ==
  ASSUME DInv, NEW p \in Procs, Crash(p) \/ StepFails(p)
  PROVE  DInv'
<1> USE DEF caseVars, OpeningSteps, CaseSteps, SettleSteps
<1>1. WorkTyped' /\ MoneyTyped'
  BY StillTyped DEF Crash, StepFails
<1>2. HistoryTyped'
  <2>1. events < MaxEvents /\ events' = events + 1 /\ calm' = FALSE
    BY DEF Crash, StepFails
  <2>2. events' \in 0 .. MaxEvents
    BY <2>1, DisputeAssumption DEF DInv, TypeOK
  <2> QED BY <2>1, <2>2 DEF HistoryTyped
<1>3. CASE Crash(p)
  BY <1>1, <1>2, <1>3, Returning DEF Crash
<1>4. CASE StepFails(p)
  <2> DEFINE step == After(req[p].pc)
  <2>1. step \in {"sweep", "complete", "transfer", "refund"} /\ Goto(p, step)
    BY <1>4 DEF StepFails, After
  <2> HIDE DEF step
  <2> QED BY <1>1, <1>2, <1>4, <2>1, Stepping DEF StepFails, Steps
<1> QED BY <1>3, <1>4

-----------------------------------------------------------------------------
LEMMA ConsiderInv ==
  ASSUME DInv, NEW p \in Procs, Consider(p)
  PROVE  DInv'
<1> DEFINE r == req[p]
           old == offers[r.d]
<1>1. r \in Handler /\ HandlerOK(r)
  BY DEF DInv, TypeOK, HandlersOK
<1>2. r.d \in Disputes /\ r.pc = "consider" /\ r.op \in {"accept", "reject"}
  BY <1>1 DEF Consider, HandlerOK, CaseSteps, At
<1>3. old \in Seq(Offer)
  BY <1>2 DEF DInv, TypeOK, Offer
<1>4. WorkTyped' /\ MoneyTyped' /\ HistoryTyped'
  BY StillTyped DEF Consider, history
<1>5. UNCHANGED <<dispute, offers, distributed>>
  BY DEF Consider, caseVars, history
<1>6. CASE Return(p)
  BY <1>4, <1>5, <1>6, Returning
<1>7. ASSUME NEW i \in DOMAIN old, old[i].by # r.by,
             req' = [req EXCEPT ![p].pc = "answer", ![p].offer = i,
                       ![p].share = IF r.op = "accept" THEN old[i].share ELSE 0]
      PROVE  DInv'
  <2> DEFINE share == IF r.op = "accept" THEN old[i].share ELSE 0
             s == [r EXCEPT !.pc = "answer", !.offer = i, !.share = share]
  <2>1. i \in 1 .. Len(old) /\ i \in Nat
    BY <1>3, <1>7, LenProperties
  <2>2. old[i] \in Offer
    BY <1>3, <2>1, ElementOfSeq
  <2>3. share \in 0 .. Amount /\ (r.op = "accept" => share = old[i].share)
    BY <2>2, IdleTyped DEF Offer
  <2>4. req' = [req EXCEPT ![p] = s]
    BY <1>1, <1>7 DEF DInv, TypeOK, Handler
  <2> HIDE DEF share
  <2>5. /\ s \in Handler /\ s.pc = "answer" /\ s.op = r.op /\ s.by = r.by
        /\ s.d = r.d /\ s.offer = i /\ s.share = share
    BY <1>1, <2>1, <2>3 DEF Handler, Steps
  <2> HIDE DEF s
  <2>6. HandlerOK(s) /\ s.pc \notin SettleSteps
    BY <1>2, <1>7, <2>1, <2>3, <2>5
       DEF HandlerOK, CaseSteps, SettleSteps, OpeningSteps
  <2> QED BY <1>4, <1>5, <2>4, <2>5, <2>6, Walk
<1> QED BY <1>6, <1>7 DEF Consider

(***************************************************************************)
(* The only step that hands money out: its dispute has had none.           *)
(***************************************************************************)
LEMMA TransferInv ==
  ASSUME DInv, NEW p \in Procs, TransferPartialToProvider(p)
  PROVE  DInv'
<1> USE DEF caseVars, CaseSteps, SettleSteps, OpeningSteps, At
<1> DEFINE r == req[p]
           s == [r EXCEPT !.pc = "refund"]
<1>1. r \in Handler /\ HandlerOK(r) /\ r.pc = "transfer" /\ r.d \in Disputes
  BY DEF DInv, TypeOK, HandlersOK, HandlerOK, TransferPartialToProvider
<1>2. s \in Handler /\ s.pc = "refund" /\ s.d = r.d
  BY <1>1, Moved DEF Steps
<1>3. \A q \in Procs : req'[q] = IF q = p THEN s ELSE req[q]
  BY <1>1 DEF TransferPartialToProvider, Goto, DInv, TypeOK
<1>4. req' \in [Procs -> Handler]
  BY <1>2 DEF TransferPartialToProvider, Goto, DInv, TypeOK
<1>5. /\ distributed \in [Disputes -> Nat]
      /\ distributed' = [distributed EXCEPT ![r.d] = @ + 1]
  BY DEF DInv, TypeOK, TransferPartialToProvider
<1>6. distributed[r.d] = 0 /\ dispute[r.d].verdict # NoVerdict
  BY <1>1 DEF DInv, OneSettlement
<1>7. MoneyTyped'
  <2>1. MoneyTyped /\ r.share \in 0 .. Amount /\ 0 \in 0 .. N
    BY <1>1, StillTyped, DisputeAssumption DEF Handler
  <2>2. record' \in Records
    <3>1. \/ record' = record
          \/ record' = [record EXCEPT ![Newest].payout = r.share]
          \/ record' = [record EXCEPT ![Newest].payout = r.share,
                                      ![Newest].transfer = "completed"]
      BY DEF TransferPartialToProvider, moneyVars
    <3>2. ASSUME NEW n
          PROVE  /\ record \in Records
                 /\ [record EXCEPT ![n].payout = r.share] \in Records
                 /\ [record EXCEPT ![n].payout = r.share,
                                   ![n].transfer = "completed"] \in Records
      BY <2>1, RecordsTyped
    <3> QED BY <3>1, <3>2
  <2>3. LedgerTyped(ledger')
    <3>1. ledger' = ledger \/ (r.share > 0 /\ ledger' = Transferred(0, r.share))
      BY DEF TransferPartialToProvider, moneyVars
    <3> QED BY <2>1, <3>1, RecordsTyped, TransfersTyped
  <2> QED BY <2>2, <2>3 DEF Records, LedgerTyped, MoneyTyped
<1>8. TypeOK'
  <2>1. distributed' \in [Disputes -> Nat]
    BY <1>1, <1>5
  <2>2. UNCHANGED <<milestone, proposal, dispute, offers, events, calm>>
    BY DEF TransferPartialToProvider, workVars
  <2> QED BY <1>4, <1>7, <2>1, <2>2 DEF DInv, TypeOK, MoneyTyped
<1> HIDE DEF s
<1>9. UNCHANGED <<dispute, offers>>
  BY DEF TransferPartialToProvider
<1>10. HandlersOK'
  <2>1. ASSUME NEW q \in Procs
        PROVE  HandlerOK(req[q])'
    <3>1. HandlerOK(req'[q])
      BY <1>1, <1>2, <1>3 DEF DInv, HandlersOK, HandlerOK
    <3> QED BY <1>9, <3>1 DEF HandlerOK
  <2> QED BY <2>1 DEF HandlersOK
<1>11. NoVerdictYet' /\ DistributedOnce'
  BY <1>5, <1>6, <1>9 DEF DInv, NoVerdictYet, DistributedOnce
<1>12. OneSettlement'
  <2>1. \A q \in Procs : req'[q].pc \in SettleSteps =>
          q # p /\ req[q].pc \in SettleSteps /\ req'[q].d = req[q].d
    BY <1>2, <1>3
  <2>2. \A q \in Procs : q # p /\ req[q].pc \in SettleSteps => req[q].d # r.d
    BY <1>1 DEF DInv, OneSettlement
  <2> QED BY <1>5, <1>9, <2>1, <2>2 DEF DInv, OneSettlement
<1> QED BY <1>8, <1>10, <1>11, <1>12 DEF DInv

(***************************************************************************)
(* A new dispute: nobody has a handler at a step that knows of its row.    *)
(***************************************************************************)
LEMMA CreateInv ==
  ASSUME DInv, NEW p \in Procs, CreateDispute(p)
  PROVE  DInv'
<1> USE DEF CaseSteps, SettleSteps, OpeningSteps, At
<1> DEFINE r == req[p]
<1>1. r \in Handler /\ HandlerOK(r) /\ r.pc = "create" /\ r.by \in Parties
  BY DEF DInv, TypeOK, HandlersOK, HandlerOK, CreateDispute
<1>2. WorkTyped' /\ MoneyTyped' /\ HistoryTyped'
  BY StillTyped DEF CreateDispute, history
<1>3. CASE Return(p) /\ UNCHANGED dispute
  BY <1>2, <1>3, Returning DEF CreateDispute, history
<1>4. ASSUME NEW m \in Milestones, NEW d \in Disputes, dispute[d] = Unused,
             dispute' = [dispute EXCEPT ![d] =
               [Unused EXCEPT !.status = "open", !.ms = m, !.by = r.by,
                              !.claim = r.share]],
             req' = [req EXCEPT ![p].pc = "freeze", ![p].d = d, ![p].m = m]
      PROVE  DInv'
  <2> DEFINE s == [r EXCEPT !.pc = "freeze", !.d = d, !.m = m]
             row == [Unused EXCEPT !.status = "open", !.ms = m, !.by = r.by,
                                   !.claim = r.share]
  <2>1. /\ s \in Handler /\ s.pc = "freeze" /\ s.op = r.op /\ s.by = r.by
        /\ s.d = d
    BY <1>1 DEF Handler, Steps
  <2>2. req' = [req EXCEPT ![p] = s]
    BY <1>1, <1>4 DEF DInv, TypeOK, Handler
  <2> HIDE DEF s
  <2>3. /\ row \in DisputeRow /\ row.status = "open" /\ row.verdict = NoVerdict
    <3>1. ASSUME NEW u \in DisputeRow
          PROVE  LET v == [u EXCEPT !.status = "open", !.ms = m, !.by = r.by,
                                    !.claim = r.share]
                 IN v \in DisputeRow /\ v.status = "open" /\ v.verdict = u.verdict
      BY <1>1 DEF DisputeRow, Handler
    <3>2. Unused \in DisputeRow
      BY <1>4 DEF DInv, TypeOK, DisputeRow
    <3>3. Unused.verdict = NoVerdict
      BY DEF Unused
    <3> QED BY <3>1, <3>2, <3>3
  <2>4. dispute' = [dispute EXCEPT ![d] = row]
    BY <1>4
  <2> HIDE DEF row
  <2>5. \A q \in Procs : req'[q] = IF q = p THEN s ELSE req[q]
    BY <2>2 DEF DInv, TypeOK
  <2>6. \A c \in Disputes : dispute'[c] = IF c = d THEN row ELSE dispute[c]
    BY <2>4 DEF DInv, TypeOK
  <2>7. dispute[d].status = "none" /\ dispute[d].verdict = NoVerdict
    BY <1>4 DEF Unused
  <2>8. UNCHANGED <<offers, distributed>>
    BY DEF CreateDispute, history
  <2>9. TypeOK'
    <3>1. req' \in [Procs -> Handler]
      BY <2>1, <2>2 DEF DInv, TypeOK
    <3>2. dispute' \in [Disputes -> DisputeRow]
      BY <2>3, <2>4 DEF DInv, TypeOK, DisputeRow
    <3> QED BY <1>2, <2>8, <3>1, <3>2
            DEF DInv, TypeOK, DisputeRow, WorkTyped, MoneyTyped, HistoryTyped
  <2>10. HandlersOK'
    <3>1. ASSUME NEW q \in Procs
          PROVE  HandlerOK(req[q])'
      <4>1. req'[p].pc = "freeze" /\ req'[p].by \in Parties /\ req'[p].d \in Disputes
        BY <1>1, <2>1, <2>5
      <4>2. HandlerOK(req[q])
        BY DEF DInv, HandlersOK
      <4>3. CASE q = p
        BY <2>5, <4>1, <4>3 DEF HandlerOK
      <4>4. CASE q # p
        BY <2>5, <2>6, <2>7, <2>8, <4>2, <4>4 DEF HandlerOK
      <4> QED BY <4>3, <4>4
    <3> QED BY <3>1 DEF HandlersOK
  <2>11. NoVerdictYet'
    BY <2>3, <2>6, <2>7, <2>8 DEF DInv, NoVerdictYet
  <2>12. OneSettlement'
    <3>1. \A q \in Procs : req'[q].pc \in SettleSteps =>
            req[q].pc \in SettleSteps /\ req'[q].d = req[q].d
      BY <2>1, <2>5
    <3> QED BY <2>6, <2>7, <2>8, <3>1 DEF DInv, OneSettlement
  <2>13. DistributedOnce'
    BY <2>8 DEF DInv, DistributedOnce
  <2> QED BY <2>9, <2>10, <2>11, <2>12, <2>13 DEF DInv
<1> QED BY <1>3, <1>4 DEF CreateDispute

-----------------------------------------------------------------------------
(***************************************************************************)
(* What a handler saves: a ruling is given on an open dispute and leaves   *)
(* it closed, anything else leaves the verdict alone.                      *)
(***************************************************************************)
LEMMA SavedRow ==
  ASSUME NEW r \in Handler, NEW row \in DisputeRow, r.op \in SaveOps,
         r.op = "ask" => r.by \in Parties
  PROVE  /\ Saved(r, row) \in DisputeRow
         /\ r.op \in Rulings => /\ Saved(r, row).status = "resolved"
                                /\ Saved(r, row).verdict.how # "none"
         /\ r.op \notin Rulings => Saved(r, row).verdict = row.verdict
         /\ r.op \in SaveOps \ (Rulings \cup {"escalate"}) =>
              \/ Saved(r, row).status = row.status
              \/ Saved(r, row).status = "cancelled"
              \/ row.status = "open" /\ Saved(r, row).status = "negotiation"
<1> USE DEF Saved, SaveOps, Rulings
<1>1. CASE r.op \in {"accept", "decide", "auto"}
  <2>1. PICK how \in {"amicable", "admin", "auto"} : Saved(r, row) = Rule(row, how, r.share)
    BY <1>1
  <2>2. [how |-> how, share |-> r.share] \in Verdict
    BY DEF Verdict, Handler
  <2>3. ASSUME NEW v \in Verdict
        PROVE  LET n == [row EXCEPT !.status = "resolved", !.verdict = v]
               IN n \in DisputeRow /\ n.status = "resolved" /\ n.verdict = v
    BY DEF DisputeRow
  <2>4. LET n == Rule(row, how, r.share)
        IN n \in DisputeRow /\ n.status = "resolved" /\ n.verdict.how = how
    <3> DEFINE v == [how |-> how, share |-> r.share]
               n == [row EXCEPT !.status = "resolved", !.verdict = v]
    <3>1. v.how = how /\ v \in Verdict /\ Rule(row, how, r.share) = n
      BY <2>2 DEF Rule
    <3> HIDE DEF v
    <3>2. n \in DisputeRow /\ n.status = "resolved" /\ n.verdict = v
      BY <2>3, <3>1
    <3> QED BY <3>1, <3>2
  <2> QED BY <1>1, <2>1, <2>4
<1>2. CASE r.op = "counter"
  BY <1>2 DEF DisputeRow
<1>3. CASE r.op \in {"reject", "ask", "refuse"}
  BY <1>3 DEF DisputeRow
<1>4. CASE r.op \in {"escalate", "cancel", "agree"}
  BY <1>4 DEF DisputeRow
<1> QED BY <1>1, <1>2, <1>3, <1>4

LEMMA SaveInv ==
  ASSUME DInv, NEW p \in Procs, SaveDispute(p)
  PROVE  DInv'
<1> USE DEF CaseSteps, SettleSteps, OpeningSteps, At
<1> DEFINE r == req[p]
           row == dispute[r.d]
           new == Saved(r, row)
<1>1. r \in Handler /\ HandlerOK(r) /\ r.pc = "save" /\ r.d \in Disputes /\ r.op \in SaveOps
  BY DEF DInv, TypeOK, HandlersOK, HandlerOK, SaveDispute
<1>2. WorkTyped' /\ MoneyTyped' /\ HistoryTyped'
  BY StillTyped DEF SaveDispute, history
<1>3. CASE Return(p) /\ UNCHANGED dispute
  BY <1>2, <1>3, Returning DEF SaveDispute, history
<1>4. ASSUME NEW step \in {"idle", "reload", "settle"}, r.fresh,
             r.op = "accept" => IsOpen(row),
             step = "settle" <=> r.op \in Rulings,
             dispute' = [dispute EXCEPT ![r.d] = new], Continue(p, step)
      PROVE  DInv'
  <2> DEFINE s == IF step = "idle" THEN Idle ELSE [r EXCEPT !.pc = step, !.fresh = FALSE]
  <2>1. row \in DisputeRow
    BY <1>1 DEF DInv, TypeOK, DisputeRow
  <2>2. /\ new \in DisputeRow
        /\ r.op \in Rulings => new.status = "resolved" /\ new.verdict.how # "none"
        /\ r.op \notin Rulings => new.verdict = row.verdict
        /\ r.op \in SaveOps \ (Rulings \cup {"escalate"}) =>
             \/ new.status = row.status
             \/ new.status = "cancelled"
             \/ row.status = "open" /\ new.status = "negotiation"
    BY <1>1, <2>1, SavedRow DEF HandlerOK
  <2>3. r.op \in Rulings \cup {"escalate"} => IsOpen(row)
    BY <1>1, <1>4 DEF HandlerOK, Rulings, IsOpen
  <2>4. IsOpen(row) => row.verdict = NoVerdict /\ distributed[r.d] = 0
    BY <1>1 DEF DInv, NoVerdictYet, IsOpen
  <2>5. r.op \in Rulings => new.verdict # NoVerdict
    BY <2>2 DEF NoVerdict
  <2> HIDE DEF new
  <2>6. \A d \in Disputes : dispute'[d] = IF d = r.d THEN new ELSE dispute[d]
    BY <1>4 DEF DInv, TypeOK
  <2>7. s \in Handler /\ s.pc = step /\ (step # "idle" => s.d = r.d)
    <3>1. CASE step = "idle"
      BY <3>1, IdleTyped DEF Idle
    <3>2. CASE step # "idle"
      BY <1>1, <3>2 DEF Handler, Steps
    <3> QED BY <3>1, <3>2
  <2>8. \A q \in Procs : req'[q] = IF q = p THEN s
                                   ELSE IF req[q].d = r.d THEN [req[q] EXCEPT !.fresh = FALSE]
                                   ELSE req[q]
    BY <1>4 DEF Continue
  <2> HIDE DEF s
  <2>9. ASSUME NEW q \in Procs, q # p
        PROVE  /\ req'[q] \in Handler /\ req'[q].pc = req[q].pc /\ req'[q].op = req[q].op
               /\ req'[q].by = req[q].by /\ req'[q].d = req[q].d
               /\ req'[q].offer = req[q].offer /\ req'[q].share = req[q].share
               /\ req[q].d = r.d => ~ req'[q].fresh
               /\ req[q].d # r.d => req'[q].fresh = req[q].fresh
    <3>1. req[q] \in Handler
      BY DEF DInv, TypeOK
    <3> QED BY <2>8, <2>9, <3>1 DEF Handler
  <2>10. UNCHANGED <<offers, distributed>>
    BY DEF SaveDispute, history
  <2>11. TypeOK'
    <3>1. req' \in [Procs -> Handler]
      <4>1. \A q \in Procs : req'[q] \in Handler
        BY <2>7, <2>8, <2>9
      <4>2. req' = [q \in Procs |-> req'[q]]
        BY <1>4 DEF Continue
      <4> QED BY <4>1, <4>2
    <3>2. dispute' \in [Disputes -> DisputeRow]
      BY <1>1, <1>4, <2>2 DEF DInv, TypeOK, DisputeRow
    <3> QED BY <1>2, <2>10, <3>1, <3>2
            DEF DInv, TypeOK, DisputeRow, WorkTyped, MoneyTyped, HistoryTyped
  <2>12. HandlersOK'
    <3>1. ASSUME NEW q \in Procs
          PROVE  HandlerOK(req[q])'
      <4>1. HandlerOK(req[q])
        BY DEF DInv, HandlersOK
      <4>2. CASE q = p
        BY <1>1, <2>7, <2>8, <4>2 DEF HandlerOK
      <4>3. CASE q # p /\ req[q].d = r.d
        BY <2>9, <2>10, <4>1, <4>3 DEF HandlerOK
      <4>4. CASE q # p /\ req[q].d # r.d
        BY <2>6, <2>9, <2>10, <4>1, <4>4 DEF HandlerOK
      <4> QED BY <4>2, <4>3, <4>4
    <3> QED BY <3>1 DEF HandlersOK
  <2>13. NoVerdictYet'
    <3>1. ASSUME NEW d \in Disputes, d = r.d
          PROVE  /\ new.status \in {"none", "open", "negotiation", "escalated"} =>
                      new.verdict = NoVerdict
                 /\ new.verdict = NoVerdict => distributed[d] = 0
      BY <1>1, <2>2, <2>3, <2>4, <2>5, <3>1 DEF DInv, NoVerdictYet, SaveOps, Rulings
    <3> QED BY <2>6, <2>10, <3>1 DEF DInv, NoVerdictYet
  <2>14. OneSettlement'
    <3>1. ASSUME NEW q \in Procs, req'[q].pc \in SettleSteps, req'[q].d # r.d
          PROVE  q # p /\ req[q].pc \in SettleSteps /\ req'[q].d = req[q].d
      BY <2>7, <2>8, <2>9, <3>1
    <3>2. CASE r.op \in Rulings
      <4>1. \A q \in Procs : req[q].pc \in SettleSteps => req[q].d # r.d
        BY <1>1, <2>3, <2>4, <3>2 DEF DInv, OneSettlement
      <4>2. \A q \in Procs : req'[q].pc \in SettleSteps /\ req'[q].d = r.d => q = p
        BY <2>9, <4>1
      <4> QED BY <2>3, <2>4, <2>5, <2>6, <2>9, <2>10, <3>1, <3>2, <4>2
              DEF DInv, OneSettlement
    <3>3. CASE r.op \notin Rulings
      <4>1. \A q \in Procs : req'[q].pc \in SettleSteps =>
              q # p /\ req[q].pc \in SettleSteps /\ req'[q].d = req[q].d
        BY <1>4, <2>7, <2>8, <2>9, <3>3
      <4>2. \A d \in Disputes : dispute'[d].verdict = dispute[d].verdict
        BY <2>2, <2>6, <3>3
      <4> QED BY <2>10, <4>1, <4>2 DEF DInv, OneSettlement
    <3> QED BY <3>2, <3>3
  <2>15. DistributedOnce'
    BY <2>10 DEF DInv, DistributedOnce
  <2> QED BY <2>11, <2>12, <2>13, <2>14, <2>15 DEF DInv
<1> QED
  <2>1. CASE (r.op = "accept" /\ ~ IsOpen(row)) \/ ~ r.fresh
    BY <1>3, <2>1 DEF SaveDispute
  <2>2. CASE ~ (r.op = "accept" /\ ~ IsOpen(row)) /\ r.fresh
    <3> DEFINE step == IF r.op \in Rulings THEN "settle"
                       ELSE IF r.op \in {"cancel", "agree"} THEN "reload" ELSE "idle"
    <3>1. step \in {"idle", "reload", "settle"} /\ (step = "settle" <=> r.op \in Rulings)
      OBVIOUS
    <3>2. dispute' = [dispute EXCEPT ![r.d] = new] /\ Continue(p, step)
      BY <2>2 DEF SaveDispute
    <3> HIDE DEF step
    <3> QED BY <1>4, <2>2, <3>1, <3>2
  <2> QED BY <2>1, <2>2

-----------------------------------------------------------------------------
(***************************************************************************)
(* DInv is inductive.                                                      *)
(***************************************************************************)
LEMMA InitInv == Init => DInv
<1> SUFFICES ASSUME Init PROVE DInv
  OBVIOUS
<1> USE DisputeAssumption DEF Init
<1>1. 1 \in Milestones /\ 0 \in 0 .. Amount /\ Amount \in 0 .. Amount
  BY DEF Milestones
<1>2. Unused \in DisputeRow /\ Unused.verdict = NoVerdict
  <2>1. NoVerdict \in Verdict
    BY <1>1 DEF NoVerdict, Verdict
  <2> QED BY <1>1, <2>1 DEF Unused, DisputeRow, Parties
<1>3. WorkTyped
  BY <1>1, IdleTyped DEF WorkTyped, MilestoneStatus
<1>4. MoneyTyped
  <2>1. record \in Records
    BY <1>1 DEF Records
  <2>2. LedgerTyped(ledger)
    BY <1>1 DEF LedgerTyped
  <2> QED BY <2>1, <2>2 DEF Records, LedgerTyped, MoneyTyped
<1>5. TypeOK
  <2>1. dispute \in [Disputes -> DisputeRow] /\ req \in [Procs -> Handler]
    BY <1>2, IdleTyped
  <2>2. offers \in [Disputes -> Seq(Offer)]
    BY EmptySeq
  <2>3. distributed \in [Disputes -> Nat] /\ events \in 0 .. MaxEvents /\ calm \in BOOLEAN
    OBVIOUS
  <2> QED BY <1>3, <1>4, <2>1, <2>2, <2>3
          DEF TypeOK, DisputeRow, Offer, WorkTyped, MoneyTyped
<1>6. HandlersOK
  BY IdleTyped DEF HandlersOK
<1>7. NoVerdictYet /\ DistributedOnce
  BY <1>2 DEF NoVerdictYet, DistributedOnce
<1>8. OneSettlement
  BY DEF OneSettlement, Idle, SettleSteps
<1> QED BY <1>5, <1>6, <1>7, <1>8 DEF DInv

LEMMA StepInv ==
  ASSUME DInv, NEW p \in Procs, Step(p)
  PROVE  DInv'
BY OpeningInv, CreateInv, OffersInv, ConsiderInv, SaveInv, RestoringInv, ThawingInv,
   TransferInv, RefundInv, WorkInv DEF Step

LEMMA NextInv ==
  ASSUME DInv, [Next]_vars
  PROVE  DInv'
<1>1. CASE UNCHANGED vars
  <2>1. TypeOK'
    BY <1>1 DEF DInv, TypeOK, vars, caseVars, workVars, moneyVars, history
  <2>2. HandlersOK'
    BY <1>1 DEF DInv, HandlersOK, HandlerOK, vars, caseVars
  <2>3. NoVerdictYet' /\ OneSettlement' /\ DistributedOnce'
    BY <1>1 DEF DInv, NoVerdictYet, OneSettlement, DistributedOnce, vars, caseVars, history
  <2> QED BY <2>1, <2>2, <2>3 DEF DInv
<1>2. CASE \E p \in Procs : Start(p) \/ Step(p) \/ Crash(p) \/ StepFails(p)
  BY <1>2, StartInv, StepInv, FailingInv
<1>3. CASE \E m \in Milestones : RequestPayout(m)
  BY <1>3, RequestPayoutInv
<1> QED BY <1>1, <1>2, <1>3 DEF Next

LEMMA Inductive == Spec => []DInv
BY InitInv, NextInv, PTL DEF Spec

(***************************************************************************)
(* Rows, offers, records, transfers and handlers keep their types.         *)
(***************************************************************************)
THEOREM TypeCorrect == Spec => []TypeOK
<1>1. DInv => TypeOK
  BY DEF DInv
<1> QED BY <1>1, Inductive, PTL

(***************************************************************************)
(* However many parties, admins and scheduler runs rule on a dispute at    *)
(* the same time, and whatever crashes, its money is handed out once at    *)
(* most (disputeRepo.Update under the version).                            *)
(***************************************************************************)
THEOREM MoneyGoesOnce == Spec => []DistributedOnce
<1>1. DInv => DistributedOnce
  BY DEF DInv
<1> QED BY <1>1, Inductive, PTL

-----------------------------------------------------------------------------
(***************************************************************************)
(* Only CreateDispute and SaveDispute write disputes rows.                 *)
(***************************************************************************)
LEMMA DisputesChange ==
  ASSUME [Next]_vars
  PROVE  \/ UNCHANGED dispute
         \/ \E p \in Procs : CreateDispute(p) \/ SaveDispute(p)
<1>1. ASSUME NEW p \in Procs, Start(p)
      PROVE  UNCHANGED dispute
  BY <1>1 DEF Start, OpenDispute, CounterPropose, RespondToCounter, CancelDispute,
     RespondToCancellation, AdminResolve, Tick, ForceEscalate, BeginWork, caseVars
<1>2. ASSUME NEW p \in Procs, Step(p), ~ CreateDispute(p), ~ SaveDispute(p)
      PROVE  UNCHANGED dispute
  BY <1>2 DEF Step, CheckExisting, Freeze, MarkProposal, FirstOffer, Supersede,
     CreateCounterProposal, Consider, Answer, ReloadProposal, Reactivate, LoadForSettling,
     Thaw, Sweep, CompleteProposal, TransferPartialToProvider, RefundToClient, Work,
     WriteWork, caseVars
<1>3. ASSUME NEW p \in Procs, Crash(p) \/ StepFails(p)
      PROVE  UNCHANGED dispute
  BY <1>3 DEF Crash, StepFails, caseVars
<1>4. ASSUME NEW m \in Milestones, RequestPayout(m)
      PROVE  UNCHANGED dispute
  BY <1>4 DEF RequestPayout, caseVars
<1> QED BY <1>1, <1>2, <1>3, <1>4 DEF Next, vars, caseVars

(***************************************************************************)
(* Every verdict is given on an undecided dispute and is founded: on an    *)
(* offer of the other party, on an escalation, or on the respondent's      *)
(* silence, all of them true when the verdict is written.                  *)
(***************************************************************************)
THEOREM VerdictsFounded == Spec => VerdictsAreFounded
<1>1. ASSUME DInv, [Next]_vars, NEW d \in Disputes,
             dispute'[d].verdict # dispute[d].verdict
      PROVE  dispute[d].verdict = NoVerdict /\ Founded(d, dispute'[d].verdict)
  <2>1. PICK p \in Procs : CreateDispute(p) \/ SaveDispute(p)
    BY <1>1, DisputesChange
  <2> DEFINE r == req[p]
             row == dispute[r.d]
  <2>2. r \in Handler /\ HandlerOK(r)
    BY <1>1 DEF DInv, TypeOK, HandlersOK
  <2>3. ~ CreateDispute(p)
    <3>1. ASSUME NEW m \in Milestones, NEW c \in Disputes, dispute[c] = Unused,
                 dispute' = [dispute EXCEPT ![c] =
                   [Unused EXCEPT !.status = "open", !.ms = m, !.by = r.by,
                                  !.claim = r.share]]
          PROVE  FALSE
      <4>1. [Unused EXCEPT !.status = "open", !.ms = m, !.by = r.by,
                           !.claim = r.share].verdict = Unused.verdict
        BY DEF Unused
      <4> QED BY <1>1, <3>1, <4>1 DEF DInv, TypeOK
    <3> QED BY <1>1, <3>1 DEF CreateDispute
  <2>4. /\ r.pc = "save" /\ r.d \in Disputes /\ r.op \in SaveOps /\ r.fresh
        /\ r.op = "accept" => IsOpen(row)
        /\ dispute' = [dispute EXCEPT ![r.d] = Saved(r, row)]
    BY <1>1, <2>1, <2>2, <2>3 DEF SaveDispute, HandlerOK, CaseSteps, At
  <2>5. row \in DisputeRow
    BY <1>1, <2>4 DEF DInv, TypeOK, DisputeRow
  <2>6. d = r.d /\ dispute'[d] = Saved(r, row)
    BY <1>1, <2>4 DEF DInv, TypeOK
  <2>7. r.op \in Rulings
    BY <1>1, <2>2, <2>4, <2>5, <2>6, SavedRow DEF HandlerOK
  <2>8. IsOpen(row)
    BY <2>2, <2>4, <2>7 DEF HandlerOK, Rulings, IsOpen
  <2>9. dispute[d].verdict = NoVerdict
    BY <1>1, <2>6, <2>8 DEF DInv, NoVerdictYet, IsOpen
  <2>10. ASSUME NEW how, Saved(r, row) = Rule(row, how, r.share)
         PROVE  dispute'[d].verdict.how = how /\ dispute'[d].verdict.share = r.share
    BY <2>5, <2>6, <2>10 DEF Rule, DisputeRow
  <2>11. CASE r.op = "accept"
    <3>1. dispute'[d].verdict.how = "amicable" /\ dispute'[d].verdict.share = r.share
      BY <2>10, <2>11 DEF Saved
    <3>2. /\ r.offer \in 1 .. Len(offers[d])
          /\ offers[d][r.offer].by # r.by /\ offers[d][r.offer].share = r.share
      BY <2>2, <2>4, <2>6, <2>11 DEF HandlerOK
    <3>3. DOMAIN offers[d] = 1 .. Len(offers[d])
      BY <1>1, LenProperties DEF DInv, TypeOK
    <3> QED BY <2>6, <2>9, <2>11, <3>1, <3>2, <3>3 DEF Founded
  <2>12. CASE r.op = "decide"
    <3>1. dispute'[d].verdict.how = "admin"
      BY <2>10, <2>12 DEF Saved
    <3> QED BY <2>2, <2>4, <2>6, <2>9, <2>12, <3>1 DEF Founded, HandlerOK
  <2>13. CASE r.op = "auto"
    <3>1. dispute'[d].verdict.how = "auto" /\ dispute'[d].verdict.share = r.share
      BY <2>10, <2>13 DEF Saved
    <3> QED BY <2>2, <2>4, <2>6, <2>9, <2>13, <3>1 DEF Founded, HandlerOK
  <2> QED BY <2>7, <2>11, <2>12, <2>13 DEF Rulings
<1>2. DInv /\ [Next]_vars =>
        [\A d \in Disputes : dispute'[d].verdict # dispute[d].verdict =>
           dispute[d].verdict = NoVerdict /\ Founded(d, dispute'[d].verdict)]_vars
  BY <1>1
<1> QED BY <1>2, Inductive, PTL DEF Spec, VerdictsAreFounded

-----------------------------------------------------------------------------
(***************************************************************************)
(* One milestone takes one legal step.                                     *)
(***************************************************************************)
LEMMA LifecycleStep ==
  ASSUME DInv, NEW m \in Milestones, NEW to \in MilestoneStatus, NEW d,
         \/ milestone' = [milestone EXCEPT ![m].status = to]
         \/ milestone' = [milestone EXCEPT ![m] = [status |-> to, dispute |-> d]],
         <<milestone[m].status, to>> \in
            WorkOps \cup {<<"pending_funding", "cancelled">>,
                          <<"funded", "disputed">>, <<"submitted", "disputed">>,
                          <<"disputed", "released">>, <<"disputed", "refunded">>},
         to = "funded" => IsCurrentActive(Statuses, m)
  PROVE  E!Next
<1> DEFINE from == milestone[m].status
<1>1. Statuses' = [Statuses EXCEPT ![m] = to] /\ Statuses[m] = from
  <2>1. ASSUME NEW i \in Milestones
        PROVE  milestone'[i].status = IF i = m THEN to ELSE milestone[i].status
    BY DEF DInv, TypeOK
  <2> QED BY <2>1 DEF Statuses
<1>2. CanPersist(from, to)
  BY DEF WorkOps, CanPersist, CanTransitionTo, IsTerminal
<1>3. E!Advance(m, to)
  BY <1>1, <1>2
     DEF E!Advance, E!CanPersist, CanPersist, E!CanTransitionTo, CanTransitionTo,
         E!IsCurrentActive, IsCurrentActive, E!IsTerminal, IsTerminal
<1>4. \/ E!Fund(m) \/ E!Cancel(m) \/ E!Submit(m) \/ E!Reject(m)
      \/ E!Release(m) \/ E!Dispute(m) \/ E!Settle(m)
  BY <1>1, <1>3
     DEF WorkOps, E!Fund, E!Cancel, E!Submit, E!Reject, E!Release, E!Dispute, E!Settle
<1> QED BY <1>4 DEF E!Next, E!Milestones, Milestones

(***************************************************************************)
(* Only Freeze, Thaw, Sweep and Work write milestones.                     *)
(***************************************************************************)
LEMMA MilestonesChange ==
  ASSUME [Next]_vars
  PROVE  \/ UNCHANGED milestone
         \/ \E p \in Procs : Freeze(p) \/ Thaw(p) \/ Sweep(p) \/ Work(p)
<1>1. ASSUME NEW p \in Procs, Start(p)
      PROVE  UNCHANGED milestone
  BY <1>1 DEF Start, OpenDispute, CounterPropose, RespondToCounter, CancelDispute,
     RespondToCancellation, AdminResolve, Tick, ForceEscalate, BeginWork, workVars
<1>2. ASSUME NEW p \in Procs, Step(p), ~ Freeze(p), ~ Thaw(p), ~ Sweep(p), ~ Work(p)
      PROVE  UNCHANGED milestone
  BY <1>2 DEF Step, CheckExisting, CreateDispute, MarkProposal, FirstOffer, Supersede,
     CreateCounterProposal, Consider, Answer, SaveDispute, ReloadProposal, Reactivate,
     LoadForSettling, CompleteProposal, TransferPartialToProvider, RefundToClient,
     WriteWork, workVars
<1>3. ASSUME NEW p \in Procs, Crash(p) \/ StepFails(p)
      PROVE  UNCHANGED milestone
  BY <1>3 DEF Crash, StepFails, workVars
<1>4. ASSUME NEW m \in Milestones, RequestPayout(m)
      PROVE  UNCHANGED milestone
  BY <1>4 DEF RequestPayout, workVars
<1> QED BY <1>1, <1>2, <1>3, <1>4 DEF Next, vars, workVars

LEMMA MilestonesStep ==
  ASSUME DInv, [Next]_vars
  PROVE  [E!Next]_Statuses
<1>1. CASE UNCHANGED milestone
  BY <1>1 DEF Statuses
<1>2. ASSUME NEW p \in Procs, Freeze(p) \/ Thaw(p) \/ Sweep(p) \/ Work(p)
      PROVE  E!Next \/ UNCHANGED milestone
  <2> DEFINE r == req[p]
  <2>1. r \in Handler /\ HandlerOK(r)
    BY DEF DInv, TypeOK, HandlersOK
  <2>2. CASE Freeze(p)
    <3> DEFINE m == r.m
               d == r.d
    <3>1. m \in Milestones /\ "disputed" \in MilestoneStatus
      BY <2>1 DEF Handler, MilestoneStatus
    <3>2. \/ UNCHANGED milestone
          \/ /\ milestone[m].status \in {"funded", "submitted"}
             /\ milestone' = [milestone EXCEPT ![m] =
                                [status |-> "disputed", dispute |-> d]]
      <4>1. CASE milestone[m].status \in {"funded", "submitted"}
        BY <2>2, <4>1 DEF Freeze
      <4>2. CASE milestone[m].status \notin {"funded", "submitted"}
        BY <2>2, <4>2 DEF Freeze
      <4> QED BY <4>1, <4>2
    <3> HIDE DEF m, d
    <3>3. CASE ~ UNCHANGED milestone
      <4>1. milestone' = [milestone EXCEPT ![m] =
                            [status |-> "disputed", dispute |-> d]]
        BY <3>2, <3>3
      <4>2. <<milestone[m].status, "disputed">> \in
               {<<"funded", "disputed">>, <<"submitted", "disputed">>}
        BY <3>2, <3>3
      <4> QED BY <3>1, <4>1, <4>2, LifecycleStep
    <3> QED BY <3>3
  <2>3. CASE Thaw(p)
    <3> DEFINE m == dispute[r.d].ms
    <3>1. m \in Milestones /\ {"released", "refunded"} \subseteq MilestoneStatus
      BY <2>1, <2>3
         DEF DInv, TypeOK, HandlerOK, CaseSteps, SettleSteps, Thaw, At, MilestoneStatus
    <3>2. \/ UNCHANGED milestone
          \/ /\ milestone[m].status = "disputed"
             /\ \E to \in {"released", "refunded"} :
                  milestone' = [milestone EXCEPT ![m] =
                                  [status |-> to, dispute |-> NoDispute]]
      BY <2>3 DEF Thaw
    <3> HIDE DEF m
    <3> QED BY <3>1, <3>2, LifecycleStep
  <2>4. CASE Sweep(p)
    <3>1. \/ UNCHANGED milestone
          \/ \E m \in Milestones :
               /\ milestone[m].status = "pending_funding"
               /\ milestone' = [milestone EXCEPT ![m].status = "cancelled"]
      BY <2>4 DEF Sweep
    <3>2. "cancelled" \in MilestoneStatus
      BY DEF MilestoneStatus
    <3> QED BY <3>1, <3>2, LifecycleStep
  <2>5. CASE Work(p)
    <3>1. \/ UNCHANGED milestone
          \/ \E m \in Milestones :
               /\ IsCurrentActive(Statuses, m)
               /\ <<milestone[m].status, r.op>> \in WorkOps
               /\ milestone' = [milestone EXCEPT ![m].status = r.op]
      BY <2>5 DEF Work
    <3>2. ASSUME NEW m \in Milestones, <<milestone[m].status, r.op>> \in WorkOps
          PROVE  r.op \in MilestoneStatus
      BY <3>2 DEF WorkOps, MilestoneStatus
    <3> QED BY <3>1, <3>2, LifecycleStep
  <2> QED BY <1>2, <2>2, <2>3, <2>4, <2>5
<1> QED BY <1>1, <1>2, MilestonesChange

(***************************************************************************)
(* Freezing, thawing and sweeping take milestones along the lifecycle that *)
(* Escrow promises, in sequence, whatever the proposal service and other   *)
(* dispute handlers do meanwhile.                                          *)
(***************************************************************************)
THEOREM MilestonesOnLifecycle == Spec => MilestonesAdvance
<1>1. DInv /\ [Next]_vars => [E!Next]_Statuses
  BY MilestonesStep
<1> QED BY <1>1, Inductive, PTL DEF Spec, MilestonesAdvance
=============================================================================
