--------------------------- MODULE InvoicingProofs ---------------------------
(***************************************************************************)
(* Proofs about Invoicing, for any organizations, records, events,         *)
(* processes, months and number of faults.                                 *)
(*                                                                         *)
(* InvoicingInv is inductive.  It adds to the properties what a pipeline   *)
(* may rely on at each of its steps (PipelinesAreSound), that numbers in   *)
(* hand are nobody else's (NumbersAreOwned), that a claim has something to *)
(* show (ClaimsAreAnswered), what a consolidation leaves behind            *)
(* (MonthsAreSettled), and what a pipeline that runs alone has seen        *)
(* (CalmPipelines).                                                        *)
(***************************************************************************)
EXTENDS Invoicing, TLAPS

(***************************************************************************)
(* The source of a pipeline decides which steps it takes and what it       *)
(* bills.                                                                  *)
(***************************************************************************)
Sound(t) ==
  /\ t.pc = "idle" => t = Idle
  /\ t.pc # "idle" => t.source \in Sources
  /\ t.pc \in {"claim", "settle"} => t.source[1] = "subscription"
  /\ t.pc \in {"list", "mark"} => t.source[1] = "month"
  /\ t.pc = "mark" => t.auto /\ t.todo = {}
  /\ t.auto \/ t.todo # {} => t.source[1] = "month"
  /\ t.source[1] = "fee" => t.items = {t.source[2]}
  /\ t.source[1] = "subscription" => t.items = {}
  /\ t.source[1] = "month" /\ t.pc \in {"probe", "list"} => t.items = {}

PipelinesAreSound == \A p \in Procs : Sound(task[p])

(***************************************************************************)
(* A number is below the counter, and on one invoice or in one hand.       *)
(***************************************************************************)
Drawn(t) == t.pc = "persist"

NumbersAreOwned ==
  /\ \A i \in invoices : i.number < nextNumber
  /\ \A p \in Procs : Drawn(task[p]) =>
       /\ task[p].number < nextNumber
       /\ \A i \in invoices : i.number # task[p].number
       /\ \A q \in Procs :
            Drawn(task[q]) /\ task[q].number = task[p].number => q = p

(***************************************************************************)
(* An event that is claimed, about to be settled or done has an invoice,   *)
(* an attempt at one, a failed attempt, or an owner that was not resolved. *)
(***************************************************************************)
Answered(e) ==
  LET s == <<"subscription", e>>
  IN \/ Invoiced(s) \/ \E p \in Procs : MakingBy(p, s)
     \/ e \in tripped \cup unowned

ClaimsAreAnswered ==
  /\ \A e \in Events : e \in claimed \/ queue[e] = "done" => Answered(e)
  /\ \A p \in Procs : task[p].pc = "settle" => Answered(task[p].source[2])

(***************************************************************************)
(* Of a month that is over, what is settled stays settled: no more money   *)
(* goes out in it, and invoices are not taken back.                        *)
(***************************************************************************)
Settled(o, m) == Outstanding(o, m) = {} \/ Excused(o, m)

\* A consolidation about to be made has listed all that is outstanding.
Listed(t) ==
  t.source[1] = "month" =>
    /\ t.source[2][2] <= month
    /\ t.pc \in {"reserve", "persist"} =>
         /\ t.source[2][2] <= t.asOf /\ t.asOf <= month
         /\ t.source[2][2] < t.asOf =>
              Outstanding(t.source[2][1], t.source[2][2]) \subseteq t.items

\* A tick has settled the organizations it is through with.
Behind(t) ==
  t.auto =>
    /\ t.source[2][2] < month
    /\ \A o \in Orgs :
         o \notin t.todo /\ (t.pc = "mark" \/ o # t.source[2][1]) =>
           Settled(o, t.source[2][2])

MonthsAreSettled ==
  /\ marker # 0 => marker < month /\ \A o \in Orgs : Settled(o, marker)
  /\ \A p \in Procs : Listed(task[p]) /\ Behind(task[p])
  /\ \A i \in invoices, o \in Orgs, m \in Months :
       i.source = <<"month", <<o, m>>>> =>
         i.asOf = m \/ (m < month /\ Outstanding(o, m) = {})

(***************************************************************************)
(* A record is on an invoice, or in the hand of a pipeline, because it was *)
(* transferred or because it is the record of a fee.                       *)
(***************************************************************************)
Due(x) == \A r \in x.items : transferred[r] # 0 \/ x.source = <<"fee", r>>

RecordsAreDue ==
  /\ \A i \in invoices : Due(i)
  /\ \A p \in Procs : Due(task[p])

(***************************************************************************)
(* What a pipeline that runs alone has seen is still so.                   *)
(***************************************************************************)
Clear(t) ==
  /\ t.pc \in {"reserve", "persist"} => ~ Taken(t)
  /\ t.pc = "probe" /\ t.items \cap Billed # {} => Invoiced(t.source)
  /\ t.pc = "list" => ~ Invoiced(t.source)

CalmPipelines ==
  calm => /\ \A p, q \in Procs : IsIdle(p) \/ IsIdle(q) \/ p = q
          /\ \A p \in Procs : Clear(task[p])

InvoicingInv ==
  /\ TypeOK
  /\ PipelinesAreSound
  /\ IssuedOnce /\ NumbersAreOwned
  /\ ClaimsAreAnswered
  /\ MonthsAreSettled
  /\ RecordsAreDue
  /\ CalmPipelines /\ NumbersAreContinuous

-----------------------------------------------------------------------------
(***************************************************************************)
(* What a source is made of.                                               *)
(***************************************************************************)
LEMMA SourceKinds ==
  ASSUME NEW s \in Sources
  PROVE  \/ s[1] = "fee" /\ s[2] \in Records /\ s = <<"fee", s[2]>>
         \/ /\ s[1] = "month" /\ s[2][1] \in Orgs /\ s[2][2] \in Months
            /\ s[2] \in Orgs \X Months /\ s = <<"month", <<s[2][1], s[2][2]>>>>
         \/ s[1] = "subscription" /\ s[2] \in Events
            /\ s = <<"subscription", s[2]>>
BY DEF Sources

LEMMA IdleIsSound == Idle \in TaskType /\ Sound(Idle)
BY InvoicingAssumption DEF Idle, Pipeline, None, TaskType, Sound, Steps, Months

(***************************************************************************)
(* The four ways on from an invoice.                                       *)
(***************************************************************************)
After(t, n) ==
  IF t.source[1] = "subscription" THEN n = [t EXCEPT !.pc = "settle"]
  ELSE IF t.todo # {}
    THEN \E o \in t.todo : n = Visit(o, t.source[2][2], t.todo \ {o}, t.auto)
  ELSE n = IF t.auto THEN [t EXCEPT !.pc = "mark"] ELSE Idle

LEMMA GoOnMoves ==
  ASSUME NEW p \in Procs, GoOn(p)
  PROVE  \E n : After(task[p], n) /\ task' = [task EXCEPT ![p] = n]
<1> DEFINE t == task[p]
<1>1. CASE t.source[1] = "subscription"
  BY <1>1 DEF GoOn, Goto, Become, After
<1>2. CASE t.source[1] # "subscription" /\ t.todo # {}
  BY <1>2 DEF GoOn, Become, After
<1>3. CASE t.source[1] # "subscription" /\ t.todo = {}
  BY <1>3 DEF GoOn, Goto, Become, After
<1> QED BY <1>1, <1>2, <1>3

LEMMA VisitIsSound ==
  ASSUME NEW o \in Orgs, NEW m \in Months, NEW rest \in SUBSET Orgs,
         NEW auto \in BOOLEAN
  PROVE  Visit(o, m, rest, auto) \in TaskType /\ Sound(Visit(o, m, rest, auto))
<1>1. <<"month", <<o, m>>>> \in Sources
  BY DEF Sources
<1>2. Visit(o, m, rest, auto) \in TaskType
  BY <1>1, InvoicingAssumption DEF Visit, Pipeline, TaskType, Steps
<1>3. Sound(Visit(o, m, rest, auto))
  BY <1>1 DEF Visit, Pipeline, Sound
<1> QED BY <1>2, <1>3

LEMMA AfterIsSound ==
  ASSUME NEW t \in TaskType, Sound(t), t.pc # "idle", NEW n, After(t, n)
  PROVE  n \in TaskType /\ Sound(n)
<1>1. t.source \in Sources
  BY DEF Sound
<1>2. CASE t.source[1] = "subscription"
  <2>1. n = [t EXCEPT !.pc = "settle"]
    BY <1>2 DEF After
  <2> QED BY <2>1, <1>1, <1>2 DEF TaskType, Sound, Steps
<1>3. CASE t.source[1] # "subscription" /\ t.todo # {}
  <2>1. t.source[1] = "month" /\ t.source[2][2] \in Months
    BY <1>1, <1>3, SourceKinds DEF Sound
  <2>2. PICK o \in t.todo : n = Visit(o, t.source[2][2], t.todo \ {o}, t.auto)
    BY <1>3 DEF After
  <2>3. o \in Orgs /\ t.todo \ {o} \in SUBSET Orgs /\ t.auto \in BOOLEAN
    BY DEF TaskType
  <2> QED BY <2>1, <2>2, <2>3, VisitIsSound
<1>4. CASE t.source[1] # "subscription" /\ t.todo = {} /\ t.auto
  <2>1. n = [t EXCEPT !.pc = "mark"]
    BY <1>4 DEF After
  <2> QED BY <2>1, <1>1, <1>4 DEF TaskType, Sound, Steps
<1>5. CASE t.source[1] # "subscription" /\ t.todo = {} /\ ~ t.auto
  <2>1. n = Idle
    BY <1>5 DEF After
  <2> QED BY <2>1, IdleIsSound
<1> QED BY <1>2, <1>3, <1>4, <1>5

LEMMA FeeIsSound ==
  ASSUME NEW r \in Records
  PROVE  FeeOf(r) \in TaskType /\ Sound(FeeOf(r))
<1>1. <<"fee", r>> \in Sources
  BY DEF Sources
<1>2. FeeOf(r) \in TaskType
  BY <1>1, InvoicingAssumption DEF FeeOf, Pipeline, TaskType, Steps
<1> QED BY <1>1, <1>2 DEF FeeOf, Pipeline, Sound

-----------------------------------------------------------------------------
(***************************************************************************)
(* Types and the soundness of pipelines are inductive together.            *)
(***************************************************************************)
LEMMA OneMoves ==
  ASSUME TypeOK, PipelinesAreSound, NEW p \in Procs, NEW n \in TaskType,
         Sound(n), task' = [task EXCEPT ![p] = n]
  PROVE  task' \in [Procs -> TaskType] /\ PipelinesAreSound'
<1>1. \A q \in Procs : task'[q] = IF q = p THEN n ELSE task[q]
  BY DEF TypeOK
<1>2. task' \in [Procs -> TaskType]
  BY DEF TypeOK
<1>3. \A q \in Procs : Sound(task'[q])
  BY <1>1 DEF PipelinesAreSound
<1>4. ASSUME NEW q \in Procs PROVE Sound(task[q])'
  BY <1>3 DEF Sound, Idle, Pipeline, None, Sources, Records, Months
<1> QED BY <1>2, <1>4 DEF PipelinesAreSound

TasksAreSound == task' \in [Procs -> TaskType] /\ PipelinesAreSound'

LEMMA GoOnIsSound ==
  ASSUME TypeOK, PipelinesAreSound, NEW p \in Procs, ~ IsIdle(p), GoOn(p)
  PROVE  TasksAreSound
<1>1. PICK n : After(task[p], n) /\ task' = [task EXCEPT ![p] = n]
  BY GoOnMoves
<1>2. task[p] \in TaskType /\ Sound(task[p]) /\ task[p].pc # "idle"
  BY DEF TypeOK, PipelinesAreSound, IsIdle
<1>3. n \in TaskType /\ Sound(n)
  BY <1>1, <1>2, AfterIsSound
<1> QED BY <1>1, <1>3, OneMoves DEF TasksAreSound

LEMMA IdleIsWell ==
  ASSUME TypeOK, PipelinesAreSound, NEW p \in Procs, Become(p, Idle)
  PROVE  TasksAreSound
BY IdleIsSound, OneMoves DEF Become, TasksAreSound

LEMMA GiveUpIsSound ==
  ASSUME TypeOK, PipelinesAreSound, NEW p \in Procs, ~ IsIdle(p), GiveUp(p)
  PROVE  /\ TasksAreSound
         /\ failed' \subseteq Orgs \X Months
         /\ tripped' \subseteq Events
         /\ UNCHANGED <<claimed, queue, unowned>>
<1> DEFINE t == task[p]
<1>1. t.source \in Sources
  BY DEF PipelinesAreSound, Sound, IsIdle
<1>2. t.source[1] = "month" => t.source[2] \in Orgs \X Months
  BY <1>1, SourceKinds
<1>3. t.source[1] = "subscription" => t.source[2] \in Events
  BY <1>1, SourceKinds
<1>4. failed' \subseteq Orgs \X Months
  BY <1>2 DEF GiveUp, TypeOK
<1>5. tripped' \subseteq Events
  BY <1>3 DEF GiveUp, TypeOK
<1>6. CASE t.source[1] = "subscription"
  BY <1>4, <1>5, <1>6, IdleIsWell DEF GiveUp
<1>7. CASE t.source[1] # "subscription"
  BY <1>4, <1>5, <1>7, GoOnIsSound DEF GiveUp
<1> QED BY <1>6, <1>7

LEMMA TypesAreKept ==
  ASSUME TypeOK, PipelinesAreSound, Next
  PROVE  TypeOK' /\ PipelinesAreSound'
<1> USE InvoicingAssumption
<1> DEFINE Kept == /\ TasksAreSound
                   /\ month' \in Months
                   /\ transferred' \in [Records -> 0 .. MaxMonth]
                   /\ invoices' \subseteq InvoiceType
                   /\ nextNumber' \in Nat \ {0}
                   /\ claimed' \subseteq Events
                   /\ queue' \in [Events -> {"absent", "due", "done"}]
                   /\ marker' \in 0 .. MaxMonth
                   /\ faults' \in Nat
                   /\ failed' \subseteq Orgs \X Months
                   /\ tripped' \subseteq Events
                   /\ unowned' \subseteq Events
                   /\ calm' \in BOOLEAN
<1>1. SUFFICES Kept
  BY DEF TasksAreSound, TypeOK, InvoiceType, Months, Records, Sources,
         TaskType, Steps, None
<1> USE DEF envVars, dbVars, subVars
<1>2. task' = task => TasksAreSound
  BY DEF TasksAreSound, TypeOK, PipelinesAreSound, Sound, Idle, Pipeline, None,
         Sources, Records, Months
<1>3. ASSUME NEW r \in Records, TransferPartial(r) PROVE Kept
  BY <1>2, <1>3 DEF TransferPartial, TypeOK, Months
<1>4. ASSUME NEW p \in Procs, NEW r \in Records, Transfer(p, r) PROVE Kept
  <2>1. TasksAreSound
    BY <1>4, FeeIsSound, OneMoves DEF Transfer, Begin, Become, TasksAreSound
  <2> QED BY <1>4, <2>1 DEF Transfer, Begin, TypeOK, Months
<1>5. ASSUME NEW p \in Procs, NEW r \in Records, Backfill(p, r) PROVE Kept
  <2>1. TasksAreSound
    BY <1>5, FeeIsSound, OneMoves DEF Backfill, Become, TasksAreSound
  <2> QED BY <1>5, <2>1 DEF Backfill, TypeOK
<1>6. ASSUME NEW p \in Procs, NEW e \in Events,
             TakeEvent(p, e) \/ TakeUnowned(p, e)
      PROVE  Kept
  <2> DEFINE n(pc) == Pipeline(pc, <<"subscription", e>>, {}, {}, FALSE)
  <2>1. <<"subscription", e>> \in Sources
    BY DEF Sources
  <2>2. \A pc \in {"claim", "settle"} : n(pc) \in TaskType /\ Sound(n(pc))
    BY <2>1 DEF Pipeline, TaskType, Sound, Steps
  <2>3. TasksAreSound
    BY <1>6, <2>2, OneMoves DEF TakeEvent, TakeUnowned, Begin, Become, TasksAreSound
  <2>4. CASE TakeEvent(p, e)
    BY <2>3, <2>4 DEF TakeEvent, Begin, TypeOK
  <2>5. CASE TakeUnowned(p, e)
    BY <2>3, <2>5 DEF TakeUnowned, Begin, TypeOK
  <2> QED BY <1>6, <2>4, <2>5
<1>7. ASSUME NEW p \in Procs, NEW m \in Months, RunByHand(p, m) PROVE Kept
  <2>0. PICK todo \in {Orgs} \cup {{o} : o \in Orgs} :
          \E o \in todo : Begin(p, Visit(o, m, todo \ {o}, FALSE))
    BY <1>7 DEF RunByHand
  <2>1. PICK o \in todo : Begin(p, Visit(o, m, todo \ {o}, FALSE))
    BY <2>0
  <2>2. o \in Orgs /\ todo \ {o} \in SUBSET Orgs
    BY <2>1
  <2>3. TasksAreSound
    BY <2>1, <2>2, VisitIsSound, OneMoves DEF Begin, Become, TasksAreSound
  <2> QED BY <1>7, <2>1, <2>3 DEF RunByHand, Begin, TypeOK
<1>8. ASSUME NEW p \in Procs, Tick(p) \/ TickBlind(p) PROVE Kept
  <2>1. Batch(p)
    BY <1>8 DEF Tick, TickBlind
  <2>2. PICK o \in Orgs : Begin(p, Visit(o, month - 1, Orgs \ {o}, TRUE))
    BY <2>1 DEF Batch
  <2>3. month - 1 \in Months
    BY <2>1 DEF Batch, TypeOK, Months
  <2>4. TasksAreSound
    BY <2>2, <2>3, VisitIsSound, OneMoves DEF Begin, Become, TasksAreSound
  <2>5. faults' \in Nat
    BY <1>8 DEF Tick, TickBlind, TypeOK
  <2> QED BY <2>1, <2>2, <2>4, <2>5 DEF Batch, Begin, TypeOK
<1> DEFINE At(p, step) == [task[p] EXCEPT !.pc = step]
<1>9. ASSUME NEW p \in Procs, NEW step \in Steps,
             task' = [task EXCEPT ![p] = At(p, step)], Sound(At(p, step))
      PROVE  TasksAreSound
  <2>1. At(p, step) \in TaskType
    BY DEF TypeOK, TaskType
  <2> QED BY <1>9, <2>1, OneMoves DEF TasksAreSound
<1>10. ASSUME NEW p \in Procs, Goto(p, "probe"), task[p].pc = "claim"
       PROVE  TasksAreSound
  <2>1. Sound(At(p, "probe"))
    BY <1>10 DEF PipelinesAreSound, Sound, TypeOK, TaskType
  <2> QED BY <1>9, <1>10, <2>1 DEF Goto, Become, Steps
<1>11. ASSUME NEW p \in Procs, TryClaim(p) PROVE Kept
  <2> DEFINE e == task[p].source[2]
  <2>1. e \in Events
    BY <1>11, SourceKinds DEF TryClaim, PipelinesAreSound, Sound
  <2>2. CASE e \in claimed
    BY <1>11, <2>1, <2>2, GoOnIsSound DEF TryClaim, IsIdle, TypeOK
  <2>3. CASE e \notin claimed
    BY <1>10, <1>11, <2>1, <2>3 DEF TryClaim, TypeOK
  <2> QED BY <2>2, <2>3
<1>12. ASSUME NEW p \in Procs, ClaimFails(p) PROVE Kept
  <2>1. TasksAreSound
    BY <1>10, <1>12 DEF ClaimFails
  <2>2. faults' \in Nat
    BY <1>12 DEF ClaimFails, TypeOK
  <2>3. calm' \in BOOLEAN
    BY <1>12 DEF ClaimFails
  <2> QED BY <1>12, <2>1, <2>2, <2>3 DEF ClaimFails, TypeOK
<1>13. ASSUME NEW p \in Procs, Probe(p) PROVE Kept
  <2>1. CASE Invoiced(task[p].source)
    BY <1>13, <2>1, GoOnIsSound DEF Probe, IsIdle, TypeOK
  <2>2. CASE ~ Invoiced(task[p].source) /\ task[p].source[1] = "month"
    <3>1. Sound(At(p, "list"))
      BY <1>13, <2>2 DEF Probe, PipelinesAreSound, Sound, TypeOK, TaskType
    <3>2. TasksAreSound
      BY <1>9, <1>13, <2>2, <3>1 DEF Probe, Goto, Become, Steps
    <3> QED BY <1>13, <3>2 DEF Probe, TypeOK
  <2>3. CASE ~ Invoiced(task[p].source) /\ task[p].source[1] # "month"
    <3>1. Sound(At(p, "reserve"))
      BY <1>13, <2>3 DEF Probe, PipelinesAreSound, Sound, TypeOK, TaskType
    <3>2. TasksAreSound
      BY <1>9, <1>13, <2>3, <3>1 DEF Probe, Goto, Become, Steps
    <3> QED BY <1>13, <3>2 DEF Probe, TypeOK
  <2> QED BY <2>1, <2>2, <2>3
<1>14. ASSUME NEW p \in Procs, SkipFee(p) PROVE Kept
  BY <1>14, GoOnIsSound DEF SkipFee, IsIdle, TypeOK
<1>15. ASSUME NEW p \in Procs, ListRecords(p) PROVE Kept
  <2> DEFINE t == task[p]
             due == Outstanding(t.source[2][1], t.source[2][2])
             n == [t EXCEPT !.pc = "reserve", !.asOf = month, !.items = due]
  <2>1. CASE due = {}
    BY <1>15, <2>1, GoOnIsSound DEF ListRecords, IsIdle, TypeOK
  <2>2. CASE due # {}
    <3>1. due \in SUBSET Records /\ month \in 0 .. MaxMonth
      BY DEF Outstanding, TypeOK, Months
    <3>2. n \in TaskType
      BY <3>1 DEF TypeOK, TaskType, Steps
    <3>3. Sound(n)
      BY <1>15 DEF ListRecords, PipelinesAreSound, Sound, TypeOK, TaskType
    <3>4. TasksAreSound
      BY <1>15, <2>2, <3>2, <3>3, OneMoves
         DEF ListRecords, Become, TasksAreSound
    <3> QED BY <1>15, <3>4 DEF ListRecords, TypeOK
  <2> QED BY <2>1, <2>2
<1>16. ASSUME NEW p \in Procs, ReserveNumber(p) PROVE Kept
  <2> DEFINE n == [task[p] EXCEPT !.pc = "persist", !.number = nextNumber]
  <2>1. n \in TaskType
    BY DEF TypeOK, TaskType, Steps
  <2>2. Sound(n)
    BY <1>16 DEF ReserveNumber, PipelinesAreSound, Sound, TypeOK, TaskType
  <2>3. TasksAreSound
    BY <1>16, <2>1, <2>2, OneMoves DEF ReserveNumber, Become, TasksAreSound
  <2> QED BY <1>16, <2>3 DEF ReserveNumber, TypeOK
<1>17. ASSUME NEW p \in Procs, CreateInvoice(p) PROVE Kept
  <2>1. CASE Taken(task[p])
    BY <1>17, <2>1, GiveUpIsSound DEF CreateInvoice, IsIdle, TypeOK
  <2>2. CASE ~ Taken(task[p])
    <3> DEFINE t == task[p]
               row == [number |-> t.number, source |-> t.source,
                       items |-> t.items, asOf |-> t.asOf]
    <3>1. row \in InvoiceType
      BY <1>17 DEF CreateInvoice, TypeOK, TaskType, InvoiceType,
                   PipelinesAreSound, Sound
    <3>2. TasksAreSound
      BY <1>17, <2>2, GoOnIsSound DEF CreateInvoice, IsIdle
    <3> QED BY <1>17, <2>2, <3>1, <3>2 DEF CreateInvoice, TypeOK
  <2> QED BY <2>1, <2>2
<1>18. ASSUME NEW p \in Procs, MarkMonth(p) PROVE Kept
  <2>1. task[p].source[2][2] \in Months
    BY <1>18, SourceKinds DEF MarkMonth, PipelinesAreSound, Sound
  <2> QED BY <1>18, <2>1, IdleIsWell DEF MarkMonth, TypeOK, Months
<1>19. ASSUME NEW p \in Procs, Settle(p) PROVE Kept
  BY <1>19, IdleIsWell DEF Settle, TypeOK
<1>20. ASSUME NEW p \in Procs, Fail(p) PROVE Kept
  <2>1. ~ IsIdle(p) /\ GiveUp(p)
    BY <1>20 DEF Fail, IsIdle
  <2>2. faults' \in Nat
    BY <1>20 DEF Fail, TypeOK
  <2>3. calm' \in BOOLEAN
    BY <1>20 DEF Fail
  <2> QED BY <1>20, <2>1, <2>2, <2>3, GiveUpIsSound DEF Fail, TypeOK
<1>21. ASSUME NEW p \in Procs, Crash(p) PROVE Kept
  <2>1. TasksAreSound
    BY <1>21, IdleIsWell DEF Crash
  <2>2. faults' \in Nat
    BY <1>21 DEF Crash, TypeOK
  <2>3. calm' \in BOOLEAN
    BY <1>21 DEF Crash
  <2> QED BY <1>21, <2>1, <2>2, <2>3 DEF Crash, TypeOK
<1>22. ASSUME NEW e \in Events, Deliver(e) \/ ExpireClaim(e) PROVE Kept
  BY <1>2, <1>22 DEF Deliver, ExpireClaim, TypeOK
<1>23. ASSUME NextMonth PROVE Kept
  BY <1>2, <1>23 DEF NextMonth, TypeOK, Months
<1> QED
  BY <1>3, <1>4, <1>5, <1>6, <1>7, <1>8, <1>11, <1>12, <1>13, <1>14, <1>15,
     <1>16, <1>17, <1>18, <1>19, <1>20, <1>21, <1>22, <1>23 DEF Next, Step

-----------------------------------------------------------------------------
(***************************************************************************)
(* How the tasks and the rows can change.                                  *)
(***************************************************************************)
Moves(p, n) == \A q \in Procs : task'[q] = IF q = p THEN n ELSE task[q]

LEMMA BecomeMoves ==
  ASSUME TypeOK, NEW p \in Procs, NEW n, Become(p, n)
  PROVE  Moves(p, n)
BY DEF TypeOK, Become, Moves

LEMMA GotoMoves ==
  ASSUME TypeOK, NEW p \in Procs, NEW step, Goto(p, step)
  PROVE  \E n : /\ Moves(p, n) /\ n.pc = step
                /\ n.source = task[p].source /\ n.items = task[p].items
                /\ n.number = task[p].number /\ n.todo = task[p].todo
                /\ n.auto = task[p].auto /\ n.asOf = task[p].asOf
<1> DEFINE n == [task[p] EXCEPT !.pc = step]
<1>1. Moves(p, n)
  BY DEF Goto, Become, TypeOK, Moves
<1>2. task[p] \in TaskType
  BY DEF TypeOK
<1>3. /\ n.pc = step
      /\ n.source = task[p].source /\ n.items = task[p].items
      /\ n.number = task[p].number /\ n.todo = task[p].todo
      /\ n.auto = task[p].auto /\ n.asOf = task[p].asOf
  BY <1>2 DEF TaskType
<1> QED BY <1>1, <1>3

\* Where a pipeline is once its invoice is out of the way.
Released(t, n) ==
  \/ n = Idle
  \/ /\ n.pc = "settle" /\ t.source[1] = "subscription"
     /\ n.source = t.source /\ n.items = t.items /\ n.auto = t.auto
  \/ /\ n.pc = "probe" /\ t.source[1] = "month" /\ n.items = {}
     /\ \E o \in t.todo : /\ n.source = <<"month", <<o, t.source[2][2]>>>>
                          /\ n.todo = t.todo \ {o} /\ n.auto = t.auto
  \/ /\ n.pc = "mark" /\ t.source[1] = "month" /\ t.auto /\ t.todo = {}
     /\ n.source = t.source /\ n.items = t.items
     /\ n.todo = {} /\ n.auto = t.auto

LEMMA GoOnReleases ==
  ASSUME TypeOK, PipelinesAreSound, NEW p \in Procs, ~ IsIdle(p), GoOn(p)
  PROVE  \E n : Moves(p, n) /\ Released(task[p], n)
<1> DEFINE t == task[p]
<1>1. PICK n : After(t, n) /\ task' = [task EXCEPT ![p] = n]
  BY GoOnMoves
<1>2. Moves(p, n)
  BY <1>1 DEF Moves, TypeOK
<1>3. t \in TaskType /\ Sound(t) /\ t.source \in Sources
  BY DEF TypeOK, PipelinesAreSound, IsIdle, Sound
<1>4. CASE t.source[1] = "subscription"
  <2>1. n = [t EXCEPT !.pc = "settle"]
    BY <1>1, <1>4 DEF After
  <2>2. /\ n.pc = "settle" /\ n.source = t.source
        /\ n.items = t.items /\ n.auto = t.auto
    BY <2>1, <1>3 DEF TaskType
  <2> QED BY <1>2, <1>4, <2>2 DEF Released
<1>5. CASE t.source[1] # "subscription" /\ t.todo # {}
  <2>1. t.source[1] = "month"
    BY <1>3, <1>5 DEF Sound
  <2>2. PICK o \in t.todo : n = Visit(o, t.source[2][2], t.todo \ {o}, t.auto)
    BY <1>1, <1>5 DEF After
  <2>3. /\ n.pc = "probe" /\ n.items = {}
        /\ n.source = <<"month", <<o, t.source[2][2]>>>>
        /\ n.todo = t.todo \ {o} /\ n.auto = t.auto
    BY <2>2 DEF Visit, Pipeline
  <2> QED BY <1>2, <2>1, <2>3 DEF Released
<1>6. CASE t.source[1] # "subscription" /\ t.todo = {} /\ t.auto
  <2>1. n = [t EXCEPT !.pc = "mark"]
    BY <1>1, <1>6 DEF After
  <2>2. t.source[1] = "month"
    BY <1>3, <1>6 DEF Sound
  <2>3. /\ n.pc = "mark" /\ n.source = t.source /\ n.items = t.items
        /\ n.todo = t.todo /\ n.auto = t.auto
    BY <2>1, <1>3 DEF TaskType
  <2> QED BY <1>2, <1>6, <2>2, <2>3 DEF Released
<1>7. CASE t.source[1] # "subscription" /\ t.todo = {} /\ ~ t.auto
  BY <1>1, <1>2, <1>7 DEF After, Released
<1> QED BY <1>4, <1>5, <1>6, <1>7

LEMMA GiveUpReleases ==
  ASSUME TypeOK, PipelinesAreSound, NEW p \in Procs, ~ IsIdle(p), GiveUp(p)
  PROVE  \E n : /\ Moves(p, n) /\ Released(task[p], n)
                /\ n # Idle => task[p].source[1] # "subscription"
<1>1. CASE task[p].source[1] = "subscription"
  BY <1>1, BecomeMoves DEF GiveUp, Released
<1>2. CASE task[p].source[1] # "subscription"
  BY <1>2, GoOnReleases DEF GiveUp
<1> QED BY <1>1, <1>2

Row(t) == [number |-> t.number, source |-> t.source, items |-> t.items,
           asOf |-> t.asOf]

(***************************************************************************)
(* Invoices, failures and counters only grow, and only a pipeline about to *)
(* insert a row that nothing takes adds one.                               *)
(***************************************************************************)
LEMMA RowsGrow ==
  ASSUME Next
  PROVE  /\ invoices \subseteq invoices' /\ Billed \subseteq Billed'
         /\ tripped \subseteq tripped' /\ unowned \subseteq unowned'
         /\ failed \subseteq failed'
         /\ \/ invoices' = invoices
            \/ \E p \in Procs : /\ CreateInvoice(p) /\ ~ Taken(task[p])
                                /\ invoices' = invoices \cup {Row(task[p])}
<1> USE DEF envVars, dbVars, subVars
<1>1. ASSUME NEW p \in Procs, GiveUp(p)
      PROVE  /\ tripped \subseteq tripped' /\ unowned \subseteq unowned'
             /\ failed \subseteq failed'
  BY <1>1 DEF GiveUp
<1> DEFINE Grown ==
      /\ tripped \subseteq tripped' /\ unowned \subseteq unowned'
      /\ failed \subseteq failed'
      /\ \/ invoices' = invoices
         \/ \E p \in Procs : /\ CreateInvoice(p) /\ ~ Taken(task[p])
                             /\ invoices' = invoices \cup {Row(task[p])}
<1>2. Grown
  <2>1. ASSUME NEW p \in Procs, CreateInvoice(p) PROVE Grown
    BY <1>1, <2>1 DEF CreateInvoice, Row
  <2>2. ASSUME NEW p \in Procs, Fail(p) \/ Crash(p) PROVE Grown
    BY <1>1, <2>2 DEF Fail, Crash
  <2>3. ASSUME NEW p \in Procs, NEW r \in Records,
               Transfer(p, r) \/ Backfill(p, r)
        PROVE Grown
    BY <2>3 DEF Transfer, Backfill
  <2>4. ASSUME NEW p \in Procs, NEW e \in Events,
               TakeEvent(p, e) \/ TakeUnowned(p, e)
        PROVE  Grown
    BY <2>4 DEF TakeEvent, TakeUnowned
  <2>5. ASSUME NEW p \in Procs, NEW m \in Months, RunByHand(p, m) PROVE Grown
    BY <2>5 DEF RunByHand
  <2>6. ASSUME NEW p \in Procs, Tick(p) \/ TickBlind(p) PROVE Grown
    BY <2>6 DEF Tick, TickBlind, Batch
  <2>7. ASSUME NEW p \in Procs, TryClaim(p) \/ ClaimFails(p) PROVE Grown
    BY <2>7 DEF TryClaim, ClaimFails
  <2>8. ASSUME NEW p \in Procs, Probe(p) \/ SkipFee(p) \/ ListRecords(p)
        PROVE Grown
    BY <2>8 DEF Probe, SkipFee, ListRecords
  <2>9. ASSUME NEW p \in Procs, ReserveNumber(p) \/ MarkMonth(p) \/ Settle(p)
        PROVE Grown
    BY <2>9 DEF ReserveNumber, MarkMonth, Settle
  <2>10. ASSUME NEW e \in Events, Deliver(e) \/ ExpireClaim(e) PROVE Grown
    BY <2>10 DEF Deliver, ExpireClaim
  <2>11. ASSUME NextMonth PROVE Grown
    BY <2>11 DEF NextMonth
  <2>12. ASSUME NEW r \in Records, TransferPartial(r) PROVE Grown
    BY <2>12 DEF TransferPartial
  <2> QED
    BY <2>1, <2>2, <2>3, <2>4, <2>5, <2>6, <2>7, <2>8, <2>9, <2>10, <2>11,
       <2>12 DEF Next, Step
<1>3. invoices \subseteq invoices'
  BY <1>2
<1> QED BY <1>2, <1>3 DEF Billed

-----------------------------------------------------------------------------
(***************************************************************************)
(* Numbers: a number is drawn by ReserveNumber and in no other step.       *)
(***************************************************************************)
LEMMA NoNumberDrawn ==
  ASSUME TypeOK, PipelinesAreSound, Next,
         \A p \in Procs : ~ ReserveNumber(p)
  PROVE  /\ nextNumber' = nextNumber
         /\ \A q \in Procs : Drawn(task'[q]) => task'[q] = task[q]
<1> DEFINE Kept == /\ nextNumber' = nextNumber
                   /\ \A q \in Procs : Drawn(task'[q]) => task'[q] = task[q]
<1> USE DEF envVars, dbVars, subVars
<1>1. ASSUME NEW p \in Procs, NEW n, Moves(p, n), n.pc # "persist",
             nextNumber' = nextNumber
      PROVE  Kept
  BY <1>1 DEF Moves, Drawn
<1>2. ASSUME NEW p \in Procs, NEW step, Goto(p, step), step # "persist",
             nextNumber' = nextNumber
      PROVE  Kept
  BY <1>1, <1>2, GotoMoves
<1>3. ASSUME NEW p \in Procs, ~ IsIdle(p), GoOn(p), nextNumber' = nextNumber
      PROVE  Kept
  BY <1>1, <1>3, GoOnReleases DEF Released, Idle, Pipeline
<1>4. ASSUME NEW p \in Procs, Become(p, Idle), nextNumber' = nextNumber
      PROVE  Kept
  BY <1>1, <1>4, BecomeMoves DEF Idle, Pipeline
<1>5. ASSUME NEW p \in Procs, NEW r \in Records,
             Transfer(p, r) \/ Backfill(p, r)
      PROVE  Kept
  BY <1>1, <1>5, BecomeMoves DEF Transfer, Backfill, Begin, FeeOf, Pipeline
<1>6. ASSUME NEW p \in Procs, NEW e \in Events,
             TakeEvent(p, e) \/ TakeUnowned(p, e)
      PROVE  Kept
  BY <1>1, <1>6, BecomeMoves DEF TakeEvent, TakeUnowned, Begin, Pipeline
<1>7. ASSUME NEW p \in Procs, NEW m \in Months, RunByHand(p, m) PROVE Kept
  BY <1>1, <1>7, BecomeMoves DEF RunByHand, Begin, Visit, Pipeline
<1>8. ASSUME NEW p \in Procs, Tick(p) \/ TickBlind(p) PROVE Kept
  BY <1>1, <1>8, BecomeMoves DEF Tick, TickBlind, Batch, Begin, Visit, Pipeline
<1>9. ASSUME NEW p \in Procs, TryClaim(p) \/ ClaimFails(p) PROVE Kept
  BY <1>2, <1>3, <1>9 DEF TryClaim, ClaimFails, IsIdle
<1>10. ASSUME NEW p \in Procs, Probe(p) \/ SkipFee(p) PROVE Kept
  BY <1>2, <1>3, <1>10 DEF Probe, SkipFee, IsIdle
<1>11. ASSUME NEW p \in Procs, ListRecords(p) PROVE Kept
  <2> DEFINE t == task[p]
             due == Outstanding(t.source[2][1], t.source[2][2])
             n == [t EXCEPT !.pc = "reserve", !.asOf = month, !.items = due]
  <2>1. CASE due = {}
    BY <1>3, <1>11, <2>1 DEF ListRecords, IsIdle
  <2>2. CASE due # {}
    <3>1. Moves(p, n)
      BY <1>11, <2>2, BecomeMoves DEF ListRecords
    <3>2. n.pc = "reserve"
      BY DEF TypeOK, TaskType
    <3> QED BY <1>1, <1>11, <3>1, <3>2 DEF ListRecords
  <2> QED BY <2>1, <2>2
<1>12. ASSUME NEW p \in Procs, CreateInvoice(p) \/ Fail(p) PROVE Kept
  <2>1. ~ IsIdle(p) /\ nextNumber' = nextNumber
    BY <1>12 DEF CreateInvoice, Fail, IsIdle
  <2>2. CASE GiveUp(p)
    BY <1>1, <2>1, <2>2, GiveUpReleases DEF Released, Idle, Pipeline
  <2>3. CASE GoOn(p)
    BY <1>3, <2>1, <2>3
  <2> QED BY <1>12, <2>2, <2>3 DEF CreateInvoice, Fail
<1>13. ASSUME NEW p \in Procs, MarkMonth(p) \/ Settle(p) \/ Crash(p)
       PROVE  Kept
  BY <1>4, <1>13 DEF MarkMonth, Settle, Crash
<1>14. ASSUME NEW e \in Events, Deliver(e) \/ ExpireClaim(e) PROVE Kept
  BY <1>14 DEF Deliver, ExpireClaim
<1>15. ASSUME NEW r \in Records, TransferPartial(r) PROVE Kept
  BY <1>15 DEF TransferPartial
<1>16. ASSUME NextMonth PROVE Kept
  BY <1>16 DEF NextMonth
<1> QED
  BY <1>5, <1>6, <1>7, <1>8, <1>9, <1>10, <1>11, <1>12, <1>13, <1>14, <1>15,
     <1>16 DEF Next, Step

LEMMA NumbersAreKept ==
  ASSUME TypeOK, PipelinesAreSound, IssuedOnce, NumbersAreOwned, Next
  PROVE  IssuedOnce' /\ NumbersAreOwned'
<1>1. /\ nextNumber \in Nat
      /\ \A i \in invoices : i.number \in Nat
      /\ \A q \in Procs : task[q].number \in Nat
  BY DEF TypeOK, InvoiceType, TaskType
<1>2. CASE \E p \in Procs : ReserveNumber(p)
  <2>1. PICK p \in Procs : ReserveNumber(p)
    BY <1>2
  <2> DEFINE n == [task[p] EXCEPT !.pc = "persist", !.number = nextNumber]
  <2>2. Moves(p, n) /\ n.number = nextNumber
    BY <2>1, BecomeMoves DEF ReserveNumber, TypeOK, TaskType
  <2>3. invoices' = invoices /\ nextNumber' = nextNumber + 1
    BY <2>1 DEF ReserveNumber
  <2>4. \A q \in Procs \ {p} : task'[q] = task[q]
    BY <2>2 DEF Moves
  <2>5. task'[p].number = nextNumber
    BY <2>2 DEF Moves
  <2>6. IssuedOnce'
    BY <2>3 DEF IssuedOnce
  <2>7. \A i \in invoices' : i.number < nextNumber'
    BY <1>1, <2>3 DEF NumbersAreOwned
  <2>8. ASSUME NEW q \in Procs, Drawn(task'[q])
        PROVE  /\ task'[q].number < nextNumber'
               /\ \A i \in invoices' : i.number # task'[q].number
               /\ \A z \in Procs :
                    Drawn(task'[z]) /\ task'[z].number = task'[q].number =>
                      z = q
    <3>1. CASE q = p
      BY <1>1, <2>3, <2>4, <2>5, <3>1 DEF NumbersAreOwned
    <3>2. CASE q # p
      BY <1>1, <2>3, <2>4, <2>5, <2>8, <3>2 DEF NumbersAreOwned
    <3> QED BY <3>1, <3>2
  <2> QED BY <2>6, <2>7, <2>8 DEF NumbersAreOwned, Drawn
<1>3. CASE \A p \in Procs : ~ ReserveNumber(p)
  <2>1. /\ nextNumber' = nextNumber
        /\ \A q \in Procs : Drawn(task'[q]) => task'[q] = task[q]
    BY <1>3, NoNumberDrawn
  <2>2. CASE invoices' = invoices
    <3>1. IssuedOnce'
      BY <2>2 DEF IssuedOnce
    <3> QED BY <2>1, <2>2, <3>1 DEF NumbersAreOwned, Drawn
  <2>3. CASE invoices' # invoices
    <3>1. PICK p \in Procs :
            /\ CreateInvoice(p) /\ ~ Taken(task[p])
            /\ invoices' = invoices \cup {Row(task[p])}
      BY <2>3, RowsGrow
    <3> DEFINE row == Row(task[p])
    <3>2. Drawn(task[p])
      BY <3>1 DEF CreateInvoice, Drawn
    <3>3. ~ Drawn(task'[p])
      <4>1. ~ IsIdle(p) /\ GoOn(p)
        BY <3>1 DEF CreateInvoice, IsIdle
      <4>2. PICK n : Moves(p, n) /\ Released(task[p], n)
        BY <4>1, GoOnReleases
      <4> QED BY <4>2 DEF Moves, Released, Drawn, Idle, Pipeline
    <3>4. /\ row.number = task[p].number /\ row.source = task[p].source
          /\ row.items = task[p].items
      BY DEF Row
    <3>5. \A i \in invoices : /\ i.number # row.number
                              /\ i.source # row.source
                              /\ i.items \cap row.items = {}
      BY <3>1, <3>2, <3>4 DEF NumbersAreOwned, Taken, Invoiced, Billed
    <3>6. IssuedOnce'
      BY <3>1, <3>5 DEF IssuedOnce
    <3>7. \A i \in invoices' : i.number < nextNumber'
      BY <2>1, <3>1, <3>2, <3>4 DEF NumbersAreOwned
    <3>8. \A q \in Procs : Drawn(task'[q]) =>
            task'[q] = task[q] /\ q # p /\ Drawn(task[q])
      BY <2>1, <3>3 DEF Drawn
    <3>9. \A q \in Procs : Drawn(task[q]) /\ q # p =>
            row.number # task[q].number
      BY <3>2, <3>4 DEF NumbersAreOwned
    <3>10. \A q \in Procs : Drawn(task'[q]) =>
             /\ task'[q].number < nextNumber'
             /\ \A i \in invoices' : i.number # task'[q].number
             /\ \A z \in Procs :
                  Drawn(task'[z]) /\ task'[z].number = task'[q].number => z = q
      BY <2>1, <3>1, <3>8, <3>9 DEF NumbersAreOwned
    <3> QED BY <3>6, <3>7, <3>10 DEF NumbersAreOwned, Drawn
  <2> QED BY <2>2, <2>3
<1> QED BY <1>2, <1>3

-----------------------------------------------------------------------------
(***************************************************************************)
(* Claims: an event that has been answered stays so.  The pipeline that    *)
(* answers for it leaves an invoice or an entry in tripped behind.         *)
(***************************************************************************)
LEMMA AnsweredStays ==
  ASSUME TypeOK, PipelinesAreSound, Next, NEW e \in Events, Answered(e)
  PROVE  Answered(e)'
<1> DEFINE s == <<"subscription", e>>
           Kept == Answered(e)'
<1>1. CASE Invoiced(s) \/ e \in tripped \cup unowned
  BY <1>1, RowsGrow DEF Answered, Invoiced
<1>2. CASE ~ Invoiced(s) /\ \E q \in Procs : MakingBy(q, s)
  <2> USE DEF envVars, dbVars, subVars
  <2>1. PICK q \in Procs : MakingBy(q, s)
    BY <1>2
  <2>2. task[q].source = s /\ task[q].pc \in {"probe", "reserve", "persist"}
    BY <2>1 DEF MakingBy
  <2>3. /\ task[q].source[1] = "subscription" /\ task[q].source[2] = e
        /\ ~ IsIdle(q) /\ ~ Invoiced(task[q].source)
    BY <1>2, <2>2 DEF IsIdle
  <2>4. ASSUME NEW n, Moves(q, n), n.source = s,
               n.pc \in {"probe", "reserve", "persist"}
        PROVE  Kept
    BY <2>4 DEF Moves, MakingBy, Answered
  <2>5. ASSUME task'[q] = task[q] PROVE Kept
    BY <2>2, <2>5 DEF MakingBy, Answered
  <2>6. ASSUME NEW p \in Procs, NEW n, Become(p, n),
               task[p].pc \notin {"probe", "reserve", "persist"}
        PROVE  Kept
    BY <2>2, <2>5, <2>6, BecomeMoves DEF Moves
  <2>7. ASSUME NEW p \in Procs, ~ IsIdle(p), GoOn(p), p # q PROVE Kept
    BY <2>5, <2>7, GoOnReleases DEF Moves
  <2>8. ASSUME NEW p \in Procs, ~ IsIdle(p), GiveUp(p) PROVE Kept
    <3>1. CASE p # q
      BY <2>5, <2>8, <3>1, GiveUpReleases DEF Moves
    <3>2. CASE p = q
      BY <2>3, <2>8, <3>2 DEF GiveUp, Answered
    <3> QED BY <3>1, <3>2
  <2>9. ASSUME NEW p \in Procs, NEW step, Goto(p, step), p # q PROVE Kept
    BY <2>5, <2>9, GotoMoves DEF Moves
  <2>10. ASSUME NEW p \in Procs, NEW r \in Records,
                Transfer(p, r) \/ Backfill(p, r)
         PROVE  Kept
    BY <2>6, <2>10 DEF Transfer, Backfill, Begin, IsIdle
  <2>11. ASSUME NEW p \in Procs, NEW c \in Events,
                TakeEvent(p, c) \/ TakeUnowned(p, c)
         PROVE  Kept
    BY <2>6, <2>11 DEF TakeEvent, TakeUnowned, Begin, IsIdle
  <2>12. ASSUME NEW p \in Procs, NEW m \in Months, RunByHand(p, m) PROVE Kept
    BY <2>6, <2>12 DEF RunByHand, Begin, IsIdle
  <2>13. ASSUME NEW p \in Procs, Tick(p) \/ TickBlind(p) PROVE Kept
    BY <2>6, <2>13 DEF Tick, TickBlind, Batch, Begin, IsIdle
  <2>14. ASSUME NEW p \in Procs, TryClaim(p) \/ ClaimFails(p) PROVE Kept
    <3>1. p # q /\ ~ IsIdle(p)
      BY <2>2, <2>14 DEF TryClaim, ClaimFails, IsIdle
    <3> QED BY <2>7, <2>9, <2>14, <3>1 DEF TryClaim, ClaimFails
  <2>15. ASSUME NEW p \in Procs, Probe(p) PROVE Kept
    <3>1. CASE p # q
      BY <2>7, <2>9, <2>15, <3>1 DEF Probe, IsIdle
    <3>2. CASE p = q
      <4>1. Goto(q, "reserve")
        BY <2>3, <2>15, <3>2 DEF Probe
      <4> QED BY <2>2, <2>4, <4>1, GotoMoves
    <3> QED BY <3>1, <3>2
  <2>16. ASSUME NEW p \in Procs, SkipFee(p) PROVE Kept
    BY <2>3, <2>7, <2>16 DEF SkipFee, IsIdle
  <2>17. ASSUME NEW p \in Procs, ListRecords(p) PROVE Kept
    <3>1. p # q /\ ~ IsIdle(p)
      BY <2>2, <2>17 DEF ListRecords, IsIdle
    <3>2. CASE GoOn(p)
      BY <2>7, <3>1, <3>2
    <3>3. CASE ~ GoOn(p)
      <4>1. PICK n : Become(p, n)
        BY <2>17, <3>3 DEF ListRecords
      <4> QED BY <2>6, <2>17, <4>1 DEF ListRecords
    <3> QED BY <3>2, <3>3
  <2>18. ASSUME NEW p \in Procs, ReserveNumber(p) PROVE Kept
    <3> DEFINE n == [task[p] EXCEPT !.pc = "persist", !.number = nextNumber]
    <3>1. Moves(p, n) /\ n.pc = "persist" /\ n.source = task[p].source
      BY <2>18, BecomeMoves DEF ReserveNumber, TypeOK, TaskType
    <3> QED BY <2>2, <2>4, <2>5, <3>1 DEF Moves
  <2>19. ASSUME NEW p \in Procs, CreateInvoice(p) PROVE Kept
    <3>1. ~ IsIdle(p)
      BY <2>19 DEF CreateInvoice, IsIdle
    <3>2. CASE GiveUp(p)
      BY <2>8, <3>1, <3>2
    <3>3. CASE GoOn(p) /\ p # q
      BY <2>7, <3>1, <3>3
    <3>4. CASE ~ GiveUp(p) /\ p = q
      <4>1. Row(task[q]) \in invoices'
        BY <2>19, <3>4 DEF CreateInvoice, Row
      <4>2. Row(task[q]).source = s
        BY <2>2 DEF Row
      <4> QED BY <4>1, <4>2 DEF Answered, Invoiced
    <3> QED BY <2>19, <3>2, <3>3, <3>4 DEF CreateInvoice
  <2>20. ASSUME NEW p \in Procs, MarkMonth(p) \/ Settle(p) PROVE Kept
    BY <2>6, <2>20 DEF MarkMonth, Settle
  <2>21. ASSUME NEW p \in Procs, Fail(p) PROVE Kept
    BY <2>8, <2>21 DEF Fail, IsIdle
  <2>22. ASSUME NEW p \in Procs, Crash(p) PROVE Kept
    <3>1. CASE p # q
      BY <2>5, <2>22, <3>1, BecomeMoves DEF Crash, Moves
    <3>2. CASE p = q
      BY <2>1, <2>22, <3>2 DEF Crash, Answered
    <3> QED BY <3>1, <3>2
  <2>23. ASSUME NEW c \in Events, Deliver(c) \/ ExpireClaim(c) PROVE Kept
    BY <2>5, <2>23 DEF Deliver, ExpireClaim
  <2>24. ASSUME NEW r \in Records, TransferPartial(r) PROVE Kept
    BY <2>5, <2>24 DEF TransferPartial
  <2>25. ASSUME NextMonth PROVE Kept
    BY <2>5, <2>25 DEF NextMonth
  <2> QED
    BY <2>10, <2>11, <2>12, <2>13, <2>14, <2>15, <2>16, <2>17, <2>18, <2>19,
       <2>20, <2>21, <2>22, <2>23, <2>24, <2>25 DEF Next, Step
<1> QED BY <1>1, <1>2 DEF Answered

\* Answered(e)', of an event that a variable names.
AnsweredNext(e) ==
  LET s == <<"subscription", e>>
  IN \/ \E i \in invoices' : i.source = s
     \/ e \in tripped' \cup unowned'
     \/ \E p \in Procs : /\ task'[p].source = s
                        /\ task'[p].pc \in {"probe", "reserve", "persist"}

LEMMA ClaimsAreKept ==
  ASSUME TypeOK, PipelinesAreSound, ClaimsAreAnswered, Next
  PROVE  ClaimsAreAnswered'
<1> DEFINE Answers(e) == Answered(e) \/ AnsweredNext(e)
           Quiet == claimed' \subseteq claimed /\ queue' = queue
           Kept == /\ \A e \in Events :
                        e \in claimed' \/ queue'[e] = "done" => Answers(e)
                   /\ \A q \in Procs :
                        task'[q].pc = "settle" => Answers(task'[q].source[2])
<1> USE DEF envVars, dbVars, subVars
<1>1. ASSUME Quiet, task' = task PROVE Kept
  BY <1>1 DEF ClaimsAreAnswered
<1>2. ASSUME NEW p \in Procs, NEW n, Moves(p, n), Quiet,
             n.pc = "settle" => Answers(n.source[2])
      PROVE  Kept
  BY <1>2 DEF Moves, ClaimsAreAnswered
<1>3. ASSUME NEW p \in Procs, NEW n, Become(p, n), n.pc # "settle", Quiet
      PROVE  Kept
  BY <1>2, <1>3, BecomeMoves
<1>4. ASSUME NEW p \in Procs, NEW step, Goto(p, step), step # "settle", Quiet
      PROVE  Kept
  BY <1>2, <1>4, GotoMoves
<1>5. ASSUME NEW p \in Procs, ~ IsIdle(p), GoOn(p), Quiet,
             task[p].source[1] = "subscription" => Answers(task[p].source[2])
      PROVE  Kept
  <2>1. PICK n : Moves(p, n) /\ Released(task[p], n)
    BY <1>5, GoOnReleases
  <2>2. n.pc = "settle" => /\ task[p].source[1] = "subscription"
                           /\ n.source = task[p].source
    BY <2>1 DEF Released, Idle, Pipeline
  <2>3. n.pc = "settle" => Answers(n.source[2])
    BY <1>5, <2>2
  <2> QED BY <1>2, <1>5, <2>1, <2>3
<1>6. ASSUME NEW p \in Procs, ~ IsIdle(p), GiveUp(p) PROVE Kept
  <2>1. Quiet
    BY <1>6 DEF GiveUp
  <2>2. CASE task[p].source[1] = "subscription"
    BY <1>3, <1>6, <2>1, <2>2 DEF GiveUp, Idle, Pipeline
  <2>3. CASE task[p].source[1] # "subscription"
    BY <1>5, <1>6, <2>1, <2>3 DEF GiveUp
  <2> QED BY <2>2, <2>3
<1>7. \A p \in Procs : ~ IsIdle(p) /\ task[p].source[1] = "subscription" =>
        /\ task[p].source[2] \in Events
        /\ task[p].source = <<"subscription", task[p].source[2]>>
  BY SourceKinds DEF PipelinesAreSound, Sound, IsIdle
<1>8. ASSUME NEW p \in Procs, NEW r \in Records,
             Transfer(p, r) \/ Backfill(p, r)
      PROVE  Kept
  BY <1>3, <1>8 DEF Transfer, Backfill, Begin, FeeOf, Pipeline
<1>9. ASSUME NEW p \in Procs, NEW e \in Events,
             TakeEvent(p, e) \/ TakeUnowned(p, e)
      PROVE  Kept
  <2>1. CASE TakeEvent(p, e)
    BY <1>3, <2>1 DEF TakeEvent, Begin, Pipeline
  <2>2. CASE TakeUnowned(p, e)
    <3>1. PICK n : n = Pipeline("settle", <<"subscription", e>>, {}, {}, FALSE)
      OBVIOUS
    <3>2. Moves(p, n) /\ Quiet /\ n.source[2] = e
      BY <2>2, <3>1, BecomeMoves DEF TakeUnowned, Begin, Pipeline
    <3>3. AnsweredNext(e)
      BY <2>2 DEF TakeUnowned, AnsweredNext
    <3> QED BY <1>2, <3>2, <3>3
  <2> QED BY <1>9, <2>1, <2>2
<1>10. ASSUME NEW p \in Procs, NEW m \in Months, RunByHand(p, m) PROVE Kept
  BY <1>3, <1>10 DEF RunByHand, Begin, Visit, Pipeline
<1>11. ASSUME NEW p \in Procs, Tick(p) \/ TickBlind(p) PROVE Kept
  BY <1>3, <1>11 DEF Tick, TickBlind, Batch, Begin, Visit, Pipeline
<1>12. ASSUME NEW p \in Procs, TryClaim(p) PROVE Kept
  <2> DEFINE e == task[p].source[2]
  <2>1. ~ IsIdle(p) /\ task[p].source[1] = "subscription"
    BY <1>12 DEF TryClaim, IsIdle, PipelinesAreSound, Sound
  <2>2. CASE e \in claimed
    <3>1. Answered(e)
      BY <1>7, <2>1, <2>2 DEF ClaimsAreAnswered
    <3>2. Quiet /\ GoOn(p)
      BY <1>12, <2>2 DEF TryClaim
    <3> QED BY <1>5, <2>1, <3>1, <3>2
  <2>3. CASE e \notin claimed
    <3>1. Goto(p, "probe")
      BY <1>12, <2>3 DEF TryClaim
    <3>2. PICK n : Moves(p, n) /\ n.pc = "probe" /\ n.source = task[p].source
      BY <3>1, GotoMoves
    <3>3. AnsweredNext(e)
      BY <1>7, <2>1, <3>2 DEF Moves, AnsweredNext
    <3>4. claimed' = claimed \cup {e} /\ queue' = queue
      BY <1>12 DEF TryClaim
    <3> QED BY <3>2, <3>3, <3>4 DEF Moves, ClaimsAreAnswered
  <2> QED BY <2>2, <2>3
<1>13. ASSUME NEW p \in Procs, ClaimFails(p) PROVE Kept
  BY <1>4, <1>13 DEF ClaimFails
<1>14. ASSUME NEW p \in Procs, Probe(p) PROVE Kept
  <2>1. ~ IsIdle(p) /\ Quiet
    BY <1>14 DEF Probe, IsIdle
  <2>2. CASE Invoiced(task[p].source)
    <3>1. task[p].source[1] = "subscription" => Answered(task[p].source[2])
      BY <1>7, <2>1, <2>2 DEF Answered
    <3> QED BY <1>5, <1>14, <2>1, <2>2, <3>1 DEF Probe
  <2>3. CASE ~ Invoiced(task[p].source)
    BY <1>4, <1>14, <2>1, <2>3 DEF Probe
  <2> QED BY <2>2, <2>3
<1>15. ASSUME NEW p \in Procs, SkipFee(p) PROVE Kept
  BY <1>5, <1>15 DEF SkipFee, IsIdle
<1>16. ASSUME NEW p \in Procs, ListRecords(p) PROVE Kept
  <2> DEFINE t == task[p]
             due == Outstanding(t.source[2][1], t.source[2][2])
             n == [t EXCEPT !.pc = "reserve", !.asOf = month, !.items = due]
  <2>1. ~ IsIdle(p) /\ Quiet /\ t.source[1] = "month"
    BY <1>16 DEF ListRecords, IsIdle, PipelinesAreSound, Sound
  <2>2. CASE due = {}
    BY <1>5, <1>16, <2>1, <2>2 DEF ListRecords
  <2>3. CASE due # {}
    <3>1. Become(p, n)
      BY <1>16, <2>3 DEF ListRecords
    <3>2. n.pc = "reserve"
      BY DEF TypeOK, TaskType
    <3> QED BY <1>3, <2>1, <3>1, <3>2
  <2> QED BY <2>2, <2>3
<1>17. ASSUME NEW p \in Procs, ReserveNumber(p) PROVE Kept
  <2> DEFINE n == [task[p] EXCEPT !.pc = "persist", !.number = nextNumber]
  <2>1. Become(p, n) /\ n.pc = "persist" /\ Quiet
    BY <1>17 DEF ReserveNumber, TypeOK, TaskType
  <2> QED BY <1>3, <2>1
<1>18. ASSUME NEW p \in Procs, CreateInvoice(p) PROVE Kept
  <2>1. ~ IsIdle(p)
    BY <1>18 DEF CreateInvoice, IsIdle
  <2>2. CASE Taken(task[p])
    BY <1>6, <1>18, <2>1, <2>2 DEF CreateInvoice
  <2>3. CASE ~ Taken(task[p])
    <3>1. Row(task[p]) \in invoices' /\ Row(task[p]).source = task[p].source
      BY <1>18, <2>3 DEF CreateInvoice, Row
    <3>2. task[p].source[1] = "subscription" => AnsweredNext(task[p].source[2])
      BY <1>7, <2>1, <3>1 DEF AnsweredNext
    <3>3. GoOn(p) /\ Quiet
      BY <1>18, <2>3 DEF CreateInvoice
    <3> QED BY <1>5, <2>1, <3>2, <3>3
  <2> QED BY <2>2, <2>3
<1>19. ASSUME NEW p \in Procs, MarkMonth(p) \/ Crash(p) PROVE Kept
  BY <1>3, <1>19 DEF MarkMonth, Crash, Idle, Pipeline
<1>20. ASSUME NEW p \in Procs, Settle(p) PROVE Kept
  <2> DEFINE e == task[p].source[2]
  <2>1. Answered(e)
    BY <1>20 DEF Settle, ClaimsAreAnswered
  <2>2. Moves(p, Idle) /\ claimed' = claimed
    BY <1>20, BecomeMoves DEF Settle
  <2>3. \A c \in Events : queue'[c] = IF c = e THEN "done" ELSE queue[c]
    BY <1>20 DEF Settle, TypeOK
  <2> QED
    BY <2>1, <2>2, <2>3 DEF Moves, ClaimsAreAnswered, Idle, Pipeline
<1>21. ASSUME NEW p \in Procs, Fail(p) PROVE Kept
  BY <1>6, <1>21 DEF Fail, IsIdle
<1>22. ASSUME NEW e \in Events, Deliver(e) PROVE Kept
  BY <1>22 DEF Deliver, TypeOK, ClaimsAreAnswered
<1>23. ASSUME NEW e \in Events, ExpireClaim(e) PROVE Kept
  BY <1>1, <1>23 DEF ExpireClaim
<1>24. ASSUME NEW r \in Records, TransferPartial(r) PROVE Kept
  BY <1>1, <1>24 DEF TransferPartial
<1>25. ASSUME NextMonth PROVE Kept
  BY <1>1, <1>25 DEF NextMonth
<1>26. Kept
  BY <1>8, <1>9, <1>10, <1>11, <1>12, <1>13, <1>14, <1>15, <1>16, <1>17,
     <1>18, <1>19, <1>20, <1>21, <1>22, <1>23, <1>24, <1>25 DEF Next, Step
<1>27. \A e \in Events : Answers(e) => AnsweredNext(e)
  BY AnsweredStays DEF Answered, AnsweredNext, Invoiced, MakingBy
<1>28. ASSUME NEW q \in Procs, task'[q].pc = "settle"
       PROVE  task'[q].source[2] \in Events
  <2>1. Sound(task'[q])
    BY TypesAreKept DEF PipelinesAreSound, Sound, Idle, Pipeline, None,
                        Sources, Records, Months
  <2> QED BY <1>28, <2>1, SourceKinds DEF Sound
<1>29. \A e \in Events : e \in claimed' \/ queue'[e] = "done" =>
         AnsweredNext(e)
  BY <1>26, <1>27
<1>30. \A q \in Procs :
         task'[q].pc = "settle" => AnsweredNext(task'[q].source[2])
  BY <1>26, <1>27, <1>28
<1> QED
  BY <1>29, <1>30
     DEF ClaimsAreAnswered, Answered, AnsweredNext, MakingBy, Invoiced

-----------------------------------------------------------------------------
(***************************************************************************)
(* Months: money goes out in the current month, so what is outstanding of  *)
(* a month that is over only becomes less.                                 *)
(***************************************************************************)
LEMMA TransfersAreNow ==
  ASSUME TypeOK, Next
  PROVE  /\ month' \in Nat /\ month <= month'
         /\ \A r \in Records :
              transferred'[r] = transferred[r] \/ transferred'[r] = month
<1> USE DEF envVars
<1> DEFINE Kept == /\ month' \in Nat /\ month <= month'
                   /\ \A r \in Records : \/ transferred'[r] = transferred[r]
                                         \/ transferred'[r] = month
<1>1. month \in Nat /\ month <= month
  BY InvoicingAssumption DEF TypeOK, Months
<1>2. ASSUME NEW s \in Records, month' = month,
             transferred' = [transferred EXCEPT ![s] = month]
      PROVE  Kept
  BY <1>1, <1>2 DEF TypeOK
<1>3. ASSUME UNCHANGED envVars PROVE Kept
  BY <1>1, <1>3
<1>4. ASSUME NEW p \in Procs, NEW r \in Records,
             Transfer(p, r) \/ Backfill(p, r)
      PROVE  Kept
  BY <1>2, <1>3, <1>4 DEF Transfer, Backfill
<1>5. ASSUME NEW r \in Records, TransferPartial(r) PROVE Kept
  BY <1>2, <1>5 DEF TransferPartial
<1>6. ASSUME NextMonth PROVE Kept
  BY <1>1, <1>6 DEF NextMonth
<1>7. ASSUME NEW p \in Procs, NEW e \in Events,
             TakeEvent(p, e) \/ TakeUnowned(p, e)
      PROVE  Kept
  BY <1>3, <1>7 DEF TakeEvent, TakeUnowned
<1>8. ASSUME NEW p \in Procs, NEW m \in Months, RunByHand(p, m) PROVE Kept
  BY <1>3, <1>8 DEF RunByHand
<1>9. ASSUME NEW p \in Procs, Tick(p) \/ TickBlind(p) PROVE Kept
  BY <1>3, <1>9 DEF Tick, TickBlind, Batch
<1>10. ASSUME NEW p \in Procs, Step(p) PROVE Kept
  BY <1>3, <1>10 DEF Step, TryClaim, Probe, SkipFee, ListRecords,
                     ReserveNumber, CreateInvoice, MarkMonth, Settle
<1>11. ASSUME NEW p \in Procs, ClaimFails(p) \/ Fail(p) \/ Crash(p) PROVE Kept
  BY <1>3, <1>11 DEF ClaimFails, Fail, Crash
<1>12. ASSUME NEW e \in Events, Deliver(e) \/ ExpireClaim(e) PROVE Kept
  BY <1>3, <1>12 DEF Deliver, ExpireClaim
<1> QED
  BY <1>4, <1>5, <1>6, <1>7, <1>8, <1>9, <1>10, <1>11, <1>12 DEF Next

LEMMA SettledStays ==
  ASSUME TypeOK, Next, NEW o, NEW m \in Nat, m < month
  PROVE  /\ Outstanding(o, m)' \subseteq Outstanding(o, m)
         /\ Settled(o, m) => Settled(o, m)'
<1>1. month \in Nat
  BY DEF TypeOK, Months
<1>2. \A r \in Records : transferred'[r] = m => transferred[r] = m
  BY <1>1, TransfersAreNow
<1>3. Outstanding(o, m)' \subseteq Outstanding(o, m)
  BY <1>2, RowsGrow DEF Outstanding
<1>4. Excused(o, m) => Excused(o, m)'
  BY RowsGrow DEF Excused
<1> QED BY <1>3, <1>4 DEF Settled

LEMMA TasksStay ==
  ASSUME TypeOK, Next, NEW t \in TaskType, Sound(t), Listed(t), Behind(t)
  PROVE  Listed(t)' /\ Behind(t)'
<1> DEFINE o == t.source[2][1]
           m == t.source[2][2]
<1>1. /\ month \in Nat /\ t.asOf \in Nat
      /\ month <= month' /\ month' \in Nat
  BY TransfersAreNow DEF TypeOK, Months, TaskType
<1>2. t.source[1] = "month" => m \in Nat
  BY SourceKinds DEF Sound, Idle, Pipeline, None, Months
<1>3. Listed(t)'
  <2>1. CASE t.source[1] = "month" /\ t.pc \in {"reserve", "persist"}
    <3>1. m < t.asOf => Outstanding(o, m)' \subseteq Outstanding(o, m)
      BY <1>1, <1>2, <2>1, SettledStays DEF Listed
    <3> QED BY <1>1, <1>2, <2>1, <3>1 DEF Listed
  <2>2. CASE t.source[1] = "month" /\ t.pc \notin {"reserve", "persist"}
    BY <1>1, <1>2, <2>2 DEF Listed
  <2>3. CASE t.source[1] # "month"
    BY <2>3 DEF Listed
  <2> QED BY <2>1, <2>2, <2>3
<1>4. Behind(t)'
  <2>1. CASE t.auto
    <3>1. m \in Nat /\ m < month
      BY <1>2, <2>1 DEF Sound, Behind
    <3>2. \A c \in Orgs : Settled(c, m) => Settled(c, m)'
      BY <3>1, SettledStays
    <3> QED BY <1>1, <2>1, <3>1, <3>2 DEF Behind
  <2>2. CASE ~ t.auto
    BY <2>2 DEF Behind
  <2> QED BY <2>1, <2>2
<1> QED BY <1>3, <1>4

(***************************************************************************)
(* A batch that goes on has settled the organization it is through with.   *)
(***************************************************************************)
LEMMA ReleasedIsBehind ==
  ASSUME TypeOK, Next, NEW t \in TaskType, Sound(t), Listed(t), Behind(t),
         t.auto => Settled(t.source[2][1], t.source[2][2])',
         NEW n, Released(t, n)
  PROVE  Listed(n)' /\ Behind(n)'
<1> DEFINE m == t.source[2][2]
<1>1. /\ month \in Nat /\ month <= month' /\ month' \in Nat
      /\ t.source[1] = "month" => m \in Nat
  BY TransfersAreNow, SourceKinds
     DEF TypeOK, Months, Sound, Idle, Pipeline, None
<1>2. CASE n = Idle
  BY <1>2 DEF Listed, Behind, Idle, Pipeline, None
<1>3. CASE /\ n.pc = "settle" /\ t.source[1] = "subscription"
           /\ n.source = t.source /\ n.auto = t.auto
  BY <1>3 DEF Listed, Behind, Sound
<1>4. CASE /\ n.pc = "probe" /\ t.source[1] = "month"
           /\ \E o \in t.todo : /\ n.source = <<"month", <<o, m>>>>
                                /\ n.todo = t.todo \ {o} /\ n.auto = t.auto
  <2>1. PICK o \in t.todo : /\ n.source = <<"month", <<o, m>>>>
                            /\ n.todo = t.todo \ {o} /\ n.auto = t.auto
    BY <1>4
  <2>2. Listed(n)'
    BY <1>1, <1>4, <2>1 DEF Listed
  <2>3. CASE t.auto
    <3>1. m \in Nat /\ m < month /\ t.pc # "mark"
      BY <1>1, <1>4, <2>1, <2>3 DEF Behind, Sound
    <3>2. \A c \in Orgs : Settled(c, m) => Settled(c, m)'
      BY <3>1, SettledStays
    <3>3. \A c \in Orgs : c \notin t.todo => Settled(c, m)'
      BY <2>3, <3>2 DEF Behind
    <3>4. m < month'
      BY <1>1, <3>1
    <3>5. n.source[2][2] = m /\ n.source[2][1] = o /\ n.pc # "mark"
      BY <1>4, <2>1
    <3>6. \A c \in Orgs : c \notin n.todo /\ c # o => Settled(c, m)'
      BY <2>1, <3>3
    <3> QED BY <2>2, <3>4, <3>5, <3>6 DEF Behind
  <2>4. CASE ~ t.auto
    <3>1. ~ n.auto
      BY <2>1, <2>4
    <3> QED BY <2>2, <3>1 DEF Behind
  <2> QED BY <2>2, <2>3, <2>4
<1>5. CASE /\ n.pc = "mark" /\ t.source[1] = "month" /\ t.auto /\ t.todo = {}
           /\ n.source = t.source /\ n.todo = {} /\ n.auto = t.auto
  <2>1. Listed(n)'
    BY <1>1, <1>5 DEF Listed
  <2>2. m \in Nat /\ m < month
    BY <1>1, <1>5 DEF Behind
  <2>3. \A c \in Orgs : Settled(c, m) => Settled(c, m)'
    BY <2>2, SettledStays
  <2>4. \A c \in Orgs : Settled(c, m)'
    BY <1>5, <2>3 DEF Behind
  <2>5. m < month'
    BY <1>1, <2>2
  <2> QED BY <1>5, <2>1, <2>4, <2>5 DEF Behind
<1> QED BY <1>2, <1>3, <1>4, <1>5 DEF Released

LEMMA MarkerMoves ==
  ASSUME Next
  PROVE  marker' = marker \/ \E p \in Procs : MarkMonth(p)
<1> DEFINE Kept == marker' = marker \/ \E p \in Procs : MarkMonth(p)
<1>1. ASSUME NEW p \in Procs, NEW r \in Records,
             Transfer(p, r) \/ Backfill(p, r)
      PROVE  Kept
  BY <1>1 DEF Transfer, Backfill
<1>2. ASSUME NEW p \in Procs, NEW e \in Events,
             TakeEvent(p, e) \/ TakeUnowned(p, e)
      PROVE  Kept
  BY <1>2 DEF TakeEvent, TakeUnowned
<1>3. ASSUME NEW p \in Procs, NEW m \in Months, RunByHand(p, m) PROVE Kept
  BY <1>3 DEF RunByHand
<1>4. ASSUME NEW p \in Procs, Tick(p) \/ TickBlind(p) PROVE Kept
  BY <1>4 DEF Tick, TickBlind, Batch
<1>5. ASSUME NEW p \in Procs, Step(p) PROVE Kept
  BY <1>5 DEF Step, TryClaim, Probe, SkipFee, ListRecords, ReserveNumber,
              CreateInvoice, Settle
<1>6. ASSUME NEW p \in Procs, ClaimFails(p) \/ Fail(p) \/ Crash(p) PROVE Kept
  BY <1>6 DEF ClaimFails, Fail, Crash
<1>7. ASSUME NEW e \in Events, Deliver(e) \/ ExpireClaim(e) PROVE Kept
  BY <1>7 DEF Deliver, ExpireClaim
<1>8. ASSUME NEW r \in Records, TransferPartial(r) PROVE Kept
  BY <1>8 DEF TransferPartial
<1>9. ASSUME NextMonth PROVE Kept
  BY <1>9 DEF NextMonth
<1> QED
  BY <1>1, <1>2, <1>3, <1>4, <1>5, <1>6, <1>7, <1>8, <1>9 DEF Next

TasksAreSettled ==
  \A q \in Procs : \A t : t = task'[q] => Listed(t)' /\ Behind(t)'

LEMMA ListedIsKept ==
  ASSUME TypeOK, PipelinesAreSound, MonthsAreSettled, Next
  PROVE  TasksAreSettled
<1> DEFINE Kept == TasksAreSettled
<1> USE DEF envVars, dbVars, subVars
<1>1. \A q \in Procs : \A t : t = task[q] =>
        /\ t \in TaskType /\ Sound(t) /\ Listed(t) /\ Behind(t)
        /\ Listed(t)' /\ Behind(t)'
  BY TasksStay DEF TypeOK, PipelinesAreSound, MonthsAreSettled
<1>2. ASSUME task' = task PROVE Kept
  BY <1>1, <1>2 DEF TasksAreSettled
<1>3. ASSUME NEW p \in Procs, NEW n, Moves(p, n), Listed(n)', Behind(n)'
      PROVE  Kept
  BY <1>1, <1>3 DEF Moves, TasksAreSettled
<1>4. ASSUME NEW p \in Procs, NEW n, Moves(p, n), n.source[1] # "month",
             ~ n.auto
      PROVE  Kept
  BY <1>3, <1>4 DEF Listed, Behind
<1>5. \A p \in Procs : \A t : t = task[p] /\ t.auto =>
        /\ t.source[2][1] \in Orgs /\ t.source[2][2] \in Months
        /\ t.source[2] = <<t.source[2][1], t.source[2][2]>>
        /\ t.source = <<"month", <<t.source[2][1], t.source[2][2]>>>>
        /\ t.source[2][2] < month
        /\ Settled(t.source[2][1], t.source[2][2]) =>
             Settled(t.source[2][1], t.source[2][2])'
  <2> SUFFICES ASSUME NEW p \in Procs, NEW t, t = task[p], t.auto
               PROVE  /\ t.source[2][1] \in Orgs /\ t.source[2][2] \in Months
                      /\ t.source[2] = <<t.source[2][1], t.source[2][2]>>
                      /\ t.source =
                           <<"month", <<t.source[2][1], t.source[2][2]>>>>
                      /\ t.source[2][2] < month
                      /\ Settled(t.source[2][1], t.source[2][2]) =>
                           Settled(t.source[2][1], t.source[2][2])'
    OBVIOUS
  <2>1. t \in TaskType /\ Sound(t) /\ Behind(t)
    BY <1>1
  <2>2. t.source \in Sources /\ t.source[1] = "month"
    BY <2>1 DEF Sound, Idle, Pipeline
  <2>3. /\ t.source[2][1] \in Orgs /\ t.source[2][2] \in Months
        /\ t.source[2] = <<t.source[2][1], t.source[2][2]>>
        /\ t.source = <<"month", <<t.source[2][1], t.source[2][2]>>>>
    BY <2>2, SourceKinds
  <2>4. t.source[2][2] < month /\ t.source[2][2] \in Nat
    BY <2>1, <2>3 DEF Behind, Months
  <2> QED BY <2>3, <2>4, SettledStays
<1>6. ASSUME NEW p \in Procs, ~ IsIdle(p), GoOn(p),
             \A t : t = task[p] /\ t.auto =>
                      Settled(t.source[2][1], t.source[2][2])'
      PROVE  Kept
  <2>1. PICK t : t = task[p]
    OBVIOUS
  <2>2. PICK n : Moves(p, n) /\ Released(t, n)
    BY <1>6, <2>1, GoOnReleases
  <2>3. Listed(n)' /\ Behind(n)'
    BY <1>1, <1>6, <2>1, <2>2, ReleasedIsBehind
  <2> QED BY <1>3, <2>2, <2>3
<1>7. ASSUME NEW p \in Procs, ~ IsIdle(p), GiveUp(p) PROVE Kept
  <2>1. CASE task[p].source[1] = "subscription"
    BY <1>4, <1>7, <2>1, BecomeMoves DEF GiveUp, Idle, Pipeline, None
  <2>2. CASE task[p].source[1] # "subscription"
    <3>1. ASSUME NEW t, t = task[p], t.auto
          PROVE  Settled(t.source[2][1], t.source[2][2])'
      <4>1. t.source[1] = "month"
        BY <1>1, <3>1 DEF Sound
      <4>2. t.source[2] \in failed'
        BY <1>7, <3>1, <4>1 DEF GiveUp
      <4>3. <<t.source[2][1], t.source[2][2]>> \in failed'
        BY <1>5, <3>1, <4>2
      <4> QED BY <4>3 DEF Settled, Excused
    <3> QED BY <1>6, <1>7, <2>2, <3>1 DEF GiveUp
  <2> QED BY <2>1, <2>2
<1>8. ASSUME NEW p \in Procs, NEW step \in {"probe", "list"}, Goto(p, step),
             ~ IsIdle(p), task[p].pc # "mark"
      PROVE  Kept
  <2>1. PICK t : t = task[p]
    OBVIOUS
  <2>2. PICK n : /\ Moves(p, n) /\ n.pc = step /\ n.source = t.source
                 /\ n.todo = t.todo /\ n.auto = t.auto
    BY <1>8, <2>1, GotoMoves
  <2>3. Listed(t)' /\ Behind(t)'
    BY <1>1, <2>1
  <2>4. Listed(n)' /\ Behind(n)'
    BY <1>8, <2>1, <2>2, <2>3 DEF Listed, Behind
  <2> QED BY <1>3, <2>2, <2>4
<1>9. ASSUME NEW p \in Procs, Become(p, Idle) PROVE Kept
  BY <1>4, <1>9, BecomeMoves DEF Idle, Pipeline, None
<1>10. ASSUME NEW p \in Procs, NEW r \in Records,
              Transfer(p, r) \/ Backfill(p, r)
       PROVE  Kept
  <2>1. Become(p, FeeOf(r))
    BY <1>10 DEF Transfer, Backfill, Begin
  <2>2. FeeOf(r).source[1] # "month" /\ ~ FeeOf(r).auto
    BY DEF FeeOf, Pipeline
  <2> QED BY <1>4, <2>1, <2>2, BecomeMoves
<1>11. ASSUME NEW p \in Procs, NEW e \in Events,
              TakeEvent(p, e) \/ TakeUnowned(p, e)
       PROVE  Kept
  BY <1>4, <1>11, BecomeMoves DEF TakeEvent, TakeUnowned, Begin, Pipeline
<1>12. ASSUME NEW p \in Procs, NEW m \in Months, RunByHand(p, m) PROVE Kept
  <2>1. PICK o, rest : Become(p, Visit(o, m, rest, FALSE))
    BY <1>12 DEF RunByHand, Begin
  <2>2. PICK n : n = Visit(o, m, rest, FALSE)
    OBVIOUS
  <2>3. m <= month' /\ ~ n.auto
    BY <1>12, <2>2 DEF RunByHand, Visit, Pipeline
  <2>4. Listed(n)'
    BY <2>2, <2>3 DEF Visit, Pipeline, Listed
  <2>5. Behind(n)'
    BY <2>3 DEF Behind
  <2> QED BY <1>3, <2>1, <2>2, <2>4, <2>5, BecomeMoves
<1>13. ASSUME NEW p \in Procs, Tick(p) \/ TickBlind(p) PROVE Kept
  <2>1. PICK m : m = month - 1
    OBVIOUS
  <2>2. Batch(p) /\ month \in Nat /\ month' = month
    <3>1. Batch(p)
      BY <1>13 DEF Tick, TickBlind
    <3>2. month' = month
      BY <3>1 DEF Batch
    <3>3. month \in Nat
      BY InvoicingAssumption DEF TypeOK, Months
    <3> QED BY <3>1, <3>2, <3>3
  <2>3. PICK o \in Orgs : Become(p, Visit(o, m, Orgs \ {o}, TRUE))
    BY <2>1, <2>2 DEF Batch, Begin
  <2>4. PICK n : n = Visit(o, m, Orgs \ {o}, TRUE)
    OBVIOUS
  <2>5. m < month' /\ m <= month'
    BY <2>1, <2>2
  <2>6. Listed(n)'
    BY <2>4, <2>5 DEF Visit, Pipeline, Listed
  <2>7. Behind(n)'
    BY <2>4, <2>5 DEF Visit, Pipeline, Behind
  <2> QED BY <1>3, <2>3, <2>4, <2>6, <2>7, BecomeMoves
<1>14. ASSUME NEW p \in Procs, TryClaim(p) \/ ClaimFails(p) PROVE Kept
  <2>1. ~ IsIdle(p) /\ task[p].pc # "mark" /\ \A t : t = task[p] => ~ t.auto
    BY <1>1, <1>14 DEF TryClaim, ClaimFails, IsIdle, Sound
  <2> QED BY <1>6, <1>8, <1>14, <2>1 DEF TryClaim, ClaimFails
<1>15. ASSUME NEW p \in Procs, Probe(p) PROVE Kept
  <2>1. ~ IsIdle(p)
    BY <1>15 DEF Probe, IsIdle
  <2>2. CASE Invoiced(task[p].source)
    <3>1. ASSUME NEW t, t = task[p], t.auto
          PROVE  Settled(t.source[2][1], t.source[2][2])
      BY <1>5, <2>2, <3>1 DEF Invoiced, MonthsAreSettled, Settled, Excused
    <3> QED BY <1>5, <1>6, <1>15, <2>1, <2>2, <3>1 DEF Probe
  <2>3. CASE ~ Invoiced(task[p].source) /\ task[p].source[1] = "month"
    BY <1>8, <1>15, <2>1, <2>3 DEF Probe
  <2>4. CASE ~ Invoiced(task[p].source) /\ task[p].source[1] # "month"
    <3>1. PICK n : Moves(p, n) /\ n.source = task[p].source
                   /\ n.auto = task[p].auto
      BY <1>15, <2>4, GotoMoves DEF Probe
    <3>2. ~ task[p].auto
      BY <2>4 DEF PipelinesAreSound, Sound
    <3> QED BY <1>4, <2>4, <3>1, <3>2
  <2> QED BY <2>2, <2>3, <2>4
<1>16. ASSUME NEW p \in Procs, SkipFee(p) PROVE Kept
  <2>1. \A t : t = task[p] => ~ t.auto
    BY <1>1, <1>16 DEF SkipFee, Sound
  <2> QED BY <1>6, <1>16, <2>1 DEF SkipFee, IsIdle
<1>17. ASSUME NEW p \in Procs, ListRecords(p) PROVE Kept
  <2>1. PICK t : t = task[p]
    OBVIOUS
  <2> DEFINE o == t.source[2][1]
             m == t.source[2][2]
  <2>2. ~ IsIdle(p) /\ t.pc = "list" /\ t.source[1] = "month"
    BY <1>1, <1>17, <2>1 DEF ListRecords, IsIdle, Sound
  <2>3. CASE Outstanding(o, m) = {}
    <3>1. Settled(o, m)
      BY <2>3 DEF Settled
    <3>2. \A c : c = task[p] /\ c.auto =>
                   Settled(c.source[2][1], c.source[2][2])'
      BY <1>5, <2>1, <3>1
    <3> QED BY <1>6, <1>17, <2>1, <2>2, <2>3, <3>2 DEF ListRecords
  <2>4. CASE Outstanding(o, m) # {}
    <3>1. PICK due : due = Outstanding(o, m)
      OBVIOUS
    <3>2. PICK k : k = month
      OBVIOUS
    <3>3. PICK n : n = [t EXCEPT !.pc = "reserve", !.asOf = k, !.items = due]
      OBVIOUS
    <3>4. Become(p, n)
      BY <1>17, <2>1, <2>4, <3>1, <3>2, <3>3 DEF ListRecords
    <3>5. t \in TaskType /\ Listed(t) /\ Behind(t)'
      BY <1>1, <2>1
    <3>6. /\ n.pc = "reserve" /\ n.asOf = k /\ n.items = due
          /\ n.source = t.source /\ n.todo = t.todo /\ n.auto = t.auto
      BY <3>3, <3>5 DEF TaskType
    <3>7. month' = k /\ k \in Nat /\ Outstanding(o, m)' = due
      BY <1>17, <3>1, <3>2
         DEF ListRecords, TypeOK, Months, Outstanding, Billed
    <3>8. Listed(n)'
      BY <2>2, <3>2, <3>5, <3>6, <3>7 DEF Listed
    <3>9. Behind(n)'
      BY <2>2, <3>5, <3>6 DEF Behind
    <3> QED BY <1>3, <3>4, <3>8, <3>9, BecomeMoves
  <2> QED BY <2>3, <2>4
<1>18. ASSUME NEW p \in Procs, ReserveNumber(p) PROVE Kept
  <2>1. PICK t : t = task[p]
    OBVIOUS
  <2>2. PICK k : k = nextNumber
    OBVIOUS
  <2>3. PICK n : n = [t EXCEPT !.pc = "persist", !.number = k]
    OBVIOUS
  <2>4. Become(p, n) /\ t.pc = "reserve"
    BY <1>18, <2>1, <2>2, <2>3 DEF ReserveNumber
  <2>5. t \in TaskType /\ Listed(t)' /\ Behind(t)'
    BY <1>1, <2>1
  <2>6. /\ n.pc = "persist" /\ n.asOf = t.asOf /\ n.items = t.items
        /\ n.source = t.source /\ n.todo = t.todo /\ n.auto = t.auto
    BY <2>3, <2>5 DEF TaskType
  <2>7. Listed(n)' /\ Behind(n)'
    BY <2>4, <2>5, <2>6 DEF Listed, Behind
  <2> QED BY <1>3, <2>4, <2>7, BecomeMoves
<1>19. ASSUME NEW p \in Procs, CreateInvoice(p) PROVE Kept
  <2>1. ~ IsIdle(p)
    BY <1>19 DEF CreateInvoice, IsIdle
  <2>2. CASE Taken(task[p])
    BY <1>7, <1>19, <2>1, <2>2 DEF CreateInvoice
  <2>3. CASE ~ Taken(task[p])
    <3>1. ASSUME NEW t, t = task[p], t.auto
          PROVE  Settled(t.source[2][1], t.source[2][2])'
      <4> DEFINE o == t.source[2][1]
                 m == t.source[2][2]
      <4>1. /\ Row(t) \in invoices' /\ Row(t).source = t.source
            /\ Row(t).items = t.items /\ Row(t).asOf = t.asOf
        BY <1>19, <2>3, <3>1 DEF CreateInvoice, Row
      <4>2. Listed(t) /\ t.pc = "persist" /\ t.source[1] = "month"
        BY <1>1, <1>5, <1>19, <3>1 DEF CreateInvoice
      <4>3. CASE t.asOf = m
        BY <1>5, <3>1, <4>1, <4>3 DEF Settled, Excused
      <4>4. CASE t.asOf # m
        <5>1. m < t.asOf
          BY <1>1, <1>5, <3>1, <4>2, <4>4 DEF Listed, TaskType, Months
        <5>2. Outstanding(o, m) \subseteq t.items
          BY <4>2, <5>1 DEF Listed
        <5>3. t.items \subseteq Billed'
          BY <4>1 DEF Billed
        <5>4. Outstanding(o, m)' \subseteq Outstanding(o, m)
          BY <1>5, <3>1, SettledStays DEF Months
        <5>5. Outstanding(o, m)' = {}
          BY <5>2, <5>3, <5>4 DEF Outstanding
        <5> QED BY <5>5 DEF Settled
      <4> QED BY <4>3, <4>4
    <3> QED BY <1>6, <1>19, <2>1, <2>3, <3>1 DEF CreateInvoice
  <2> QED BY <2>2, <2>3
<1>20. ASSUME NEW p \in Procs, MarkMonth(p) \/ Settle(p) \/ Crash(p)
       PROVE  Kept
  BY <1>9, <1>20 DEF MarkMonth, Settle, Crash
<1>21. ASSUME NEW p \in Procs, Fail(p) PROVE Kept
  BY <1>7, <1>21 DEF Fail, IsIdle
<1>22. ASSUME NEW e \in Events, Deliver(e) \/ ExpireClaim(e) PROVE Kept
  BY <1>2, <1>22 DEF Deliver, ExpireClaim
<1>23. ASSUME NEW r \in Records, TransferPartial(r) PROVE Kept
  BY <1>2, <1>23 DEF TransferPartial
<1>24. ASSUME NextMonth PROVE Kept
  BY <1>2, <1>24 DEF NextMonth
<1> QED
  BY <1>10, <1>11, <1>12, <1>13, <1>14, <1>15, <1>16, <1>17, <1>18, <1>19,
     <1>20, <1>21, <1>22, <1>23, <1>24 DEF Next, Step

LEMMA MonthsAreKept ==
  ASSUME TypeOK, PipelinesAreSound, MonthsAreSettled, Next
  PROVE  MonthsAreSettled'
<1>1. \A p \in Procs : Listed(task[p])' /\ Behind(task[p])'
  BY ListedIsKept
     DEF TasksAreSettled, Listed, Behind, Settled, Excused, Outstanding, Billed
<1>2. month \in Nat /\ month' \in Nat /\ month <= month'
  BY TransfersAreNow DEF TypeOK, Months
<1>3. marker' # 0 => marker' < month' /\ \A o \in Orgs : Settled(o, marker)'
  <2>1. PICK m : m = marker'
    OBVIOUS
  <2>2. SUFFICES ASSUME m # 0
                 PROVE  m < month' /\ \A o \in Orgs : Settled(o, m)'
    BY <2>1 DEF Settled, Excused, Outstanding, Billed
  <2>3. m \in Nat
    BY <2>1, TypesAreKept DEF TypeOK
  <2>4. m < month /\ \A o \in Orgs : Settled(o, m)
    <3>1. CASE marker' = marker
      BY <2>1, <2>2, <3>1 DEF MonthsAreSettled
    <3>2. CASE marker' # marker
      <4>1. PICK p \in Procs : MarkMonth(p)
        BY <3>2, MarkerMoves
      <4>2. m = task[p].source[2][2] /\ task[p].pc = "mark"
        BY <2>1, <4>1 DEF MarkMonth
      <4>3. task[p].auto /\ task[p].todo = {} /\ Behind(task[p])
        BY <4>2 DEF PipelinesAreSound, Sound, MonthsAreSettled
      <4> QED BY <4>2, <4>3 DEF Behind
    <3> QED BY <3>1, <3>2
  <2> QED BY <1>2, <2>3, <2>4, SettledStays
<1>4. ASSUME NEW i \in invoices', NEW o \in Orgs, NEW m \in Months,
             i.source = <<"month", <<o, m>>>>
      PROVE  i.asOf = m \/ (m < month' /\ Outstanding(o, m)' = {})
  <2>1. m \in Nat
    BY DEF Months
  <2>2. CASE i \in invoices
    <3>1. i.asOf = m \/ (m < month /\ Outstanding(o, m) = {})
      BY <1>4, <2>2 DEF MonthsAreSettled
    <3> QED BY <1>2, <2>1, <3>1, SettledStays
  <2>3. CASE i \notin invoices
    <3>1. PICK p \in Procs : /\ CreateInvoice(p) /\ ~ Taken(task[p])
                             /\ invoices' = invoices \cup {Row(task[p])}
      BY <2>3, RowsGrow
    <3>2. PICK t : t = task[p]
      OBVIOUS
    <3>3. /\ t \in TaskType /\ Listed(t) /\ t.pc = "persist"
          /\ i.source = t.source /\ i.items = t.items /\ i.asOf = t.asOf
      BY <2>3, <3>1, <3>2 DEF CreateInvoice, MonthsAreSettled, TypeOK, Row
    <3>4. t.source[1] = "month" /\ t.source[2][1] = o /\ t.source[2][2] = m
      BY <1>4, <3>3
    <3>5. CASE m < t.asOf
      <4>1. m < month /\ Outstanding(o, m) \subseteq i.items
        BY <1>2, <2>1, <3>3, <3>4, <3>5 DEF Listed, TaskType
      <4>2. i.items \subseteq Billed'
        BY DEF Billed
      <4>3. Outstanding(o, m)' \subseteq Outstanding(o, m)
        BY <2>1, <4>1, SettledStays
      <4>4. Outstanding(o, m)' = {}
        BY <4>1, <4>2, <4>3 DEF Outstanding
      <4> QED BY <1>2, <2>1, <4>1, <4>4
    <3>6. CASE ~ (m < t.asOf)
      BY <2>1, <3>3, <3>4, <3>6 DEF Listed, TaskType
    <3> QED BY <3>5, <3>6
  <2> QED BY <2>2, <2>3
<1> QED BY <1>1, <1>3, <1>4 DEF MonthsAreSettled

-----------------------------------------------------------------------------
(***************************************************************************)
(* Records: what a pipeline holds is transferred, or its own fee.          *)
(***************************************************************************)
LEMMA DueIsKept ==
  ASSUME TypeOK, PipelinesAreSound, RecordsAreDue, Next
  PROVE  \A q \in Procs : \A t : t = task'[q] => Due(t)'
<1> DEFINE Kept == \A q \in Procs : \A t : t = task'[q] => Due(t)'
<1> USE DEF envVars, dbVars, subVars
<1>1. \A r \in Records : transferred[r] # 0 => transferred'[r] # 0
  BY TransfersAreNow DEF TypeOK, Months
<1>2. \A q \in Procs : \A t : t = task[q] => Due(t) /\ Due(t)'
  BY <1>1 DEF RecordsAreDue, Due, TypeOK, TaskType
<1>3. ASSUME task' = task PROVE Kept
  BY <1>2, <1>3
<1>4. ASSUME NEW p \in Procs, NEW n, Moves(p, n), Due(n)' PROVE Kept
  BY <1>2, <1>4 DEF Moves
<1>5. ASSUME NEW p \in Procs, NEW n, Become(p, n), n.items = {} PROVE Kept
  BY <1>4, <1>5, BecomeMoves DEF Due
<1>6. ASSUME NEW p \in Procs, NEW step, Goto(p, step) PROVE Kept
  <2>1. PICK t : t = task[p]
    OBVIOUS
  <2>2. PICK n : Moves(p, n) /\ n.source = t.source /\ n.items = t.items
    BY <1>6, <2>1, GotoMoves
  <2> QED BY <1>2, <1>4, <2>1, <2>2 DEF Due
<1>7. ASSUME NEW p \in Procs, NEW n, Moves(p, n), Released(task[p], n)
      PROVE  Kept
  <2>1. PICK t : t = task[p]
    OBVIOUS
  <2>2. n.items = {} \/ (n.items = t.items /\ n.source = t.source)
    BY <1>7, <2>1 DEF Released, Idle, Pipeline
  <2>3. Due(t)'
    BY <1>2, <2>1
  <2> QED BY <1>4, <1>7, <2>2, <2>3 DEF Due
<1>8. ASSUME NEW p \in Procs, ~ IsIdle(p), GoOn(p) \/ GiveUp(p) PROVE Kept
  BY <1>7, <1>8, GoOnReleases, GiveUpReleases
<1>9. ASSUME NEW p \in Procs, NEW r \in Records,
             Transfer(p, r) \/ Backfill(p, r)
      PROVE  Kept
  <2>1. Moves(p, FeeOf(r))
    BY <1>9, BecomeMoves DEF Transfer, Backfill, Begin
  <2>2. Due(FeeOf(r))'
    BY DEF Due, FeeOf, Pipeline
  <2> QED BY <1>4, <2>1, <2>2
<1>10. ASSUME NEW p \in Procs, NEW e \in Events,
              TakeEvent(p, e) \/ TakeUnowned(p, e)
       PROVE  Kept
  BY <1>5, <1>10 DEF TakeEvent, TakeUnowned, Begin, Pipeline
<1>11. ASSUME NEW p \in Procs, NEW m \in Months, RunByHand(p, m) PROVE Kept
  BY <1>5, <1>11 DEF RunByHand, Begin, Visit, Pipeline
<1>12. ASSUME NEW p \in Procs, Tick(p) \/ TickBlind(p) PROVE Kept
  <2>1. PICK o, m, rest : Become(p, Visit(o, m, rest, TRUE))
    BY <1>12 DEF Tick, TickBlind, Batch, Begin
  <2> QED BY <1>5, <2>1 DEF Visit, Pipeline
<1>13. ASSUME NEW p \in Procs, TryClaim(p) \/ ClaimFails(p) PROVE Kept
  BY <1>6, <1>8, <1>13 DEF TryClaim, ClaimFails, IsIdle
<1>14. ASSUME NEW p \in Procs, Probe(p) \/ SkipFee(p) PROVE Kept
  BY <1>6, <1>8, <1>14 DEF Probe, SkipFee, IsIdle
<1>15. ASSUME NEW p \in Procs, ListRecords(p) PROVE Kept
  <2>1. PICK t : t = task[p]
    OBVIOUS
  <2>2. PICK due : due = Outstanding(t.source[2][1], t.source[2][2])
    OBVIOUS
  <2>3. t \in TaskType /\ Sound(t) /\ t.pc = "list" /\ ~ IsIdle(p)
    BY <1>15, <2>1
       DEF ListRecords, IsIdle, TypeOK, PipelinesAreSound
  <2>4. CASE due = {}
    BY <1>8, <1>15, <2>1, <2>2, <2>3, <2>4 DEF ListRecords
  <2>5. CASE due # {}
    <3>1. PICK k : k = month
      OBVIOUS
    <3>2. PICK n : n = [t EXCEPT !.pc = "reserve", !.asOf = k, !.items = due]
      OBVIOUS
    <3>3. Become(p, n)
      BY <1>15, <2>1, <2>2, <2>5, <3>1, <3>2 DEF ListRecords
    <3>4. n.items = due
      BY <2>3, <3>2 DEF TaskType
    <3>5. t.source[2][2] \in Months
      BY <2>3, SourceKinds DEF Sound
    <3>6. \A r \in due : transferred[r] # 0 /\ r \in Records
      BY <2>2, <3>5 DEF Outstanding, Months
    <3>7. Due(n)'
      BY <1>1, <3>4, <3>6 DEF Due
    <3> QED BY <1>4, <3>3, <3>7, BecomeMoves
  <2> QED BY <2>4, <2>5
<1>16. ASSUME NEW p \in Procs, ReserveNumber(p) PROVE Kept
  <2>1. PICK t : t = task[p]
    OBVIOUS
  <2>2. PICK n : n = [t EXCEPT !.pc = "persist", !.number = nextNumber]
    OBVIOUS
  <2>3. Become(p, n)
    BY <1>16, <2>1, <2>2 DEF ReserveNumber
  <2>4. n.source = t.source /\ n.items = t.items
    BY <2>1, <2>2 DEF TypeOK, TaskType
  <2> QED BY <1>2, <1>4, <2>1, <2>3, <2>4, BecomeMoves DEF Due
<1>17. ASSUME NEW p \in Procs, CreateInvoice(p) \/ Fail(p) PROVE Kept
  BY <1>8, <1>17 DEF CreateInvoice, Fail, IsIdle
<1>18. ASSUME NEW p \in Procs, MarkMonth(p) \/ Settle(p) \/ Crash(p)
       PROVE  Kept
  BY <1>5, <1>18 DEF MarkMonth, Settle, Crash, Idle, Pipeline
<1>19. ASSUME NEW e \in Events, Deliver(e) \/ ExpireClaim(e) PROVE Kept
  BY <1>3, <1>19 DEF Deliver, ExpireClaim
<1>20. ASSUME NEW r \in Records, TransferPartial(r) PROVE Kept
  BY <1>3, <1>20 DEF TransferPartial
<1>21. ASSUME NextMonth PROVE Kept
  BY <1>3, <1>21 DEF NextMonth
<1> QED
  BY <1>9, <1>10, <1>11, <1>12, <1>13, <1>14, <1>15, <1>16, <1>17, <1>18,
     <1>19, <1>20, <1>21 DEF Next, Step

LEMMA DuesAreKept ==
  ASSUME TypeOK, PipelinesAreSound, RecordsAreDue, Next
  PROVE  RecordsAreDue'
<1>1. \A p \in Procs : Due(task[p])'
  BY DueIsKept DEF Due
<1>2. \A r \in Records : transferred[r] # 0 => transferred'[r] # 0
  BY TransfersAreNow DEF TypeOK, Months
<1>3. ASSUME NEW i, i \in invoices' PROVE Due(i)'
  <2>1. i.items \subseteq Records
    BY <1>3, TypesAreKept DEF TypeOK, InvoiceType, Records
  <2>2. CASE i \in invoices
    BY <1>2, <2>1, <2>2 DEF RecordsAreDue, Due
  <2>3. CASE i \notin invoices
    <3>1. PICK p \in Procs : invoices' = invoices \cup {Row(task[p])}
      BY <1>3, <2>3, RowsGrow
    <3>2. i.items = task[p].items /\ i.source = task[p].source
      BY <1>3, <2>3, <3>1 DEF Row
    <3> QED BY <1>2, <2>1, <3>2 DEF RecordsAreDue, Due
  <2> QED BY <2>2, <2>3
<1> QED BY <1>1, <1>3 DEF RecordsAreDue, Due

-----------------------------------------------------------------------------
(***************************************************************************)
(* Calm: while pipelines run one at a time, what the one that runs has     *)
(* seen is still so when it inserts its row.                               *)
(***************************************************************************)
CalmMove ==
  calm' =>
    /\ calm
    /\ \/ task' = task /\ invoices' = invoices
       \/ \E p \in Procs : \E n : /\ Moves(p, n) /\ Clear(n)'
                                  /\ \A q \in Procs : q = p \/ IsIdle(q)

LEMMA CalmMoves ==
  ASSUME TypeOK, PipelinesAreSound, RecordsAreDue, CalmPipelines, Next
  PROVE  CalmMove
<1> USE DEF envVars, dbVars, subVars
<1>1. ASSUME calm' => calm, task' = task, invoices' = invoices PROVE CalmMove
  BY <1>1 DEF CalmMove
<1>2. ASSUME NEW p \in Procs, NEW n, Become(p, n), calm' => calm,
             calm' => Clear(n)', ~ IsIdle(p)
      PROVE  CalmMove
  BY <1>2, BecomeMoves DEF CalmMove, CalmPipelines
<1>3. ASSUME NEW p \in Procs, NEW n, Begin(p, n), calm' => Clear(n)'
      PROVE  CalmMove
  <2>1. calm' => calm /\ \A q \in Procs : IsIdle(q)
    BY <1>3 DEF Begin
  <2> QED BY <1>3, <2>1, BecomeMoves DEF Begin, CalmMove
<1>4. ASSUME NEW p \in Procs, ~ IsIdle(p), GoOn(p) \/ GiveUp(p), calm' => calm
      PROVE  CalmMove
  <2>1. PICK n : Moves(p, n) /\ Released(task[p], n)
    BY <1>4, GoOnReleases, GiveUpReleases
  <2>2. Clear(n)'
    BY <2>1 DEF Released, Clear, Idle, Pipeline
  <2> QED BY <1>4, <2>1, <2>2 DEF CalmMove, CalmPipelines
<1>5. ASSUME ~ calm' PROVE CalmMove
  BY <1>5 DEF CalmMove
<1>6. ASSUME NEW p \in Procs, NEW r \in Records, Transfer(p, r) PROVE CalmMove
  <2>1. Begin(p, FeeOf(r)) /\ transferred[r] = 0 /\ invoices' = invoices
    BY <1>6 DEF Transfer
  <2>2. r \in Billed => Invoiced(<<"fee", r>>)
    BY <2>1 DEF RecordsAreDue, Due, Billed, Invoiced
  <2>3. Clear(FeeOf(r))'
    BY <2>1, <2>2 DEF Clear, FeeOf, Pipeline, Billed, Invoiced
  <2> QED BY <1>3, <2>1, <2>3
<1>7. ASSUME NEW p \in Procs, NEW r \in Records, Backfill(p, r) PROVE CalmMove
  <2>1. /\ Become(p, FeeOf(r)) /\ invoices' = invoices
        /\ calm' => /\ calm /\ \A q \in Procs : IsIdle(q)
                    /\ r \in Billed => Invoiced(<<"fee", r>>)
    BY <1>7 DEF Backfill
  <2>2. calm' => Clear(FeeOf(r))'
    BY <2>1 DEF Clear, FeeOf, Pipeline, Billed, Invoiced
  <2> QED BY <2>1, <2>2, BecomeMoves DEF CalmMove
<1>8. ASSUME NEW p \in Procs, NEW e \in Events,
             TakeEvent(p, e) \/ TakeUnowned(p, e)
      PROVE  CalmMove
  BY <1>3, <1>8 DEF TakeEvent, TakeUnowned, Clear, Pipeline
<1>9. ASSUME NEW o, NEW m, NEW rest, NEW auto
      PROVE  Clear(Visit(o, m, rest, auto))'
  BY DEF Clear, Visit, Pipeline
<1>10. ASSUME NEW p \in Procs, NEW m \in Months, RunByHand(p, m) PROVE CalmMove
  <2>1. PICK o, rest : Begin(p, Visit(o, m, rest, FALSE))
    BY <1>10 DEF RunByHand
  <2> QED BY <1>3, <1>9, <2>1
<1>11. ASSUME NEW p \in Procs, Tick(p) \/ TickBlind(p) PROVE CalmMove
  <2>1. PICK o, m, rest : Begin(p, Visit(o, m, rest, TRUE))
    BY <1>11 DEF Tick, TickBlind, Batch
  <2> QED BY <1>3, <1>9, <2>1
<1>12. ASSUME NEW p \in Procs, TryClaim(p) PROVE CalmMove
  <2>1. ~ IsIdle(p) /\ calm' = calm
    BY <1>12 DEF TryClaim, IsIdle
  <2>2. CASE GoOn(p)
    BY <1>4, <2>1, <2>2
  <2>3. CASE ~ GoOn(p)
    <3>1. PICK n : Moves(p, n) /\ n.pc = "probe" /\ n.items = task[p].items
      BY <1>12, <2>3, GotoMoves DEF TryClaim
    <3>2. n.items = {}
      BY <1>12, <3>1 DEF TryClaim, PipelinesAreSound, Sound
    <3>3. Clear(n)'
      BY <3>1, <3>2 DEF Clear
    <3> QED BY <2>1, <3>1, <3>3 DEF CalmMove, CalmPipelines
  <2> QED BY <2>2, <2>3
<1>13. ASSUME NEW p \in Procs, Probe(p) PROVE CalmMove
  <2>1. ~ IsIdle(p) /\ calm' = calm /\ invoices' = invoices
    BY <1>13 DEF Probe, IsIdle
  <2>2. CASE Invoiced(task[p].source)
    BY <1>4, <1>13, <2>1, <2>2 DEF Probe
  <2>3. CASE ~ Invoiced(task[p].source)
    <3>1. PICK t : t = task[p]
      OBVIOUS
    <3>2. PICK n : /\ Moves(p, n) /\ n.pc \in {"list", "reserve"}
                   /\ n.source = t.source /\ n.items = t.items
      BY <1>13, <2>3, <3>1, GotoMoves DEF Probe
    <3>3. calm => t.items \cap Billed = {}
      BY <1>13, <2>3, <3>1 DEF Probe, CalmPipelines, Clear
    <3>4. calm => Clear(n)'
      BY <2>1, <2>3, <3>1, <3>2, <3>3 DEF Clear, Taken, Invoiced, Billed
    <3> QED BY <2>1, <3>2, <3>4 DEF CalmMove, CalmPipelines
  <2> QED BY <2>2, <2>3
<1>14. ASSUME NEW p \in Procs, SkipFee(p) PROVE CalmMove
  BY <1>4, <1>14 DEF SkipFee, IsIdle
<1>15. ASSUME NEW p \in Procs, ListRecords(p) PROVE CalmMove
  <2>1. PICK t : t = task[p]
    OBVIOUS
  <2>2. PICK due : due = Outstanding(t.source[2][1], t.source[2][2])
    OBVIOUS
  <2>3. /\ t \in TaskType /\ t.pc = "list" /\ ~ IsIdle(p)
        /\ calm' = calm /\ invoices' = invoices
    BY <1>15, <2>1 DEF ListRecords, IsIdle, TypeOK
  <2>4. CASE due = {}
    BY <1>4, <1>15, <2>1, <2>2, <2>3, <2>4 DEF ListRecords
  <2>5. CASE due # {}
    <3>1. PICK k : k = month
      OBVIOUS
    <3>2. PICK n : n = [t EXCEPT !.pc = "reserve", !.asOf = k, !.items = due]
      OBVIOUS
    <3>3. Become(p, n)
      BY <1>15, <2>1, <2>2, <2>5, <3>1, <3>2 DEF ListRecords
    <3>4. n.pc = "reserve" /\ n.items = due /\ n.source = t.source
      BY <2>3, <3>2 DEF TaskType
    <3>5. calm => ~ Invoiced(t.source)
      BY <2>1, <2>3 DEF CalmPipelines, Clear
    <3>6. due \cap Billed = {}
      BY <2>2 DEF Outstanding
    <3>7. calm => Clear(n)'
      BY <2>3, <3>4, <3>5, <3>6 DEF Clear, Taken, Invoiced, Billed
    <3> QED BY <1>2, <2>3, <3>3, <3>7
  <2> QED BY <2>4, <2>5
<1>16. ASSUME NEW p \in Procs, ReserveNumber(p) PROVE CalmMove
  <2>1. PICK t : t = task[p]
    OBVIOUS
  <2>2. PICK k : k = nextNumber
    OBVIOUS
  <2>3. PICK n : n = [t EXCEPT !.pc = "persist", !.number = k]
    OBVIOUS
  <2>4. /\ Become(p, n) /\ t.pc = "reserve" /\ ~ IsIdle(p)
        /\ calm' = calm /\ invoices' = invoices
    BY <1>16, <2>1, <2>2, <2>3 DEF ReserveNumber, IsIdle
  <2>5. n.pc = "persist" /\ n.items = t.items /\ n.source = t.source
    BY <2>1, <2>3 DEF TypeOK, TaskType
  <2>6. calm => ~ Taken(t)
    BY <2>1, <2>4 DEF CalmPipelines, Clear
  <2>7. calm => Clear(n)'
    BY <2>4, <2>5, <2>6 DEF Clear, Taken, Invoiced, Billed
  <2> QED BY <1>2, <2>4, <2>7
<1>17. ASSUME NEW p \in Procs, CreateInvoice(p) PROVE CalmMove
  BY <1>4, <1>17 DEF CreateInvoice, IsIdle
<1>18. ASSUME NEW p \in Procs, MarkMonth(p) \/ Settle(p) PROVE CalmMove
  <2>1. Clear(Idle)'
    BY DEF Clear, Idle, Pipeline
  <2> QED BY <1>2, <1>18, <2>1 DEF MarkMonth, Settle, IsIdle
<1>19. ASSUME NEW p \in Procs, ClaimFails(p) \/ Fail(p) \/ Crash(p)
       PROVE  CalmMove
  BY <1>5, <1>19 DEF ClaimFails, Fail, Crash
<1>20. ASSUME NEW e \in Events, Deliver(e) \/ ExpireClaim(e) PROVE CalmMove
  BY <1>1, <1>20 DEF Deliver, ExpireClaim
<1>21. ASSUME NEW r \in Records, TransferPartial(r) PROVE CalmMove
  BY <1>1, <1>21 DEF TransferPartial
<1>22. ASSUME NextMonth PROVE CalmMove
  BY <1>1, <1>22 DEF NextMonth
<1> QED
  BY <1>6, <1>7, <1>8, <1>10, <1>11, <1>12, <1>13, <1>14, <1>15, <1>16, <1>17,
     <1>18, <1>19, <1>20, <1>21, <1>22 DEF Next, Step

LEMMA CalmIsKept ==
  ASSUME TypeOK, PipelinesAreSound, RecordsAreDue, CalmPipelines, Next
  PROVE  CalmPipelines'
<1>1. CASE ~ calm'
  BY <1>1 DEF CalmPipelines
<1>2. CASE calm' /\ task' = task /\ invoices' = invoices
  BY <1>2, CalmMoves
     DEF CalmMove, CalmPipelines, Clear, Taken, Invoiced, Billed, IsIdle
<1>3. CASE calm' /\ ~ (task' = task /\ invoices' = invoices)
  <2>0. PICK p \in Procs : \E n : /\ Moves(p, n) /\ Clear(n)'
                                  /\ \A q \in Procs : q = p \/ IsIdle(q)
    BY <1>3, CalmMoves DEF CalmMove
  <2>1. PICK n : /\ Moves(p, n) /\ Clear(n)'
                 /\ \A q \in Procs : q = p \/ IsIdle(q)
    BY <2>0
  <2>2. \A q \in Procs : q = p \/ task'[q].pc = "idle"
    BY <2>1 DEF Moves, IsIdle
  <2>3. ASSUME NEW q \in Procs PROVE Clear(task[q])'
    <3>1. CASE q = p
      BY <2>1, <3>1 DEF Moves, Clear, Taken, Invoiced, Billed
    <3>2. CASE q # p
      BY <2>2, <3>2 DEF Clear
    <3> QED BY <3>1, <3>2
  <2> QED BY <2>2, <2>3 DEF CalmPipelines, IsIdle
<1> QED BY <1>1, <1>2, <1>3

(***************************************************************************)
(* A number in hand is used: in a calm behaviour no call fails, and the    *)
(* row can be inserted.                                                    *)
(***************************************************************************)
InUse(n) == \/ \E i \in invoices : i.number = n
            \/ \E p \in Procs : task[p].pc = "persist" /\ task[p].number = n

LEMMA InUseStays ==
  ASSUME TypeOK, PipelinesAreSound, CalmPipelines, calm', calm, Next, NEW n,
         InUse(n)
  PROVE  InUse(n)'
<1> DEFINE Kept == InUse(n)'
<1> USE DEF envVars, dbVars, subVars
<1>1. CASE \E i \in invoices : i.number = n
  BY <1>1, RowsGrow DEF InUse
<1>2. CASE \E q \in Procs : task[q].pc = "persist" /\ task[q].number = n
  <2>1. PICK q \in Procs : task[q].pc = "persist" /\ task[q].number = n
    BY <1>2
  <2>2. ASSUME task'[q] = task[q] PROVE Kept
    BY <2>1, <2>2 DEF InUse
  <2>3. ASSUME NEW p \in Procs, NEW t, Become(p, t), task[p].pc # "persist"
        PROVE  Kept
    BY <2>1, <2>2, <2>3, BecomeMoves DEF Moves
  <2>4. ASSUME NEW p \in Procs, GoOn(p), ~ IsIdle(p), task[p].pc # "persist"
        PROVE  Kept
    BY <2>1, <2>2, <2>4, GoOnReleases DEF Moves
  <2>5. ASSUME NEW p \in Procs, NEW r \in Records,
               Transfer(p, r) \/ Backfill(p, r)
        PROVE  Kept
    BY <2>3, <2>5 DEF Transfer, Backfill, Begin, IsIdle
  <2>6. ASSUME NEW p \in Procs, NEW e \in Events,
               TakeEvent(p, e) \/ TakeUnowned(p, e)
        PROVE  Kept
    BY <2>3, <2>6 DEF TakeEvent, TakeUnowned, Begin, IsIdle
  <2>7. ASSUME NEW p \in Procs, NEW m \in Months, RunByHand(p, m) PROVE Kept
    BY <2>3, <2>7 DEF RunByHand, Begin, IsIdle
  <2>8. ASSUME NEW p \in Procs, Tick(p) \/ TickBlind(p) PROVE Kept
    BY <2>3, <2>8 DEF Tick, TickBlind, Batch, Begin, IsIdle
  <2>9. ASSUME NEW p \in Procs, TryClaim(p) \/ Probe(p) \/ SkipFee(p)
        PROVE  Kept
    BY <2>3, <2>4, <2>9 DEF TryClaim, Probe, SkipFee, Goto, IsIdle
  <2>10. ASSUME NEW p \in Procs, ListRecords(p) PROVE Kept
    BY <2>3, <2>4, <2>10 DEF ListRecords, IsIdle
  <2>11. ASSUME NEW p \in Procs, ReserveNumber(p) \/ MarkMonth(p) \/ Settle(p)
         PROVE  Kept
    BY <2>3, <2>11 DEF ReserveNumber, MarkMonth, Settle
  <2>12. ASSUME NEW p \in Procs, CreateInvoice(p) PROVE Kept
    <3>1. ~ Taken(task[p]) /\ ~ IsIdle(p)
      BY <2>12 DEF CreateInvoice, CalmPipelines, Clear, IsIdle
    <3>2. CASE p = q
      <4>1. Row(task[q]) \in invoices' /\ Row(task[q]).number = n
        BY <2>1, <2>12, <3>1, <3>2 DEF CreateInvoice, Row
      <4> QED BY <4>1 DEF InUse
    <3>3. CASE p # q
      BY <2>2, <2>12, <3>1, <3>3, GoOnReleases DEF CreateInvoice, Moves
    <3> QED BY <3>2, <3>3
  <2>13. ASSUME NEW p \in Procs, ClaimFails(p) \/ Fail(p) \/ Crash(p)
         PROVE  Kept
    BY <2>13 DEF ClaimFails, Fail, Crash
  <2>14. ASSUME NEW e \in Events, Deliver(e) \/ ExpireClaim(e) PROVE Kept
    BY <2>2, <2>14 DEF Deliver, ExpireClaim
  <2>15. ASSUME NEW r \in Records, TransferPartial(r) PROVE Kept
    BY <2>2, <2>15 DEF TransferPartial
  <2>16. ASSUME NextMonth PROVE Kept
    BY <2>2, <2>16 DEF NextMonth
  <2> QED
    BY <2>5, <2>6, <2>7, <2>8, <2>9, <2>10, <2>11, <2>12, <2>13, <2>14, <2>15,
       <2>16 DEF Next, Step
<1> QED BY <1>1, <1>2 DEF InUse

LEMMA ContinuityIsKept ==
  ASSUME TypeOK, PipelinesAreSound, RecordsAreDue, CalmPipelines,
         NumbersAreContinuous, Next
  PROVE  NumbersAreContinuous'
<1>1. nextNumber \in Nat \ {0}
  BY DEF TypeOK
<1>2. SUFFICES ASSUME calm', NEW n \in 1 .. nextNumber' - 1 PROVE InUse(n)'
  BY DEF NumbersAreContinuous, InUse
<1>3. calm
  BY <1>2, CalmMoves DEF CalmMove
<1>4. n \in 1 .. nextNumber - 1 => InUse(n)'
  BY <1>2, <1>3, InUseStays DEF NumbersAreContinuous, InUse
<1>5. CASE \E p \in Procs : ReserveNumber(p)
  <2>1. PICK p \in Procs : ReserveNumber(p)
    BY <1>5
  <2> DEFINE t == [task[p] EXCEPT !.pc = "persist", !.number = nextNumber]
  <2>2. Moves(p, t) /\ t.pc = "persist" /\ t.number = nextNumber
    BY <2>1, BecomeMoves DEF ReserveNumber, TypeOK, TaskType
  <2>3. n = nextNumber => InUse(n)'
    BY <2>2 DEF Moves, InUse
  <2>4. nextNumber' = nextNumber + 1
    BY <2>1 DEF ReserveNumber
  <2> QED BY <1>1, <1>2, <1>4, <2>3, <2>4
<1>6. CASE \A p \in Procs : ~ ReserveNumber(p)
  BY <1>2, <1>4, <1>6, NoNumberDrawn
<1> QED BY <1>5, <1>6

-----------------------------------------------------------------------------
(***************************************************************************)
(* The inductive invariant.                                                *)
(***************************************************************************)
LEMMA InvoicingInitInv == Init => InvoicingInv
<1> SUFFICES ASSUME Init PROVE InvoicingInv
  OBVIOUS
<1> USE InvoicingAssumption DEF Init
<1>1. \A p \in Procs : task[p] = Idle
  OBVIOUS
<1>2. TypeOK
  BY IdleIsSound DEF TypeOK, Months
<1>3. PipelinesAreSound
  BY <1>1, IdleIsSound DEF PipelinesAreSound
<1>4. IssuedOnce /\ NumbersAreOwned
  BY <1>1 DEF IssuedOnce, NumbersAreOwned, Drawn, Idle, Pipeline
<1>5. ClaimsAreAnswered
  BY <1>1 DEF ClaimsAreAnswered, Idle, Pipeline
<1>6. MonthsAreSettled
  BY <1>1 DEF MonthsAreSettled, Listed, Behind, Idle, Pipeline, None
<1>7. RecordsAreDue
  BY <1>1 DEF RecordsAreDue, Due, Idle, Pipeline
<1>8. CalmPipelines
  BY <1>1 DEF CalmPipelines, Clear, IsIdle, Idle, Pipeline
<1>9. NumbersAreContinuous
  BY DEF NumbersAreContinuous
<1> QED
  BY <1>2, <1>3, <1>4, <1>5, <1>6, <1>7, <1>8, <1>9 DEF InvoicingInv

LEMMA InvoicingNextInv == InvoicingInv /\ [Next]_vars => InvoicingInv'
<1> SUFFICES ASSUME InvoicingInv, [Next]_vars PROVE InvoicingInv'
  OBVIOUS
<1>1. CASE Next
  BY <1>1, TypesAreKept, NumbersAreKept, ClaimsAreKept, MonthsAreKept,
     DuesAreKept, CalmIsKept, ContinuityIsKept DEF InvoicingInv
<1>2. CASE UNCHANGED vars
  <2> USE <1>2 DEF vars, envVars, dbVars, subVars
  <2>1. TypeOK' /\ PipelinesAreSound'
    BY DEF InvoicingInv, TypeOK, PipelinesAreSound, Sound, Idle, Pipeline,
           None, Sources, Records, Months, InvoiceType, TaskType, Steps
  <2>2. IssuedOnce' /\ NumbersAreOwned'
    BY DEF InvoicingInv, IssuedOnce, NumbersAreOwned, Drawn
  <2>3. ClaimsAreAnswered'
    BY DEF InvoicingInv, ClaimsAreAnswered, Answered, Invoiced, MakingBy
  <2>4. MonthsAreSettled'
    <3>1. \A o, m : Settled(o, m)' <=> Settled(o, m)
      BY DEF Settled, Excused, Outstanding, Billed
    <3>2. \A o, m : Outstanding(o, m)' = Outstanding(o, m)
      BY DEF Outstanding, Billed
    <3>3. \A t : (Listed(t) => Listed(t)') /\ (Behind(t) => Behind(t)')
      BY <3>1, <3>2 DEF Listed, Behind
    <3>4. ASSUME NEW p \in Procs PROVE Listed(task[p])' /\ Behind(task[p])'
      <4>1. PICK t : t = task[p]
        OBVIOUS
      <4>2. Listed(t)' /\ Behind(t)'
        BY <3>3, <4>1 DEF InvoicingInv, MonthsAreSettled
      <4>3. t = task'[p]
        BY <4>1
      <4> QED
        BY <4>2, <4>3
           DEF Listed, Behind, Settled, Excused, Outstanding, Billed
    <3>5. marker' # 0 => /\ marker' < month'
                         /\ \A o \in Orgs : Settled(o, marker)'
      BY <3>1 DEF InvoicingInv, MonthsAreSettled, Settled, Excused,
                  Outstanding, Billed
    <3> QED
      BY <3>2, <3>4, <3>5 DEF InvoicingInv, MonthsAreSettled
  <2>5. RecordsAreDue'
    BY DEF InvoicingInv, RecordsAreDue, Due
  <2>6. CalmPipelines'
    BY DEF InvoicingInv, CalmPipelines, Clear, Taken, Invoiced, Billed, IsIdle
  <2>7. NumbersAreContinuous'
    BY DEF InvoicingInv, NumbersAreContinuous
  <2> QED
    BY <2>1, <2>2, <2>3, <2>4, <2>5, <2>6, <2>7 DEF InvoicingInv
<1> QED BY <1>1, <1>2

LEMMA InvoicingInvariant == Spec => []InvoicingInv
BY InvoicingInitInv, InvoicingNextInv, PTL DEF Spec

(***************************************************************************)
(* Rows and pipelines have their types, for every set of organizations,    *)
(* records, events and processes.                                          *)
(***************************************************************************)
THEOREM InvoicingTypeCorrect == Spec => []TypeOK
<1>1. InvoicingInv => TypeOK
  BY DEF InvoicingInv
<1> QED BY <1>1, InvoicingInvariant, PTL

(***************************************************************************)
(* However many transfers, consolidations, backfills and workers meet on a *)
(* commission, and whatever fails between a number and its row, the        *)
(* pipeline of buildAndPersist, with the unique indexes of the invoice     *)
(* tables, issues one invoice of it, under a number of its own.            *)
(***************************************************************************)
THEOREM OneInvoiceOfEach == Spec => []IssuedOnce
<1>1. InvoicingInv => IssuedOnce
  BY DEF InvoicingInv
<1> QED BY <1>1, InvoicingInvariant, PTL

(***************************************************************************)
(* ReserveNumber commits before the row is inserted, and yet leaves no     *)
(* hole while pipelines run one at a time and no call fails: what each     *)
(* flow has probed is what the unique indexes will ask.                    *)
(***************************************************************************)
THEOREM NoHoleWhileCalm == Spec => []NumbersAreContinuous
<1>1. InvoicingInv => NumbersAreContinuous
  BY DEF InvoicingInv
<1> QED BY <1>1, InvoicingInvariant, PTL

(***************************************************************************)
(* The month Scheduler.Tick has marked is billed in full, for any number   *)
(* of months, organizations and records.                                   *)
(***************************************************************************)
THEOREM MonthsAreBilled == Spec => []MarkedMonthIsBilled
<1>1. InvoicingInv => MarkedMonthIsBilled
  BY DEF InvoicingInv, MonthsAreSettled, Settled, MarkedMonthIsBilled
<1> QED BY <1>1, InvoicingInvariant, PTL

(***************************************************************************)
(* A worker calls MarkDone on an invoice.paid event only when the event is *)
(* invoiced, is being invoiced, lost an attempt after its claim, or at     *)
(* some attempt had an owner that was not resolved.                        *)
(***************************************************************************)
THEOREM PaidIsInvoiced == Spec => []DoneIsInvoiced
<1>1. InvoicingInv => DoneIsInvoiced
  BY DEF InvoicingInv, ClaimsAreAnswered, Answered, DoneIsInvoiced
<1> QED BY <1>1, InvoicingInvariant, PTL
=============================================================================
