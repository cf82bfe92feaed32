------------------------------ MODULE Invoicing ------------------------------
(***************************************************************************)
(* The invoices of the platform (internal/app/invoicing over               *)
(* invoicing_repository*.go): one for every commission, issued when the    *)
(* money goes out or else with the month's consolidation, and one for      *)
(* every paid subscription.                                                *)
(*                                                                         *)
(* Three flows end in the same pipeline.  Each looks for an invoice of its *)
(* source first, draws a number from the counter in a transaction of its   *)
(* own, renders and stores the PDF, and inserts the row in another.        *)
(* Nothing but the unique indexes stands between two pipelines on the same *)
(* payment record.                                                         *)
(*                                                                         *)
(* task[p] is the pipeline process p is in:                                *)
(*   pc      its next step          items   the payment records it bills   *)
(*   source  what it invoices       number  the number it has drawn        *)
(*   asOf    month it listed in     todo    organizations still to visit   *)
(*   auto    it is a tick of the scheduler, which marks the month          *)
(*                                                                         *)
(* A source is <<"fee", record>>, <<"month", <<organization, month>>>> or  *)
(* <<"subscription", event>>.  Every payment record here carries a         *)
(* commission, and its milestone has been approved.  asOf, failed,         *)
(* tripped, unowned and calm are history: the code keeps none of them.     *)
(***************************************************************************)
EXTENDS Naturals, FiniteSets

CONSTANTS
  Orgs,       \* provider organizations
  PerOrg,     \* payment records of each
  Events,     \* invoice.paid events of Stripe
  Procs,      \* processes: requests, the queue's workers, scheduler, CLIs
  MaxMonth,   \* bound: months; the last one is not consolidated
  MaxNumber,  \* bound: no backfill once the counter is past it
  MaxScope,   \* bound: records and events in one behaviour
  MaxFaults   \* bound: failed calls and processes cut off

ASSUME InvoicingAssumption ==
  /\ PerOrg \in Nat /\ MaxMonth \in Nat \ {0}
  /\ MaxNumber \in Nat /\ MaxScope \in Nat /\ MaxFaults \in Nat

VARIABLES
  month,        \* the current month
  transferred,  \* the month of transferred_at, 0 while there is none
  invoices,     \* invoice rows with their items
  nextNumber,   \* invoice_number_counter
  claimed,      \* events claimed in Redis
  queue,        \* pending_events row of each event
  marker,       \* the month of the Redis run marker, 0 when there is none
  task,         \* the pipeline of each process
  faults,       \* failed calls and crashes so far
  failed,       \* consolidations that ended in an error
  tripped,      \* events an attempt at which has failed after its claim
  unowned,      \* events whose owner was not resolved at some attempt
  scope,        \* the records and events of this behaviour
  calm          \* pipelines have run one at a time, and none has failed

Months  == 1 .. MaxMonth
Records == Orgs \X (1 .. PerOrg)
Sources == ({"fee"} \X Records) \cup ({"month"} \X (Orgs \X Months))
             \cup ({"subscription"} \X Events)

envVars == <<month, transferred, scope>>
dbVars  == <<invoices, nextNumber>>
subVars == <<claimed, queue, tripped, unowned>>
vars    == <<envVars, dbVars, subVars, marker, task, faults, failed, calm>>

None == <<"none", "none">>

\* A pipeline at step pc that has not drawn a number.
Pipeline(pc, source, items, todo, auto) ==
  [pc |-> pc, source |-> source, items |-> items, number |-> 0, asOf |-> 0,
   todo |-> todo, auto |-> auto]

Idle == Pipeline("idle", None, {}, {}, FALSE)

IsIdle(p) == task[p].pc = "idle"

Invoiced(s) == \E i \in invoices : i.source = s

Billed == UNION {i.items : i \in invoices}

\* Process p is past the claim of source s and has not issued its invoice.
MakingBy(p, s) ==
  task[p].source = s /\ task[p].pc \in {"probe", "reserve", "persist"}

Init ==
  /\ month = 1
  /\ transferred = [r \in Records |-> 0]
  /\ invoices = {}
  /\ nextNumber = 1
  /\ claimed = {}
  /\ queue = [e \in Events |-> "absent"]
  /\ marker = 0
  /\ task = [p \in Procs |-> Idle]
  /\ faults = 0
  /\ failed = {}
  /\ tripped = {}
  /\ unowned = {}
  /\ scope \in SUBSET (Records \cup Events) /\ Cardinality(scope) <= MaxScope
  /\ calm = TRUE

-----------------------------------------------------------------------------
(***************************************************************************)
(* What starts a pipeline.                                                 *)
(***************************************************************************)
Become(p, t) == task' = [task EXCEPT ![p] = t]

Begin(p, t) ==
  /\ IsIdle(p)
  /\ Become(p, t)
  /\ calm' = (calm /\ \A q \in Procs : IsIdle(q))

FeeOf(r) == Pipeline("probe", <<"fee", r>>, {r}, {}, FALSE)

\* TransferMilestone, RequestPayout, RetryFailedTransfer: the record is
\* marked transferred, then firePerMilestoneInvoice.
Transfer(p, r) ==
  /\ r \in scope /\ transferred[r] = 0
  /\ transferred' = [transferred EXCEPT ![r] = month]
  /\ Begin(p, FeeOf(r))
  /\ UNCHANGED <<month, scope, dbVars, subVars, marker, faults, failed>>

\* TransferPartialToProvider, after a dispute: nothing is fired.
TransferPartial(r) ==
  /\ r \in scope /\ transferred[r] = 0
  /\ transferred' = [transferred EXCEPT ![r] = month]
  /\ UNCHANGED <<month, scope, dbVars, subVars, marker, task, faults, failed,
                 calm>>

\* cmd/invoicing-backfill, which looks at every approved milestone, whether
\* its money went out or not.
Backfill(p, r) ==
  /\ r \in scope /\ nextNumber <= MaxNumber
  /\ IsIdle(p)
  /\ Become(p, FeeOf(r))
  /\ calm' = /\ calm
             /\ \A q \in Procs : IsIdle(q)
             /\ r \in Billed => Invoiced(<<"fee", r>>)
  /\ UNCHANGED <<envVars, dbVars, subVars, marker, faults, failed>>

\* A worker claims the row of an invoice.paid event, and handleInvoicePaid
\* finds the organization that has paid.
TakeEvent(p, e) ==
  /\ queue[e] = "due"
  /\ Begin(p, Pipeline("claim", <<"subscription", e>>, {}, {}, FALSE))
  /\ UNCHANGED <<envVars, dbVars, subVars, marker, faults, failed>>

\* It does not: the metadata is missing, or the query for the user's
\* organization fails.  Either is taken for permanent: no error, no retry.
TakeUnowned(p, e) ==
  /\ queue[e] = "due" /\ faults < MaxFaults
  /\ faults' = faults + 1
  /\ unowned' = unowned \cup {e}
  /\ Begin(p, Pipeline("settle", <<"subscription", e>>, {}, {}, FALSE))
  /\ UNCHANGED <<envVars, dbVars, claimed, queue, tripped, marker, failed>>

\* Organization o of a batch over month m, with those in rest to follow.
Visit(o, m, rest, auto) ==
  Pipeline("probe", <<"month", <<o, m>>>>, {}, rest, auto)

\* cmd/invoice-monthly-run: any month, for one organization or for all.
RunByHand(p, m) ==
  /\ m <= month /\ m < MaxMonth
  /\ \E todo \in {Orgs} \cup {{o} : o \in Orgs} : \E o \in todo :
       Begin(p, Visit(o, m, todo \ {o}, FALSE))
  /\ UNCHANGED <<envVars, dbVars, subVars, marker, faults, failed>>

Batch(p) ==
  /\ month > 1
  /\ \A q \in Procs : ~ task[q].auto
  /\ \E o \in Orgs :
       Begin(p, Visit(o, month - 1, Orgs \ {o}, TRUE))
  /\ UNCHANGED <<envVars, dbVars, subVars, marker, failed>>

\* Scheduler.Tick, in the one API process: the month before, unless marked.
\* When in the month it ticks (the code: on the first, at night) is left open.
Tick(p) ==
  /\ marker # month - 1
  /\ Batch(p)
  /\ UNCHANGED faults

\* The marker cannot be read: "bias toward re-running".
TickBlind(p) ==
  /\ faults < MaxFaults
  /\ faults' = faults + 1
  /\ Batch(p)

-----------------------------------------------------------------------------
(***************************************************************************)
(* The steps of a pipeline.                                                *)
(***************************************************************************)
Goto(p, step) == Become(p, [task[p] EXCEPT !.pc = step])

\* Fault: a tick is through after its first organization.
GoOnWithoutRest(p) ==
  LET t == task[p]
  IN IF t.source[1] = "subscription" THEN Goto(p, "settle")
     ELSE IF t.auto THEN Goto(p, "mark")
     ELSE Become(p, Idle)

\* What comes after an invoice: the settling write of a queue row; the next
\* organization of a batch, and after the last one the marker of a tick.
GoOn(p) ==
  LET t == task[p]
      m == t.source[2][2]
  IN IF t.source[1] = "subscription" THEN Goto(p, "settle")
     ELSE IF t.todo # {}
       THEN \E o \in t.todo : Become(p, Visit(o, m, t.todo \ {o}, t.auto))
     ELSE IF t.auto THEN Goto(p, "mark")
     ELSE Become(p, Idle)

\* IssueFromSubscription: SETNX under a key of its own, for five minutes.
TryClaim(p) ==
  LET e == task[p].source[2]
  IN /\ task[p].pc = "claim"
     /\ claimed' = claimed \cup {e}
     /\ IF e \in claimed THEN GoOn(p) ELSE Goto(p, "probe")
     /\ UNCHANGED <<envVars, dbVars, queue, tripped, unowned, marker, faults,
                    failed, calm>>

\* Redis does not answer: the flow falls through to the probe.
ClaimFails(p) ==
  /\ task[p].pc = "claim" /\ faults < MaxFaults
  /\ faults' = faults + 1
  /\ calm' = FALSE
  /\ Goto(p, "probe")
  /\ UNCHANGED <<envVars, dbVars, subVars, marker, failed>>

\* FindInvoiceByStripeEventID (a consolidation has a synthetic event id) or
\* FindPlatformFeeByMilestoneID.
Probe(p) ==
  LET t == task[p]
  IN /\ t.pc = "probe"
     /\ IF Invoiced(t.source) THEN GoOn(p)
        ELSE Goto(p, IF t.source[1] = "month" THEN "list" ELSE "reserve")
     /\ UNCHANGED <<envVars, dbVars, subVars, marker, faults, failed, calm>>

\* The provider's billing profile lacks a field: no invoice and no error.
SkipFee(p) ==
  /\ task[p].pc = "probe" /\ task[p].source[1] = "fee"
  /\ GoOn(p)
  /\ UNCHANGED <<envVars, dbVars, subVars, marker, faults, failed, calm>>

\* Fault: the query lacks its NOT EXISTS (... invoice_item ...).
OutstandingOrNot(o, m) == {r \in Records : r[1] = o /\ transferred[r] = m}

\* ListReleasedPaymentRecordsForOrg: transferred in the month, and not on an
\* invoice yet.
Outstanding(o, m) ==
  {r \in Records : r[1] = o /\ transferred[r] = m /\ r \notin Billed}

ListRecords(p) ==
  LET t == task[p]
      o == t.source[2][1]
      m == t.source[2][2]
  IN /\ t.pc = "list"
     /\ IF Outstanding(o, m) = {} THEN GoOn(p)
        ELSE Become(p, [t EXCEPT !.pc = "reserve", !.asOf = month,
                                 !.items = Outstanding(o, m)])
     /\ UNCHANGED <<envVars, dbVars, subVars, marker, faults, failed, calm>>

\* Fault: the number is taken from the rows there are.
ReserveFromRows(p) ==
  /\ task[p].pc = "reserve"
  /\ nextNumber' = nextNumber + 1
  /\ Become(p, [task[p] EXCEPT !.pc = "persist",
                               !.number = Cardinality(invoices) + 1])
  /\ UNCHANGED <<envVars, invoices, subVars, marker, faults, failed, calm>>

\* ReserveNumber, which commits.
ReserveNumber(p) ==
  /\ task[p].pc = "reserve"
  /\ nextNumber' = nextNumber + 1
  /\ Become(p, [task[p] EXCEPT !.pc = "persist", !.number = nextNumber])
  /\ UNCHANGED <<envVars, invoices, subVars, marker, faults, failed, calm>>

\* Fault: every error is entered as one of a consolidation.
GiveUpAsMonth(p) ==
  LET t == task[p]
  IN /\ failed' = failed \cup {t.source[2]}
     /\ IF t.source[1] = "subscription"
          THEN Become(p, Idle) /\ tripped' = tripped \cup {t.source[2]}
          ELSE GoOn(p) /\ UNCHANGED tripped
     /\ UNCHANGED <<claimed, queue, unowned>>

\* An error ends the pipeline: the row of a worker is left to be retried, a
\* fee to the consolidation; a batch goes on with the next organization.
GiveUp(p) ==
  LET t == task[p]
  IN /\ failed' = IF t.source[1] = "month" THEN failed \cup {t.source[2]}
                                           ELSE failed
     /\ IF t.source[1] = "subscription"
          THEN Become(p, Idle) /\ tripped' = tripped \cup {t.source[2]}
          ELSE GoOn(p) /\ UNCHANGED tripped
     /\ UNCHANGED <<claimed, queue, unowned>>

\* The unique indexes: on the event id, on the milestone of a fee, and on
\* the payment record of an item.
Taken(t) == Invoiced(t.source) \/ t.items \cap Billed # {}

\* CreateInvoice: the row and its items.
CreateInvoice(p) ==
  LET t == task[p]
  IN /\ t.pc = "persist"
     /\ IF Taken(t)
          THEN GiveUp(p) /\ UNCHANGED invoices
          ELSE /\ invoices' = invoices \cup
                    {[number |-> t.number, source |-> t.source,
                      items |-> t.items, asOf |-> t.asOf]}
               /\ GoOn(p)
               /\ UNCHANGED <<subVars, failed>>
     /\ UNCHANGED <<envVars, nextNumber, marker, faults, calm>>

\* MarkMonthlyRun, after a batch with or without errors.
MarkMonth(p) ==
  /\ task[p].pc = "mark"
  /\ marker' = task[p].source[2][2]
  /\ Become(p, Idle)
  /\ UNCHANGED <<envVars, dbVars, subVars, faults, failed, calm>>

\* MarkDone.
Settle(p) ==
  /\ task[p].pc = "settle"
  /\ queue' = [queue EXCEPT ![task[p].source[2]] = "done"]
  /\ Become(p, Idle)
  /\ UNCHANGED <<envVars, dbVars, claimed, tripped, unowned, marker, faults,
                 failed, calm>>

Step(p) ==
  \/ TryClaim(p) \/ Probe(p) \/ SkipFee(p) \/ ListRecords(p)
  \/ ReserveNumber(p) \/ CreateInvoice(p) \/ MarkMonth(p) \/ Settle(p)

-----------------------------------------------------------------------------
(***************************************************************************)
(* Faults and the environment.                                             *)
(***************************************************************************)
\* A call fails: a query, the PDF, the upload.
Fail(p) ==
  /\ task[p].pc \in {"probe", "list", "reserve", "persist"}
  /\ faults < MaxFaults
  /\ faults' = faults + 1
  /\ calm' = FALSE
  /\ GiveUp(p)
  /\ UNCHANGED <<envVars, dbVars, marker>>

\* The process dies, or its last write is lost.
Crash(p) ==
  /\ ~ IsIdle(p) /\ faults < MaxFaults
  /\ faults' = faults + 1
  /\ calm' = FALSE
  /\ tripped' = tripped \cup
       {e \in Events : MakingBy(p, <<"subscription", e>>)}
  /\ Become(p, Idle)
  /\ UNCHANGED <<envVars, dbVars, claimed, queue, unowned, marker, failed>>

\* Fault: the intake claims the event under the key of the invoicing flow.
DeliverClaimed(e) ==
  /\ e \in scope /\ queue[e] = "absent"
  /\ queue' = [queue EXCEPT ![e] = "due"]
  /\ claimed' = claimed \cup {e}
  /\ UNCHANGED <<envVars, dbVars, tripped, unowned, marker, task, faults,
                 failed, calm>>

\* The intake records the event.
Deliver(e) ==
  /\ e \in scope /\ queue[e] = "absent"
  /\ queue' = [queue EXCEPT ![e] = "due"]
  /\ UNCHANGED <<envVars, dbVars, claimed, tripped, unowned, marker, task,
                 faults, failed, calm>>

ExpireClaim(e) ==
  /\ e \in claimed
  /\ claimed' = claimed \ {e}
  /\ UNCHANGED <<envVars, dbVars, queue, tripped, unowned, marker, task, faults,
                 failed, calm>>

\* The first of the next month.
NextMonth ==
  /\ month < MaxMonth
  /\ month' = month + 1
  /\ UNCHANGED <<transferred, scope, dbVars, subVars, marker, task, faults,
                 failed, calm>>

Next ==
  \/ \E r \in Records : TransferPartial(r)
  \/ \E p \in Procs, r \in Records : Transfer(p, r) \/ Backfill(p, r)
  \/ \E p \in Procs, e \in Events : TakeEvent(p, e) \/ TakeUnowned(p, e)
  \/ \E p \in Procs, m \in Months : RunByHand(p, m)
  \/ \E p \in Procs : Tick(p) \/ TickBlind(p) \/ Step(p)
  \/ \E p \in Procs : ClaimFails(p) \/ Fail(p) \/ Crash(p)
  \/ \E e \in Events : Deliver(e) \/ ExpireClaim(e)
  \/ NextMonth

Spec == Init /\ [][Next]_vars

-----------------------------------------------------------------------------
Steps == {"idle", "claim", "probe", "list", "reserve", "persist", "mark",
          "settle"}

InvoiceType == [number : Nat, source : Sources, items : SUBSET Records,
                asOf : 0 .. MaxMonth]

TaskType == [pc : Steps, source : Sources \cup {None}, items : SUBSET Records,
             number : Nat, asOf : 0 .. MaxMonth, todo : SUBSET Orgs,
             auto : BOOLEAN]

(***************************************************************************)
(* Rows and pipelines have their types.                                    *)
(***************************************************************************)
TypeOK ==
  /\ month \in Months
  /\ transferred \in [Records -> 0 .. MaxMonth]
  /\ invoices \subseteq InvoiceType
  /\ nextNumber \in Nat \ {0}
  /\ claimed \subseteq Events
  /\ queue \in [Events -> {"absent", "due", "done"}]
  /\ marker \in 0 .. MaxMonth
  /\ task \in [Procs -> TaskType]
  /\ faults \in Nat
  /\ failed \subseteq Orgs \X Months
  /\ tripped \subseteq Events
  /\ unowned \subseteq Events
  /\ calm \in BOOLEAN

(***************************************************************************)
(* No commission is invoiced twice and no number given twice, whichever of *)
(* the transfer, the scheduler, the two CLIs and the workers meet on it.   *)
(***************************************************************************)
IssuedOnce ==
  \A i, j \in invoices :
    i.number = j.number \/ i.source = j.source \/ i.items \cap j.items # {}
      => i = j

(***************************************************************************)
(* "Zero trou" (migration 121, invoice_number_counter): while pipelines    *)
(* run one at a time and no call fails the numbers issued are continuous,  *)
(* because each flow finds out before it draws a number whether its row    *)
(* can be inserted.  The one exception is the backfill of a record that a  *)
(* consolidation has billed.                                               *)
(***************************************************************************)
NumbersAreContinuous ==
  calm => \A n \in 1 .. nextNumber - 1 :
            \/ \E i \in invoices : i.number = n
            \/ \E p \in Procs : task[p].pc = "persist" /\ task[p].number = n

(***************************************************************************)
(* The safety net of firePerMilestoneInvoice: once the scheduler has       *)
(* marked a month, every commission of the month is on an invoice, however *)
(* its own invoice got lost; except for an organization whose              *)
(* consolidation failed, or was run by hand before the month was over.     *)
(***************************************************************************)
Excused(o, m) ==
  \/ <<o, m>> \in failed
  \/ \E i \in invoices : i.source = <<"month", <<o, m>>>> /\ i.asOf = m

MarkedMonthIsBilled ==
  marker # 0 =>
    \A o \in Orgs : Outstanding(o, marker) = {} \/ Excused(o, marker)

(***************************************************************************)
(* A paid subscription is lost to a failed call only: the row of its event *)
(* is done only when the invoice exists or is being made, unless           *)
(*   - the owner could not be resolved at some attempt (a failed query     *)
(*     among the reasons), which handleInvoicePaid takes for permanent, or *)
(*   - an attempt failed after it had claimed the event.  The claim of     *)
(*     IssueFromSubscription is not released, so the retry that            *)
(*     handleInvoicePaid asks for ("another chance to issue the invoice")  *)
(*     is a duplicate if it comes within the five minutes.                 *)
(* Two workers on one row, repeated runs and expiring claims lose nothing. *)
(***************************************************************************)
DoneIsInvoiced ==
  \A e \in Events : queue[e] = "done" =>
    LET s == <<"subscription", e>>
    IN \/ Invoiced(s) \/ \E p \in Procs : MakingBy(p, s)
       \/ e \in tripped \cup unowned
=============================================================================
