# Verification of the marketplace contract

TLA+ models, TLC instances and TLAPS proofs for the parts of this repository whose
correctness depends on the order of things: the milestone contract of the Go backend with
its escrow, payment confirmations and timers, the queue that drives them, the disputes over
it, the invoices of the platform, and the audio/video calls between the API and the browser
tabs.

## 1. Inventory

The backend (`backend/`, Go, hexagonal) is the only holder of state; the web, admin and
mobile clients talk to it over HTTP. State lives in PostgreSQL, with Redis as a cache and
Stripe as an external ledger. What makes the contract hard is that **no service call runs
in one transaction**: a handler is a sequence of separate statements on several tables.

| Part | State it keeps | Operations | Interacts with |
|---|---|---|---|
| Milestone domain (`domain/milestone`) | status of a milestone | Fund, Submit, Approve, Reject, Release, OpenDispute, RestoreFromDispute, Cancel | every service below, on an in-memory copy |
| Proposal service (`app/proposal`) | `proposals`, `proposal_milestones` rows | accept, decline, modify, pay, confirm, request completion, complete, reject, cancel, auto-approve, auto-close | milestone and proposal repositories, payments, queue, messages |
| Payment service (`app/payment`) | `payment_records` | create intent, mark succeeded, transfer, refund, bank payout, retry | Stripe, proposal service |
| Webhook intake (`handler/stripe_handler*.go`) | none of its own in production: one insert into the queue that ignores a duplicate; the claim in Redis and `stripe_webhook_events` (`app/webhookidempotency`) serves the legacy inline path | verify, enqueue | queue |
| Pending-events queue and worker (`domain/pendingevent`, `adapter/worker`, `adapter/postgres/pending_event*`) | `pending_events` | schedule, claim a batch, settle, retry | calls the proposal service, the Stripe dispatcher and the search indexer |
| Dispute service (`app/dispute`) | `disputes`, counter-proposals | open, counter, respond, cancel, escalate, resolve, auto-resolve | writes the same milestone and proposal rows, asks for transfers and refunds |
| Invoicing (`app/invoicing`, `invoicing_repository*.go`, `cmd/invoice-monthly-run`, `cmd/invoicing-backfill`) | invoices with their items, the number counter, Redis claims and the run marker | issue per milestone, per month, per subscription; the monthly tick; two CLIs | started by transfers, the queue, the scheduler or an operator; reads `payment_records` |
| Referral, subscriptions | commissions, Stripe mirrors | follow transfers and webhooks | payment service |
| Calls (`app/call`, `adapter/redis/call_state.go`; client in `web/src/features/call`) | Redis keys per call and per user; a state machine per browser tab | initiate, accept, decline, end, probe; clicks, events, ring timers, reload | the two ends learn of each other by broadcast frames only |
| Messaging, notifications, jobs, reviews, search, moderation, GDPR, auth, organisations, profiles | their own tables | mostly create/read/update | the contract only sends to them |

Hard behaviours, each listed with its line under `hazards` in `PROJECT.json`:

- *interleaving*: two requests, or a request and a worker, on the same rows. Milestone rows
  have an optimistic lock (`WHERE id AND version`); the proposals row has none and is
  written back whole from an old copy.
- *stale reads*: the current milestone is looked up in one statement and written in another.
- *delivery*: webhooks and browser confirmations arrive late or twice.
- *crashes*: between the milestone write, the macro status and the scheduling of timers.
- *timers*: an event outlives the submission it was scheduled for; a client who vanishes.
- *several ways to the same invoice*: a transfer, the scheduler, two CLIs and the queue, held
  apart by unique indexes only.
- *queue*: claims without an owner, stale reclaims, an attempt cap.

What makes each part correct:

- milestone contract: only legal transitions, funding strictly in sequence, no lost update;
- proposal row: `completed` only when every milestone is released; in quiet moments a
  projection of the milestones; end-of-project effects once;
- payments: nothing enters escrow unpaid; paid money reaches its milestone;
- timers: submissions are settled, ghosted contracts close;
- queue: no event lost, no uncounted run, no double claim, settled events stay settled;
- disputes: a verdict is founded and given once, its money is handed out once and adds up,
  an open dispute freezes the contract, silence ends it;
- calls: no tab rings for ever, the two ends agree in the end, nobody stays locked out as
  busy;
- invoices: no commission billed twice, no number given twice and none skipped while
  pipelines take turns; what the fast path misses the monthly consolidation finds; a paid
  subscription is not dropped but by an attempt that fails or finds no owner;
- payouts (only as far as a dispute meets them): a record pays what was decided, once.

## 2. Modules

| Module | What it is |
|---|---|
| `Milestone` | statuses, allowed transitions and projections over the milestones of a proposal |
| `Escrow` | abstract specification: what the contract promises, one atomic legal step at a time |
| `Contract` | the handlers of `app/proposal` over rows and versions, the payment records, the timers |
| `ContractProofs` | inductive invariant of `Contract`, its theorems, and the refinement of `Escrow` |
| `Serial` | `Contract` with a witness of the behaviours in which handlers run one at a time |
| `SerialProofs` | what holds in those behaviours only, by an inductive invariant of its own |
| `Outbox` | the `pending_events` queue and its workers |
| `OutboxProofs` | inductive invariant of `Outbox` and its theorems |
| `Dispute` | `app/dispute`: requests, admin, scheduler and the distribution of the money, beside the proposal service; implements `Escrow`'s lifecycle |
| `DisputeProofs` | inductive invariant of `Dispute` and its theorems |
| `DisputeCalmProofs` | the same for requests that neither overlap nor fail |
| `Call` | the call service over Redis, and the web client of each tab |
| `CallProofs` | inductive invariant of `Call` and its theorems |
| `CallCalmProofs` | undisturbed calls: at rest the tabs and the server agree |
| `Invoicing` | the issuing of invoices: three flows, the scheduler, the two CLIs, one number counter |
| `InvoicingProofs` | inductive invariant of `Invoicing` and its theorems |
| `MCContract`, `MCOutbox`, `MCDispute`, `MCCall`, `MCInvoicing` | the instances for TLC |

### Contract

One proposal with `N` milestones. A handler is a record `req[p]` of a process `p`: which
step it is at (`pc`), which handler it is (`op`), its in-memory copy of the proposals row
(`row`), the milestone it is on (`m`), the version it read (`ver`) and the status it is
going to write (`to`). Every database access that other handlers can see is one action:

| Code | Actions |
|---|---|
| `AcceptProposal`, `DeclineProposal` | `Answer` (read and check), `WriteProposal` |
| `InitiatePayment` | `LoadProposal`, `ReadCurrent`, `CreatePaymentIntent` |
| `ConfirmPayment`, `payment_intent.succeeded`, `ConfirmPaymentAndActivate` | `ConfirmPayment` / `PaymentSucceeded`, `LoadForFunding`, `ReadCurrent`, `LockMilestone`, `SaveMilestone`, `RecomputeMacroStatus`, `WriteProposal` |
| `AdminActivateProposal` | the same without a payment |
| `RequestCompletion`, `CompleteProposal`, `RejectCompletion` | `LoadProposal`, `ReadCurrent`, `LockMilestone`, `SaveMilestone`, `RecomputeMacroStatus`, `WriteProposal`, `FinishSubmit` / `FinishRelease` / `FinishOther` |
| `CancelProposal`, `AutoCloseProposal` | `CancelProposal` / `FireAutoClose`, `ScanForCancel`, then `NextInSweep`, `LockMilestone`, `SaveMilestone` per milestone, then the macro status |
| `AutoApproveMilestone` | `FireAutoApprove`, `LockMilestone` onwards |
| process death, failed query | `Crash`: the handler vanishes between two steps; a worker's event goes back to the queue |

Abstractions. Amounts, documents, messages, notifications, audit rows, transfers,
commissions and reminders are left out: nothing the properties speak of depends on them.
The initial reads of `AutoApproveMilestone` (milestone, proposal, onboarding) are one
step, since what they find is checked again under the lock or cannot be taken back.
Reads that follow a handler's last write, to decide on a timer, are one step with it.
A timer is identified by the version of its submission; the delay itself is not modelled,
so a timer may fire at any time, as it may when the worker was down. Webhooks may be
delivered at any time and again after they succeeded. Creation and counter-offers belong
to other proposal rows; the status `paid` and `Proposal.Withdraw` are never reached by the
services. The simulated payment of development set-ups is left out. No `Contract` handler
writes `disputed`: that is `Dispute`.

### Outbox

Rows have a status, an attempt count and two flags that stand for the clock: `due`
(`fires_at` has passed) and `stale` (`updated_at` older than the threshold). Workers claim
up to `BatchSize` rows in one statement, run handlers one by one and settle each with an
`UPDATE` guarded by the status alone. Handlers fail or succeed freely. `timely` is chosen
once per behaviour: when true no row goes stale while a live worker holds it, the
assumption the code's comments make; when false claims overlap, which a slow batch allows,
because the threshold counts from the claim of the whole batch.

`Contract` uses the queue in abstract form (an event is outstanding until it is handled,
and comes back when its handler fails): `Outbox` shows to what extent that is right. Up to
the attempt cap no event is lost, and repeated runs are bounded by claims.

### Dispute

The same proposal and milestone rows, now with the disputes, their offers, the payment
record of each milestone and a ledger of what Stripe was asked to do. A handler is again a
record `req[p]`, one action per statement:

| Code | Actions |
|---|---|
| `OpenDispute` | `OpenDispute`, `CheckExisting`, `CreateDispute`, `Freeze`, `MarkProposal`, `FirstOffer` |
| `CounterPropose` | `CounterPropose`, `Supersede`, `CreateCounterProposal`, `SaveDispute` |
| `RespondToCounter` | `RespondToCounter`, `Consider`, `Answer`, `SaveDispute`, then the settlement |
| `CancelDispute`, `RespondToCancellation` | the same names, `Supersede` where consent is asked, `SaveDispute`, `ReloadProposal`, `Reactivate` |
| `AdminResolve`, `ForceEscalate`, `Scheduler.tick` | `AdminResolve`, `ForceEscalate`, `Tick`, then `SaveDispute` |
| `restoreProposalAndDistribute`, `restoreAndDistribute` | `LoadForSettling`, `Thaw`, `Sweep`, `CompleteProposal`, `TransferPartialToProvider`, `RefundToClient` |
| proposal service | `BeginWork`, `Work`, `WriteWork` (in full in `Contract`) |
| the provider's payout request | `RequestPayout` |
| process death, failed query, failed step that is only logged | `Crash`, `StepFails` |

Abstractions. What a handler makes of its copy of a disputes row is written only if the row
has not changed, so the copy is not kept: `fresh` says that the row is still the one read.
A read directly followed by its versioned write (`Freeze`, `Thaw`) is one step, and a
conflict between the two is one of the faults. Amounts are the provider's share of one
price. Whether Stripe makes a transfer at once or it is deferred (no account yet) is free.
The AI summaries, the AI chat and their token budget are left out, and so are messages,
notifications and evidence. The week of inactivity is not measured: the scheduler may find
any dispute inactive at any time.

`distributed` and `calm` are history variables. `calm` says that no step failed and that no
handler began while another was running; the two properties that need it are about single
requests, one after the other, and hold for no more than that (hazards list the overlaps
that break them).

### Call

The server half is the requests: each runs through `pc`, one action per access to Redis or
broadcast, and its answer reaches the tab as a separate action. The client half is a record
per tab: how far the lazily loaded runtime is, what is queued for it, the state of
`useCall`, and the ring timers that are armed with the reference that cancels them.

| Code | Actions |
|---|---|
| `Service.Initiate` | `CheckParties`, `SaveNewCall` |
| `Service.Accept` | `ReadForAccept`, `SaveAccepted` |
| `Service.Decline`, `Service.End` | `ReadForClose`, `TellClosed`, `RemoveActiveCall` |
| TTL of the keys | `Expire` |
| `CallSlot`, `CallRuntime` | `ClickCall`, `MountRuntime`, `StartQueued` |
| `useCall` | `HangUp`, `AcceptIncoming`, `DeclineIncoming`, `RingTimeout`, `ReceiveEvent`, `Answer` |
| pagehide, unload | `Reload` |
| `useReconcileCallOnMount` | `Probe`, `HangUpOrphan` |
| network error, dead API process, missed frame | `Cut`, and the missed tabs of `Broadcast` |

Abstractions. Saving a call and telling the other party are one step, since nobody acts on
one without the other; a Redis pipeline is atomic. `Initiate`'s look at both parties is one
step, and fails open as in the code: a party whose key cannot be read (a mishap) passes for
free. The buttons of a ringing tab are not disabled, so a user may click again with a
request outstanding; equal requests that would wait at the same place count as one. React
refs are in step with the state but for the one flush in which the runtime mounts, which
replays a queued start and a queued incoming call on the state of the first render. LiveKit,
microphone, camera, duration and view mode are left out.

### Invoicing

A pipeline is a record `task[p]` of a process: its next step, what it invoices (`source`),
the payment records on the invoice (`items`), the number it has drawn, and, for a batch, the
organizations still to visit. Every call that others can see is one action:

| Code | Actions |
|---|---|
| `TransferMilestone`, `RequestPayout`, `RetryFailedTransfer` with `firePerMilestoneInvoice` | `Transfer` |
| `TransferPartialToProvider` (no invoice is fired) | `TransferPartial` |
| `cmd/invoicing-backfill`, `cmd/invoice-monthly-run` | `Backfill`, `RunByHand` |
| `enqueueAsync`, the worker, `handleInvoicePaid` | `Deliver`, `TakeEvent`, or `TakeUnowned` when the owner is not resolved; `Settle` |
| `Scheduler.Tick` | `Tick`, or `TickBlind` when the marker cannot be read; `GoOn`, `MarkMonth` |
| `IssueFromSubscription` | `TryClaim` or `ClaimFails`, `Probe`, then the common end |
| `IssueFromMilestone` | `Probe` or `SkipFee`, then the common end |
| `IssueMonthlyConsolidated` | `Probe`, `ListRecords`, then the common end |
| `buildAndPersist` | `ReserveNumber`, `CreateInvoice` |
| expiry of a claim, the calendar | `ExpireClaim`, `NextMonth` |
| failed call, process death, lost settling write | `Fail`, `Crash` |

Abstractions. Amounts, tax, recipients, the PDF and the e-mail are left out; a failure of
rendering or storing is `Fail`. Every payment record has a commission and an approved
milestone (records without a commission are skipped everywhere). The list of a
consolidation and its second probe per record are one step: both ask whether the record is
billed, and nothing but an invoice changes the answer. The scheduler's window (the first of
the month, two hours) is not modelled: it may tick at any time of the month, or never. A
claim may expire at any time. Why an owner is not resolved (no metadata, or a failed query) is
left out: it counts as a fault. `asOf`, `failed`, `tripped`, `unowned` and `calm` are history:
the month a consolidation listed in, the consolidations that failed, the events an attempt at
which failed after its claim, those whose owner an attempt did not resolve, and whether
pipelines took turns without a failure.

## 3. Runs

| Run | Instance | Question |
|---|---|---|
| `contract_requests` | 2 users, 2 milestones, 1 crash | can two requests, interleaved anywhere, break the escrow or fake a completion? |
| `contract_timers` | user + worker, 2 milestones, 1 crash, onboarding at any time | the same with webhooks and timers; can anything be funded before a payment? Where handlers ran one at a time, do the promises that assume no interference hold? |
| `contract_liveness` | user + worker, fairness | does the worker alone keep the contract moving? |
| `contract_double_fund` | 1 user | *violated*: duplicates do not double-fund |
| `contract_stale_timer` | one process | *violated*: a new submission restarts the auto-approval timer |
| `contract_double_close_out` | user + worker | *violated*: a late auto-approval is a no-op |
| `outbox_queue` | 2 workers, 2 events, batches of 2, 1 fault, fairness | claims, runs and settlements under overlap and crashes; is every event retried, and does it settle? |
| `outbox_exhausted` | 1 worker | *violated*: an exhausted event is left in failed |
| `disputes` | 2 processes, 2 milestones, 1 dispute, 4 requests or faults, fairness | can racing or broken settlements pay twice, or a verdict come out of nothing? is silence ended? |
| `dispute_full_refund` | 1 process, 1 milestone | *violated*: the payment record reflects the decision |
| `invoices` | 2 processes, 2 organizations, 1 subscription, 2 months, 1 fault | can a commission be billed twice or missed, a number repeated or skipped, a subscription dropped? |
| `calls` | 2 users with a tab each, 2 calls, 1 mishap | can a tab ring for ever? do the two ends agree in the end? |

Bounds and why they suffice. Races are between two handlers, so two processes; a third
multiplies the states by more than ten and adds no kind of conflict, since every conflict
is about one version or one row, and the theorems cover any number. Two milestones give a
predecessor and a successor, which is what sequencing, sweeps and late confirmations need;
the serial promises were also checked with three milestones and one process (273,341
states). `Serial` keeps a flag, `alone`, that is true as long as no two handlers have
overlapped, none was cut off and the provider did not onboard with the contract under way;
it restricts nothing, so the same run answers for all interleavings. `MaxVersion` stops new
rejections at a version that allows a rejected and repeated submission. One crash can fall
between any two steps. `contract_requests` brings money in through the admin's activation, which
needs no payment and so allows more than a confirmation would; payments race in
`contract_timers`. `contract_liveness` leaves rejections out because a client and a
provider who reject and resubmit for ever are not a failure of the scheduler. The queue
has `MaxAttempts` 2 (5 in the code): one retry is enough for every pattern of overlap and
takeover; a batch of two means that an event can go stale behind another one. The safety
part was also checked with three events, more than a batch (6.6 million states).

In `disputes` one dispute id is enough: while one is open `CheckExisting` refuses another,
so a second appears beside it only as the orphan of a request that failed or lost a race,
and it then shares nothing but the version of its own row. The instance was also checked
with two disputes (no faults, 4.6 million states; one fault and three requests, 1.5
million). Four requests and faults allow a dispute, an answer, a competing answer and a
crash; the scheduler's own work is not bounded. In `calls` the two theorems hold for any
number of requests, so one request in flight is enough to look at agreement, which is
stated for requests that do not overlap; two in flight were checked for one call with a
mishap and for two calls without. Two calls allow an event or a timer of the first to reach
the second.

In `invoices` two pipelines are enough for every conflict, which is always about one record
or one source. `MaxScope` 2 takes two of the two records and the event into a behaviour, in
every combination; two records of one organization, and two of each, were checked as well
(7.3 million states). `MaxMonth` 2 has one month to consolidate and one in which it is done;
what a second consolidated month could add, a marker that names an older month, was checked
with `MaxMonth` 3, without events, and is covered by the theorems. `MaxNumber` stops the
backfill, which an operator could start for ever. One fault can fall on any call.

`CHECK_DEADLOCK FALSE`: when every event is settled, every dispute is over or no tab has
anything to do, the queue, the disputes and the calls may stop.

Fairness. A handler that has started runs on (`WF` of `Step`): it is a goroutine or the
worker's loop. The worker ticks for ever and claims due rows in `fires_at` order, so an
event that keeps being due is eventually handled although the worker is busy with others
in between: `SF` of the firing actions. The webhook is fair until the payment is recorded,
because Stripe and the queue retry it so far; a repetition after that may happen and is
never owed (were it owed, the duplicate of finding 1 would itself rescue a contract whose
close event is missing). Nothing is assumed of users, of the client's payment, or of the
provider's onboarding. In `Outbox`, time passes (`WF` of `ComeDue`, `GoStale`) and every
worker keeps working (`WF` of `Work`). In `Dispute` a handler that has started runs on, and
the scheduler's hourly tick comes again and again (`SF` of `Tick`: other handlers may keep
the process it would run in busy); nothing is assumed of the parties or the admin, so an
escalated dispute may wait for ever. `Invoicing` and `Call` state no fairness: the
scheduler has two hours a month, and what a missed window loses is for the operator; that
ringing ends is stated as the presence of a timer that is armed, which the browser fires.

### Findings

1. `FundedIsPaid` fails: a repeated confirmation of milestone 1, after its release, funds
   milestone 2 unpaid (`ConfirmPaymentAndActivate` gets a proposal id and nothing else).
2. `AutoApprovalActsOnItsSubmission` fails: the event of a rejected submission releases
   the next one early.
3. `CloseOutAtMostOnce` fails: an auto-approval that loses against a manual approval still
   runs the end-of-project effects.
4. `ExhaustedIsSurfaced` fails: a row cut off during its last attempt stays in processing.
5. `NothingMeansNothing` fails: after a verdict that refunds the client in full the step
   that writes the decision into the payment record is skipped; the record keeps the full
   payout, pending, and the provider's payout request then takes it.

Seen while modelling and not stated as a run:

The comment of `CancelProposal` (`service_actions.go:392-396`) says of the recomputed
status: "If at least one milestone was released → completed" and "If no milestones were
released → declined (hard-stop)". The code does neither. `deriveMacroStatus` makes `active`
of released and cancelled milestones and `accepted` of cancelled ones alone, a `pending` row
is not recomputed, and so the contract stays as it was. `CompletedMeansAllReleased` and
`AloneStatusIsProjection` state what the code computes; where the comment speaks of
cancelled contracts they contradict it, and that they hold says that the code does not do
what it announces. Which of the two is meant is for its authors. The auto-close shares it:
`GhostedProposalCloses` says that every milestone ends, while the proposals row stays
`active`, although `service_scheduler.go:78-81` introduces the timer "instead of leaving the
proposal in limbo forever".

In the contract: the proposals row can be overwritten by a stale copy, so
`MacroStatusIsProjection` holds only for handlers that do not overlap (the `completed`
status survives, see `CompletedMeansAllReleased`); a crash after the milestone write leaves
a submission without its timer; an auto-approval deferred for onboarding is never retried,
although its comment counts on a future tick; a cancelled milestone may have been paid
through an intent that nobody cancels.

In disputes: cancellation and the scheduler's ruling leave the milestone `disputed`, although
the comment of the helper that restores it (`app/dispute/service_actions.go:74-78`) has it
"called from dispute resolution / cancellation paths";
agreeing to a cancellation of a dispute that was resolved meanwhile turns it `cancelled`;
two requests that open a dispute at once, or a freeze that fails, leave an open dispute
without a frozen milestone; a payout request between the completion of the proposal and the
split takes the full amount, and the split is paid on top.

In invoicing: the claim on a subscription event is kept for five minutes and the queue
retries after one, so an attempt that fails after its claim is taken for a duplicate next
time and the invoice is lost, although `stripe_handler_more.go:234-236` counts on "another
chance"; an owner that cannot be resolved settles the event without an invoice, which its
comment (lines 208-210) justifies by lost metadata, but a failed query for the user's
organization (line 264) ends there too; a number is drawn in a transaction of its own, so a
failure after it or a lost race leaves a hole, while `service.go:295` and
`migrations/121_create_invoicing.up.sql:215-217` place the counter and the row in one
transaction; the backfill of a record that a consolidation has billed draws a number for
nothing; one record billed by somebody else while a consolidation is on its way makes all of
it fail; the month is marked although organizations failed; a run by hand within a month
makes the scheduler skip what is transferred in the rest of it. `Excused`, `tripped`,
`unowned` and `calm` exclude these, and no more.

In calls: two initiations that cross are both saved; an accept that crosses an end brings
the call back; removing a call deletes user keys that name another one; an accept faster
than the answer to the initiation leaves the hang-up timer armed in an established call; a
hang-up before that answer leaves a call that the tab does not know; a runtime starts one
outgoing call per page load; the reconcile toast tells only the other party; a second click
on accept can fail, and its cleanup (`use-call.ts:214-217`) drops the call the first one
accepted; `Initiate` takes a party for free when the key cannot be read. These are the
overlaps and losses that the premises of `QuietTabsAgree` and `BusyIsReal` exclude.

## 4. Proofs

`ContractProofs` is checked by TLAPS for all values of the constants that satisfy
`ContractAssumption`: any number of milestones, user and worker processes, rejections and
crashes, any set of operations. Processes that serve both roles are allowed.

Sequential escrow alone is not inductive: a funding write is safe only because of what the
handler read several steps earlier. `HandlerInv` says what survives in between:

- *WriteIsLegal*: a handler about to write either has a version the row has moved past, so
  the write will fail, or the row still has the status it checked;
- *FundingIsInOrder*: the milestones before the one being funded are over. This is stable
  because terminal statuses have no way out (`RowsAreMonotone`);
- *CopyIsRight*: a copy of the proposal that says `completed` is right, now and for ever.

`IInv` is the conjunction of `TypeOK`, `SequentialEscrow`, `CompletedMeansAllReleased` and
`HandlerInv`. The argument goes through the writes: `RowsChangeByWrites` shows that only
one action changes milestone rows, `RowWriteIsLegal` that under `IInv` it makes one legal,
sequential transition or none, and the preservation of each conjunct follows from these
two, with one step per action. From `Inductive` come the four invariants as theorems and
`RowsImplementEscrow`: the interleaved implementation refines `Escrow`.
`FundingIsAfterAPayment` adds the strengthening `PaidInv` (a funding handler in flight has
seen a payment) and assumes that the admin's forced activation is not used.

`SerialProofs` proves the four promises of handlers that run one at a time, with the same
assumption (the forced activation funds a milestone of a proposal nobody accepted). They
speak of the moments between two handlers, so alone they say nothing to start from in the
middle of one. `SerialInv` is the situation (`Situation(r)`) at every step of the one
handler `r` that may be running:

- *Underway*, *Certain*: its copy is the row, and no milestone it has looked at has moved, so
  no lock and no write fails, and nothing goes back to the queue;
- *Projected*: the row is the projection but between the write of a milestone and that of the
  proposal, where the milestone has the handler's target status and the row is not yet
  `completed`. A sweep needs no exception: cancelling does not show (`CancellingDoesNotShow`);
- *ClosedOut*: the effects lag behind a completed row only in the last step of the release
  that completed it; a completed row is not completed again;
- *Timed*: a submission without its event is in the hand of the handler that schedules it, or
  of the auto-approval that is about to end it.

`OutboxProofs` proves every safety property of `outbox_queue`, for all events, workers,
batch sizes, attempt caps and fault counts that satisfy `OutboxAssumption`. The properties
are not inductive alone; `QInv` adds:

- *WorkersAreSound*: a worker in the `succeeded` step has a success to show for its row, and
  a row it is on is no longer in its batch. `MarkDone` is safe by this alone, which is why
  `DoneMeansSucceeded` needs no assumption on the clock;
- *HeldRowsAreFresh*: while claims are timely, a held row is processing and not stale. Hence
  no claimable row is held (`ClaimableIsFree`), which makes claims exclusive, and claims
  being exclusive keeps held rows from being settled by others: the two go together;
- *RunsAreAccounted*: runs started plus claims still waiting in batches are at most the
  attempts. A claim adds one to both sides, a start moves one, a crash only drops claims;
- *SuccessesAreAccounted*: an event with one success more than there were faults is done or
  in the hand of the worker that is about to settle it.

`DisputeProofs` proves, for any number of milestones, disputes, processes and faults, that
money is handed out at most once (`MoneyGoesOnce`), that verdicts are founded
(`VerdictsFounded`) and that milestones keep to their lifecycle (`MilestonesOnLifecycle`).
`DistributedOnce` alone is not inductive; `DInv` adds

- *HandlersOK*: what a handler knows at each step: it has a dispute, its operation fits the
  step, and a fresh copy shows the row it decided on (open, silent, escalated, not ruled);
- *NoVerdictYet*: an open dispute has no verdict, so a ruling is the first;
- *OneSettlement*: at most one handler is settling a dispute, the dispute has a verdict, and
  until that handler is past the transfer none of the money has gone.

The one step that matters is `SaveDispute`: it makes every other copy stale, and a stale
copy can no longer save, so the handler that ruled is the only one that goes on to settle.

`DisputeCalmProofs` proves `OpenMeansFrozen` and `VerdictIsCarriedOut`, which speak of whole
runs of a handler while none overlaps and nothing fails. `CalmInv` again gives the situation
at every step of the one handler that may be running. *Books*: there is one dispute at most
in the life of a contract, since its milestone never becomes `funded` again, and the proposal
service does nothing beside it. *Working*: what the rows and the ledger say before it.
*Ordered*, *Coherent*: the milestones around the disputed one, and which of dispute,
milestone and proposal is written first when it opens and when it closes. *Settling*: until
the verdict the milestone's money is untouched; from then on `CarriedOut` lists what is done
after each step of the settlement. The sum over Stripe's transfers needs no induction: those
that touch the disputed milestone are none or one (`ReceivedNothing`, `ReceivedOnce`).

`CallProofs` proves `CallInductive` (`TypeOK`, requests name a known call where they act on
one, `RingIsBounded`) for any users, tabs, calls, requests and mishaps. The argument is
local to a tab: every step that leaves it ringing arms a timer, keeps one, or leaves a
request outstanding whose answer will.

`CallCalmProofs` proves `QuietTabsAgree` and `BusyIsReal` for any users, tabs (several of one
user among them) and calls. Both speak only of states at rest, so the invariant behind them,
`ConversationInv`, has to say of every state in between how far a call has come. TLC checked
it with three tabs of two users and of three users before it was proved. While nothing was
lost, cut, reloaded or expired and no request overtook another:

- *Keys*: a user's key in Redis names the live call the user is a party of;
- *Stage*: what the request under way has read and written so far. A party about to save or
  accept a call is in none; an end always finds its call, a decline may come too late;
- *TabFits*: a tab is free, dialling, on the line of a call it started, ringing or talking,
  each with its timer; the call it is in is alive unless the tab is being told of its end;
- *InboxFits*: an inbox holds one frame at most, the last request's, and it is still true;
- *CallFits*: each party of a call is in it with a tab. In the two gaps the request stands for
  the party: from saving the call to the answer, and from the last word to the removal.

The gaps are where the code could go wrong. A frame closes a call before Redis forgets it, so
`TellClosed` has to reach every tab that `RemoveActiveCall` leaves behind; it does because a
user is in a call with one tab (*OneLine*) and, before the call is accepted, only the caller
is. A queued start is consumed once per page load, which keeps a tab that hung up while
dialling, and does not yet know its call, from dialling again.

`InvoicingProofs` proves all five properties of `invoices` for any organizations, records,
events, processes, months, bounds and faults. `InvoicingInv`, checked by TLC before it was
proved, adds to them:

- *PipelinesAreSound*: the source of a pipeline decides its steps and what it bills;
- *NumbersAreOwned*: a number is below the counter and on one invoice or in one hand. Only
  `ReserveNumber` draws one (`NoNumberDrawn`), and a row goes in only where no index is hit;
- *ClaimsAreAnswered*: a claimed, settling or done event has its invoice, an attempt at it, a
  failed attempt or one that found no owner, and keeps one of them (`AnsweredStays`);
- *MonthsAreSettled*: money goes out in the current month only and invoices are not taken
  back, so what is settled of a month that is over stays settled (`SettledStays`); a tick has
  settled the organizations it is through with, and a consolidation about to be inserted bills
  all that was outstanding when it listed;
- *RecordsAreDue*: a record is billed because its money went out or as the record of a fee;
- *CalmPipelines*: a pipeline that runs alone holds nothing that an index would refuse, which
  is why a number drawn in calm is used. It rests on *RecordsAreDue*: a record whose money has
  yet to go out can only be on the invoice of its own fee.

Only model-checked: liveness (fairness and leads-to are outside what the prover handles).
Every invariant and every action property that a run checks is a theorem.

## 5. Plan

Done: `Milestone`, `Escrow`, `Contract`, `Outbox`, `Dispute`, `Call`, `Invoicing` and their
proofs. What is left, in this order:

1. `Payouts` in full: bank payouts, retries of failed transfers, consents, and Stripe's
   idempotency keys. Properties: a retry pays once, distinct payments of one amount are all
   made.
2. Credit notes, which draw from the same counter table when a charge is refunded.
3. An abstract at-least-once delivery that `Outbox` implements, used by `Contract` in place
   of its own sets of outstanding events.

Not modelled: user interfaces other than the call client, search ranking, content
moderation, authentication and profile data, which carry no protocol with the contract;
subscriptions and referral commissions, which follow Stripe's webhooks; each is listed with
its reason under `components`.
