-------------------------------- MODULE Outbox --------------------------------
(***************************************************************************)
(* The pending_events queue, which carries the timers of module Contract   *)
(* and the Stripe webhooks, and the workers that drain it                  *)
(* (internal/adapter/worker over pending_event_repository.go).             *)
(*                                                                         *)
(* A worker claims a batch of due rows in one statement, runs their        *)
(* handlers one after another and settles each row with an UPDATE that     *)
(* checks only that the row is still processing: a claim has no owner.  A  *)
(* row that stays processing for longer than a threshold is taken to be    *)
(* the leftover of a crash and claimed again.                              *)
(*                                                                         *)
(* Time is abstracted to two flags of a row: due (fires_at has passed) and *)
(* stale (updated_at is older than the threshold).  The threshold is meant *)
(* to be longer than any claim lasts; timely says whether the behaviour    *)
(* keeps to that.  A batch of ten slow handlers need not.                  *)
(***************************************************************************)
EXTENDS Naturals, FiniteSets

CONSTANTS
  Events,       \* events that may be scheduled
  Workers,      \* API processes, each with one worker
  BatchSize,    \* rows claimed by one PopDue at most
  MaxAttempts,  \* claims of one row at most
  MaxFaults,    \* bound: workers cut off and settling writes lost
  NoEvent       \* what a worker is on when it is on nothing

ASSUME OutboxAssumption ==
  /\ IsFiniteSet(Events) /\ IsFiniteSet(Workers)
  /\ BatchSize \in Nat \ {0}
  /\ MaxAttempts \in Nat \ {0}
  /\ MaxFaults \in Nat
  /\ NoEvent \notin Events

VARIABLES
  row,        \* pending_events: [status, attempts, due, stale]
  batch,      \* batch[w]: rows w has claimed and not started
  current,    \* current[w]: the row w is on, NoEvent when none
  step,       \* step[w]: "idle", "running", "succeeded" or "failed"
  copy,       \* copy[w][e]: attempts on the copy of e that w holds
  ran,        \* ran[e]: times the handler of e has been started
  succeeded,  \* succeeded[e]: times it has returned without an error
  faults,     \* faults so far
  timely      \* no row goes stale while a live worker holds it

workerVars == <<batch, current, step, copy>>
runVars    == <<ran, succeeded>>
vars       == <<row, workerVars, runVars, faults, timely>>

Blank == [e \in Events |-> 0]

Holds(w, e) == e \in batch[w] \/ current[w] = e

Resting(w) == batch[w] = {} /\ step[w] = "idle"

Init ==
  /\ row = [e \in Events |-> [status |-> "absent", attempts |-> 0,
                              due |-> FALSE, stale |-> FALSE]]
  /\ batch = [w \in Workers |-> {}]
  /\ current = [w \in Workers |-> NoEvent]
  /\ step = [w \in Workers |-> "idle"]
  /\ copy = [w \in Workers |-> Blank]
  /\ ran = [e \in Events |-> 0]
  /\ succeeded = [e \in Events |-> 0]
  /\ faults = 0
  /\ timely \in BOOLEAN

-----------------------------------------------------------------------------
(***************************************************************************)
(* Rows: insertion and the passage of time.                                *)
(***************************************************************************)
\* Schedule, ScheduleTx, ScheduleStripe.  A second insert of the same Stripe
\* event does nothing.
Schedule(e) ==
  /\ row[e].status = "absent"
  /\ row' = [row EXCEPT ![e].status = "pending"]
  /\ UNCHANGED <<workerVars, runVars, faults, timely>>

ComeDue(e) ==
  /\ row[e].status \in {"pending", "failed"} /\ ~ row[e].due
  /\ row' = [row EXCEPT ![e].due = TRUE]
  /\ UNCHANGED <<workerVars, runVars, faults, timely>>

GoStale(e) ==
  /\ row[e].status = "processing" /\ ~ row[e].stale
  /\ timely => \A w \in Workers : ~ Holds(w, e)
  /\ row' = [row EXCEPT ![e].stale = TRUE]
  /\ UNCHANGED <<workerVars, runVars, faults, timely>>

-----------------------------------------------------------------------------
(***************************************************************************)
(* The worker.                                                             *)
(***************************************************************************)
\* Fault: rows of crashed workers are not claimed again.
ClaimableFresh(e) ==
  /\ row[e].attempts < MaxAttempts
  /\ row[e].status \in {"pending", "failed"} /\ row[e].due

\* Fault: the "attempts < 5" predicate is missing.
ClaimableUncapped(e) ==
  \/ row[e].status \in {"pending", "failed"} /\ row[e].due
  \/ row[e].status = "processing" /\ row[e].stale

\* Fault: every row in processing is taken for the leftover of a crash.
ClaimableAtOnce(e) ==
  /\ row[e].attempts < MaxAttempts
  /\ row[e].status \in {"pending", "failed"} => row[e].due
  /\ row[e].status \in {"pending", "failed", "processing"}

Claimable(e) ==
  /\ row[e].attempts < MaxAttempts
  /\ \/ row[e].status \in {"pending", "failed"} /\ row[e].due
     \/ row[e].status = "processing" /\ row[e].stale

\* Fault: taking over a stale row is not counted as an attempt.
ClaimedUncounted(r) ==
  [r EXCEPT !.status = "processing", !.stale = FALSE,
            !.attempts = IF r.status = "processing" THEN @ ELSE @ + 1]

\* What the UPDATE of PopDue makes of a row.
Claimed(r) ==
  [r EXCEPT !.status = "processing", !.attempts = @ + 1, !.stale = FALSE]

\* PopDue: as many claimable rows as fit, in one statement.  Which ones is
\* left open (the code takes the longest due).
PopDue(w) ==
  LET due == {e \in Events : Claimable(e)}
  IN /\ Resting(w) /\ due # {}
     /\ \E claim \in SUBSET due :
          /\ \/ Cardinality(claim) = BatchSize
             \/ claim = due /\ Cardinality(due) < BatchSize
          /\ row' = [e \in Events |-> IF e \in claim THEN Claimed(row[e])
                                                     ELSE row[e]]
          /\ batch' = [batch EXCEPT ![w] = claim]
          /\ copy' = [copy EXCEPT ![w] = [e \in Events |->
                        IF e \in claim THEN row[e].attempts + 1 ELSE 0]]
     /\ UNCHANGED <<current, step, runVars, faults, timely>>

\* processOne: the handler of one row of the batch starts ...
StartHandler(w) ==
  /\ step[w] = "idle"
  /\ \E e \in batch[w] :
       /\ batch' = [batch EXCEPT ![w] = @ \ {e}]
       /\ current' = [current EXCEPT ![w] = e]
       /\ ran' = [ran EXCEPT ![e] = @ + 1]
  /\ step' = [step EXCEPT ![w] = "running"]
  /\ UNCHANGED <<row, copy, succeeded, faults, timely>>

\* ... and returns, or returns an error, or panics, or there is none.
HandlerReturns(w) ==
  /\ step[w] = "running"
  /\ step' = [step EXCEPT ![w] = "succeeded"]
  /\ succeeded' = [succeeded EXCEPT ![current[w]] = @ + 1]
  /\ UNCHANGED <<row, batch, current, copy, ran, faults, timely>>

HandlerFails(w) ==
  /\ step[w] = "running"
  /\ step' = [step EXCEPT ![w] = "failed"]
  /\ UNCHANGED <<row, batch, current, copy, runVars, faults, timely>>

\* The worker is through with its current row.
Advance(w) ==
  /\ current' = [current EXCEPT ![w] = NoEvent]
  /\ step' = [step EXCEPT ![w] = "idle"]
  /\ copy' = [copy EXCEPT ![w] = [@ EXCEPT ![current[w]] = 0]]
  /\ UNCHANGED <<batch, runVars, timely>>

\* Fault: UPDATE ... WHERE id.
SettleUnguarded(e, settled) ==
  row' = [row EXCEPT ![e] = settled]

\* UPDATE ... WHERE id AND status = 'processing'.
Settle(e, settled) ==
  row' = IF row[e].status = "processing" THEN [row EXCEPT ![e] = settled]
                                         ELSE row

MarkDone(w) ==
  LET e == current[w]
  IN /\ step[w] = "succeeded"
     /\ Settle(e, [row[e] EXCEPT !.status = "done"])
     /\ Advance(w)
     /\ UNCHANGED faults

\* Fault: an event that is out of attempts is settled as done.
MarkFailedQuietly(w) ==
  LET e == current[w]
      last == copy[w][e] >= MaxAttempts
  IN /\ step[w] = "failed"
     /\ Settle(e, [row[e] EXCEPT !.status = IF last THEN "done" ELSE "failed",
                                 !.due = last])
     /\ Advance(w)
     /\ UNCHANGED faults

\* Fault: an event that is out of attempts is left as it is.
MarkFailedUnlessLast(w) ==
  LET e == current[w]
      last == copy[w][e] >= MaxAttempts
  IN /\ step[w] = "failed"
     /\ Settle(e, [row[e] EXCEPT !.status = IF last THEN @ ELSE "failed",
                                 !.due = last])
     /\ Advance(w)
     /\ UNCHANGED faults

\* MarkFailed: fires_at moves to the end of the backoff, unless the copy is
\* out of attempts.
MarkFailed(w) ==
  LET e == current[w]
  IN /\ step[w] = "failed"
     /\ Settle(e, [row[e] EXCEPT !.status = "failed",
                                 !.due = copy[w][e] >= MaxAttempts])
     /\ Advance(w)
     /\ UNCHANGED faults

\* The settling write fails: the worker logs it and goes on.
LoseSettlement(w) ==
  /\ step[w] \in {"succeeded", "failed"} /\ faults < MaxFaults
  /\ faults' = faults + 1
  /\ Advance(w)
  /\ UNCHANGED row

\* The process dies with its batch, and is started again.
Crash(w) ==
  /\ ~ Resting(w) /\ faults < MaxFaults
  /\ faults' = faults + 1
  /\ batch' = [batch EXCEPT ![w] = {}]
  /\ current' = [current EXCEPT ![w] = NoEvent]
  /\ step' = [step EXCEPT ![w] = "idle"]
  /\ copy' = [copy EXCEPT ![w] = Blank]
  /\ UNCHANGED <<row, runVars, timely>>

Work(w) ==
  \/ PopDue(w) \/ StartHandler(w) \/ HandlerReturns(w) \/ HandlerFails(w)
  \/ MarkDone(w) \/ MarkFailed(w)

Next ==
  \/ \E e \in Events : Schedule(e) \/ ComeDue(e) \/ GoStale(e)
  \/ \E w \in Workers : Work(w) \/ LoseSettlement(w) \/ Crash(w)

Spec == Init /\ [][Next]_vars

(***************************************************************************)
(* Time passes, and every worker ticks and works through its batch.        *)
(***************************************************************************)
Fairness ==
  /\ \A e \in Events : WF_vars(ComeDue(e)) /\ WF_vars(GoStale(e))
  /\ \A w \in Workers : WF_vars(Work(w))

LiveSpec == Spec /\ Fairness

-----------------------------------------------------------------------------
RowStatus == {"absent", "pending", "processing", "failed", "done"}

RowType == [status : RowStatus, attempts : 0 .. MaxAttempts,
            due : BOOLEAN, stale : BOOLEAN]

(***************************************************************************)
(* Rows and workers have their types; a row is claimed MaxAttempts times   *)
(* at most (the "attempts < 5" of PopDue).                                 *)
(***************************************************************************)
TypeOK ==
  /\ row \in [Events -> RowType]
  /\ batch \in [Workers -> SUBSET Events]
  /\ current \in [Workers -> Events \cup {NoEvent}]
  /\ step \in [Workers -> {"idle", "running", "succeeded", "failed"}]
  /\ copy \in [Workers -> [Events -> 0 .. MaxAttempts]]
  /\ ran \in [Events -> Nat]
  /\ succeeded \in [Events -> Nat]
  /\ faults \in Nat
  /\ timely \in BOOLEAN

(***************************************************************************)
(* "There is no possibility of double-pop" (PopDue): while claims are      *)
(* shorter than the staleness threshold no two workers hold the same row,  *)
(* whatever crashes and lost writes leave behind.                          *)
(***************************************************************************)
ClaimsAreExclusive ==
  timely => \A v, w \in Workers, e \in Events :
              Holds(v, e) /\ Holds(w, e) => v = w

(***************************************************************************)
(* A handler never runs more often than its row has been claimed, so       *)
(* MaxAttempts caps the executions and not just the bookkeeping, also when *)
(* two workers are on the same row.                                        *)
(***************************************************************************)
RunsArePaidFor == \A e \in Events : ran[e] <= row[e].attempts

(***************************************************************************)
(* An event is not lost by being marked done: some run of its handler has  *)
(* succeeded, though a claim has no owner and a worker may settle a row    *)
(* that another one has taken over.                                        *)
(***************************************************************************)
DoneMeansSucceeded ==
  \A e \in Events : row[e].status = "done" => succeeded[e] > 0

(***************************************************************************)
(* Without overlapping claims the effects of an event are repeated only    *)
(* because of a crash or a lost write, once for each.                      *)
(***************************************************************************)
SuccessIsNotRepeated ==
  timely => \A e \in Events : succeeded[e] <= 1 + faults

(***************************************************************************)
(* A row that is done stays done: a late failure of a worker that lost its *)
(* claim does not put it back into the queue.                              *)
(***************************************************************************)
DoneIsFinal ==
  [][\A e \in Events : row[e].status = "done" => row'[e].status = "done"]_vars

-----------------------------------------------------------------------------
(***************************************************************************)
(* Crashes lose nothing: every scheduled event is retried until it is done *)
(* or out of attempts.                                                     *)
(***************************************************************************)
NothingIsForgotten ==
  \A e \in Events :
    row[e].status = "pending"
      ~> row[e].status = "done" \/ row[e].attempts = MaxAttempts

(***************************************************************************)
(* Unless a worker is cut off, every event ends up done or failed, where   *)
(* the admin sees it.                                                      *)
(***************************************************************************)
EventsSettle ==
  \A e \in Events :
    row[e].status = "pending"
      ~> \/ row[e].status = "done"
         \/ row[e].status = "failed" /\ row[e].attempts = MaxAttempts
         \/ faults > 0

(***************************************************************************)
(* "After this many attempts the row is left in failed status and surfaced *)
(* via the admin pending-events table" (pendingevent.MaxAttempts).  A      *)
(* crash during the last attempt leaves it in processing.                  *)
(***************************************************************************)
ExhaustedIsSurfaced ==
  \A e \in Events :
    row[e].attempts = MaxAttempts ~> row[e].status \in {"done", "failed"}
=============================================================================
