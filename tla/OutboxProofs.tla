----------------------------- MODULE OutboxProofs -----------------------------
(***************************************************************************)
(* Proofs about Outbox, for any events, workers, batch size, attempt cap   *)
(* and number of faults.                                                   *)
(*                                                                         *)
(* QInv is inductive.  It adds to the properties what a worker knows of    *)
(* its own row, what the row knows of its holder while claims are timely,  *)
(* and the runs that the claims in hand still owe.                         *)
(***************************************************************************)
EXTENDS Outbox, FiniteSetTheorems, TLAPS

(***************************************************************************)
(* What a worker knows about the row it is on.                             *)
(***************************************************************************)
WorkersAreSound ==
  \A w \in Workers :
    /\ step[w] = "idle" <=> current[w] = NoEvent
    /\ current[w] \notin batch[w]
    /\ step[w] = "succeeded" => succeeded[current[w]] > 0

(***************************************************************************)
(* While claims are timely a held row is processing, and not stale.        *)
(***************************************************************************)
HeldRowsAreFresh ==
  timely => \A w \in Workers, e \in Events :
              Holds(w, e) => row[e].status = "processing" /\ ~ row[e].stale

(***************************************************************************)
(* The runs of an event and those its claims will still start are at most  *)
(* its attempts.                                                           *)
(***************************************************************************)
Waiting(e) == {w \in Workers : e \in batch[w]}

RunsAreAccounted ==
  \A e \in Events : ran[e] + Cardinality(Waiting(e)) <= row[e].attempts

(***************************************************************************)
(* While claims are timely, an event that has succeeded once more than     *)
(* there were faults is done, or about to be.                              *)
(***************************************************************************)
InHand(e) == \/ row[e].status = "done"
             \/ \E w \in Workers : step[w] = "succeeded" /\ current[w] = e

SuccessesAreAccounted ==
  timely => \A e \in Events :
              /\ succeeded[e] <= 1 + faults
              /\ succeeded[e] <= faults \/ InHand(e)

QInv == /\ TypeOK
        /\ WorkersAreSound
        /\ DoneMeansSucceeded
        /\ ClaimsAreExclusive
        /\ HeldRowsAreFresh
        /\ RunsAreAccounted
        /\ SuccessesAreAccounted

-----------------------------------------------------------------------------
(***************************************************************************)
(* Types.                                                                  *)
(***************************************************************************)
LEMMA TypeInit == Init => TypeOK
BY OutboxAssumption DEF OutboxAssumption, Init, TypeOK, RowType, RowStatus, Blank

\* The updates of a row keep its type.
LEMMA RowUpdates ==
  ASSUME NEW r \in RowType, NEW s \in RowStatus, NEW b \in BOOLEAN
  PROVE  /\ [r EXCEPT !.status = s] \in RowType
         /\ [r EXCEPT !.due = b] \in RowType
         /\ [r EXCEPT !.stale = b] \in RowType
         /\ [r EXCEPT !.status = s, !.due = b] \in RowType
         /\ r.attempts < MaxAttempts => Claimed(r) \in RowType
<1> USE OutboxAssumption
<1>1. [r EXCEPT !.status = s] \in RowType
  BY DEF RowType
<1>2. [r EXCEPT !.due = b] \in RowType
  BY DEF RowType
<1>3. [r EXCEPT !.stale = b] \in RowType
  BY DEF RowType
<1>4. [r EXCEPT !.status = s, !.due = b] \in RowType
  BY DEF RowType
<1>5. ASSUME r.attempts < MaxAttempts
      PROVE  Claimed(r) \in RowType
  <2>1. r.attempts + 1 \in 0 .. MaxAttempts
    BY <1>5 DEF RowType, OutboxAssumption
  <2> QED
    BY <2>1 DEF RowType, Claimed, RowStatus
<1> QED
  BY <1>1, <1>2, <1>3, <1>4, <1>5

\* Every action keeps the rows typed; for the attempt cap, PopDue checks it
\* before it counts.
LEMMA RowTypeStep ==
  ASSUME TypeOK, [Next]_vars
  PROVE  row' \in [Events -> RowType]
<1> USE DEF TypeOK
<1>1. ASSUME NEW e \in Events, Schedule(e)
      PROVE  row' \in [Events -> RowType]
  <2>1. [row[e] EXCEPT !.status = "pending"] \in RowType
    BY RowUpdates DEF RowStatus
  <2> QED
    BY <1>1, <2>1 DEF Schedule
<1>2. ASSUME NEW e \in Events, ComeDue(e)
      PROVE  row' \in [Events -> RowType]
  <2>1. [row[e] EXCEPT !.due = TRUE] \in RowType
    BY RowUpdates DEF RowStatus
  <2> QED
    BY <1>2, <2>1 DEF ComeDue
<1>3. ASSUME NEW e \in Events, GoStale(e)
      PROVE  row' \in [Events -> RowType]
  <2>1. [row[e] EXCEPT !.stale = TRUE] \in RowType
    BY RowUpdates DEF RowStatus
  <2> QED
    BY <1>3, <2>1 DEF GoStale
<1>4. ASSUME NEW w \in Workers, PopDue(w)
      PROVE  row' \in [Events -> RowType]
  <2>1. PICK claim \in SUBSET {e \in Events : Claimable(e)} :
           row' = [e \in Events |-> IF e \in claim THEN Claimed(row[e]) ELSE row[e]]
    BY <1>4 DEF PopDue
  <2>2. \A e \in claim : Claimed(row[e]) \in RowType
    BY <2>1, RowUpdates DEF Claimable, RowStatus
  <2> QED
    BY <2>1, <2>2
<1>5. ASSUME NEW w \in Workers, MarkDone(w)
      PROVE  row' \in [Events -> RowType]
  <2>1. \A e \in Events : [row[e] EXCEPT !.status = "done"] \in RowType
    BY RowUpdates DEF RowStatus
  <2> QED
    BY <1>5, <2>1 DEF MarkDone, Settle
<1>6. ASSUME NEW w \in Workers, MarkFailed(w)
      PROVE  row' \in [Events -> RowType]
  <2> DEFINE late == copy[w][current[w]] >= MaxAttempts
  <2>1. \A e \in Events : [row[e] EXCEPT !.status = "failed", !.due = late] \in RowType
    <3>1. late \in BOOLEAN
      OBVIOUS
    <3> HIDE DEF late
    <3> QED
      BY <3>1, RowUpdates DEF RowStatus
  <2> HIDE DEF late
  <2>2. row' = IF row[current[w]].status = "processing"
                 THEN [row EXCEPT ![current[w]] =
                         [row[current[w]] EXCEPT !.status = "failed", !.due = late]]
                 ELSE row
    BY <1>6 DEF MarkFailed, Settle, late
  <2> QED
    BY <2>1, <2>2
<1>7. CASE UNCHANGED row
  BY <1>7
<1> QED
  BY <1>1, <1>2, <1>3, <1>4, <1>5, <1>6, <1>7
  DEF Next, Work, StartHandler, HandlerReturns, HandlerFails, LoseSettlement,
      Crash, vars

\* Type correctness is inductive.
LEMMA TypeStep ==
  ASSUME TypeOK, [Next]_vars
  PROVE  TypeOK'
<1> USE OutboxAssumption DEF OutboxAssumption
<1> DEFINE WorkerTypes ==
             /\ batch \in [Workers -> SUBSET Events]
             /\ current \in [Workers -> Events \cup {NoEvent}]
             /\ step \in [Workers -> {"idle", "running", "succeeded", "failed"}]
             /\ copy \in [Workers -> [Events -> 0 .. MaxAttempts]]
<1>1. WorkerTypes'
  <2>1. CASE UNCHANGED workerVars
    BY <2>1 DEF TypeOK, workerVars
  <2>2. ASSUME NEW w \in Workers, PopDue(w)
        PROVE  WorkerTypes'
    <3>1. PICK claim \in SUBSET {e \in Events : Claimable(e)} :
             /\ batch' = [batch EXCEPT ![w] = claim]
             /\ copy' = [copy EXCEPT ![w] = [e \in Events |->
                           IF e \in claim THEN row[e].attempts + 1 ELSE 0]]
      BY <2>2 DEF PopDue
    <3>2. [e \in Events |-> IF e \in claim THEN row[e].attempts + 1 ELSE 0]
            \in [Events -> 0 .. MaxAttempts]
      BY <3>1 DEF Claimable, TypeOK, RowType
    <3> QED
      BY <2>2, <3>1, <3>2 DEF TypeOK, PopDue
  <2>3. ASSUME NEW w \in Workers, StartHandler(w)
        PROVE  WorkerTypes'
    BY <2>3 DEF TypeOK, StartHandler
  <2>6. ASSUME NEW w \in Workers, HandlerReturns(w) \/ HandlerFails(w)
        PROVE  WorkerTypes'
    BY <2>6 DEF TypeOK, HandlerReturns, HandlerFails
  <2>4. ASSUME NEW w \in Workers, Advance(w)
        PROVE  WorkerTypes'
    <3>1. copy[w] \in [Events -> 0 .. MaxAttempts] /\ 0 \in 0 .. MaxAttempts
      BY DEF TypeOK
    <3>2. [copy[w] EXCEPT ![current[w]] = 0] \in [Events -> 0 .. MaxAttempts]
      BY <3>1
    <3> QED
      BY <2>4, <3>2 DEF TypeOK, Advance
  <2>5. ASSUME NEW w \in Workers, Crash(w)
        PROVE  WorkerTypes'
    <3>1. Blank \in [Events -> 0 .. MaxAttempts]
      BY DEF Blank
    <3> QED
      BY <2>5, <3>1 DEF TypeOK, Crash
  <2> QED
    BY <2>1, <2>2, <2>3, <2>4, <2>5, <2>6
    DEF Next, Work, Schedule, ComeDue, GoStale, MarkDone, MarkFailed,
        LoseSettlement, vars, workerVars
<1>2. /\ ran' \in [Events -> Nat] /\ succeeded' \in [Events -> Nat]
      /\ faults' \in Nat /\ timely' \in BOOLEAN
  <2>1. ASSUME NEW e \in Events, Schedule(e) \/ ComeDue(e) \/ GoStale(e)
        PROVE  UNCHANGED <<ran, succeeded, faults, timely>>
    BY <2>1 DEF Schedule, ComeDue, GoStale, runVars
  <2>2. ASSUME NEW w \in Workers, PopDue(w) \/ HandlerFails(w)
        PROVE  UNCHANGED <<ran, succeeded, faults, timely>>
    BY <2>2 DEF PopDue, HandlerFails, runVars
  <2>3. ASSUME NEW w \in Workers, StartHandler(w)
        PROVE  /\ ran' \in [Events -> Nat]
               /\ UNCHANGED <<succeeded, faults, timely>>
    BY <2>3 DEF StartHandler, TypeOK
  <2>4. ASSUME NEW w \in Workers, HandlerReturns(w)
        PROVE  /\ succeeded' \in [Events -> Nat]
               /\ UNCHANGED <<ran, faults, timely>>
    <3>1. CASE current[w] \in Events
      BY <2>4, <3>1 DEF HandlerReturns, TypeOK
    <3>2. CASE current[w] \notin Events
      BY <2>4, <3>2 DEF HandlerReturns, TypeOK
    <3> QED
      BY <3>1, <3>2
  <2>5. ASSUME NEW w \in Workers, MarkDone(w) \/ MarkFailed(w)
        PROVE  UNCHANGED <<ran, succeeded, faults, timely>>
    BY <2>5 DEF MarkDone, MarkFailed, Advance, runVars
  <2>6. ASSUME NEW w \in Workers, LoseSettlement(w) \/ Crash(w)
        PROVE  faults' = faults + 1 /\ UNCHANGED <<ran, succeeded, timely>>
    BY <2>6 DEF LoseSettlement, Crash, Advance, runVars
  <2>7. CASE UNCHANGED vars
    BY <2>7 DEF vars, runVars, TypeOK
  <2> QED
    BY <2>1, <2>2, <2>3, <2>4, <2>5, <2>6, <2>7 DEF Next, Work, TypeOK
<1> QED
  BY <1>1, <1>2, RowTypeStep DEF TypeOK

-----------------------------------------------------------------------------
(***************************************************************************)
(* What a worker knows of its row, and that a settled row is not lost.     *)
(***************************************************************************)
\* A worker that is not idle is on an event.
LEMMA OnAnEvent ==
  ASSUME TypeOK, WorkersAreSound, NEW w \in Workers, step[w] # "idle"
  PROVE  current[w] \in Events
BY DEF TypeOK, WorkersAreSound

\* Successes are only ever added.
LEMMA SuccessesGrow ==
  ASSUME TypeOK, WorkersAreSound, [Next]_vars
  PROVE  \A e \in Events : succeeded[e] <= succeeded'[e]
<1>1. ASSUME NEW w \in Workers, HandlerReturns(w)
      PROVE  \A e \in Events : succeeded[e] <= succeeded'[e]
  BY <1>1, OnAnEvent DEF HandlerReturns, TypeOK
<1>2. CASE UNCHANGED succeeded
  BY <1>2 DEF TypeOK
<1> QED
  BY <1>1, <1>2
  DEF Next, Work, Schedule, ComeDue, GoStale, PopDue, StartHandler, HandlerFails,
      MarkDone, MarkFailed, LoseSettlement, Crash, Advance, runVars, vars

\* The bookkeeping of the workers, one step per action.
LEMMA WorkersStaySound ==
  ASSUME TypeOK, WorkersAreSound, [Next]_vars
  PROVE  WorkersAreSound'
<1> USE OutboxAssumption DEF OutboxAssumption
<1>1. CASE UNCHANGED workerVars
  <2>1. \A v \in Workers : step[v] = "succeeded" => succeeded'[current[v]] > 0
    BY SuccessesGrow, TypeStep, OnAnEvent DEF WorkersAreSound, TypeOK
  <2> QED
    BY <1>1, <2>1 DEF WorkersAreSound, workerVars
<1>2. ASSUME NEW w \in Workers, PopDue(w)
      PROVE  WorkersAreSound'
  <2>1. PICK claim \in SUBSET Events : batch' = [batch EXCEPT ![w] = claim]
    BY <1>2 DEF PopDue
  <2> QED
    BY <1>2, <2>1 DEF PopDue, Resting, WorkersAreSound, TypeOK, runVars
<1>3. ASSUME NEW w \in Workers, StartHandler(w)
      PROVE  WorkersAreSound'
  <2>1. PICK e \in batch[w] : /\ batch' = [batch EXCEPT ![w] = @ \ {e}]
                              /\ current' = [current EXCEPT ![w] = e]
    BY <1>3 DEF StartHandler
  <2>2. e \in Events
    BY <2>1 DEF TypeOK
  <2> QED
    BY <1>3, <2>1, <2>2 DEF StartHandler, WorkersAreSound, TypeOK
<1>4. ASSUME NEW w \in Workers, HandlerReturns(w)
      PROVE  WorkersAreSound'
  <2>1. current[w] \in Events
    BY <1>4, OnAnEvent DEF HandlerReturns
  <2>2. succeeded'[current[w]] > 0
    BY <1>4, <2>1 DEF HandlerReturns, TypeOK
  <2>3. \A v \in Workers : step[v] = "succeeded" => succeeded'[current[v]] > 0
    BY SuccessesGrow, TypeStep, OnAnEvent DEF WorkersAreSound, TypeOK
  <2> QED
    BY <1>4, <2>1, <2>2, <2>3 DEF HandlerReturns, WorkersAreSound, TypeOK
<1>5. ASSUME NEW w \in Workers, HandlerFails(w)
      PROVE  WorkersAreSound'
  BY <1>5 DEF HandlerFails, WorkersAreSound, TypeOK, runVars
<1>6. ASSUME NEW w \in Workers, Advance(w)
      PROVE  WorkersAreSound'
  <2>1. /\ current' = [current EXCEPT ![w] = NoEvent]
        /\ step' = [step EXCEPT ![w] = "idle"]
        /\ batch' = batch /\ succeeded' = succeeded
    BY <1>6 DEF Advance, runVars
  <2>2. NoEvent \notin batch[w]
    BY DEF TypeOK
  <2> QED
    BY <2>1, <2>2 DEF WorkersAreSound, TypeOK
<1>7. ASSUME NEW w \in Workers, Crash(w)
      PROVE  WorkersAreSound'
  BY <1>7 DEF Crash, WorkersAreSound, TypeOK, runVars
<1> QED
  BY <1>1, <1>2, <1>3, <1>4, <1>5, <1>6, <1>7
  DEF Next, Work, Schedule, ComeDue, GoStale, MarkDone, MarkFailed, LoseSettlement,
      vars, workerVars

\* A row becomes done only in MarkDone, and then its handler has succeeded.
LEMMA BecomesDone ==
  ASSUME TypeOK, [Next]_vars, NEW e \in Events,
         row[e].status # "done", row'[e].status = "done"
  PROVE  \E w \in Workers : /\ MarkDone(w) /\ current[w] = e
                            /\ row[e].status = "processing"
<1> USE DEF TypeOK
<1>1. ASSUME NEW f \in Events, Schedule(f) \/ ComeDue(f) \/ GoStale(f)
      PROVE  row'[e].status # "done"
  BY <1>1, ZenonT(30) DEF Schedule, ComeDue, GoStale, RowType
<1>2. ASSUME NEW w \in Workers, PopDue(w)
      PROVE  row'[e].status # "done"
  <2>1. row'[e] = row[e] \/ row'[e] = Claimed(row[e])
    BY <1>2 DEF PopDue
  <2>2. Claimed(row[e]).status = "processing"
    BY DEF Claimed, RowType
  <2> QED
    BY <2>1, <2>2
<1>3. ASSUME NEW w \in Workers, MarkDone(w)
      PROVE  current[w] = e /\ row[e].status = "processing"
  BY <1>3 DEF MarkDone, Settle, RowType
<1>4. ASSUME NEW w \in Workers, MarkFailed(w)
      PROVE  row'[e].status # "done"
  BY <1>4 DEF MarkFailed, Settle, RowType
<1>5. ~ UNCHANGED row
  OBVIOUS
<1> QED
  BY <1>1, <1>2, <1>3, <1>4, <1>5
  DEF Next, Work, StartHandler, HandlerReturns, HandlerFails, LoseSettlement,
      Crash, vars

LEMMA DoneStaysEarned ==
  ASSUME TypeOK, WorkersAreSound, DoneMeansSucceeded, [Next]_vars
  PROVE  DoneMeansSucceeded'
<1> SUFFICES ASSUME NEW e \in Events, row'[e].status = "done"
             PROVE  succeeded'[e] > 0
  BY DEF DoneMeansSucceeded
<1>1. succeeded[e] > 0
  <2>1. CASE row[e].status = "done"
    BY <2>1 DEF DoneMeansSucceeded
  <2>2. CASE row[e].status # "done"
    BY <2>2, BecomesDone DEF MarkDone, WorkersAreSound
  <2> QED
    BY <2>1, <2>2
<1> QED
  BY <1>1, SuccessesGrow, TypeStep DEF TypeOK

\* A row that is done is not claimable, and settling it does nothing.
LEMMA DoneIsKept ==
  ASSUME TypeOK, [Next]_vars, NEW e \in Events, row[e].status = "done"
  PROVE  row'[e].status = "done"
<1> USE DEF TypeOK
<1>1. ASSUME NEW f \in Events, Schedule(f) \/ ComeDue(f) \/ GoStale(f)
      PROVE  row'[e].status = "done"
  BY <1>1 DEF Schedule, ComeDue, GoStale, RowType
<1>2. ASSUME NEW w \in Workers, PopDue(w)
      PROVE  row'[e].status = "done"
  <2>1. PICK claim \in SUBSET {f \in Events : Claimable(f)} :
           row' = [f \in Events |-> IF f \in claim THEN Claimed(row[f]) ELSE row[f]]
    BY <1>2 DEF PopDue
  <2>2. ~ Claimable(e)
    BY DEF Claimable
  <2> QED
    BY <2>1, <2>2
<1>3. ASSUME NEW w \in Workers, MarkDone(w) \/ MarkFailed(w)
      PROVE  row'[e].status = "done"
  BY <1>3 DEF MarkDone, MarkFailed, Settle, RowType
<1>4. CASE UNCHANGED row
  BY <1>4
<1> QED
  BY <1>1, <1>2, <1>3, <1>4
  DEF Next, Work, StartHandler, HandlerReturns, HandlerFails, LoseSettlement,
      Crash, vars

-----------------------------------------------------------------------------
(***************************************************************************)
(* Claims and holders while no row goes stale under a live worker.         *)
(***************************************************************************)
\* What a worker holds after a step it held before, or has just claimed.
LEMMA HoldingsChange ==
  ASSUME TypeOK, WorkersAreSound, [Next]_vars,
         NEW v \in Workers, NEW e \in Events, Holds(v, e)', ~ Holds(v, e)
  PROVE  PopDue(v) /\ Claimable(e) /\ row'[e] = Claimed(row[e])
<1> USE DEF TypeOK
<1>1. CASE UNCHANGED workerVars
  BY <1>1 DEF workerVars, Holds
<1>2. ASSUME NEW w \in Workers, PopDue(w)
      PROVE  w = v /\ Claimable(e) /\ row'[e] = Claimed(row[e])
  <2>1. PICK claim \in SUBSET {f \in Events : Claimable(f)} :
           /\ row' = [f \in Events |-> IF f \in claim THEN Claimed(row[f])
                                                      ELSE row[f]]
           /\ batch' = [batch EXCEPT ![w] = claim]
    BY <1>2 DEF PopDue
  <2>2. current' = current
    BY <1>2 DEF PopDue
  <2> QED
    BY <2>1, <2>2 DEF Holds
<1>3. ASSUME NEW w \in Workers, StartHandler(w)
      PROVE  FALSE
  <2>1. PICK f \in batch[w] : /\ batch' = [batch EXCEPT ![w] = @ \ {f}]
                              /\ current' = [current EXCEPT ![w] = f]
    BY <1>3 DEF StartHandler
  <2> QED
    BY <2>1 DEF Holds
<1>4. ASSUME NEW w \in Workers, HandlerReturns(w) \/ HandlerFails(w)
      PROVE  FALSE
  BY <1>4 DEF HandlerReturns, HandlerFails, Holds
<1>5. ASSUME NEW w \in Workers, Advance(w) \/ Crash(w)
      PROVE  FALSE
  BY <1>5, OutboxAssumption DEF OutboxAssumption, Advance, Crash, Holds
<1> QED
  BY <1>1, <1>2, <1>3, <1>4, <1>5
  DEF Next, Work, Schedule, ComeDue, GoStale, MarkDone, MarkFailed, LoseSettlement,
      vars, workerVars

\* Nobody holds a row that may be claimed.
LEMMA ClaimableIsFree ==
  ASSUME TypeOK, HeldRowsAreFresh, timely, NEW e \in Events, Claimable(e),
         NEW w \in Workers
  PROVE  ~ Holds(w, e)
BY DEF HeldRowsAreFresh, Claimable

\* timely is chosen once.
LEMMA TimelyIsRigid ==
  ASSUME [Next]_vars
  PROVE  timely' = timely
BY DEF Next, Work, Schedule, ComeDue, GoStale, PopDue, StartHandler, HandlerReturns,
       HandlerFails, MarkDone, MarkFailed, LoseSettlement, Crash, Advance, vars

\* A row that was free is claimed by one PopDue at a time.
LEMMA ClaimsStayExclusive ==
  ASSUME TypeOK, WorkersAreSound, HeldRowsAreFresh, ClaimsAreExclusive, [Next]_vars
  PROVE  ClaimsAreExclusive'
<1> SUFFICES ASSUME timely, NEW u \in Workers, NEW v \in Workers, NEW e \in Events,
                    Holds(u, e)', Holds(v, e)'
             PROVE  u = v
  BY TimelyIsRigid DEF ClaimsAreExclusive
<1>1. CASE Holds(u, e) /\ Holds(v, e)
  BY <1>1 DEF ClaimsAreExclusive
<1>2. CASE ~ Holds(u, e) /\ ~ Holds(v, e)
  <2>1. PopDue(u) /\ PopDue(v)
    BY <1>2, HoldingsChange
  <2>2. CASE u # v
    <3>1. batch'[v] = batch[v] /\ current'[v] = current[v]
      BY <2>1, <2>2 DEF PopDue, TypeOK
    <3> QED
      BY <1>2, <3>1 DEF Holds
  <2> QED
    BY <2>2
<1>3. CASE ~ Holds(u, e) /\ Holds(v, e)
  BY <1>3, HoldingsChange, ClaimableIsFree
<1>4. CASE Holds(u, e) /\ ~ Holds(v, e)
  BY <1>4, HoldingsChange, ClaimableIsFree
<1> QED
  BY <1>1, <1>2, <1>3, <1>4

\* A row that is held, and stays held, is neither settled nor overtaken.
LEMMA HeldRowsStayFresh ==
  ASSUME TypeOK, WorkersAreSound, HeldRowsAreFresh, ClaimsAreExclusive, [Next]_vars
  PROVE  HeldRowsAreFresh'
<1> SUFFICES ASSUME timely, NEW v \in Workers, NEW e \in Events, Holds(v, e)'
             PROVE  row'[e].status = "processing" /\ ~ row'[e].stale
  BY TimelyIsRigid DEF HeldRowsAreFresh
<1> USE DEF TypeOK
<1>1. CASE ~ Holds(v, e)
  <2>1. row'[e] = Claimed(row[e])
    BY <1>1, HoldingsChange
  <2>2. Claimed(row[e]).status = "processing" /\ ~ Claimed(row[e]).stale
    BY DEF Claimed, RowType
  <2> QED
    BY <2>1, <2>2
<1>2. CASE Holds(v, e)
  <2>1. row[e].status = "processing" /\ ~ row[e].stale
    BY <1>2 DEF HeldRowsAreFresh
  <2>2. ASSUME NEW f \in Events, Schedule(f) \/ ComeDue(f) \/ GoStale(f)
        PROVE  row'[e] = row[e]
    BY <1>2, <2>1, <2>2 DEF Schedule, ComeDue, GoStale
  <2>3. ASSUME NEW w \in Workers, PopDue(w)
        PROVE  row'[e] = row[e]
    <3>1. PICK claim \in SUBSET {f \in Events : Claimable(f)} :
             row' = [f \in Events |-> IF f \in claim THEN Claimed(row[f])
                                                     ELSE row[f]]
      BY <2>3 DEF PopDue
    <3> QED
      BY <1>2, <3>1, ClaimableIsFree
  <2>4. ASSUME NEW w \in Workers, MarkDone(w) \/ MarkFailed(w)
        PROVE  row'[e] = row[e]
    <3>1. current[w] # e
      <4>1. CASE w = v
        <5>1. current'[w] = NoEvent /\ batch' = batch
          BY <2>4 DEF MarkDone, MarkFailed, Advance
        <5>2. e \in batch[w]
          BY <4>1, <5>1, OutboxAssumption DEF OutboxAssumption, Holds
        <5> QED
          BY <5>2 DEF WorkersAreSound
      <4>2. CASE w # v
        BY <1>2, <4>2 DEF ClaimsAreExclusive, Holds
      <4> QED
        BY <4>1, <4>2
    <3> QED
      BY <2>4, <3>1 DEF MarkDone, MarkFailed, Settle
  <2>5. row'[e] = row[e]
    BY <2>2, <2>3, <2>4
    DEF Next, Work, StartHandler, HandlerReturns, HandlerFails, LoseSettlement,
        Crash, vars
  <2> QED
    BY <2>1, <2>5
<1> QED
  BY <1>1, <1>2

-----------------------------------------------------------------------------
(***************************************************************************)
(* Runs and claims.                                                        *)
(***************************************************************************)
\* The claims that still wait can be counted.
LEMMA WaitingIsFinite ==
  ASSUME NEW e \in Events
  PROVE  /\ IsFiniteSet(Waiting(e)) /\ Cardinality(Waiting(e)) \in Nat
         /\ IsFiniteSet(Waiting(e))' /\ Cardinality(Waiting(e))' \in Nat
<1>1. IsFiniteSet(Workers)
  BY OutboxAssumption DEF OutboxAssumption
<1>2. Waiting(e) \in SUBSET Workers /\ Waiting(e)' \in SUBSET Workers
  BY DEF Waiting
<1> QED
  BY <1>1, <1>2, FS_Subset, FS_CardinalityType

\* A claim adds one waiting run and one attempt, a start turns a waiting run
\* into a run, and nothing takes an attempt back.
LEMMA RunsStayAccounted ==
  ASSUME TypeOK, RunsAreAccounted, [Next]_vars
  PROVE  RunsAreAccounted'
<1> SUFFICES ASSUME NEW e \in Events
             PROVE  ran'[e] + Cardinality(Waiting(e))' <= row'[e].attempts
  BY DEF RunsAreAccounted
<1> DEFINE waiting == Cardinality(Waiting(e))
           after == Cardinality(Waiting(e)')
<1>0. /\ waiting \in Nat /\ after \in Nat
      /\ ran[e] \in Nat /\ ran'[e] \in Nat
      /\ row[e].attempts \in Nat /\ row'[e].attempts \in Nat
      /\ ran[e] + waiting <= row[e].attempts
  BY WaitingIsFinite, TypeStep, OutboxAssumption
  DEF TypeOK, RowType, RunsAreAccounted, OutboxAssumption
<1>1. ASSUME NEW w \in Workers, PopDue(w)
      PROVE  /\ ran' = ran
             /\ \/ after <= waiting /\ row'[e].attempts = row[e].attempts
                \/ after <= waiting + 1 /\ row'[e].attempts = row[e].attempts + 1
  <2>1. PICK claim \in SUBSET Events :
           /\ row' = [f \in Events |-> IF f \in claim THEN Claimed(row[f])
                                                      ELSE row[f]]
           /\ batch' = [batch EXCEPT ![w] = claim]
    BY <1>1 DEF PopDue
  <2>2. batch[w] = {} /\ ran' = ran
    BY <1>1 DEF PopDue, Resting, runVars
  <2>3. CASE e \in claim
    <3>1. Waiting(e)' = Waiting(e) \cup {w}
      BY <2>1, <2>3 DEF Waiting, TypeOK
    <3>2. after <= waiting + 1
      <4>1. Cardinality(Waiting(e) \cup {w}) =
              IF w \in Waiting(e) THEN waiting ELSE waiting + 1
        BY WaitingIsFinite, FS_AddElement
      <4> HIDE DEF waiting
      <4> QED
        BY <1>0, <3>1, <4>1
    <3>3. row'[e].attempts = row[e].attempts + 1
      BY <2>1, <2>3 DEF Claimed, TypeOK, RowType
    <3> QED
      BY <2>2, <3>2, <3>3
  <2>4. CASE e \notin claim
    <3>1. Waiting(e)' = Waiting(e)
      BY <2>1, <2>2, <2>4 DEF Waiting, TypeOK
    <3> QED
      BY <1>0, <2>1, <2>2, <2>4, <3>1
  <2> QED
    BY <2>3, <2>4
<1>2. ASSUME NEW w \in Workers, StartHandler(w)
      PROVE  /\ row' = row
             /\ \/ after <= waiting /\ ran'[e] = ran[e]
                \/ after = waiting - 1 /\ ran'[e] = ran[e] + 1
  <2>1. PICK f \in batch[w] : /\ batch' = [batch EXCEPT ![w] = @ \ {f}]
                              /\ ran' = [ran EXCEPT ![f] = @ + 1]
                              /\ row' = row
    BY <1>2 DEF StartHandler
  <2>2. CASE f = e
    <3>1. Waiting(e)' = Waiting(e) \ {w} /\ w \in Waiting(e)
      BY <2>1, <2>2 DEF Waiting, TypeOK
    <3>2. after = waiting - 1
      BY <3>1, WaitingIsFinite, FS_RemoveElement
    <3> QED
      BY <2>1, <2>2, <3>2 DEF TypeOK
  <2>3. CASE f # e
    <3>1. Waiting(e)' = Waiting(e)
      BY <2>1, <2>3 DEF Waiting, TypeOK
    <3> QED
      BY <1>0, <2>1, <2>3, <3>1 DEF TypeOK
  <2> QED
    BY <2>2, <2>3
<1>3. ASSUME NEW w \in Workers, Crash(w)
      PROVE  after <= waiting /\ ran' = ran /\ row' = row
  <2>1. Waiting(e)' \in SUBSET Waiting(e)
    BY <1>3 DEF Crash, Waiting, TypeOK
  <2>2. after <= waiting
    BY <2>1, WaitingIsFinite, FS_Subset
  <2> QED
    BY <1>3, <2>2 DEF Crash, runVars
<1>4. CASE UNCHANGED <<batch, ran>> /\ row'[e].attempts = row[e].attempts
  <2>1. Waiting(e)' = Waiting(e)
    BY <1>4 DEF Waiting
  <2> QED
    BY <1>0, <1>4, <2>1
<1>5. ASSUME NEW f \in Events, Schedule(f) \/ ComeDue(f) \/ GoStale(f)
      PROVE  UNCHANGED <<batch, ran>> /\ row'[e].attempts = row[e].attempts
  <2>1. UNCHANGED <<batch, ran>>
    BY <1>5 DEF Schedule, ComeDue, GoStale, workerVars, runVars
  <2>2. CASE Schedule(f)
    BY <2>1, <2>2 DEF Schedule, TypeOK, RowType
  <2>3. CASE ComeDue(f)
    BY <2>1, <2>3 DEF ComeDue, TypeOK, RowType
  <2>4. CASE GoStale(f)
    BY <2>1, <2>4 DEF GoStale, TypeOK, RowType
  <2> QED
    BY <1>5, <2>2, <2>3, <2>4
<1>6. ASSUME NEW w \in Workers, MarkDone(w) \/ MarkFailed(w)
      PROVE  UNCHANGED <<batch, ran>> /\ row'[e].attempts = row[e].attempts
  <2>1. UNCHANGED <<batch, ran>>
    BY <1>6 DEF MarkDone, MarkFailed, Advance, runVars
  <2>2. CASE MarkDone(w)
    BY <2>1, <2>2 DEF MarkDone, Settle, TypeOK, RowType
  <2>3. CASE MarkFailed(w)
    BY <2>1, <2>3 DEF MarkFailed, Settle, TypeOK, RowType
  <2> QED
    BY <1>6, <2>2, <2>3
<1>7. ASSUME NEW w \in Workers,
             HandlerReturns(w) \/ HandlerFails(w) \/ LoseSettlement(w)
      PROVE  UNCHANGED <<batch, ran, row>>
  BY <1>7 DEF HandlerReturns, HandlerFails, LoseSettlement, Advance, runVars
<1>8. CASE UNCHANGED vars
  BY <1>4, <1>8 DEF vars, workerVars, runVars
<1> HIDE DEF waiting, after
<1>9. CASE \E w \in Workers : PopDue(w) \/ StartHandler(w) \/ Crash(w)
  <2>1. ran'[e] + after <= row'[e].attempts
    BY <1>0, <1>1, <1>2, <1>3, <1>9
  <2> QED
    BY <2>1 DEF after
<1> QED
  BY <1>4, <1>5, <1>6, <1>7, <1>8, <1>9 DEF Next, Work

-----------------------------------------------------------------------------
(***************************************************************************)
(* Repeated successes.                                                     *)
(***************************************************************************)
\* A success in hand is given up only by settling it as done, by losing the
\* settlement, or by a crash.
LEMMA InHandIsKept ==
  ASSUME TypeOK, WorkersAreSound, HeldRowsAreFresh, timely, [Next]_vars,
         NEW e \in Events, InHand(e)
  PROVE  \/ InHand(e)'
         \/ \E w \in Workers : LoseSettlement(w) \/ Crash(w)
<1> USE DEF TypeOK
<1>1. CASE row[e].status = "done"
  BY <1>1, DoneIsKept DEF InHand
<1>2. ASSUME NEW v \in Workers, step[v] = "succeeded", current[v] = e
      PROVE  \/ InHand(e)'
             \/ \E w \in Workers : LoseSettlement(w) \/ Crash(w)
  <2>1. CASE step'[v] = step[v] /\ current'[v] = current[v]
    BY <1>2, <2>1 DEF InHand
  <2>2. ASSUME NEW w \in Workers, MarkDone(w)
        PROVE  InHand(e)'
    <3>1. CASE w = v
      <4>1. row[e].status = "processing"
        BY <1>2 DEF HeldRowsAreFresh, Holds
      <4>2. row' = [row EXCEPT ![e] = [row[e] EXCEPT !.status = "done"]]
        BY <1>2, <2>2, <3>1, <4>1 DEF MarkDone, Settle
      <4>3. row'[e].status = "done"
        BY <4>2 DEF RowType
      <4> QED
        BY <4>3 DEF InHand
    <3>2. CASE w # v
      <4>1. step'[v] = step[v] /\ current'[v] = current[v]
        BY <2>2, <3>2 DEF MarkDone, Advance
      <4> QED
        BY <1>2, <4>1 DEF InHand
    <3> QED
      BY <3>1, <3>2
  <2>3. ASSUME NEW w \in Workers,
               \/ PopDue(w) \/ StartHandler(w) \/ HandlerReturns(w)
               \/ HandlerFails(w) \/ MarkFailed(w)
        PROVE  step'[v] = step[v] /\ current'[v] = current[v]
    BY <1>2, <2>3 DEF PopDue, Resting, StartHandler, HandlerReturns, HandlerFails,
         MarkFailed, Advance
  <2>4. ASSUME NEW f \in Events, Schedule(f) \/ ComeDue(f) \/ GoStale(f)
        PROVE  step'[v] = step[v] /\ current'[v] = current[v]
    BY <2>4 DEF Schedule, ComeDue, GoStale, workerVars
  <2>5. CASE UNCHANGED vars
    BY <2>1, <2>5 DEF vars, workerVars
  <2> QED
    BY <2>1, <2>2, <2>3, <2>4, <2>5 DEF Next, Work
<1> QED
  BY <1>1, <1>2 DEF InHand

\* A handler that returns while claims are timely had the row to itself, so
\* the event had not succeeded more often than there were faults.
LEMMA SuccessesStayAccounted ==
  ASSUME TypeOK, WorkersAreSound, ClaimsAreExclusive, HeldRowsAreFresh,
         SuccessesAreAccounted, [Next]_vars
  PROVE  SuccessesAreAccounted'
<1> SUFFICES ASSUME timely, NEW e \in Events
             PROVE  /\ succeeded'[e] <= 1 + faults'
                    /\ succeeded'[e] <= faults' \/ InHand(e)'
  BY TimelyIsRigid DEF SuccessesAreAccounted
<1>0. /\ succeeded[e] \in Nat /\ succeeded'[e] \in Nat
      /\ faults \in Nat /\ faults' \in Nat
      /\ succeeded[e] <= 1 + faults
      /\ succeeded[e] <= faults \/ InHand(e)
  BY TypeStep DEF TypeOK, SuccessesAreAccounted
<1>1. ASSUME NEW w \in Workers, HandlerReturns(w), current[w] = e
      PROVE  succeeded'[e] <= 1 + faults' /\ InHand(e)'
  <2>1. row[e].status = "processing"
    BY <1>1 DEF HeldRowsAreFresh, Holds
  <2>2. \A v \in Workers : current[v] = e => step[v] = "running"
    BY <1>1 DEF ClaimsAreExclusive, Holds, HandlerReturns
  <2>3. succeeded[e] <= faults
    BY <1>0, <2>1, <2>2 DEF InHand
  <2>4. succeeded'[e] = succeeded[e] + 1 /\ faults' = faults
    BY <1>1 DEF HandlerReturns, TypeOK
  <2>5. InHand(e)'
    BY <1>1 DEF HandlerReturns, InHand, TypeOK
  <2> QED
    BY <1>0, <2>3, <2>4, <2>5
<1>2. ASSUME NEW w \in Workers, LoseSettlement(w) \/ Crash(w)
      PROVE  succeeded'[e] <= faults'
  <2>1. succeeded' = succeeded /\ faults' = faults + 1
    BY <1>2 DEF LoseSettlement, Crash, Advance, runVars
  <2> QED
    BY <1>0, <2>1
<1>3. CASE /\ succeeded'[e] = succeeded[e] /\ faults' = faults
           /\ ~ \E w \in Workers : LoseSettlement(w) \/ Crash(w)
  BY <1>0, <1>3, InHandIsKept
<1>4. ASSUME NEW w \in Workers, HandlerReturns(w), current[w] # e
      PROVE  succeeded'[e] = succeeded[e] /\ faults' = faults
  BY <1>4 DEF HandlerReturns, TypeOK
<1>5. \/ \E w \in Workers : HandlerReturns(w) \/ LoseSettlement(w) \/ Crash(w)
      \/ succeeded' = succeeded /\ faults' = faults
  BY DEF Next, Work, Schedule, ComeDue, GoStale, PopDue, StartHandler, HandlerFails,
         MarkDone, MarkFailed, Advance, runVars, vars
<1>6. CASE \E w \in Workers : LoseSettlement(w) \/ Crash(w)
  BY <1>0, <1>2, <1>6
<1>7. CASE ~ \E w \in Workers : LoseSettlement(w) \/ Crash(w)
  BY <1>0, <1>1, <1>3, <1>4, <1>5, <1>7
<1> QED
  BY <1>6, <1>7

-----------------------------------------------------------------------------
(***************************************************************************)
(* The theorems.                                                           *)
(***************************************************************************)
LEMMA QInvInit == Init => QInv
<1> SUFFICES ASSUME Init PROVE QInv
  OBVIOUS
<1> USE OutboxAssumption DEF OutboxAssumption
<1>1. TypeOK
  BY TypeInit
<1>2. WorkersAreSound /\ DoneMeansSucceeded /\ ClaimsAreExclusive /\ HeldRowsAreFresh
  BY DEF Init, WorkersAreSound, DoneMeansSucceeded, ClaimsAreExclusive,
         HeldRowsAreFresh, Holds
<1>3. RunsAreAccounted
  <2>1. \A e \in Events : Waiting(e) = {}
    BY DEF Init, Waiting
  <2>2. Cardinality({}) = 0
    BY FS_EmptySet
  <2>3. \A e \in Events : ran[e] = 0 /\ row[e].attempts = 0
    BY DEF Init
  <2> QED
    BY <2>1, <2>2, <2>3 DEF RunsAreAccounted
<1>4. SuccessesAreAccounted
  BY DEF Init, SuccessesAreAccounted
<1> QED
  BY <1>1, <1>2, <1>3, <1>4 DEF QInv

(***************************************************************************)
(* QInv is an invariant of the queue, for any number of events, workers    *)
(* and faults, any batch size and any attempt cap.                         *)
(***************************************************************************)
THEOREM QueueInductive == Spec => []QInv
<1>1. Init => QInv
  BY QInvInit
<1>2. QInv /\ [Next]_vars => QInv'
  BY TypeStep, WorkersStaySound, DoneStaysEarned, ClaimsStayExclusive,
     HeldRowsStayFresh, RunsStayAccounted, SuccessesStayAccounted DEF QInv
<1> QED
  BY <1>1, <1>2, PTL DEF Spec

(***************************************************************************)
(* Rows and workers keep their types; no row is claimed more often than    *)
(* the cap of PopDue allows.                                               *)
(***************************************************************************)
THEOREM QueueTypeCorrect == Spec => []TypeOK
<1>1. QInv => TypeOK
  BY DEF QInv
<1> QED
  BY <1>1, QueueInductive, PTL

(***************************************************************************)
(* A row that MarkDone has settled was handled with success at least once, *)
(* whoever held the claim, and whether or not claims are timely.           *)
(***************************************************************************)
THEOREM DoneIsEarned == Spec => []DoneMeansSucceeded
<1>1. QInv => DoneMeansSucceeded
  BY DEF QInv
<1> QED
  BY <1>1, QueueInductive, PTL

(***************************************************************************)
(* No double pop: while no claim outlives the staleness threshold of       *)
(* PopDue, no two workers hold one row.                                    *)
(***************************************************************************)
THEOREM ClaimsExclude == Spec => []ClaimsAreExclusive
<1>1. QInv => ClaimsAreExclusive
  BY DEF QInv
<1> QED
  BY <1>1, QueueInductive, PTL

(***************************************************************************)
(* No event runs more often than PopDue has counted, overlapping claims    *)
(* included.                                                               *)
(***************************************************************************)
THEOREM RunsAreCounted == Spec => []RunsArePaidFor
<1>1. QInv => RunsArePaidFor
  <2> SUFFICES ASSUME QInv, NEW e \in Events
               PROVE  ran[e] <= row[e].attempts
    BY DEF RunsArePaidFor
  <2>1. /\ ran[e] \in Nat /\ row[e].attempts \in Nat
        /\ ran[e] + Cardinality(Waiting(e)) <= row[e].attempts
    BY OutboxAssumption DEF QInv, TypeOK, RowType, RunsAreAccounted, OutboxAssumption
  <2> QED
    BY <2>1, WaitingIsFinite
<1> QED
  BY <1>1, QueueInductive, PTL

(***************************************************************************)
(* While claims are timely, each repetition of an event that succeeded is  *)
(* owed to a crash or a lost settlement.                                   *)
(***************************************************************************)
THEOREM RepetitionNeedsAFault == Spec => []SuccessIsNotRepeated
<1>1. QInv => SuccessIsNotRepeated
  BY DEF QInv, SuccessesAreAccounted, SuccessIsNotRepeated
<1> QED
  BY <1>1, QueueInductive, PTL

(***************************************************************************)
(* Nothing takes a row out of done: PopDue does not claim it and the       *)
(* settling writes do not find it.                                         *)
(***************************************************************************)
THEOREM DoneForGood == Spec => DoneIsFinal
<1>1. TypeOK /\ [Next]_vars
        => [\A e \in Events : row[e].status = "done" => row'[e].status = "done"]_vars
  BY DoneIsKept
<1> QED
  BY <1>1, QueueTypeCorrect, PTL DEF Spec, DoneIsFinal
=============================================================================
