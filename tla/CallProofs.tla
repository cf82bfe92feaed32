------------------------------ MODULE CallProofs ------------------------------
(***************************************************************************)
(* Proofs about Call, for any users, tabs, calls, and any number of        *)
(* requests in flight and mishaps.                                         *)
(*                                                                         *)
(* RingIsBounded is inductive together with the types and CallsAreKnown.   *)
(* The argument is local to a tab: the lemmas of the first section say     *)
(* what each function on a tab's state does to its timers.                 *)
(***************************************************************************)
EXTENDS Call, SequenceTheorems, FiniteSetTheorems, TLAPS

(***************************************************************************)
(* A request names a call, unless it is a start that has drawn no id.      *)
(***************************************************************************)
CallsAreKnown ==
  \A r \in requests :
    r.call \in Calls \/ (r.op = "initiate" /\ r.pc \in {"check", "err"})

TabOK(s) == s \in TabRecord /\ (s.ref => s.timers # <<>>)

CInv == TypeOK /\ CallsAreKnown /\ RingIsBounded

-----------------------------------------------------------------------------
(***************************************************************************)
(* Functions on the state of a tab.                                        *)
(***************************************************************************)
(***************************************************************************)
(* Arming a timer keeps the ones that are armed.                           *)
(***************************************************************************)
LEMMA ArmLemma ==
  ASSUME NEW s, TabOK(s), NEW timer \in Timer
  PROVE  /\ TabOK(Arm(s, timer))
         /\ Arm(s, timer).ui = s.ui
         /\ HasTimer(Arm(s, timer), timer.kind)
         /\ \A k : HasTimer(s, k) => HasTimer(Arm(s, timer), k)
<1> DEFINE q == Append(s.timers, timer)
<1>1. s.timers \in Seq(Timer)
  BY DEF TabOK, TabRecord
<1>2. /\ q \in Seq(Timer) /\ q # << >> /\ Len(q) = Len(s.timers) + 1
      /\ \A i \in 1 .. Len(s.timers) : q[i] = s.timers[i]
      /\ q[Len(q)] = timer /\ Len(q) \in 1 .. Len(q)
  BY <1>1, AppendProperties
<1>3. Arm(s, timer) = [s EXCEPT !.timers = q, !.ref = TRUE]
  BY DEF Arm
<1>4. /\ Arm(s, timer).timers = q /\ Arm(s, timer).ui = s.ui
      /\ Arm(s, timer).ref = TRUE /\ Arm(s, timer) \in TabRecord
  BY <1>2, <1>3 DEF TabOK, TabRecord
<1>5. ASSUME NEW k, HasTimer(s, k)
      PROVE  HasTimer(Arm(s, timer), k)
  <2>1. PICK i \in 1 .. Len(s.timers) : s.timers[i].kind = k
    BY <1>5 DEF HasTimer
  <2>2. i \in 1 .. Len(q) /\ q[i].kind = k
    BY <1>1, <1>2, <2>1, LenProperties
  <2> QED BY <1>4, <2>2 DEF HasTimer
<1> QED BY <1>2, <1>4, <1>5 DEF TabOK, HasTimer

(***************************************************************************)
(* Clearing the timers leaves the state of the call alone.                 *)
(***************************************************************************)
LEMMA ClearLemma ==
  ASSUME NEW s, TabOK(s)
  PROVE  /\ TabOK(ClearTimers(s))
         /\ ClearTimers(s).ref = FALSE
         /\ ClearTimers(s).ui = s.ui
<1>1. s.timers \in Seq(Timer) /\ s.ref \in BOOLEAN /\ s \in TabRecord
  BY DEF TabOK, TabRecord
<1>2. CASE s.ref
  <2>1. s.timers # << >>
    BY <1>2 DEF TabOK
  <2>2. Len(s.timers) \in Nat /\ Len(s.timers) # 0
    BY <1>1, <2>1, EmptySeq, LenProperties
  <2>3. Front(s.timers) \in Seq(Timer)
    BY <1>1, <2>2, SubSeqProperties DEF Front
  <2>4. ClearTimers(s) = [s EXCEPT !.timers = Front(s.timers), !.ref = FALSE]
    BY <1>2 DEF ClearTimers
  <2> QED BY <1>1, <2>3, <2>4 DEF TabOK, TabRecord
<1>3. CASE ~ s.ref
  BY <1>1, <1>3 DEF ClearTimers, TabOK
<1> QED BY <1>1, <1>2, <1>3

(***************************************************************************)
(* Cleanup ends in idle.                                                   *)
(***************************************************************************)
LEMMA CleanupLemma ==
  ASSUME NEW s, TabOK(s)
  PROVE  TabOK(Cleanup(s)) /\ Cleanup(s).ui = "idle"
<1> DEFINE u == ClearTimers(s)
<1>1. TabOK(u) /\ u.ref = FALSE
  BY ClearLemma
<1>2. Cleanup(s) = [u EXCEPT !.ui = "idle", !.active = NoCall, !.incoming = NoCall]
  BY DEF Cleanup
<1> QED BY <1>1, <1>2 DEF TabOK, TabRecord

(***************************************************************************)
(* A ring timer that fires is taken from the front: timers of the other    *)
(* kind stay armed.                                                        *)
(***************************************************************************)
Fired(s) == [s EXCEPT !.timers = Tail(@), !.ref = @ /\ Len(s.timers) > 1]

LEMMA FiredLemma ==
  ASSUME NEW s, TabOK(s), s.timers # << >>
  PROVE  /\ TabOK(Fired(s))
         /\ Fired(s).ui = s.ui /\ Fired(s).active = s.active
         /\ Head(s.timers) \in Timer
         /\ \A k : HasTimer(s, k) /\ Head(s.timers).kind # k => HasTimer(Fired(s), k)
<1> DEFINE q == Tail(s.timers)
<1>1. s.timers \in Seq(Timer) /\ s.ref \in BOOLEAN /\ s \in TabRecord
  BY DEF TabOK, TabRecord
<1>2. /\ q \in Seq(Timer) /\ Len(q) = Len(s.timers) - 1
      /\ Head(s.timers) = s.timers[1] /\ Head(s.timers) \in Timer
      /\ \A i \in 1 .. Len(q) : q[i] = s.timers[i + 1]
  BY <1>1, HeadTailProperties
<1>3. Len(s.timers) \in Nat /\ Len(q) \in Nat
  BY <1>1, <1>2, LenProperties
<1>4. Len(s.timers) > 1 => q # << >>
  <2> HIDE DEF q
  <2> QED BY <1>2, <1>3, EmptySeq
<1>5. Fired(s) = [s EXCEPT !.timers = q, !.ref = s.ref /\ Len(s.timers) > 1]
  BY DEF Fired
<1>6. (s.ref /\ Len(s.timers) > 1) \in BOOLEAN
  OBVIOUS
<1>7. /\ Fired(s).timers = q /\ Fired(s).ui = s.ui /\ Fired(s).active = s.active
      /\ Fired(s).ref = (s.ref /\ Len(s.timers) > 1)
      /\ Fired(s) \in TabRecord
  BY <1>1, <1>2, <1>5, <1>6 DEF TabRecord
<1>8. ASSUME NEW k, HasTimer(s, k), Head(s.timers).kind # k
      PROVE  HasTimer(Fired(s), k)
  <2>1. PICK i \in 1 .. Len(s.timers) : s.timers[i].kind = k
    BY <1>8 DEF HasTimer
  <2>2. i # 1
    BY <1>2, <1>8, <2>1
  <2>3. i - 1 \in 1 .. Len(q) /\ q[i - 1] = s.timers[(i - 1) + 1]
    BY <1>2, <1>3, <2>2
  <2>4. (i - 1) + 1 = i
    BY <1>3
  <2> QED BY <1>7, <2>1, <2>3, <2>4 DEF HasTimer
<1> QED BY <1>2, <1>4, <1>7, <1>8 DEF TabOK

(***************************************************************************)
(* Changes of fields that have nothing to do with the timers.              *)
(***************************************************************************)
LEMMA AfterStartLemma ==
  ASSUME NEW s, TabOK(s)
  PROVE  /\ TabOK(AfterStart(s)) /\ AfterStart(s).timers = s.timers
         /\ AfterStart(s).ui = IF s.ui = "idle" THEN "ringing_outgoing" ELSE s.ui
BY DEF AfterStart, TabOK, TabRecord

LEMMA RingLemma ==
  ASSUME NEW s, TabOK(s), NEW c \in Calls
  PROVE  /\ TabOK(RingIncoming(s, c)) /\ RingIncoming(s, c).ui = "ringing_incoming"
         /\ HasTimer(RingIncoming(s, c), "decline")
<1> DEFINE u == [s EXCEPT !.incoming = c, !.ui = "ringing_incoming"]
<1>1. TabOK(u) /\ u.ui = "ringing_incoming"
  BY DEF TabOK, TabRecord
<1>2. AutoDecline(c) \in Timer /\ AutoDecline(c).kind = "decline"
  BY DEF AutoDecline, Timer
<1>3. RingIncoming(s, c) = Arm(u, AutoDecline(c))
  BY DEF RingIncoming
<1> QED BY <1>1, <1>2, <1>3, ArmLemma

(***************************************************************************)
(* An event leaves a tab as it is, makes it ring with a timer, or stops    *)
(* the ringing.                                                            *)
(***************************************************************************)
TimersGoOn(s, u) == \A k : HasTimer(s, k) => HasTimer(u, k)

Rings(s) == s.ui \in {"ringing_outgoing", "ringing_incoming"}

StillBounded(s, u) ==
  \/ ~ Rings(u)
  \/ u.ui = s.ui /\ TimersGoOn(s, u)
  \/ u.ui = "ringing_incoming" /\ HasTimer(u, "decline")

LEMMA HandledLemma ==
  ASSUME NEW s, TabOK(s), NEW e \in Frame
  PROVE  TabOK(Handled(s, e)) /\ StillBounded(s, Handled(s, e))
<1>0. e.call \in Calls
  BY DEF Frame
<1>1. CASE e.event = "call_incoming" /\ s.ui = "idle"
  <2>1. Handled(s, e) = RingIncoming(s, e.call)
    BY <1>1 DEF Handled
  <2> QED BY <1>0, <2>1, RingLemma DEF StillBounded
<1>2. CASE e.event = "call_accepted" /\ s.ui = "ringing_outgoing"
  <2> DEFINE u == ClearTimers(s)
  <2>1. Handled(s, e) = [u EXCEPT !.ui = "active"]
    BY <1>2 DEF Handled
  <2>2. TabOK(u) /\ u.ref = FALSE
    BY ClearLemma
  <2> HIDE DEF u
  <2> QED BY <2>1, <2>2 DEF TabOK, TabRecord, StillBounded, Rings
<1>3. CASE /\ e.event \in {"call_declined", "call_ended"}
           /\ e.call = s.active \/ s.ui = "ringing_incoming"
  <2>1. Handled(s, e) = Cleanup(s)
    BY <1>3 DEF Handled
  <2> QED BY <2>1, CleanupLemma DEF StillBounded, Rings
<1>4. CASE /\ ~ (e.event = "call_incoming" /\ s.ui = "idle")
           /\ ~ (e.event = "call_accepted" /\ s.ui = "ringing_outgoing")
           /\ ~ (/\ e.event \in {"call_declined", "call_ended"}
                 /\ e.call = s.active \/ s.ui = "ringing_incoming")
  <2>1. Handled(s, e) = s
    BY <1>4 DEF Handled
  <2> QED BY <2>1 DEF StillBounded, TimersGoOn
<1> QED BY <1>1, <1>2, <1>3, <1>4

LEMMA ReceivedLemma ==
  ASSUME NEW s, TabOK(s), NEW e \in Frame
  PROVE  TabOK(Received(s, e)) /\ StillBounded(s, Received(s, e))
<1>1. CASE s.slot = "mounted"
  BY <1>1, HandledLemma DEF Received
<1>2. CASE s.slot # "mounted" /\ s.slot = "cold" /\ e.event = "call_incoming"
  <2> DEFINE u == [s EXCEPT !.pendingIncoming = e.call, !.slot = "loading"]
  <2>1. Received(s, e) = u
    BY <1>2 DEF Received
  <2>2. TabOK(u) /\ u.ui = s.ui /\ u.timers = s.timers
    BY DEF TabOK, TabRecord, Frame
  <2> QED BY <2>1, <2>2 DEF StillBounded, TimersGoOn, HasTimer
<1>3. CASE s.slot # "mounted" /\ ~ (s.slot = "cold" /\ e.event = "call_incoming")
  <2>1. Received(s, e) = s
    BY <1>3 DEF Received
  <2> QED BY <2>1 DEF StillBounded, TimersGoOn
<1> QED BY <1>1, <1>2, <1>3

(***************************************************************************)
(* An answer leaves the tab ringing only if it is the one to a start, and  *)
(* arms the timer then.                                                    *)
(***************************************************************************)
LEMMA AnsweredLemma ==
  ASSUME NEW s, TabOK(s), NEW r \in RequestRecord
  PROVE  /\ TabOK(Answered(s, r))
         /\ \/ ~ Rings(Answered(s, r))
            \/ /\ Answered(s, r).ui = s.ui /\ TimersGoOn(s, Answered(s, r))
               /\ HasTimer(Answered(s, r), "hangup")
<1>0. r.call \in Calls \cup {NoCall}
  BY DEF RequestRecord
<1>1. CASE r.op = "initiate" /\ r.pc = "ok"
  <2> DEFINE u == [s EXCEPT !.active = r.call]
  <2>1. Answered(s, r) = Arm(u, Hangup)
    BY <1>1 DEF Answered
  <2>2. TabOK(u) /\ u.ui = s.ui /\ u.timers = s.timers
    BY <1>0 DEF TabOK, TabRecord
  <2>3. Hangup \in Timer /\ Hangup.kind = "hangup"
    BY DEF Hangup, Timer
  <2>4. TimersGoOn(s, u)
    BY <2>2 DEF TimersGoOn, HasTimer
  <2> HIDE DEF u
  <2> QED BY <2>1, <2>2, <2>3, <2>4, ArmLemma DEF TimersGoOn
<1>2. CASE r.op = "accept" /\ r.pc = "ok"
  <2> DEFINE u == ClearTimers(s)
  <2>1. Answered(s, r) = [u EXCEPT !.active = r.call, !.incoming = NoCall,
                                   !.ui = "active"]
    BY <1>2 DEF Answered
  <2>2. TabOK(u) /\ u.ref = FALSE
    BY ClearLemma
  <2> HIDE DEF u
  <2> QED BY <1>0, <2>1, <2>2 DEF TabOK, TabRecord, Rings
<1>3. CASE ~ (r.op = "initiate" /\ r.pc = "ok") /\ ~ (r.op = "accept" /\ r.pc = "ok")
  <2>1. Answered(s, r) = Cleanup(s)
    BY <1>3 DEF Answered
  <2> QED BY <2>1, CleanupLemma DEF Rings
<1> QED BY <1>1, <1>2, <1>3

-----------------------------------------------------------------------------
(***************************************************************************)
(* Steps of one tab, and the requests that tabs await.                     *)
(***************************************************************************)
Bounded(s, awaits) ==
  /\ s.ui = "ringing_outgoing" => HasTimer(s, "hangup") \/ awaits
  /\ s.ui = "ringing_incoming" => HasTimer(s, "decline")

Awaits(t) == Asking(t, "initiate") \/ Asking(t, "end")

AsksGoOn(t) == Awaits(t) => Awaits(t)'

LEMMA TabType ==
  ASSUME TypeOK, NEW t \in Tabs
  PROVE  TabOK(tab[t])
BY DEF TypeOK, TabOK

LEMMA TabStep ==
  ASSUME TypeOK, RingIsBounded, NEW t \in Tabs, NEW u, TabOK(u), Become(t, u),
         \A p \in Tabs \ {t} : AsksGoOn(p),
         Bounded(u, Awaits(t)')
  PROVE  /\ tab' \in [Tabs -> TabRecord]
         /\ \A p \in Tabs : tab'[p].ref => tab'[p].timers # << >>
         /\ RingIsBounded'
<1>1. /\ tab \in [Tabs -> TabRecord] /\ tab' = [tab EXCEPT ![t] = u]
      /\ \A p \in Tabs : TabOK(tab[p])
  BY DEF TypeOK, Become, TabOK
<1>2. \A p \in Tabs : tab'[p] = IF p = t THEN u ELSE tab[p]
  BY <1>1
<1>3. /\ tab' \in [Tabs -> TabRecord]
      /\ \A p \in Tabs : tab'[p].ref => tab'[p].timers # << >>
  BY <1>1, <1>2 DEF TabOK
<1>4. ASSUME NEW p \in Tabs
      PROVE  Bounded(tab'[p], Awaits(p)')
  <2>1. CASE p = t
    BY <1>2, <2>1
  <2>2. CASE p # t
    <3>1. Bounded(tab[p], Awaits(p))
      BY DEF RingIsBounded, Armed, Bounded, Awaits
    <3>2. AsksGoOn(p) /\ tab'[p] = tab[p]
      BY <1>2, <2>2
    <3> QED BY <3>1, <3>2 DEF Bounded, AsksGoOn
  <2> QED BY <2>1, <2>2
<1>5. RingIsBounded'
  BY <1>4 DEF RingIsBounded, Armed, Bounded, Awaits
<1> QED BY <1>3, <1>5

LEMMA StillBoundedLemma ==
  ASSUME RingIsBounded, NEW t \in Tabs, NEW u, StillBounded(tab[t], u), AsksGoOn(t)
  PROVE  Bounded(u, Awaits(t)')
<1>1. Bounded(tab[t], Awaits(t))
  BY DEF RingIsBounded, Armed, Bounded, Awaits
<1> QED BY <1>1 DEF StillBounded, Rings, TimersGoOn, Bounded, AsksGoOn

(***************************************************************************)
(* A request that goes on is still awaited by its tab.                     *)
(***************************************************************************)
PcType == {"check", "get", "save", "tell", "remove", "ok", "err"}

LEMMA GotoLemma ==
  ASSUME TypeOK, CallsAreKnown, NEW r \in requests, NEW pc \in PcType, Goto(r, pc),
         r.call \in Calls \/ (r.op = "initiate" /\ pc = "err")
  PROVE  /\ requests' \subseteq RequestRecord /\ CallsAreKnown'
         /\ \A t \in Tabs : AsksGoOn(t)
<1> DEFINE q == [r EXCEPT !.pc = pc]
<1>1. r \in RequestRecord
  BY DEF TypeOK
<1>2. /\ q \in RequestRecord /\ q.tab = r.tab /\ q.op = r.op
      /\ q.call = r.call /\ q.pc = pc
  BY <1>1 DEF RequestRecord, PcType
<1>3. requests' = (requests \ {r}) \cup {q}
  BY DEF Goto
<1> HIDE DEF q
<1>4. requests' \subseteq RequestRecord
  BY <1>2, <1>3 DEF TypeOK
<1>5. CallsAreKnown'
  BY <1>2, <1>3 DEF CallsAreKnown
<1>6. \A t \in Tabs : AsksGoOn(t)
  BY <1>2, <1>3 DEF AsksGoOn, Awaits, Asking
<1> QED BY <1>4, <1>5, <1>6

Known(q) == q.call \in Calls \/ (q.op = "initiate" /\ q.pc \in {"check", "err"})

LEMMA RequestLemma ==
  ASSUME NEW op \in {"initiate", "accept", "decline", "end"}, NEW u \in Users,
         NEW t \in Tabs \cup {NoTab}, NEW c \in Calls \cup {NoCall},
         NEW p \in Users \cup {NoUser},
         c \in Calls \/ op = "initiate"
  PROVE  /\ Request(op, u, t, c, p) \in RequestRecord
         /\ Request(op, u, t, c, p).tab = t /\ Request(op, u, t, c, p).op = op
         /\ Known(Request(op, u, t, c, p))
BY DEF Request, RequestRecord, Known

LEMMA SendLemma ==
  ASSUME TypeOK, CallsAreKnown, NEW b, NEW new, SendIf(b, new),
         new \subseteq RequestRecord, \A q \in new : Known(q),
         b \in BOOLEAN
  PROVE  /\ requests' \subseteq RequestRecord /\ CallsAreKnown'
         /\ \A t \in Tabs : AsksGoOn(t)
         /\ \A q \in new : q \in requests'
         /\ calm' \in BOOLEAN
<1>1. requests' = requests \cup new /\ calm' \in BOOLEAN
  BY DEF SendIf, TypeOK
<1>2. requests' \subseteq RequestRecord
  BY <1>1 DEF TypeOK
<1>3. CallsAreKnown'
  BY <1>1 DEF CallsAreKnown, Known
<1>4. \A t \in Tabs : AsksGoOn(t)
  BY <1>1 DEF AsksGoOn, Awaits, Asking
<1> QED BY <1>1, <1>2, <1>3, <1>4

(***************************************************************************)
(* A broadcast adds frames to inboxes, and nothing else.                   *)
(***************************************************************************)
LEMMA BroadcastLemma ==
  ASSUME TypeOK, NEW u, NEW event, NEW c, Broadcast(u, event, c),
         [event |-> event, call |-> c] \in Frame
  PROVE  inbox' \in [Tabs -> Seq(Frame)] /\ mishaps' \in 0 .. MaxMishaps
<1> DEFINE f == [event |-> event, call |-> c]
<1>1. PICK missed \in SUBSET {t \in Tabs : Owner[t] = u} :
        /\ mishaps + Cardinality(missed) <= MaxMishaps
        /\ mishaps' = mishaps + Cardinality(missed)
        /\ inbox' = [t \in Tabs |->
             IF Owner[t] = u /\ t \notin missed THEN Append(inbox[t], f) ELSE inbox[t]]
  BY DEF Broadcast
<1>2. Cardinality(missed) \in Nat
  BY CallAssumption, FS_Subset, FS_CardinalityType
<1>3. mishaps \in 0 .. MaxMishaps /\ MaxMishaps \in Nat
  BY CallAssumption DEF TypeOK
<1>4. mishaps' \in 0 .. MaxMishaps
  BY <1>1, <1>2, <1>3
<1>5. \A t \in Tabs : inbox[t] \in Seq(Frame) /\ Append(inbox[t], f) \in Seq(Frame)
  BY AppendProperties DEF TypeOK
<1>6. inbox' \in [Tabs -> Seq(Frame)]
  BY <1>1, <1>5
<1> QED BY <1>4, <1>6

-----------------------------------------------------------------------------
(***************************************************************************)
(* The steps of the server, which never touch a tab.                       *)
(***************************************************************************)
LEMMA TabsStay ==
  ASSUME RingIsBounded, tab' = tab, \A t \in Tabs : AsksGoOn(t)
  PROVE  RingIsBounded'
BY DEF RingIsBounded, Armed, AsksGoOn, Awaits

LEMMA SaveLemma ==
  ASSUME TypeOK, NEW c \in Calls, NEW status \in {"ringing", "active"},
         SaveActiveCall(c, status)
  PROVE  store' \in [Calls -> CallRecord] /\ userCall' \in [Users -> Calls \cup {NoCall}]
<1>1. store[c] \in CallRecord /\ store \in [Calls -> CallRecord]
  BY DEF TypeOK
<1>2. [store[c] EXCEPT !.status = status] \in CallRecord
  BY <1>1 DEF CallRecord
<1>3. store' = [store EXCEPT ![c] = [store[c] EXCEPT !.status = status]]
  BY <1>1 DEF SaveActiveCall
<1>4. store' \in [Calls -> CallRecord]
  BY <1>1, <1>2, <1>3
<1>5. userCall' \in [Users -> Calls \cup {NoCall}]
  BY DEF SaveActiveCall, TypeOK
<1> QED BY <1>4, <1>5

(***************************************************************************)
(* A call that is taken out of Redis keeps its type.                       *)
(***************************************************************************)
LEMMA GoneLemma ==
  ASSUME TypeOK, NEW c \in Calls, store' = [store EXCEPT ![c].status = "gone"]
  PROVE  store' \in [Calls -> CallRecord]
<1>1. store[c] \in CallRecord /\ store \in [Calls -> CallRecord]
  BY DEF TypeOK
<1>2. [store[c] EXCEPT !.status = "gone"] \in CallRecord
  BY <1>1 DEF CallRecord
<1>3. store' = [store EXCEPT ![c] = [store[c] EXCEPT !.status = "gone"]]
  BY <1>1
<1> QED BY <1>1, <1>2, <1>3

(***************************************************************************)
(* What is left to show of a server step once Goto has been dealt with.    *)
(***************************************************************************)
ServerTypes ==
  /\ store \in [Calls -> CallRecord]
  /\ userCall \in [Users -> Calls \cup {NoCall}]
  /\ inbox \in [Tabs -> Seq(Frame)]
  /\ mishaps \in 0 .. MaxMishaps

LEMMA ServerLemma ==
  ASSUME CInv, NEW r \in requests, NEW pc \in PcType, Goto(r, pc),
         r.call \in Calls \/ (r.op = "initiate" /\ pc = "err"),
         UNCHANGED <<tab, calm>>, ServerTypes'
  PROVE  CInv'
<1>1. /\ requests' \subseteq RequestRecord /\ CallsAreKnown'
      /\ \A t \in Tabs : AsksGoOn(t)
  BY GotoLemma DEF CInv
<1>2. RingIsBounded'
  BY <1>1, TabsStay DEF CInv
<1>3. TypeOK'
  BY <1>1 DEF CInv, TypeOK, ServerTypes
<1> QED BY <1>1, <1>2, <1>3 DEF CInv

LEMMA OldServerTypes ==
  ASSUME TypeOK
  PROVE  ServerTypes
BY DEF TypeOK, ServerTypes

\* Reads that fail are counted within the bound.
LEMMA UnreadLemma ==
  ASSUME NEW x, NEW y, NEW unread \in SUBSET {x, y}
  PROVE  /\ Cardinality(unread) \in Nat
         /\ Cardinality(unread) = 0 => unread = {}
<1>1. IsFiniteSet({x, y})
  <2>1. IsFiniteSet({x}) /\ {x, y} = {x} \cup {y}
    BY FS_Singleton
  <2> QED BY <2>1, FS_AddElement
<1>2. IsFiniteSet(unread)
  BY <1>1, FS_Subset
<1> QED BY <1>2, FS_CardinalityType, FS_EmptySet

LEMMA CheckPartiesLemma ==
  ASSUME CInv, NEW r \in requests, CheckParties(r)
  PROVE  CInv'
<1>1. r \in RequestRecord /\ r.op = "initiate" /\ r.pc = "check"
  BY DEF CInv, TypeOK, CheckParties, At
<1>2. /\ UNCHANGED <<userCall, inbox, tab, calm>>
      /\ mishaps' \in 0 .. MaxMishaps
  <2>1. UNCHANGED <<userCall, inbox, tab, calm>>
    BY DEF CheckParties
  <2>2. mishaps \in 0 .. MaxMishaps /\ MaxMishaps \in Nat
    BY CallAssumption DEF CInv, TypeOK
  <2>3. ASSUME NEW unread \in SUBSET {r.by, r.peer},
               mishaps + Cardinality(unread) <= MaxMishaps,
               mishaps' = mishaps + Cardinality(unread)
        PROVE  mishaps' \in 0 .. MaxMishaps
    <3>1. Cardinality(unread) \in Nat
      BY <2>3, UnreadLemma
    <3> QED BY <2>2, <2>3, <3>1
  <2>4. mishaps' = mishaps \/ mishaps' \in 0 .. MaxMishaps
    BY <2>3 DEF CheckParties
  <2> QED BY <2>1, <2>2, <2>4
<1>3. CASE Goto(r, "err") /\ UNCHANGED <<store, mishaps>>
  <2>1. ServerTypes'
    BY <1>2, <1>3, OldServerTypes DEF CInv, ServerTypes
  <2> QED BY <1>1, <1>2, <1>3, <2>1, ServerLemma DEF PcType
<1>4. ASSUME NEW c \in Calls,
             store' = [store EXCEPT ![c] =
                         [status |-> "new", from |-> r.by, to |-> r.peer]],
             requests' = (requests \ {r}) \cup {[r EXCEPT !.call = c, !.pc = "save"]}
      PROVE  CInv'
  <2> DEFINE q == [r EXCEPT !.call = c, !.pc = "save"]
  <2>1. /\ q \in RequestRecord /\ q.tab = r.tab /\ q.op = r.op /\ q.call \in Calls
    BY <1>1 DEF RequestRecord
  <2> HIDE DEF q
  <2>2. requests' = (requests \ {r}) \cup {q}
    BY <1>4 DEF q
  <2>3. requests' \subseteq RequestRecord
    BY <2>1, <2>2 DEF CInv, TypeOK
  <2>4. CallsAreKnown'
    BY <2>1, <2>2 DEF CInv, CallsAreKnown
  <2>5. \A t \in Tabs : AsksGoOn(t)
    BY <2>1, <2>2 DEF AsksGoOn, Awaits, Asking
  <2>6. [status |-> "new", from |-> r.by, to |-> r.peer] \in CallRecord
    BY <1>1 DEF CallRecord, RequestRecord
  <2>7. store' \in [Calls -> CallRecord]
    BY <1>4, <2>6 DEF CInv, TypeOK
  <2>8. TypeOK'
    BY <1>2, <2>3, <2>7 DEF CInv, TypeOK
  <2>9. RingIsBounded'
    BY <1>2, <2>5, TabsStay DEF CInv
  <2> QED BY <2>4, <2>8, <2>9 DEF CInv
<1> QED BY <1>3, <1>4 DEF CheckParties

LEMMA ServeLemma ==
  ASSUME CInv, NEW r \in requests, Serve(r)
  PROVE  CInv'
<1>0. r \in RequestRecord /\ ServerTypes
  BY OldServerTypes DEF CInv, TypeOK
<1>1. r.pc \in {"get", "save", "tell", "remove"} => r.call \in Calls
  BY DEF CInv, CallsAreKnown
<1>2. CASE CheckParties(r)
  BY <1>2, CheckPartiesLemma
<1>3. CASE SaveNewCall(r)
  <2>1. r.call \in Calls /\ [event |-> "call_incoming", call |-> r.call] \in Frame
    BY <1>1, <1>3 DEF SaveNewCall, At, Frame
  <2>2. SaveActiveCall(r.call, "ringing") /\ Broadcast(r.peer, "call_incoming", r.call)
        /\ Goto(r, "ok") /\ UNCHANGED <<tab, calm>>
    BY <1>3 DEF SaveNewCall
  <2>3. /\ store' \in [Calls -> CallRecord] /\ userCall' \in [Users -> Calls \cup {NoCall}]
    BY <2>1, <2>2, SaveLemma DEF CInv
  <2>4. inbox' \in [Tabs -> Seq(Frame)] /\ mishaps' \in 0 .. MaxMishaps
    BY <2>1, <2>2, BroadcastLemma DEF CInv
  <2>5. ServerTypes'
    BY <2>3, <2>4 DEF ServerTypes
  <2> QED BY <2>1, <2>2, <2>5, ServerLemma DEF PcType
<1>4. CASE ReadForAccept(r)
  <2>1. r.call \in Calls /\ UNCHANGED <<store, userCall, inbox, tab, mishaps, calm>>
    BY <1>1, <1>4 DEF ReadForAccept, At
  <2>2. PICK pc \in {"save", "err"} : Goto(r, pc)
    BY <1>4 DEF ReadForAccept
  <2>3. ServerTypes'
    BY <1>0, <2>1 DEF ServerTypes
  <2> QED BY <2>1, <2>2, <2>3, ServerLemma DEF PcType
<1>5. CASE SaveAccepted(r)
  <2>1. r.call \in Calls /\ [event |-> "call_accepted", call |-> r.call] \in Frame
    BY <1>1, <1>5 DEF SaveAccepted, At, Frame
  <2>2. /\ SaveActiveCall(r.call, "active")
        /\ Broadcast(store[r.call].from, "call_accepted", r.call)
        /\ Goto(r, "ok") /\ UNCHANGED <<tab, calm>>
    BY <1>5 DEF SaveAccepted
  <2>3. /\ store' \in [Calls -> CallRecord] /\ userCall' \in [Users -> Calls \cup {NoCall}]
    BY <2>1, <2>2, SaveLemma DEF CInv
  <2>4. inbox' \in [Tabs -> Seq(Frame)] /\ mishaps' \in 0 .. MaxMishaps
    BY <2>1, <2>2, BroadcastLemma DEF CInv
  <2>5. ServerTypes'
    BY <2>3, <2>4 DEF ServerTypes
  <2> QED BY <2>1, <2>2, <2>5, ServerLemma DEF PcType
<1>6. CASE ReadForClose(r)
  <2>1. r.call \in Calls /\ UNCHANGED <<store, userCall, inbox, tab, mishaps, calm>>
    BY <1>1, <1>6 DEF ReadForClose
  <2>2. PICK pc \in {"tell", "err"} : Goto(r, pc)
    BY <1>6 DEF ReadForClose
  <2>3. ServerTypes'
    BY <1>0, <2>1 DEF ServerTypes
  <2> QED BY <2>1, <2>2, <2>3, ServerLemma DEF PcType
<1>7. CASE TellClosed(r)
  <2>1. r.call \in Calls /\ [event |-> ClosedEvent(r.op), call |-> r.call] \in Frame
    BY <1>1, <1>7 DEF TellClosed, ClosedEvent, Frame
  <2>2. /\ Broadcast(Other(r.call, r.by), ClosedEvent(r.op), r.call)
        /\ Goto(r, "remove") /\ UNCHANGED <<store, userCall, tab, calm>>
    BY <1>7 DEF TellClosed
  <2>3. inbox' \in [Tabs -> Seq(Frame)] /\ mishaps' \in 0 .. MaxMishaps
    BY <2>1, <2>2, BroadcastLemma DEF CInv
  <2>4. ServerTypes'
    BY <1>0, <2>2, <2>3 DEF ServerTypes
  <2> QED BY <2>1, <2>2, <2>4, ServerLemma DEF PcType
<1>8. CASE RemoveActiveCall(r)
  <2>1. /\ r.call \in Calls /\ Goto(r, "ok") /\ UNCHANGED <<inbox, tab, mishaps, calm>>
    BY <1>1, <1>8 DEF RemoveActiveCall
  <2>2. store' \in [Calls -> CallRecord] /\ userCall' \in [Users -> Calls \cup {NoCall}]
    <3>1. CASE Live(r.call)
      <4>1. /\ store' = [store EXCEPT ![r.call].status = "gone"]
            /\ userCall' = [u \in Users |->
                              IF u \in Party(r.call) THEN NoCall ELSE userCall[u]]
        BY <1>8, <3>1 DEF RemoveActiveCall
      <4>2. store' \in [Calls -> CallRecord]
        BY <2>1, <4>1, GoneLemma DEF CInv
      <4> QED BY <4>1, <4>2 DEF CInv, TypeOK
    <3>2. CASE ~ Live(r.call)
      BY <1>0, <1>8, <3>2 DEF RemoveActiveCall, serverVars, ServerTypes
    <3> QED BY <3>1, <3>2
  <2>3. ServerTypes'
    BY <1>0, <2>1, <2>2 DEF ServerTypes
  <2> QED BY <2>1, <2>3, ServerLemma DEF PcType
<1> QED BY <1>2, <1>3, <1>4, <1>5, <1>6, <1>7, <1>8 DEF Serve

LEMMA CutLemma ==
  ASSUME CInv, NEW r \in requests, Cut(r)
  PROVE  CInv'
<1>1. /\ mishaps < MaxMishaps /\ mishaps' = mishaps + 1 /\ Goto(r, "err")
      /\ UNCHANGED <<store, userCall, inbox, tab, calm>>
  BY DEF Cut
<1>2. mishaps' \in 0 .. MaxMishaps
  BY <1>1, CallAssumption DEF CInv, TypeOK
<1>3. ServerTypes'
  BY <1>1, <1>2, OldServerTypes DEF CInv, ServerTypes
<1>4. r.call \in Calls \/ r.op = "initiate"
  BY DEF CInv, CallsAreKnown
<1> QED BY <1>1, <1>3, <1>4, ServerLemma DEF PcType

LEMMA ExpireLemma ==
  ASSUME CInv, NEW c \in Calls, Expire(c)
  PROVE  CInv'
<1>1. /\ store' = [store EXCEPT ![c].status = "gone"]
      /\ userCall' = [u \in Users |-> IF userCall[u] = c THEN NoCall ELSE userCall[u]]
      /\ mishaps < MaxMishaps /\ mishaps' = mishaps + 1
      /\ UNCHANGED <<requests, inbox, tab, calm>>
  BY DEF Expire
<1>2. mishaps' \in 0 .. MaxMishaps
  BY <1>1, CallAssumption DEF CInv, TypeOK
<1>3. store' \in [Calls -> CallRecord]
  BY <1>1, GoneLemma DEF CInv
<1>4. userCall' \in [Users -> Calls \cup {NoCall}]
  BY <1>1 DEF CInv, TypeOK
<1>5. TypeOK'
  BY <1>1, <1>2, <1>3, <1>4 DEF CInv, TypeOK
<1>6. CallsAreKnown'
  BY <1>1 DEF CInv, CallsAreKnown
<1>7. \A t \in Tabs : AsksGoOn(t)
  BY <1>1 DEF AsksGoOn, Awaits, Asking
<1>8. RingIsBounded'
  BY <1>1, <1>7, TabsStay DEF CInv
<1> QED BY <1>5, <1>6, <1>8 DEF CInv

-----------------------------------------------------------------------------
(***************************************************************************)
(* The steps of a tab.                                                     *)
(***************************************************************************)
(* A client step, once its tab and its requests have been dealt with.      *)
(***************************************************************************)
LEMMA ClientLemma ==
  ASSUME CInv, NEW t \in Tabs, NEW u, TabOK(u), Become(t, u),
         Bounded(u, Awaits(t)'), \A p \in Tabs \ {t} : AsksGoOn(p),
         requests' \subseteq RequestRecord, CallsAreKnown', calm' \in BOOLEAN,
         ServerTypes'
  PROVE  CInv'
<1>1. /\ tab' \in [Tabs -> TabRecord]
      /\ \A p \in Tabs : tab'[p].ref => tab'[p].timers # << >>
      /\ RingIsBounded'
  BY TabStep DEF CInv
<1>2. TypeOK'
  BY <1>1 DEF TypeOK, ServerTypes
<1> QED BY <1>1, <1>2 DEF CInv

Sends(t, new) == \E q \in new : q.tab = t /\ q.op \in {"initiate", "end"}

AwaitsWith(t, new) == Awaits(t) \/ Sends(t, new)

(***************************************************************************)
(* The same for a step that sends requests, or none.                       *)
(***************************************************************************)
LEMMA SendingLemma ==
  ASSUME CInv, NEW t \in Tabs, NEW u, TabOK(u), Become(t, u),
         NEW b \in BOOLEAN, NEW new, SendIf(b, new),
         new \subseteq RequestRecord, \A q \in new : Known(q),
         Bounded(u, AwaitsWith(t, new)),
         UNCHANGED <<store, userCall, inbox, mishaps>>
  PROVE  CInv'
<1>1. /\ requests' \subseteq RequestRecord /\ CallsAreKnown'
      /\ \A p \in Tabs : AsksGoOn(p)
      /\ \A q \in new : q \in requests'
      /\ calm' \in BOOLEAN
  BY SendLemma DEF CInv
<1>2. AwaitsWith(t, new) => Awaits(t)'
  BY <1>1 DEF AwaitsWith, Sends, AsksGoOn, Awaits, Asking
<1>3. Bounded(u, Awaits(t)')
  BY <1>2 DEF Bounded
<1>4. ServerTypes'
  BY OldServerTypes DEF CInv, ServerTypes
<1> QED BY <1>1, <1>3, <1>4, ClientLemma

(***************************************************************************)
(* A step of a tab that touches no timer.                                  *)
(***************************************************************************)
LEMMA IdleStepLemma ==
  ASSUME CInv, NEW t \in Tabs, NEW u, TabOK(u), Become(t, u),
         u.ui = tab[t].ui, u.timers = tab[t].timers,
         UNCHANGED <<requests, calm>>, ServerTypes'
  PROVE  CInv'
<1>1. \A p \in Tabs : AsksGoOn(p)
  BY DEF AsksGoOn, Awaits, Asking
<1>2. StillBounded(tab[t], u)
  BY DEF StillBounded, TimersGoOn, HasTimer
<1>3. Bounded(u, Awaits(t)')
  BY <1>1, <1>2, StillBoundedLemma DEF CInv
<1>4. requests' \subseteq RequestRecord /\ CallsAreKnown' /\ calm' \in BOOLEAN
  BY DEF CInv, TypeOK, CallsAreKnown
<1> QED BY <1>1, <1>3, <1>4, ClientLemma

LEMMA OldBounded ==
  ASSUME CInv, NEW t \in Tabs
  PROVE  TabOK(tab[t]) /\ tab[t] \in TabRecord /\ Bounded(tab[t], Awaits(t))
BY TabType DEF CInv, TabOK, RingIsBounded, Armed, Bounded, Awaits

LEMMA NothingSentLemma ==
  ASSUME CInv, NEW t \in Tabs, NEW u, TabOK(u), Become(t, u), SendIf(TRUE, {}),
         Bounded(u, Awaits(t)), UNCHANGED <<store, userCall, inbox, mishaps>>
  PROVE  CInv'
<1> DEFINE none == {}
<1>1. none \subseteq RequestRecord /\ \A q \in none : Known(q)
  OBVIOUS
<1>2. Bounded(u, AwaitsWith(t, none))
  BY DEF Bounded, AwaitsWith
<1>3. SendIf(TRUE, none)
  OBVIOUS
<1> HIDE DEF none
<1> QED BY <1>1, <1>2, <1>3, SendingLemma

LEMMA DoHangupLemma ==
  ASSUME CInv, NEW t \in Tabs, NEW s, TabOK(s), DoHangup(t, s),
         s.ui = "ringing_incoming" => HasTimer(s, "decline"),
         UNCHANGED <<store, userCall, inbox, mishaps>>
  PROVE  CInv'
<1>1. CASE s.active = NoCall
  <2>1. Become(t, Cleanup(s)) /\ SendIf(TRUE, {})
    BY <1>1 DEF DoHangup, Send
  <2>2. TabOK(Cleanup(s)) /\ Cleanup(s).ui = "idle"
    BY CleanupLemma
  <2> DEFINE u == Cleanup(s)
  <2>3. Bounded(u, Awaits(t))
    BY <2>2 DEF Bounded
  <2> HIDE DEF u
  <2>4. TabOK(u) /\ Become(t, u)
    BY <2>1, <2>2 DEF u
  <2> QED BY <2>1, <2>3, <2>4, NothingSentLemma
<1>2. CASE s.active # NoCall
  <2> DEFINE q == Request("end", Owner[t], t, s.active, NoUser)
  <2>1. Become(t, s) /\ SendIf(TRUE, {q})
    BY <1>2 DEF DoHangup, Send
  <2>2. s.active \in Calls /\ Owner[t] \in Users
    BY <1>2, CallAssumption DEF TabOK, TabRecord
  <2>3. q \in RequestRecord /\ q.tab = t /\ q.op = "end" /\ Known(q)
    BY <2>2, RequestLemma
  <2> HIDE DEF q
  <2>4. {q} \subseteq RequestRecord /\ \A r \in {q} : Known(r)
    BY <2>3
  <2>5. Bounded(s, AwaitsWith(t, {q}))
    BY <2>3 DEF Bounded, AwaitsWith, Sends
  <2> QED BY <2>1, <2>4, <2>5, SendingLemma
<1> QED BY <1>1, <1>2

(***************************************************************************)
(* A start, when it begins to ring, has sent its request.                  *)
(***************************************************************************)
LEMMA StartLemma ==
  ASSUME CInv, NEW t \in Tabs
  PROVE  /\ StartRequest(t) \subseteq RequestRecord
         /\ \A q \in StartRequest(t) : Known(q)
         /\ StartsNow(tab[t]) =>
              Bounded(AfterStart(tab[t]), AwaitsWith(t, StartRequest(t)))
<1> DEFINE q == Request("initiate", Owner[t], t, NoCall, tab[t].pendingStart)
<1>0. TabOK(tab[t]) /\ tab[t] \in TabRecord /\ Bounded(tab[t], Awaits(t))
  BY OldBounded
<1>1. /\ tab[t].pendingStart \in Users \cup {NoUser} /\ Owner[t] \in Users
      /\ t \in Tabs \cup {NoTab} /\ NoCall \in Calls \cup {NoCall}
  BY <1>0, CallAssumption DEF TabRecord
<1>2. q \in RequestRecord /\ q.tab = t /\ q.op = "initiate" /\ Known(q)
  BY <1>1 DEF Request, RequestRecord, Known
<1>3. StartRequest(t) = IF StartsNow(tab[t]) /\ tab[t].ui = "idle" THEN {q} ELSE {}
  BY DEF StartRequest
<1>4. /\ AfterStart(tab[t]).timers = tab[t].timers
      /\ AfterStart(tab[t]).ui =
           IF tab[t].ui = "idle" THEN "ringing_outgoing" ELSE tab[t].ui
  BY <1>0, AfterStartLemma
<1> HIDE DEF q
<1>5. ASSUME StartsNow(tab[t])
      PROVE  Bounded(AfterStart(tab[t]), AwaitsWith(t, StartRequest(t)))
  BY <1>0, <1>2, <1>3, <1>4, <1>5 DEF Bounded, HasTimer, AwaitsWith, Sends
<1> QED BY <1>2, <1>3, <1>5

LEMMA StartQueuedLemma ==
  ASSUME CInv, NEW t \in Tabs, StartQueued(t)
  PROVE  CInv'
<1>1. /\ StartsNow(tab[t]) /\ Become(t, AfterStart(tab[t]))
      /\ SendIf(TRUE, StartRequest(t)) /\ UNCHANGED <<store, userCall, inbox, mishaps>>
  BY DEF StartQueued, Send
<1>2. TabOK(AfterStart(tab[t]))
  BY OldBounded, AfterStartLemma
<1> QED BY <1>1, <1>2, StartLemma, SendingLemma

LEMMA MountRuntimeLemma ==
  ASSUME CInv, NEW t \in Tabs, MountRuntime(t)
  PROVE  CInv'
<1> DEFINE s == tab[t]
           started == IF StartsNow(s) THEN AfterStart(s) ELSE s
           rung == IF s.pendingIncoming = NoCall THEN started
                   ELSE RingIncoming(started, s.pendingIncoming)
           u == [rung EXCEPT !.slot = "mounted", !.pendingIncoming = NoCall]
           b == (s.pendingIncoming = NoCall \/ started = s)
           awaited == AwaitsWith(t, StartRequest(t))
<1>1. /\ Become(t, u) /\ SendIf(b, StartRequest(t))
      /\ UNCHANGED <<store, userCall, inbox, mishaps>>
  BY DEF MountRuntime
<1>2. TabOK(s) /\ s \in TabRecord /\ Bounded(s, Awaits(t))
  BY OldBounded
<1>3. TabOK(started)
  BY <1>2, AfterStartLemma
<1>4. Bounded(started, awaited)
  <2>1. CASE StartsNow(s)
    BY <2>1, StartLemma
  <2>2. CASE ~ StartsNow(s)
    BY <1>2, <2>2 DEF Bounded, AwaitsWith
  <2> QED BY <2>1, <2>2
<1>5. TabOK(rung) /\ Bounded(rung, awaited)
  <2>1. CASE s.pendingIncoming = NoCall
    BY <1>3, <1>4, <2>1
  <2>2. CASE s.pendingIncoming # NoCall
    <3>1. s.pendingIncoming \in Calls
      BY <1>2, <2>2 DEF TabRecord
    <3> HIDE DEF started
    <3>2. rung = RingIncoming(started, s.pendingIncoming)
      BY <2>2
    <3>3. /\ TabOK(rung) /\ rung.ui = "ringing_incoming" /\ HasTimer(rung, "decline")
      BY <1>3, <3>1, <3>2, RingLemma
    <3> QED BY <3>3 DEF Bounded
  <2> QED BY <2>1, <2>2
<1> HIDE DEF rung, started, awaited
<1>6. TabOK(u) /\ u.ui = rung.ui /\ u.timers = rung.timers
  BY <1>5 DEF TabOK, TabRecord
<1>7. Bounded(u, awaited)
  BY <1>5, <1>6 DEF Bounded, HasTimer
<1>8. b \in BOOLEAN
  OBVIOUS
<1> HIDE DEF u, b, s
<1> QED BY <1>1, <1>6, <1>7, <1>8, StartLemma, SendingLemma DEF awaited

LEMMA RingTimeoutLemma ==
  ASSUME CInv, NEW t \in Tabs, RingTimeout(t)
  PROVE  CInv'
<1> DEFINE timer == Head(tab[t].timers)
           s == Fired(tab[t])
<1>1. /\ tab[t].timers # << >> /\ UNCHANGED <<store, userCall, inbox, mishaps>>
      /\ CASE timer.kind = "hangup" -> DoHangup(t, s)
           [] timer.kind = "decline" /\ s.ui = "ringing_incoming" ->
                /\ Become(t, Cleanup(s))
                /\ Send({Request("decline", Owner[t], NoTab, timer.call, NoUser)})
           [] OTHER -> Become(t, s) /\ Send({})
  BY DEF RingTimeout, Fired
<1>2. TabOK(tab[t]) /\ Bounded(tab[t], Awaits(t))
  BY OldBounded
<1>3. /\ TabOK(s) /\ s.ui = tab[t].ui /\ timer \in Timer
      /\ \A k : HasTimer(tab[t], k) /\ timer.kind # k => HasTimer(s, k)
  BY <1>1, <1>2, FiredLemma
<1>4. /\ timer.kind \in {"hangup", "decline"}
      /\ timer.kind = "decline" => timer.call \in Calls
  BY <1>3 DEF Timer, Hangup, AutoDecline
<1> HIDE DEF s, timer
<1>5. CASE timer.kind = "hangup"
  <2>1. s.ui = "ringing_incoming" => HasTimer(s, "decline")
    BY <1>2, <1>3, <1>5 DEF Bounded
  <2>2. DoHangup(t, s)
    BY <1>1, <1>5
  <2> QED BY <1>1, <1>3, <2>1, <2>2, DoHangupLemma
<1>6. CASE timer.kind = "decline" /\ s.ui = "ringing_incoming"
  <2> DEFINE q == Request("decline", Owner[t], NoTab, timer.call, NoUser)
             u == Cleanup(s)
  <2>1. Become(t, u) /\ SendIf(TRUE, {q})
    BY <1>1, <1>6 DEF Send
  <2>2. TabOK(u) /\ u.ui = "idle"
    BY <1>3, CleanupLemma
  <2>3. q \in RequestRecord /\ Known(q)
    BY <1>4, <1>6, RequestLemma, CallAssumption
  <2>4. {q} \subseteq RequestRecord /\ \A r \in {q} : Known(r)
    BY <2>3
  <2>5. Bounded(u, AwaitsWith(t, {q}))
    BY <2>2 DEF Bounded
  <2> HIDE DEF u, q
  <2> QED BY <1>1, <2>1, <2>2, <2>4, <2>5, SendingLemma
<1>7. CASE timer.kind = "decline" /\ s.ui # "ringing_incoming"
  <2>1. Become(t, s) /\ SendIf(TRUE, {})
    BY <1>1, <1>7 DEF Send
  <2>2. Bounded(s, Awaits(t))
    BY <1>2, <1>3, <1>7 DEF Bounded
  <2> QED BY <1>1, <1>3, <2>1, <2>2, NothingSentLemma
<1> QED BY <1>4, <1>5, <1>6, <1>7

LEMMA ReceiveEventLemma ==
  ASSUME CInv, NEW t \in Tabs, ReceiveEvent(t)
  PROVE  CInv'
<1> DEFINE e == Head(inbox[t])
           u == Received(tab[t], e)
<1>1. /\ inbox[t] # << >> /\ Become(t, u)
      /\ inbox' = [inbox EXCEPT ![t] = Tail(@)]
      /\ UNCHANGED <<store, userCall, requests, mishaps, calm>>
  BY DEF ReceiveEvent
<1>2. inbox \in [Tabs -> Seq(Frame)] /\ inbox[t] \in Seq(Frame)
  BY DEF CInv, TypeOK
<1>3. e \in Frame /\ Tail(inbox[t]) \in Seq(Frame)
  BY <1>1, <1>2, HeadTailProperties
<1>4. TabOK(u) /\ StillBounded(tab[t], u)
  BY <1>3, OldBounded, ReceivedLemma
<1> HIDE DEF u, e
<1>5. \A p \in Tabs : AsksGoOn(p)
  BY <1>1 DEF AsksGoOn, Awaits, Asking
<1>6. Bounded(u, Awaits(t)')
  BY <1>4, <1>5, StillBoundedLemma DEF CInv
<1>7. ServerTypes'
  BY <1>1, <1>2, <1>3, OldServerTypes DEF CInv, ServerTypes
<1>8. requests' \subseteq RequestRecord /\ CallsAreKnown' /\ calm' \in BOOLEAN
  BY <1>1 DEF CInv, TypeOK, CallsAreKnown
<1> QED BY <1>1, <1>4, <1>5, <1>6, <1>7, <1>8, ClientLemma

LEMMA AnswerLemma ==
  ASSUME CInv, NEW r \in requests, Answer(r)
  PROVE  CInv'
<1>1. /\ requests' = requests \ {r}
      /\ UNCHANGED <<store, userCall, inbox, mishaps, calm>>
      /\ tab' = IF r.tab = NoTab THEN tab
                ELSE [tab EXCEPT ![r.tab] = Answered(@, r)]
  BY DEF Answer
<1>2. r \in RequestRecord /\ r.tab \in Tabs \cup {NoTab} /\ NoTab \notin Tabs
  BY CallAssumption DEF CInv, TypeOK, RequestRecord
<1>3. requests' \subseteq RequestRecord /\ CallsAreKnown' /\ calm' \in BOOLEAN
  BY <1>1 DEF CInv, TypeOK, CallsAreKnown
<1>4. ServerTypes'
  BY <1>1, OldServerTypes DEF CInv, ServerTypes
<1>5. \A p \in Tabs : p # r.tab => AsksGoOn(p)
  BY <1>1 DEF AsksGoOn, Awaits, Asking
<1>6. CASE r.tab = NoTab
  <2>1. RingIsBounded'
    BY <1>1, <1>2, <1>5, <1>6, TabsStay DEF CInv
  <2>2. TypeOK'
    BY <1>1, <1>3, <1>4, <1>6 DEF CInv, TypeOK, ServerTypes
  <2> QED BY <1>3, <2>1, <2>2 DEF CInv
<1>7. CASE r.tab # NoTab
  <2> DEFINE t == r.tab
             u == Answered(tab[t], r)
  <2>1. t \in Tabs /\ Become(t, u)
    BY <1>1, <1>2, <1>7 DEF Become, CInv, TypeOK
  <2>2. Bounded(tab[t], Awaits(t)) /\ TabOK(tab[t])
    BY <2>1, OldBounded
  <2>3. /\ TabOK(u)
        /\ \/ ~ Rings(u)
           \/ u.ui = tab[t].ui /\ TimersGoOn(tab[t], u) /\ HasTimer(u, "hangup")
    BY <1>2, <2>2, AnsweredLemma
  <2> HIDE DEF u
  <2>4. Bounded(u, Awaits(t)')
    BY <2>2, <2>3 DEF Bounded, Rings, TimersGoOn
  <2>5. \A p \in Tabs \ {t} : AsksGoOn(p)
    BY <1>5
  <2> HIDE DEF t
  <2> QED BY <1>3, <1>4, <2>1, <2>3, <2>4, <2>5, ClientLemma
<1> QED BY <1>6, <1>7

LEMMA AskLemma ==
  ASSUME CInv, NEW t \in Tabs, NEW u, TabOK(u), Become(t, u), Bounded(u, Awaits(t)),
         NEW b \in BOOLEAN, NEW op \in {"accept", "decline", "end"},
         NEW p \in Tabs \cup {NoTab}, NEW c \in Calls,
         SendIf(b, {Request(op, Owner[t], p, c, NoUser)}),
         UNCHANGED <<store, userCall, inbox, mishaps>>
  PROVE  CInv'
<1> DEFINE q == Request(op, Owner[t], p, c, NoUser)
<1>1. q \in RequestRecord /\ Known(q)
  BY RequestLemma, CallAssumption
<1> HIDE DEF q
<1>2. {q} \subseteq RequestRecord /\ \A r \in {q} : Known(r)
  BY <1>1
<1>3. Bounded(u, AwaitsWith(t, {q}))
  BY DEF Bounded, AwaitsWith
<1>4. SendIf(b, {q})
  BY DEF q
<1> QED BY <1>2, <1>3, <1>4, SendingLemma

LEMMA ClickLemma ==
  ASSUME CInv, NEW t \in Tabs, Click(t)
  PROVE  CInv'
<1>0. /\ TabOK(tab[t]) /\ tab[t] \in TabRecord /\ Bounded(tab[t], Awaits(t))
      /\ tab \in [Tabs -> TabRecord]
  BY OldBounded DEF CInv, TypeOK
<1>1. ASSUME NEW v \in Users, ClickCall(t, v)
      PROVE  CInv'
  <2> DEFINE u == [tab[t] EXCEPT !.pendingStart = v,
                                 !.slot = IF @ = "cold" THEN "loading" ELSE @]
  <2>1. Become(t, u) /\ UNCHANGED <<store, userCall, requests, inbox, mishaps, calm>>
    BY <1>1 DEF ClickCall
  <2>2. TabOK(u) /\ u.ui = tab[t].ui /\ u.timers = tab[t].timers
    BY <1>0 DEF TabOK, TabRecord
  <2>3. ServerTypes'
    BY <2>1, OldServerTypes DEF CInv, ServerTypes
  <2> HIDE DEF u
  <2> QED BY <2>1, <2>2, <2>3, IdleStepLemma
<1>2. CASE HangUp(t)
  <2>1. /\ DoHangup(t, tab[t]) /\ tab[t].ui \in {"active", "ringing_outgoing"}
        /\ UNCHANGED <<store, userCall, inbox, mishaps>>
    BY <1>2 DEF HangUp
  <2> QED BY <1>0, <2>1, DoHangupLemma
<1>3. CASE AcceptIncoming(t) \/ DeclineIncoming(t)
  <2>1. PICK op \in {"accept", "decline"} :
          SendIf(TRUE, {Request(op, Owner[t], t, tab[t].incoming, NoUser)})
    BY <1>3 DEF AcceptIncoming, DeclineIncoming, Send
  <2>2. tab[t].incoming \in Calls /\ UNCHANGED <<store, userCall, inbox, tab, mishaps>>
    BY <1>0, <1>3 DEF AcceptIncoming, DeclineIncoming, TabRecord
  <2>3. Become(t, tab[t])
    BY <1>0, <2>2 DEF Become
  <2> QED BY <1>0, <2>1, <2>2, <2>3, AskLemma
<1>4. CASE HangUpOrphan(t)
  <2> DEFINE u == [tab[t] EXCEPT !.orphan = NoCall]
  <2>1. /\ Become(t, u) /\ UNCHANGED <<store, userCall, inbox, mishaps>>
        /\ SendIf(FALSE, {Request("end", Owner[t], NoTab, tab[t].orphan, NoUser)})
        /\ tab[t].orphan \in Calls
    BY <1>0, <1>4 DEF HangUpOrphan, TabRecord
  <2>2. TabOK(u) /\ Bounded(u, Awaits(t))
    BY <1>0 DEF TabOK, TabRecord, Bounded, HasTimer
  <2> HIDE DEF u
  <2> QED BY <2>1, <2>2, AskLemma
<1> QED BY <1>1, <1>2, <1>3, <1>4 DEF Click

LEMMA ProbeLemma ==
  ASSUME CInv, NEW t \in Tabs, Probe(t)
  PROVE  CInv'
<1> DEFINE u == [tab[t] EXCEPT !.probed = TRUE, !.orphan = userCall[Owner[t]]]
<1>1. Become(t, u) /\ UNCHANGED <<store, userCall, requests, inbox, mishaps, calm>>
  BY DEF Probe
<1>2. userCall[Owner[t]] \in Calls \cup {NoCall}
  BY CallAssumption DEF CInv, TypeOK
<1>3. TabOK(u) /\ u.ui = tab[t].ui /\ u.timers = tab[t].timers
  BY <1>2, OldBounded DEF TabOK, TabRecord
<1>4. ServerTypes'
  BY <1>1, OldServerTypes DEF CInv, ServerTypes
<1> HIDE DEF u
<1> QED BY <1>1, <1>3, <1>4, IdleStepLemma

LEMMA FreshLemma ==
  TabOK(FreshTab) /\ FreshTab.ui = "idle"
<1>1. << >> \in Seq(Timer)
  OBVIOUS
<1> QED BY <1>1 DEF FreshTab, TabOK, TabRecord

LEMMA ReloadLemma ==
  ASSUME CInv, NEW t \in Tabs, Reload(t)
  PROVE  CInv'
<1> DEFINE mine == {r \in requests : r.tab = t}
           q == Request("end", Owner[t], NoTab, tab[t].active, NoUser)
           beacon == IF tab[t].active # NoCall
                        /\ tab[t].ui \in {"active", "ringing_outgoing"}
                     THEN {q} ELSE {}
<1>1. /\ mishaps < MaxMishaps /\ mishaps' = mishaps + 1
      /\ Become(t, FreshTab) /\ inbox' = [inbox EXCEPT ![t] = <<>>]
      /\ UNCHANGED <<store, userCall, calm>>
  BY DEF Reload
<1>2. PICK kept \in SUBSET mine, sent \in SUBSET beacon :
        requests' = (requests \ mine) \cup {[r EXCEPT !.tab = NoTab] : r \in kept} \cup sent
  BY DEF Reload
<1>3. tab[t].active # NoCall => q \in RequestRecord /\ Known(q)
  <2>1. tab[t].active \in Calls \cup {NoCall} /\ Owner[t] \in Users
    BY OldBounded, CallAssumption DEF TabRecord
  <2> QED BY <2>1, RequestLemma
<1>4. \A r \in sent : r \in RequestRecord /\ Known(r)
  BY <1>3
<1>5. \A r \in kept : /\ [r EXCEPT !.tab = NoTab] \in RequestRecord
                      /\ Known([r EXCEPT !.tab = NoTab])
  <2>1. \A r \in kept : r \in RequestRecord /\ Known(r)
    BY DEF CInv, TypeOK, CallsAreKnown, Known
  <2> QED BY <2>1 DEF RequestRecord, Known
<1>6. \A r \in requests' : r \in RequestRecord /\ Known(r)
  BY <1>2, <1>4, <1>5 DEF CInv, TypeOK, CallsAreKnown, Known
<1>7. requests' \subseteq RequestRecord /\ CallsAreKnown'
  BY <1>6 DEF CallsAreKnown, Known
<1>8. \A p \in Tabs \ {t} : AsksGoOn(p)
  BY <1>2 DEF AsksGoOn, Awaits, Asking
<1>9. Bounded(FreshTab, Awaits(t)')
  BY FreshLemma DEF Bounded
<1>10. ServerTypes'
  <2>1. mishaps' \in 0 .. MaxMishaps
    BY <1>1, CallAssumption DEF CInv, TypeOK
  <2>2. <<>> \in Seq(Frame)
    OBVIOUS
  <2>3. inbox' \in [Tabs -> Seq(Frame)]
    BY <1>1, <2>2 DEF CInv, TypeOK
  <2> QED BY <1>1, <2>1, <2>3 DEF CInv, TypeOK, ServerTypes
<1>11. calm' \in BOOLEAN
  BY <1>1 DEF CInv, TypeOK
<1> QED BY <1>1, <1>7, <1>8, <1>9, <1>10, <1>11, FreshLemma, ClientLemma

-----------------------------------------------------------------------------
(***************************************************************************)
(* The inductive invariant.                                                *)
(***************************************************************************)
LEMMA InitLemma ==
  ASSUME Init
  PROVE  CInv
<1>1. \A c \in Calls : store[c] \in CallRecord
  BY DEF Init, CallRecord
<1>2. store \in [Calls -> CallRecord] /\ userCall \in [Users -> Calls \cup {NoCall}]
  BY <1>1 DEF Init
<1>3. inbox \in [Tabs -> Seq(Frame)]
  <2>1. <<>> \in Seq(Frame)
    OBVIOUS
  <2> QED BY <2>1 DEF Init
<1>4. \A t \in Tabs : tab[t] = FreshTab
  BY DEF Init
<1>5. tab \in [Tabs -> TabRecord] /\ \A t \in Tabs : tab[t].ref => tab[t].timers # << >>
  BY <1>4, FreshLemma DEF Init, TabOK
<1>6. TypeOK
  BY <1>2, <1>3, <1>5, CallAssumption DEF Init, TypeOK
<1>7. CallsAreKnown
  BY DEF Init, CallsAreKnown
<1>8. RingIsBounded
  BY <1>4, FreshLemma DEF RingIsBounded
<1> QED BY <1>6, <1>7, <1>8 DEF CInv

LEMMA NextLemma ==
  ASSUME CInv, [Next]_vars
  PROVE  CInv'
<1>1. ASSUME NEW r \in requests, Serve(r) \/ Answer(r) \/ Cut(r)
      PROVE  CInv'
  BY <1>1, ServeLemma, AnswerLemma, CutLemma
<1>2. ASSUME NEW c \in Calls, Expire(c)
      PROVE  CInv'
  BY <1>2, ExpireLemma
<1>3. ASSUME NEW t \in Tabs, Click(t) \/ Client(t)
      PROVE  CInv'
  BY <1>3, ClickLemma, MountRuntimeLemma, StartQueuedLemma, ReceiveEventLemma DEF Client
<1>4. ASSUME NEW t \in Tabs, RingTimeout(t) \/ Probe(t) \/ Reload(t)
      PROVE  CInv'
  BY <1>4, RingTimeoutLemma, ProbeLemma, ReloadLemma
<1>5. CASE UNCHANGED vars
  <2>1. TypeOK' /\ CallsAreKnown' /\ RingIsBounded'
    BY <1>5 DEF vars, CInv, TypeOK, CallsAreKnown, RingIsBounded, Armed, Asking
  <2> QED BY <2>1 DEF CInv
<1> QED BY <1>1, <1>2, <1>3, <1>4, <1>5 DEF Next, ServeSome

(***************************************************************************)
(* Types, requests that know their call, and bounded ringing, together.    *)
(***************************************************************************)
THEOREM CallInductive ==
  Spec => []CInv
BY InitLemma, NextLemma, PTL DEF Spec

(***************************************************************************)
(* Redis holds no call that is neither ringing nor active, and a tab is in *)
(* no state that useCall does not know, whatever requests, frames and      *)
(* mishaps interleave.                                                     *)
(***************************************************************************)
THEOREM CallTypes ==
  Spec => []TypeOK
<1>1. CInv => TypeOK
  BY DEF CInv
<1> QED BY <1>1, CallInductive, PTL

(***************************************************************************)
(* No tab rings for ever: with any number of users, tabs, calls, requests  *)
(* in flight, lost frames, errors and reloads, a ringing tab of useCall    *)
(* has a timer armed or awaits an answer that ends the ringing or arms it. *)
(***************************************************************************)
THEOREM RingingIsBounded ==
  Spec => []RingIsBounded
<1>1. CInv => RingIsBounded
  BY DEF CInv
<1> QED BY <1>1, CallInductive, PTL
=============================================================================
