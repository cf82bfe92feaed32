---------------------------- MODULE CallCalmProofs ----------------------------
(***************************************************************************)
(* Proofs about what Call promises of calls that nothing disturbs, for any *)
(* users, tabs and calls: when a conversation has come to rest, both ends  *)
(* and the server agree about it (QuietTabsAgree), and who is said to be   *)
(* busy is talking (BusyIsReal).                                           *)
(*                                                                         *)
(* Both speak of quiet states, and neither is anywhere near inductive. The *)
(* invariant behind them, ConversationInv, says of every state in between  *)
(* how far a call has come: which request is under way and what it has     *)
(* done, which frames it left in which inbox, in which state each tab      *)
(* waits for them, and who stands for a party of a call whose tab is not   *)
(* in it yet, or no longer. It holds as long as no frame was lost, nothing *)
(* was cut, reloaded or expired (mishaps = 0), and no request overtook     *)
(* another (calm).                                                         *)
(***************************************************************************)
EXTENDS CallProofs

(***************************************************************************)
(* One request at a time, for all users together.                          *)
(***************************************************************************)
Alone == \A r, q \in requests : r = q

(***************************************************************************)
(* The keys of Redis: a user's key names the call the user is a party of,  *)
(* as long as that call is ringing or active. A call is between two users. *)
(***************************************************************************)
Keys ==
  /\ \A c \in Calls :
       /\ store[c].status = "unused" => Party(c) = {NoUser}
       /\ store[c].status # "unused" =>
            /\ store[c].from \in Users /\ store[c].to \in Users
            /\ store[c].from # store[c].to
  /\ \A u \in Users, c \in Calls : userCall[u] = c <=> Live(c) /\ u \in Party(c)

(***************************************************************************)
(* Told: the end of call c has reached tab t, or is on its way to it: by a *)
(* frame, or as the answer to the tab's own request.                       *)
(***************************************************************************)
HasCall(s) == s.active # NoCall
Closes(e) == e.event \in {"call_declined", "call_ended"}

Told(t, c) ==
  \/ Asking(t, "end")
  \/ \E e \in Frame : Closes(e) /\ e.call = c /\ inbox[t] = <<e>>

(***************************************************************************)
(* What a tab can look like: free; dialling, and awaiting the answer; on   *)
(* the line with a call it started, shown or hung up meanwhile, which its  *)
(* timer will end; ringing; or talking.                                    *)
(***************************************************************************)
NoTimer(s) == s.timers = <<>> /\ ~ s.ref
OneTimer(s, timer) == s.timers = <<timer>> /\ s.ref

Free(s) == s.ui = "idle" /\ ~ HasCall(s) /\ NoTimer(s)
Dials(s) == s.ui = "ringing_outgoing" /\ ~ HasCall(s) /\ NoTimer(s)
Line(s) ==
  /\ s.ui \in {"idle", "ringing_outgoing"} /\ HasCall(s)
  /\ s.consumedStart /\ s.slot = "mounted"
RingsIn(s) ==
  /\ s.ui = "ringing_incoming" /\ ~ HasCall(s) /\ s.slot = "mounted"
  /\ \E c \in Calls : s.incoming = c /\ OneTimer(s, AutoDecline(c))
Talks(s) == s.ui = "active" /\ HasCall(s) /\ NoTimer(s) /\ s.slot = "mounted"

(***************************************************************************)
(* The shape goes with what the server knows. A tab that has lost its      *)
(* timer has asked for the end of the call; a tab talks only after the     *)
(* call was accepted.                                                      *)
(***************************************************************************)
Shape(t, s) ==
  \/ Free(s)
  \/ Dials(s) /\ s.slot = "mounted" /\ Asking(t, "initiate")
  \/ Line(s) /\ (OneTimer(s, Hangup) \/ (NoTimer(s) /\ Asking(t, "end")))
  \/ RingsIn(s)
  \/ Talks(s) /\ store[s.active].status # "ringing"

(***************************************************************************)
(* The calls a tab names are its user's: it rings for calls to that user,  *)
(* and the call it is in is alive unless the tab was told of its end.      *)
(* Before a call is accepted only the caller is in it.                     *)
(***************************************************************************)
Refers(t, s) ==
  /\ s.pendingStart # Owner[t]
  /\ s.pendingIncoming # NoCall => store[s.pendingIncoming].to = Owner[t]
  /\ s.incoming # NoCall => store[s.incoming].to = Owner[t]
  /\ HasCall(s) =>
       /\ Owner[t] \in Party(s.active)
       /\ Live(s.active) \/ Told(t, s.active)
       /\ store[s.active].status = "ringing" => store[s.active].from = Owner[t]

TabFits(t) == Shape(t, tab[t]) /\ Refers(t, tab[t])

(***************************************************************************)
(* A user is in a call with one tab only.                                  *)
(***************************************************************************)
OneLine ==
  \A t, p \in Tabs :
    HasCall(tab[t]) /\ tab[p].active = tab[t].active /\ Owner[p] = Owner[t] => p = t

(***************************************************************************)
(* The tab that awaits the answer to a request can take it.                *)
(***************************************************************************)
Suits(r, s) ==
  /\ s.slot = "mounted"
  /\ r.op = "initiate" =>
       /\ s.ui \in {"idle", "ringing_outgoing"} /\ ~ HasCall(s) /\ NoTimer(s)
       /\ s.consumedStart
  /\ r.op \in {"accept", "decline"} => ~ HasCall(s)
  /\ r.op = "end" => s.active = r.call

Awaited(r) ==
  /\ r.tab = NoTab => r.op = "decline"
  /\ r.tab # NoTab => r.by = Owner[r.tab] /\ Suits(r, tab[r.tab])

(***************************************************************************)
(* What a request has found and done so far. Accept and Decline may come   *)
(* too late, for a call that was answered in another tab or is over; End   *)
(* never does.                                                             *)
(***************************************************************************)
NotYetIn(u, c) == \A t \in Tabs : Owner[t] = u => tab[t].active # c
AllTold(c) == \A t \in Tabs : tab[t].active = c => Told(t, c)

Stage(r) ==
  LET c == r.call
  IN /\ r.op = "initiate" =>
          /\ r.pc \in {"check", "save", "ok", "err"}
          /\ r.peer \in Users /\ r.peer # r.by
          /\ r.pc \in {"save", "ok"} => store[c].from = r.by /\ store[c].to = r.peer
          /\ r.pc = "save" => /\ store[c].status = "new"
                              /\ userCall[r.by] = NoCall /\ userCall[r.peer] = NoCall
          /\ r.pc = "ok" => store[c].status = "ringing" /\ NotYetIn(r.by, c)
     /\ r.op = "accept" =>
          /\ r.pc \in {"get", "save", "ok", "err"}
          /\ store[c].to = r.by
          /\ r.pc = "save" => store[c].status = "ringing"
          /\ r.pc = "ok" => store[c].status = "active" /\ NotYetIn(r.by, c)
     /\ r.op = "decline" =>
          /\ r.pc \in {"get", "tell", "remove", "ok", "err"}
          /\ store[c].to = r.by
          /\ r.pc \in {"tell", "remove"} => store[c].status = "ringing"
          /\ r.pc = "remove" => AllTold(c)
          /\ r.pc = "ok" => ~ Live(c)
     /\ r.op = "end" =>
          /\ r.pc \in {"get", "tell", "remove", "ok"}
          /\ r.by \in Party(c)
          /\ r.pc \in {"get", "tell", "remove"} => Live(c)
          /\ r.pc = "remove" => AllTold(c)
          /\ r.pc = "ok" => ~ Live(c)

(***************************************************************************)
(* A frame is the last request's: it says what the server did, and no      *)
(* later request has changed that. It never goes to the user who asked.    *)
(***************************************************************************)
Brings(r, e) ==
  \/ r.op = "initiate" /\ r.pc = "ok" /\ e.event = "call_incoming"
  \/ r.op = "accept" /\ r.pc = "ok" /\ e.event = "call_accepted"
  \/ r.op \in {"decline", "end"} /\ r.pc \in {"remove", "ok"} /\ Closes(e)

FrameFits(t, e) ==
  /\ \A r \in requests : Brings(r, e) /\ r.call = e.call /\ Owner[t] # r.by
  /\ e.event = "call_incoming" =>
       store[e.call].status = "ringing" /\ store[e.call].to = Owner[t]
  /\ e.event = "call_accepted" =>
       store[e.call].status = "active" /\ store[e.call].from = Owner[t]
  /\ Closes(e) => Owner[t] \in Party(e.call) /\ (requests = {} => ~ Live(e.call))

InboxFits(t) == inbox[t] = <<>> \/ \E e \in Frame : inbox[t] = <<e>> /\ FrameFits(t, e)

(***************************************************************************)
(* Each party of a call is in it with a tab: the caller as soon as it      *)
(* rings, the callee once it is accepted. Until the answer arrives, the    *)
(* request that saves the call stands for the party that asked; once the   *)
(* other party was told of the end, the request that is about to remove    *)
(* the call stands for that party.                                         *)
(***************************************************************************)
Speaks(c, u) == \E t \in Tabs : Owner[t] = u /\ tab[t].active = c

StandsFor(r, c, u) ==
  /\ r.call = c
  /\ \/ r.op \in {"initiate", "accept"} /\ r.pc = "ok" /\ r.by = u
     \/ r.op \in {"decline", "end"} /\ r.pc = "remove" /\ r.by # u

Carried(c, u) == Speaks(c, u) \/ \E r \in requests : StandsFor(r, c, u)

CallFits(c) ==
  /\ Live(c) => Carried(c, store[c].from)
  /\ store[c].status = "active" => Carried(c, store[c].to)

(***************************************************************************)
(* The state of all conversations, while nothing went wrong.               *)
(***************************************************************************)
Conversation ==
  /\ Alone /\ Keys /\ OneLine
  /\ \A r \in requests : Awaited(r) /\ Stage(r)
  /\ \A t \in Tabs : TabFits(t) /\ InboxFits(t)
  /\ \A c \in Calls : CallFits(c)

ConversationInv == calm /\ mishaps = 0 => Conversation

-----------------------------------------------------------------------------
(***************************************************************************)
(* Sequences of one element, which is what timers and inboxes are here.    *)
(***************************************************************************)
LEMMA OneElement ==
  ASSUME NEW S, NEW e \in S
  PROVE  /\ Append(<<>>, e) = <<e>> /\ <<e>> # <<>> /\ <<e>> \in Seq(S)
         /\ Head(<<e>>) = e /\ Tail(<<e>>) = <<>> /\ Front(<<e>>) = <<>>
         /\ Len(<<e>>) = 1
<1>1. /\ <<e>> \in Seq(S) /\ Len(<<e>>) = 1 /\ <<e>> # <<>>
      /\ Head(<<e>>) = e /\ <<e>>[1] = e
  OBVIOUS
<1>2. Append(<<>>, e) = <<e>>
  OBVIOUS
<1>3. Tail(<<e>>) = <<>>
  BY <1>1, HeadTailProperties, EmptySeq
<1>4. Front(<<e>>) = <<>>
  BY <1>1, SubSeqProperties, EmptySeq DEF Front
<1> QED BY <1>1, <1>2, <1>3, <1>4

(***************************************************************************)
(* Clearing the timers of a tab that has one at most leaves none.          *)
(***************************************************************************)
LEMMA ClearsOne ==
  ASSUME NEW s \in TabRecord, NEW timer \in Timer, NoTimer(s) \/ OneTimer(s, timer)
  PROVE  /\ ClearTimers(s) \in TabRecord /\ NoTimer(ClearTimers(s))
         /\ ClearTimers(s) = [s EXCEPT !.timers = <<>>, !.ref = FALSE]
<1>1. CASE OneTimer(s, timer)
  <2>1. ClearTimers(s) = [s EXCEPT !.timers = Front(s.timers), !.ref = FALSE]
    BY <1>1 DEF ClearTimers, OneTimer
  <2>2. Front(s.timers) = <<>>
    BY <1>1, OneElement DEF OneTimer
  <2>3. ClearTimers(s) = [s EXCEPT !.timers = <<>>, !.ref = FALSE]
    BY <2>1, <2>2
  <2>4. <<>> \in Seq(Timer)
    BY EmptySeq
  <2>5. /\ ClearTimers(s) \in TabRecord /\ ClearTimers(s).timers = <<>>
        /\ ClearTimers(s).ref = FALSE
    BY <2>3, <2>4 DEF TabRecord
  <2> QED BY <2>3, <2>5 DEF NoTimer
<1>2. CASE NoTimer(s)
  BY <1>2 DEF ClearTimers, NoTimer, TabRecord
<1> QED BY <1>1, <1>2

(***************************************************************************)
(* Cleanup leaves the tab free, and what it has queued alone.              *)
(***************************************************************************)
LEMMA CleansUp ==
  ASSUME NEW s \in TabRecord, NEW timer \in Timer, NoTimer(s) \/ OneTimer(s, timer)
  PROVE  /\ Cleanup(s) \in TabRecord /\ Free(Cleanup(s)) /\ Cleanup(s).incoming = NoCall
         /\ Cleanup(s).slot = s.slot /\ Cleanup(s).consumedStart = s.consumedStart
         /\ Cleanup(s).pendingStart = s.pendingStart
         /\ Cleanup(s).pendingIncoming = s.pendingIncoming
<1> DEFINE u == [s EXCEPT !.timers = <<>>, !.ref = FALSE]
<1>1. u \in TabRecord /\ ClearTimers(s) = u
  BY ClearsOne
<1>2. Cleanup(s) = [u EXCEPT !.ui = "idle", !.active = NoCall, !.incoming = NoCall]
  BY <1>1 DEF Cleanup
<1>3. NoTimer(u) /\ u.slot = s.slot /\ u.consumedStart = s.consumedStart
      /\ u.pendingStart = s.pendingStart /\ u.pendingIncoming = s.pendingIncoming
  BY <1>1, ClearsOne DEF TabRecord
<1> HIDE DEF u
<1>4. /\ Cleanup(s) \in TabRecord /\ Cleanup(s).timers = u.timers /\ Cleanup(s).ref = u.ref
      /\ Cleanup(s).ui = "idle" /\ Cleanup(s).active = NoCall
      /\ Cleanup(s).incoming = NoCall /\ Cleanup(s).slot = u.slot
      /\ Cleanup(s).consumedStart = u.consumedStart
      /\ Cleanup(s).pendingStart = u.pendingStart
      /\ Cleanup(s).pendingIncoming = u.pendingIncoming
  BY <1>1, <1>2 DEF TabRecord
<1> QED BY <1>3, <1>4 DEF Free, HasCall, NoTimer

(***************************************************************************)
(* A tab without timers that begins to ring has the timer of that call.    *)
(***************************************************************************)
LEMMA StartsRinging ==
  ASSUME NEW s \in TabRecord, NEW c \in Calls, NoTimer(s)
  PROVE  /\ RingIncoming(s, c) =
              [s EXCEPT !.incoming = c, !.ui = "ringing_incoming",
                        !.timers = <<AutoDecline(c)>>, !.ref = TRUE]
         /\ OneTimer(RingIncoming(s, c), AutoDecline(c))
         /\ RingIncoming(s, c).ui = "ringing_incoming" /\ RingIncoming(s, c).incoming = c
<1> DEFINE u == [s EXCEPT !.incoming = c, !.ui = "ringing_incoming"]
<1>1. u.timers = <<>>
  BY DEF TabRecord, NoTimer
<1>2. RingIncoming(s, c) =
        [u EXCEPT !.timers = Append(u.timers, AutoDecline(c)), !.ref = TRUE]
  BY DEF RingIncoming, Arm
<1>3. Append(u.timers, AutoDecline(c)) = <<AutoDecline(c)>>
  BY <1>1, OneElement
<1> QED BY <1>2, <1>3 DEF TabRecord, OneTimer

-----------------------------------------------------------------------------
(***************************************************************************)
(* A step of tab t that changes neither the call it is in nor the server,  *)
(* and sends one request at most, when everything has settled. It is       *)
(* enough to look at the tab's new state and at the new request.           *)
(***************************************************************************)
LEMMA ClientStep ==
  ASSUME TypeOK, Conversation, NEW t \in Tabs, NEW s, Become(t, s),
         UNCHANGED <<store, userCall, inbox>>, s.active = tab[t].active,
         NEW new, requests' = requests \cup new,
         \A q \in new : /\ new = {q} /\ Settled
                        /\ q.tab # NoTab => q.tab = t /\ q.by = Owner[t] /\ Suits(q, s)
                        /\ q.tab = NoTab => q.op = "decline"
                        /\ Stage(q) /\ q.pc \in {"check", "get"},
         \A q \in requests : q.tab = t => Suits(q, s),
         Shape(t, s)', Refers(t, s)
  PROVE  Conversation'
<1>0. /\ Alone /\ Keys /\ OneLine
      /\ \A r \in requests : Awaited(r) /\ Stage(r)
      /\ \A p \in Tabs : TabFits(p) /\ InboxFits(p)
      /\ \A c \in Calls : CallFits(c)
  BY DEF Conversation
<1>1. tab \in [Tabs -> TabRecord] /\ tab' = [tab EXCEPT ![t] = s]
  BY DEF TypeOK, Become
<1>2. \A p \in Tabs : tab'[p] = IF p = t THEN s ELSE tab[p]
  BY <1>1
<1>3. \A p \in Tabs : tab'[p].active = tab[p].active
  BY <1>2
<1>4. \A op : \A p : Asking(p, op) => Asking(p, op)'
  BY DEF Asking
<1>5. \A p, c : Told(p, c) => Told(p, c)'
  BY <1>4 DEF Told, Closes
<1>6. Alone'
  BY <1>0 DEF Alone, Settled
<1>7. Keys'
  BY <1>0 DEF Keys, Live, Party
<1>8. OneLine'
  BY <1>0, <1>3 DEF OneLine, HasCall
<1>9. ASSUME NEW r \in requests'
      PROVE  Awaited(r)' /\ Stage(r)'
  <2>1. r \in requests \/ r \in new
    OBVIOUS
  <2>2. Stage(r)
    BY <1>0, <2>1
  <2>3. \A c : NotYetIn(r.by, c) => NotYetIn(r.by, c)'
    BY <1>3 DEF NotYetIn
  <2>4. \A c : AllTold(c) => AllTold(c)'
    BY <1>3, <1>5 DEF AllTold
  <2>5. Stage(r)'
    BY <2>2, <2>3, <2>4 DEF Stage, Live, Party
  <2>6. CASE r \in requests
    <3>1. Awaited(r)
      BY <1>0, <2>6
    <3>2. r.tab # NoTab => r.tab \in Tabs
      BY <2>6 DEF TypeOK, RequestRecord
    <3>3. r.tab # NoTab => Suits(r, tab'[r.tab])
      BY <1>2, <2>6, <3>1, <3>2 DEF Awaited
    <3> QED BY <2>5, <3>1, <3>3 DEF Awaited, Suits
  <2>7. CASE r \in new
    <3>1. r.tab = t => Suits(r, tab'[r.tab])
      BY <1>2, <2>7, CallAssumption
    <3> QED BY <2>5, <2>7, <3>1 DEF Awaited, Suits
  <2> QED BY <2>1, <2>6, <2>7
<1>10. ASSUME NEW p \in Tabs
       PROVE  TabFits(p)' /\ InboxFits(p)'
  <2>1. TabFits(p)'
    <3>1. CASE p = t
      <4>1. Refers(t, s)'
        BY <1>5 DEF Refers, Live, Party
      <4> QED BY <1>2, <3>1, <4>1 DEF TabFits, Shape, Refers, Live, Party
    <3>2. CASE p # t
      <4>1. tab'[p] = tab[p]
        BY <1>2, <3>2
      <4>2. Shape(p, tab[p])'
        BY <1>0, <1>4, <4>1 DEF TabFits, Shape
      <4>3. Refers(p, tab[p])'
        BY <1>0, <1>5, <4>1 DEF TabFits, Refers, Live, Party
      <4> QED BY <4>2, <4>3 DEF TabFits
    <3> QED BY <3>1, <3>2
  <2>2. InboxFits(p)'
    <3>1. CASE new = {}
      <4>1. requests' = requests
        BY <3>1
      <4> QED BY <1>0, <4>1 DEF InboxFits, FrameFits, Closes, Live, Party, Brings
    <3>2. CASE new # {}
      BY <3>2 DEF Settled, InboxFits
    <3> QED BY <3>1, <3>2
  <2> QED BY <2>1, <2>2
<1>11. ASSUME NEW c \in Calls
       PROVE  CallFits(c)'
  <2>1. \A u : Carried(c, u) => Carried(c, u)'
    BY <1>3 DEF Carried, Speaks, StandsFor
  <2> QED BY <1>0, <2>1 DEF CallFits, Live
<1> QED BY <1>6, <1>7, <1>8, <1>9, <1>10, <1>11 DEF Conversation

(***************************************************************************)
(* The same for a step that sends nothing.                                 *)
(***************************************************************************)
LEMMA SilentStep ==
  ASSUME TypeOK, Conversation, NEW t \in Tabs, NEW s, Become(t, s),
         UNCHANGED <<store, userCall, inbox, requests>>, s.active = tab[t].active,
         \A q \in requests : q.tab = t => Suits(q, s),
         Shape(t, s), Refers(t, s)
  PROVE  Conversation'
<1>1. PICK new : new = {}
  OBVIOUS
<1>2. requests' = requests \cup new /\ \A q \in new : FALSE
  BY <1>1
<1>3. Shape(t, s)'
  BY DEF Shape, Asking
<1> QED BY <1>2, <1>3, ClientStep

(***************************************************************************)
(* The same for a step that sends request q.                               *)
(***************************************************************************)
LEMMA AskingStep ==
  ASSUME TypeOK, Conversation, NEW t \in Tabs, NEW s, Become(t, s),
         UNCHANGED <<store, userCall, inbox>>, s.active = tab[t].active,
         NEW q, requests' = requests \cup {q}, Settled,
         q.tab # NoTab => q.tab = t /\ q.by = Owner[t] /\ Suits(q, s),
         q.tab = NoTab => q.op = "decline",
         Stage(q), q.pc \in {"check", "get"},
         Shape(t, s)', Refers(t, s)
  PROVE  Conversation'
<1>1. \A r \in requests : r.tab = t => Suits(r, s)
  BY DEF Settled
<1>2. PICK new : new = {q}
  OBVIOUS
<1>3. /\ requests' = requests \cup new
      /\ \A r \in new : new = {r} /\ r = q
  BY <1>2
<1> QED BY <1>1, <1>3, ClientStep

-----------------------------------------------------------------------------
(***************************************************************************)
(* What the invariant says of tab t.                                       *)
(***************************************************************************)
LEMMA OldTab ==
  ASSUME TypeOK, Conversation, NEW t \in Tabs
  PROVE  /\ tab[t] \in TabRecord /\ Shape(t, tab[t]) /\ Refers(t, tab[t])
         /\ \A q \in requests : q.tab = t => Suits(q, tab[t])
<1>1. TabFits(t)
  BY DEF Conversation
<1>2. \A q \in requests : q.tab = t => Suits(q, tab[t])
  BY CallAssumption DEF Conversation, Awaited
<1> QED BY <1>1, <1>2 DEF TabFits, TypeOK

(***************************************************************************)
(* A click on the call button queues a start.                              *)
(***************************************************************************)
LEMMA ClickCallStays ==
  ASSUME TypeOK, Conversation, NEW t \in Tabs, NEW u \in Users, ClickCall(t, u)
  PROVE  Conversation'
<1>1. PICK s : /\ s = [tab[t] EXCEPT !.pendingStart = u,
                         !.slot = IF @ = "cold" THEN "loading" ELSE @]
               /\ Become(t, s)
  BY DEF ClickCall
<1>2. /\ u # Owner[t] /\ requests' = requests
      /\ UNCHANGED <<store, userCall, inbox>>
  BY DEF ClickCall
<1>3. /\ s.active = tab[t].active /\ s.ui = tab[t].ui /\ s.timers = tab[t].timers
      /\ s.ref = tab[t].ref /\ s.incoming = tab[t].incoming
      /\ s.consumedStart = tab[t].consumedStart /\ s.pendingStart = u
      /\ s.pendingIncoming = tab[t].pendingIncoming
      /\ tab[t].slot = "mounted" => s.slot = "mounted"
  BY <1>1, OldTab DEF TabRecord
<1> DEFINE old == tab[t]
<1>4. /\ Shape(t, old) /\ Refers(t, old)
      /\ \A q \in requests : q.tab = t => Suits(q, old)
  BY OldTab
<1>5. Shape(t, s)
  BY <1>3, <1>4 DEF Shape, Free, Dials, Line, RingsIn, Talks, HasCall, NoTimer, OneTimer
<1>7. Refers(t, s)
  BY <1>2, <1>3, <1>4 DEF Refers, HasCall
<1>8. \A q \in requests : q.tab = t => Suits(q, s)
  BY <1>3, <1>4 DEF Suits, HasCall, NoTimer
<1> QED BY <1>1, <1>2, <1>3, <1>5, <1>7, <1>8, SilentStep

(***************************************************************************)
(* The probe of the reconcile toast does not touch the call.               *)
(***************************************************************************)
LEMMA ProbeStays ==
  ASSUME TypeOK, Conversation, NEW t \in Tabs, Probe(t)
  PROVE  Conversation'
<1>1. PICK s : /\ s = [tab[t] EXCEPT !.probed = TRUE, !.orphan = userCall[Owner[t]]]
               /\ Become(t, s)
  BY DEF Probe
<1>2. requests' = requests /\ UNCHANGED <<store, userCall, inbox>>
  BY DEF Probe
<1>3. /\ s.active = tab[t].active /\ s.ui = tab[t].ui /\ s.timers = tab[t].timers
      /\ s.ref = tab[t].ref /\ s.incoming = tab[t].incoming
      /\ s.consumedStart = tab[t].consumedStart /\ s.pendingStart = tab[t].pendingStart
      /\ s.pendingIncoming = tab[t].pendingIncoming /\ s.slot = tab[t].slot
  BY <1>1, OldTab DEF TabRecord
<1> DEFINE old == tab[t]
<1>4. /\ Shape(t, old) /\ Refers(t, old)
      /\ \A q \in requests : q.tab = t => Suits(q, old)
  BY OldTab
<1>5. Shape(t, s)
  BY <1>3, <1>4 DEF Shape, Free, Dials, Line, RingsIn, Talks, HasCall, NoTimer, OneTimer
<1>7. Refers(t, s)
  BY <1>2, <1>3, <1>4 DEF Refers, HasCall
<1>8. \A q \in requests : q.tab = t => Suits(q, s)
  BY <1>3, <1>4 DEF Suits, HasCall, NoTimer
<1> QED BY <1>1, <1>2, <1>3, <1>5, <1>7, <1>8, SilentStep

(***************************************************************************)
(* Accept and Decline: the tab keeps ringing until the answer comes.       *)
(***************************************************************************)
LEMMA AskStays ==
  ASSUME TypeOK, CallsAreKnown, Conversation, NEW t \in Tabs, NEW op, calm',
         \/ op = "accept" /\ AcceptIncoming(t)
         \/ op = "decline" /\ DeclineIncoming(t)
  PROVE  Conversation'
<1>1. PICK s : s = tab[t]
  OBVIOUS
<1>2. PICK q : q = Request(op, Owner[t], t, s.incoming, NoUser)
  OBVIOUS
<1>3. /\ requests' = requests \cup {q} /\ Settled
      /\ s.ui = "ringing_incoming" /\ s.incoming # NoCall
      /\ UNCHANGED <<store, userCall, inbox, tab>>
  BY <1>1, <1>2 DEF AcceptIncoming, DeclineIncoming, Send, SendIf
<1>4. Become(t, s)
  BY <1>1, <1>3 DEF Become, TypeOK
<1>5. /\ s \in TabRecord /\ Shape(t, s) /\ Refers(t, s)
  BY <1>1, OldTab
<1>6. /\ q.op = op /\ q.by = Owner[t] /\ q.tab = t /\ q.call = s.incoming
      /\ q.pc = "get" /\ op \in {"accept", "decline"}
  BY <1>2 DEF Request
<1>7. RingsIn(s)
  BY <1>3, <1>5 DEF Shape, Free, Dials, Line, Talks
<1>8. Suits(q, s)
  BY <1>6, <1>7 DEF Suits, RingsIn
<1>9. Stage(q)
  BY <1>3, <1>5, <1>6 DEF Stage, Refers
<1>10. Shape(t, s)'
  BY <1>7 DEF Shape
<1>11. t # NoTab
  BY CallAssumption
<1> QED
  BY <1>1, <1>3, <1>4, <1>5, <1>6, <1>8, <1>9, <1>10, <1>11, AskingStep

(***************************************************************************)
(* Asking for the end of the call the tab is in: it is alive, for the tab  *)
(* was not told otherwise.                                                 *)
(***************************************************************************)
LEMMA EndStays ==
  ASSUME TypeOK, Conversation, calm', NEW t \in Tabs, NEW s, DoHangup(t, s),
         HasCall(s), s.active = tab[t].active, s.active \in Calls,
         UNCHANGED <<store, userCall, inbox>>,
         s.slot = "mounted", Refers(t, s),
         \/ Line(s) /\ (OneTimer(s, Hangup) \/ NoTimer(s))
         \/ Talks(s) /\ store[s.active].status # "ringing"
  PROVE  Conversation'
<1>1. PICK q : q = Request("end", Owner[t], t, s.active, NoUser)
  OBVIOUS
<1>2. /\ Become(t, s) /\ requests' = requests \cup {q} /\ Settled
  BY <1>1 DEF DoHangup, HasCall, Send, SendIf
<1>3. /\ q.op = "end" /\ q.by = Owner[t] /\ q.tab = t /\ q.call = s.active
      /\ q.pc = "get"
  BY <1>1 DEF Request
<1>4. Suits(q, s)
  BY <1>3 DEF Suits
<1>5. ~ Told(t, s.active)
  BY <1>2, OneElement DEF Told, Settled, Asking
<1>6. Stage(q)
  BY <1>3, <1>5 DEF Stage, Refers
<1>7. Asking(t, "end")'
  BY <1>2, <1>3 DEF Asking
<1>8. Shape(t, s)'
  BY <1>7 DEF Shape
<1>9. t # NoTab
  BY CallAssumption
<1> QED BY <1>2, <1>3, <1>4, <1>6, <1>8, <1>9, AskingStep

(***************************************************************************)
(* Hanging up, with a call or while still dialling.                        *)
(***************************************************************************)
LEMMA HangUpStays ==
  ASSUME TypeOK, Conversation, calm', NEW t \in Tabs, HangUp(t)
  PROVE  Conversation'
<1>1. PICK s : s = tab[t]
  OBVIOUS
<1>2. /\ s \in TabRecord /\ Shape(t, s) /\ Refers(t, s)
      /\ \A q \in requests : q.tab = t => Suits(q, s)
  BY <1>1, OldTab
<1>3. /\ s.ui \in {"active", "ringing_outgoing"} /\ DoHangup(t, s)
      /\ UNCHANGED <<store, userCall, inbox>>
  BY <1>1 DEF HangUp
<1>4. CASE HasCall(s)
  <2>1. \/ Line(s) /\ (OneTimer(s, Hangup) \/ NoTimer(s))
        \/ Talks(s) /\ store[s.active].status # "ringing"
    BY <1>2, <1>3, <1>4 DEF Shape, Free, Dials, RingsIn
  <2>2. s.slot = "mounted" /\ s.active \in Calls
    BY <1>2, <1>4, <2>1 DEF Line, Talks, HasCall, TabRecord
  <2> QED BY <1>1, <1>2, <1>3, <1>4, <2>1, <2>2, EndStays
<1>5. CASE ~ HasCall(s)
  <2>1. PICK u : u = Cleanup(s)
    OBVIOUS
  <2>2. Become(t, u) /\ requests' = requests
    BY <1>3, <1>5, <2>1 DEF DoHangup, HasCall, Send, SendIf
  <2>3. Dials(s)
    BY <1>2, <1>3, <1>5 DEF Shape, Free, Line, RingsIn, Talks
  <2>4. /\ Free(u) /\ u.incoming = NoCall /\ u.slot = s.slot
        /\ u.consumedStart = s.consumedStart /\ u.pendingStart = s.pendingStart
        /\ u.pendingIncoming = s.pendingIncoming
    <3>1. NoTimer(s) /\ Hangup \in Timer
      BY <2>3 DEF Dials, Timer
    <3> QED BY <1>2, <2>1, <3>1, CleansUp
  <2>5. u.active = s.active
    BY <1>5, <2>4 DEF Free, HasCall
  <2>6. Shape(t, u)
    BY <2>4 DEF Shape
  <2>7. Refers(t, u)
    BY <1>2, <2>4 DEF Refers, Free
  <2>8. \A q \in requests : q.tab = t => Suits(q, u)
    BY <1>2, <2>4, <2>5 DEF Suits, Free
  <2> QED BY <1>1, <1>3, <2>2, <2>5, <2>6, <2>7, <2>8, SilentStep
<1> QED BY <1>4, <1>5

(***************************************************************************)
(* The ring timer: the caller asks for the end, the callee declines        *)
(* unseen.                                                                 *)
(***************************************************************************)
LEMMA RingTimeoutStays ==
  ASSUME TypeOK, Conversation, calm', NEW t \in Tabs, RingTimeout(t)
  PROVE  Conversation'
<1>1. PICK old, s : old = tab[t] /\ s = Fired(old)
  OBVIOUS
<1>2. /\ old \in TabRecord /\ Shape(t, old) /\ Refers(t, old) /\ old.timers # <<>>
  BY <1>1, OldTab DEF RingTimeout
<1>3. PICK timer : timer = Head(old.timers)
  OBVIOUS
<1>4. /\ UNCHANGED <<store, userCall, inbox>>
      /\ timer.kind = "hangup" => DoHangup(t, s)
      /\ timer.kind = "decline" /\ s.ui = "ringing_incoming" =>
           /\ Become(t, Cleanup(s))
           /\ Send({Request("decline", Owner[t], NoTab, timer.call, NoUser)})
  BY <1>1, <1>3 DEF RingTimeout, Fired
<1>5. ASSUME NEW x \in Timer, OneTimer(old, x)
      PROVE  /\ timer = x /\ NoTimer(s) /\ s \in TabRecord
             /\ s.active = old.active /\ s.ui = old.ui /\ s.slot = old.slot
             /\ s.incoming = old.incoming /\ s.consumedStart = old.consumedStart
             /\ s.pendingStart = old.pendingStart /\ s.pendingIncoming = old.pendingIncoming
  <2>1. timer = x /\ Tail(old.timers) = <<>> /\ Len(old.timers) = 1
    BY <1>3, <1>5, OneElement DEF OneTimer
  <2>2. s = [old EXCEPT !.timers = <<>>, !.ref = FALSE]
    <3>1. (old.ref /\ Len(old.timers) > 1) = FALSE
      BY <2>1
    <3> QED BY <1>1, <2>1, <3>1 DEF Fired
  <2>3. <<>> \in Seq(Timer)
    BY EmptySeq
  <2> QED BY <1>2, <2>1, <2>2, <2>3 DEF TabRecord, NoTimer
<1>6. CASE Line(old)
  <2>1. OneTimer(old, Hangup) /\ Hangup \in Timer /\ Hangup.kind = "hangup"
    BY <1>2, <1>6
       DEF Shape, Free, Dials, RingsIn, Talks, Line, NoTimer, HasCall, Timer, Hangup
  <2>2. /\ timer = Hangup /\ NoTimer(s) /\ s \in TabRecord
        /\ s.active = old.active /\ s.ui = old.ui /\ s.slot = old.slot
        /\ s.incoming = old.incoming /\ s.consumedStart = old.consumedStart
        /\ s.pendingStart = old.pendingStart /\ s.pendingIncoming = old.pendingIncoming
    BY <1>5, <2>1
  <2>3. DoHangup(t, s)
    BY <1>4, <2>1, <2>2
  <2>4. Line(s) /\ HasCall(s) /\ s.active \in Calls /\ s.slot = "mounted"
    BY <1>6, <2>2 DEF Line, HasCall, TabRecord
  <2>5. Refers(t, s)
    BY <1>2, <2>2 DEF Refers, HasCall
  <2> QED BY <1>1, <1>4, <2>2, <2>3, <2>4, <2>5, EndStays
<1>7. CASE RingsIn(old)
  <2>1. PICK c \in Calls : old.incoming = c /\ OneTimer(old, AutoDecline(c))
    BY <1>7 DEF RingsIn
  <2>2. /\ AutoDecline(c) \in Timer /\ AutoDecline(c).kind = "decline"
        /\ AutoDecline(c).call = c
    BY DEF AutoDecline, Timer
  <2>3. /\ timer = AutoDecline(c) /\ NoTimer(s) /\ s \in TabRecord
        /\ s.active = old.active /\ s.ui = old.ui /\ s.slot = old.slot
        /\ s.incoming = old.incoming /\ s.consumedStart = old.consumedStart
        /\ s.pendingStart = old.pendingStart /\ s.pendingIncoming = old.pendingIncoming
    BY <1>5, <2>1, <2>2
  <2>4. PICK u, q : /\ u = Cleanup(s)
                    /\ q = Request("decline", Owner[t], NoTab, c, NoUser)
    OBVIOUS
  <2>5. Become(t, u) /\ requests' = requests \cup {q} /\ Settled
    BY <1>4, <1>7, <2>2, <2>3, <2>4 DEF RingsIn, Send, SendIf
  <2>6. /\ Free(u) /\ u.incoming = NoCall /\ u.slot = s.slot
        /\ u.consumedStart = s.consumedStart /\ u.pendingStart = s.pendingStart
        /\ u.pendingIncoming = s.pendingIncoming
    BY <2>2, <2>3, <2>4, CleansUp
  <2>7. u.active = old.active
    BY <1>7, <2>6 DEF RingsIn, Free, HasCall
  <2>8. q.op = "decline" /\ q.by = Owner[t] /\ q.tab = NoTab /\ q.call = c /\ q.pc = "get"
    BY <2>4 DEF Request
  <2>9. c # NoCall
    BY CallAssumption
  <2>10. Stage(q)
    BY <1>2, <2>1, <2>8, <2>9 DEF Stage, Refers
  <2>11. Shape(t, u)'
    BY <2>6 DEF Shape
  <2>12. Refers(t, u)
    BY <1>2, <2>3, <2>6 DEF Refers, Free
  <2> QED BY <1>1, <1>4, <2>5, <2>7, <2>8, <2>10, <2>11, <2>12, AskingStep
<1> QED BY <1>2, <1>6, <1>7 DEF Shape, Free, Dials, Talks, NoTimer

(***************************************************************************)
(* A free tab dials: it has not consumed a start before.                   *)
(***************************************************************************)
LEMMA StartAsks ==
  ASSUME TypeOK, Conversation, NEW t \in Tabs, NEW s, Become(t, s),
         UNCHANGED <<store, userCall, inbox>>,
         StartsNow(tab[t]), Free(tab[t]),
         requests' = requests \cup StartRequest(t), Settled,
         s.slot = "mounted", s.consumedStart, s.ui = "ringing_outgoing",
         s.active = tab[t].active, s.incoming = tab[t].incoming,
         s.timers = tab[t].timers, s.ref = tab[t].ref,
         s.pendingStart = NoUser, s.pendingIncoming = NoCall
  PROVE  Conversation'
<1>1. PICK old, q : /\ old = tab[t]
                    /\ q = Request("initiate", Owner[t], t, NoCall, old.pendingStart)
  OBVIOUS
<1>2. /\ old \in TabRecord /\ Refers(t, old) /\ Free(old) /\ StartsNow(old)
  BY <1>1, OldTab
<1>3. requests' = requests \cup {q}
  BY <1>1, <1>2 DEF StartRequest, Free
<1>4. /\ q.op = "initiate" /\ q.by = Owner[t] /\ q.tab = t /\ q.pc = "check"
      /\ q.peer = old.pendingStart
  BY <1>1 DEF Request
<1>5. q.peer \in Users /\ q.peer # Owner[t]
  BY <1>2, <1>4 DEF StartsNow, Refers, TabRecord
<1>6. Stage(q)
  BY <1>4, <1>5 DEF Stage
<1>7. Suits(q, s)
  BY <1>1, <1>2, <1>4 DEF Suits, Free, HasCall, NoTimer
<1>8. Asking(t, "initiate")'
  BY <1>3, <1>4 DEF Asking
<1>9. Shape(t, s)'
  BY <1>1, <1>2, <1>8 DEF Shape, Dials, Free, HasCall, NoTimer
<1>10. Refers(t, s)
  BY <1>1, <1>2, CallAssumption DEF Refers, Free, HasCall
<1>11. t # NoTab
  BY CallAssumption
<1> QED BY <1>1, <1>3, <1>4, <1>6, <1>7, <1>9, <1>10, <1>11, AskingStep

(***************************************************************************)
(* What the replay of a queued start changes.                              *)
(***************************************************************************)
LEMMA StartFields ==
  ASSUME NEW s \in TabRecord
  PROVE  /\ AfterStart(s) \in TabRecord
         /\ AfterStart(s).consumedStart = TRUE
         /\ AfterStart(s).pendingStart = NoUser /\ AfterStart(s).pendingIncoming = NoCall
         /\ AfterStart(s).active = s.active /\ AfterStart(s).incoming = s.incoming
         /\ AfterStart(s).timers = s.timers /\ AfterStart(s).ref = s.ref
         /\ AfterStart(s).slot = s.slot
         /\ AfterStart(s).ui = IF s.ui = "idle" THEN "ringing_outgoing" ELSE s.ui
BY DEF AfterStart, TabRecord

(***************************************************************************)
(* A start that was queued in a mounted runtime.                           *)
(***************************************************************************)
LEMMA StartQueuedStays ==
  ASSUME TypeOK, Conversation, calm', NEW t \in Tabs, StartQueued(t)
  PROVE  Conversation'
<1>1. PICK old, s : old = tab[t] /\ s = AfterStart(old)
  OBVIOUS
<1>2. /\ old \in TabRecord /\ Shape(t, old) /\ Refers(t, old)
      /\ \A q \in requests : q.tab = t => Suits(q, old)
  BY <1>1, OldTab
<1>3. /\ old.slot = "mounted" /\ StartsNow(old) /\ Become(t, s)
      /\ UNCHANGED <<store, userCall, inbox>>
      /\ requests' = requests \cup StartRequest(t)
      /\ StartRequest(t) = {} \/ Settled
  BY <1>1 DEF StartQueued, Send, SendIf
<1>4. /\ s.consumedStart = TRUE
      /\ s.pendingStart = NoUser /\ s.pendingIncoming = NoCall
      /\ s.active = old.active /\ s.incoming = old.incoming
      /\ s.timers = old.timers /\ s.ref = old.ref /\ s.slot = old.slot
      /\ s.ui = IF old.ui = "idle" THEN "ringing_outgoing" ELSE old.ui
  BY <1>1, <1>2, StartFields
<1>5. CASE old.ui = "idle"
  <2>1. Free(old)
    BY <1>2, <1>3, <1>5 DEF Shape, Dials, Line, RingsIn, Talks, StartsNow
  <2>2. StartRequest(t) # {}
    BY <1>1, <1>3, <1>5 DEF StartRequest
  <2> QED BY <1>1, <1>3, <1>4, <1>5, <2>1, <2>2, StartAsks
<1>6. CASE old.ui # "idle"
  <2>1. requests' = requests
    BY <1>1, <1>3, <1>6 DEF StartRequest
  <2>2. Shape(t, s)
    BY <1>2, <1>4, <1>6
       DEF Shape, Free, Dials, Line, RingsIn, Talks, HasCall, NoTimer, OneTimer
  <2>3. Refers(t, s)
    BY <1>2, <1>4, CallAssumption DEF Refers, HasCall
  <2>4. \A q \in requests : q.tab = t => Suits(q, s)
    BY <1>2, <1>4, <1>6 DEF Suits, HasCall, NoTimer
  <2> QED BY <1>1, <1>3, <1>4, <2>1, <2>2, <2>3, <2>4, SilentStep
<1> QED BY <1>5, <1>6

(***************************************************************************)
(* The runtime mounts: the tab was free, and replays a start or an         *)
(* incoming call (both at once is what ends the calm).                     *)
(***************************************************************************)
LEMMA MountRuntimeStays ==
  ASSUME TypeOK, Conversation, calm', NEW t \in Tabs, MountRuntime(t)
  PROVE  Conversation'
<1>1. PICK old, started, rung, s :
        /\ old = tab[t] /\ started = (IF StartsNow(old) THEN AfterStart(old) ELSE old)
        /\ rung = (IF old.pendingIncoming = NoCall THEN started
                   ELSE RingIncoming(started, old.pendingIncoming))
        /\ s = [rung EXCEPT !.slot = "mounted", !.pendingIncoming = NoCall]
  OBVIOUS
<1>2. /\ old \in TabRecord /\ Shape(t, old) /\ Refers(t, old)
      /\ \A q \in requests : q.tab = t => Suits(q, old)
  BY <1>1, OldTab
<1>3. /\ old.slot = "loading" /\ Become(t, s)
      /\ UNCHANGED <<store, userCall, inbox>>
      /\ requests' = requests \cup StartRequest(t)
      /\ StartRequest(t) = {} \/ Settled
      /\ old.pendingIncoming = NoCall \/ started = old
  BY <1>1 DEF MountRuntime, SendIf
<1>4. Free(old) /\ \A q \in requests : q.tab # t
  BY <1>2, <1>3 DEF Shape, Dials, Line, RingsIn, Talks, Suits
<1>5. CASE StartsNow(old)
  <2>1. started = AfterStart(old)
    BY <1>1, <1>5
  <2>2. /\ started \in TabRecord /\ started.consumedStart = TRUE
        /\ started.pendingStart = NoUser /\ started.pendingIncoming = NoCall
        /\ started.active = old.active /\ started.incoming = old.incoming
        /\ started.timers = old.timers /\ started.ref = old.ref
        /\ started.ui = IF old.ui = "idle" THEN "ringing_outgoing" ELSE old.ui
    BY <1>2, <2>1, StartFields
  <2>3. rung = started
    BY <1>1, <1>3, <1>5, <2>2 DEF StartsNow
  <2>4. /\ s.consumedStart /\ s.slot = "mounted" /\ s.ui = "ringing_outgoing"
        /\ s.active = old.active /\ s.incoming = old.incoming
        /\ s.timers = old.timers /\ s.ref = old.ref
        /\ s.pendingStart = NoUser /\ s.pendingIncoming = NoCall
    BY <1>1, <1>4, <2>2, <2>3 DEF Free, TabRecord
  <2>5. StartRequest(t) # {}
    BY <1>1, <1>4, <1>5 DEF StartRequest, Free
  <2> QED BY <1>1, <1>3, <1>4, <1>5, <2>4, <2>5, StartAsks
<1>6. CASE ~ StartsNow(old) /\ old.pendingIncoming = NoCall
  <2>1. s = [old EXCEPT !.slot = "mounted", !.pendingIncoming = NoCall]
    BY <1>1, <1>6
  <2>2. /\ s.slot = "mounted" /\ s.ui = "idle"
        /\ s.active = old.active /\ s.incoming = old.incoming
        /\ s.timers = old.timers /\ s.ref = old.ref
        /\ s.pendingStart = old.pendingStart /\ s.pendingIncoming = NoCall
    BY <1>2, <1>4, <2>1 DEF Free, TabRecord
  <2>3. requests' = requests
    BY <1>1, <1>3, <1>6 DEF StartRequest
  <2>4. Shape(t, s)
    BY <1>4, <2>2 DEF Shape, Free, HasCall, NoTimer
  <2>5. Refers(t, s)
    BY <1>2, <2>2 DEF Refers, HasCall
  <2> QED BY <1>1, <1>3, <1>4, <2>2, <2>3, <2>4, <2>5, SilentStep
<1>7. CASE ~ StartsNow(old) /\ old.pendingIncoming # NoCall
  <2>1. PICK c \in Calls : c = old.pendingIncoming
    BY <1>2, <1>7 DEF TabRecord
  <2>2. /\ rung = [old EXCEPT !.incoming = c, !.ui = "ringing_incoming",
                              !.timers = <<AutoDecline(c)>>, !.ref = TRUE]
        /\ OneTimer(rung, AutoDecline(c))
    <3>1. rung = RingIncoming(old, c)
      BY <1>1, <1>7, <2>1
    <3>2. NoTimer(old)
      BY <1>4 DEF Free
    <3> QED BY <1>2, <3>1, <3>2, StartsRinging
  <2>3. /\ s.slot = "mounted" /\ s.ui = "ringing_incoming"
        /\ s.active = old.active /\ s.incoming = c
        /\ OneTimer(s, AutoDecline(c))
        /\ s.pendingStart = old.pendingStart /\ s.pendingIncoming = NoCall
    BY <1>1, <1>2, <2>2 DEF TabRecord, OneTimer
  <2>4. requests' = requests
    BY <1>1, <1>3, <1>7 DEF StartRequest
  <2>5. Shape(t, s)
    BY <1>4, <2>3 DEF Shape, Free, HasCall, RingsIn
  <2>6. Refers(t, s)
    BY <1>2, <1>7, <2>1, <2>3 DEF Refers, HasCall
  <2> QED BY <1>1, <1>3, <1>4, <2>3, <2>4, <2>5, <2>6, SilentStep
<1> QED BY <1>5, <1>6, <1>7

-----------------------------------------------------------------------------
(***************************************************************************)
(* The frame a tab is about to receive. No request of that tab is under    *)
(* way; if the tab is in a call, that call is alive and is the frame's,    *)
(* unless the frame closes a call.                                         *)
(***************************************************************************)
LEMMA FrameAtHand ==
  ASSUME TypeOK, Conversation, NEW t \in Tabs, inbox[t] # <<>>
  PROVE  \E e \in Frame :
           /\ inbox[t] = <<e>> /\ Head(inbox[t]) = e /\ Tail(inbox[t]) = <<>>
           /\ FrameFits(t, e) /\ e.call \in Calls
           /\ \A q \in requests : q.tab # t
           /\ HasCall(tab[t]) /\ ~ (Closes(e) /\ e.call = tab[t].active)
                => Live(tab[t].active)
           /\ HasCall(tab[t]) /\ ~ Closes(e) => e.call = tab[t].active
<1>1. PICK e \in Frame : inbox[t] = <<e>> /\ FrameFits(t, e)
  BY DEF Conversation, InboxFits
<1>2. Head(inbox[t]) = e /\ Tail(inbox[t]) = <<>>
  BY <1>1, OneElement
<1>3. e.call \in Calls
  BY DEF Frame
<1>4. \A q \in requests : q.tab # t
  <2>1. ASSUME NEW q \in requests, q.tab = t
        PROVE  FALSE
    <3>1. q.by = Owner[t]
      BY <2>1, CallAssumption DEF Conversation, Awaited
    <3> QED BY <1>1, <3>1 DEF FrameFits
  <2> QED BY <2>1
<1>5. ASSUME HasCall(tab[t]), ~ (Closes(e) /\ e.call = tab[t].active)
      PROVE  Live(tab[t].active)
  <2>1. Refers(t, tab[t])
    BY OldTab
  <2>2. ~ Asking(t, "end")
    BY <1>4 DEF Asking
  <2>3. ~ Told(t, tab[t].active)
    <3>1. ASSUME NEW d \in Frame, inbox[t] = <<d>>
          PROVE  d = e
      BY <1>1, <3>1
    <3> QED BY <1>5, <2>2, <3>1 DEF Told
  <2> QED BY <1>5, <2>1, <2>3 DEF Refers
<1>6. ASSUME HasCall(tab[t]), ~ Closes(e)
      PROVE  e.call = tab[t].active
  <2> DEFINE c == tab[t].active
  <2>1. Live(c)
    BY <1>5, <1>6
  <2>2. c \in Calls /\ Owner[t] \in Users /\ Owner[t] \in Party(c)
    BY <1>6, OldTab, CallAssumption DEF Refers, HasCall, TabRecord
  <2>3. Live(e.call) /\ Owner[t] \in Party(e.call)
    BY <1>1, <1>6 DEF FrameFits, Frame, Closes, Live, Party
  <2>4. userCall[Owner[t]] = c /\ userCall[Owner[t]] = e.call
    BY <1>3, <2>1, <2>2, <2>3 DEF Conversation, Keys
  <2> QED BY <2>4
<1> QED BY <1>1, <1>2, <1>3, <1>4, <1>5, <1>6

(***************************************************************************)
(* What a frame does to the tab: it leaves the call it is in only if the   *)
(* frame closes that call, and enters none.                                *)
(***************************************************************************)
LEMMA HandledFits ==
  ASSUME TypeOK, Conversation, NEW t \in Tabs, NEW old, old = tab[t],
         NEW e \in Frame, FrameFits(t, e), e.call \in Calls,
         \A q \in requests : q.tab # t,
         HasCall(old) /\ ~ (Closes(e) /\ e.call = old.active) => Live(old.active),
         HasCall(old) /\ ~ Closes(e) => e.call = old.active,
         NEW s, s = Received(old, e)
  PROVE  /\ Shape(t, s) /\ s.pendingStart # Owner[t]
         /\ s.pendingIncoming # NoCall => store[s.pendingIncoming].to = Owner[t]
         /\ s.incoming # NoCall => store[s.incoming].to = Owner[t]
         /\ HasCall(s) => /\ s.active = old.active /\ Live(s.active)
                          /\ ~ (Closes(e) /\ e.call = s.active)
         /\ ~ HasCall(s) /\ HasCall(old) => Closes(e) /\ e.call = old.active
<1>1. old \in TabRecord /\ Shape(t, old) /\ Refers(t, old)
  BY OldTab
<1>2. ~ Asking(t, "initiate") /\ ~ Asking(t, "end")
  BY DEF Asking
<1>3. \E timer \in Timer : NoTimer(old) \/ OneTimer(old, timer)
  BY <1>1 DEF Shape, Free, Dials, Line, RingsIn, Talks, Timer
<1>4. CASE s = old /\ ~ (Closes(e) /\ HasCall(old) /\ e.call = old.active)
  BY <1>1, <1>4 DEF Refers
<1>5. CASE old.slot = "cold" /\ e.event = "call_incoming"
  <2>1. s = [old EXCEPT !.pendingIncoming = e.call, !.slot = "loading"]
    BY <1>5 DEF Received
  <2>2. Free(old)
    BY <1>1, <1>5 DEF Shape, Dials, Line, RingsIn, Talks
  <2>3. Free(s) /\ s.pendingStart = old.pendingStart /\ s.pendingIncoming = e.call
        /\ s.incoming = old.incoming
    BY <1>1, <2>1, <2>2 DEF TabRecord, Free, HasCall, NoTimer
  <2>4. store[e.call].to = Owner[t]
    BY <1>5 DEF FrameFits
  <2> QED BY <1>1, <2>2, <2>3, <2>4 DEF Shape, Refers, Free
<1>6. CASE old.slot = "mounted" /\ e.event = "call_incoming" /\ old.ui = "idle"
  <2>1. ~ HasCall(old)
    <3>1. ASSUME HasCall(old)
          PROVE  FALSE
      <4>1. e.call = old.active
        BY <1>6, <3>1 DEF Closes
      <4>2. store[e.call].status = "ringing" /\ store[e.call].to = Owner[t]
        BY <1>6 DEF FrameFits
      <4>3. store[e.call].from = Owner[t]
        BY <1>1, <3>1, <4>1, <4>2 DEF Refers
      <4> QED BY <4>2, <4>3 DEF Conversation, Keys
    <3> QED BY <3>1
  <2>2. Free(old)
    BY <1>1, <1>6, <2>1 DEF Shape, Dials, Line, RingsIn, Talks
  <2>3. s = RingIncoming(old, e.call)
    BY <1>6 DEF Received, Handled
  <2>4. /\ s = [old EXCEPT !.incoming = e.call, !.ui = "ringing_incoming",
                           !.timers = <<AutoDecline(e.call)>>, !.ref = TRUE]
        /\ OneTimer(s, AutoDecline(e.call))
    <3>1. NoTimer(old)
      BY <2>2 DEF Free
    <3>2. PICK c \in Calls : c = e.call
      OBVIOUS
    <3>3. PICK u : u = RingIncoming(old, c)
      OBVIOUS
    <3>4. /\ u = [old EXCEPT !.incoming = c, !.ui = "ringing_incoming",
                             !.timers = <<AutoDecline(c)>>, !.ref = TRUE]
          /\ OneTimer(u, AutoDecline(c))
      BY <1>1, <3>1, <3>3, StartsRinging
    <3>5. s = u
      BY <2>3, <3>2, <3>3
    <3> QED BY <3>2, <3>4, <3>5
  <2>5. /\ s.slot = "mounted" /\ s.ui = "ringing_incoming" /\ s.active = old.active
        /\ s.incoming = e.call /\ s.pendingStart = old.pendingStart
        /\ s.pendingIncoming = old.pendingIncoming
    BY <1>1, <1>6, <2>4 DEF TabRecord
  <2>6. store[e.call].to = Owner[t]
    BY <1>6 DEF FrameFits
  <2>7. RingsIn(s)
    BY <2>1, <2>4, <2>5 DEF RingsIn, HasCall
  <2> QED BY <1>1, <2>1, <2>5, <2>6, <2>7 DEF Shape, Refers, HasCall
<1>7. CASE old.slot = "mounted" /\ e.event = "call_accepted" /\ old.ui = "ringing_outgoing"
  <2>1. Line(old)
    BY <1>1, <1>2, <1>7 DEF Shape, Free, RingsIn, Talks
  <2>2. s = [ClearTimers(old) EXCEPT !.ui = "active"]
    BY <1>7 DEF Received, Handled
  <2>3. /\ ClearTimers(old) \in TabRecord /\ NoTimer(ClearTimers(old))
        /\ ClearTimers(old) = [old EXCEPT !.timers = <<>>, !.ref = FALSE]
    BY <1>1, <1>3, ClearsOne
  <2>4. PICK u : u = ClearTimers(old)
    OBVIOUS
  <2>5. /\ u.active = old.active /\ u.incoming = old.incoming /\ u.slot = old.slot
        /\ u.pendingStart = old.pendingStart /\ u.pendingIncoming = old.pendingIncoming
    BY <1>1, <2>3, <2>4 DEF TabRecord
  <2>6. /\ s.ui = "active" /\ s.active = old.active /\ s.incoming = old.incoming
        /\ s.slot = old.slot /\ s.timers = u.timers /\ s.ref = u.ref
        /\ s.pendingStart = old.pendingStart /\ s.pendingIncoming = old.pendingIncoming
    BY <2>2, <2>3, <2>4, <2>5 DEF TabRecord
  <2>7. NoTimer(s)
    BY <2>3, <2>4, <2>6 DEF NoTimer
  <2>8. e.call = old.active /\ ~ Closes(e) /\ HasCall(old)
    BY <1>7, <2>1 DEF Closes, Line
  <2>9. store[s.active].status = "active"
    BY <1>7, <2>6, <2>8 DEF FrameFits
  <2>10. Talks(s)
    BY <1>7, <2>6, <2>7, <2>8 DEF Talks, HasCall
  <2> QED BY <1>1, <2>6, <2>8, <2>9, <2>10 DEF Shape, Refers, HasCall
<1>8. CASE /\ old.slot = "mounted" /\ Closes(e)
           /\ e.call = old.active \/ old.ui = "ringing_incoming"
  <2>1. s = Cleanup(old)
    BY <1>8 DEF Received, Handled, Closes
  <2>2. /\ Free(s) /\ s.incoming = NoCall
        /\ s.pendingStart = old.pendingStart /\ s.pendingIncoming = old.pendingIncoming
    BY <1>1, <1>3, <2>1, CleansUp
  <2>3. ~ HasCall(s) /\ Shape(t, s)
    BY <2>2 DEF Free, Shape
  <2>4. HasCall(old) => e.call = old.active
    BY <1>1, <1>8 DEF Shape, Free, Dials, Line, RingsIn, Talks
  <2> QED BY <1>1, <1>8, <2>2, <2>3, <2>4 DEF Refers
<1>9. CASE /\ ~ (old.slot = "cold" /\ e.event = "call_incoming")
           /\ ~ (old.slot = "mounted" /\ e.event = "call_incoming" /\ old.ui = "idle")
           /\ ~ (old.slot = "mounted" /\ e.event = "call_accepted"
                 /\ old.ui = "ringing_outgoing")
           /\ ~ (/\ old.slot = "mounted" /\ Closes(e)
                 /\ e.call = old.active \/ old.ui = "ringing_incoming")
  <2>1. s = old
    BY <1>9 DEF Received, Handled, Closes
  <2>2. HasCall(old) => old.slot = "mounted"
    BY <1>1 DEF Shape, Free, Dials, Line, RingsIn, Talks
  <2> QED BY <1>4, <1>9, <2>1, <2>2
<1> QED BY <1>5, <1>6, <1>7, <1>8, <1>9

(***************************************************************************)
(* A frame is handled.                                                     *)
(***************************************************************************)
LEMMA ReceiveEventStays ==
  ASSUME TypeOK, CallsAreKnown, Conversation, NEW t \in Tabs, ReceiveEvent(t)
  PROVE  Conversation'
<1>1. PICK old : old = tab[t]
  OBVIOUS
<1>2. PICK e \in Frame :
        /\ inbox[t] = <<e>> /\ Head(inbox[t]) = e /\ Tail(inbox[t]) = <<>>
        /\ FrameFits(t, e) /\ e.call \in Calls
        /\ \A q \in requests : q.tab # t
        /\ HasCall(old) /\ ~ (Closes(e) /\ e.call = old.active) => Live(old.active)
        /\ HasCall(old) /\ ~ Closes(e) => e.call = old.active
  BY <1>1, FrameAtHand DEF ReceiveEvent
<1>3. PICK s : s = Received(old, e)
  OBVIOUS
<1>4. /\ tab' = [tab EXCEPT ![t] = s] /\ inbox' = [inbox EXCEPT ![t] = <<>>]
      /\ UNCHANGED <<store, userCall, requests>>
  BY <1>1, <1>2, <1>3 DEF ReceiveEvent, Become
<1>5. /\ Shape(t, s) /\ s.pendingStart # Owner[t]
      /\ s.pendingIncoming # NoCall => store[s.pendingIncoming].to = Owner[t]
      /\ s.incoming # NoCall => store[s.incoming].to = Owner[t]
      /\ HasCall(s) => /\ s.active = old.active /\ Live(s.active)
                       /\ ~ (Closes(e) /\ e.call = s.active)
      /\ ~ HasCall(s) /\ HasCall(old) => Closes(e) /\ e.call = old.active
  BY <1>1, <1>2, <1>3, HandledFits
<1>6. /\ Shape(t, old) /\ Refers(t, old)
  BY <1>1, OldTab
<1>7. /\ Alone /\ Keys /\ OneLine
      /\ \A r \in requests : Awaited(r) /\ Stage(r)
      /\ \A p \in Tabs : TabFits(p) /\ InboxFits(p)
      /\ \A c \in Calls : CallFits(c)
  BY DEF Conversation
<1>8. \A p \in Tabs : /\ tab'[p] = IF p = t THEN s ELSE tab[p]
                      /\ inbox'[p] = IF p = t THEN <<>> ELSE inbox[p]
  BY <1>4 DEF TypeOK
<1>9. \A p \in Tabs : HasCall(tab'[p]) => tab'[p].active = tab[p].active
  BY <1>1, <1>5, <1>8
<1>10. \A op : \A p : Asking(p, op)' <=> Asking(p, op)
  BY <1>4 DEF Asking
<1>11. \A c : \A p \in Tabs : p # t /\ Told(p, c) => Told(p, c)'
  BY <1>8, <1>10 DEF Told, Closes
<1>12. Alone' /\ Keys'
  BY <1>4, <1>7 DEF Alone, Keys, Live, Party
<1>13. OneLine'
  BY <1>7, <1>9 DEF OneLine, HasCall
<1>14. ASSUME NEW r \in requests'
       PROVE  Awaited(r)' /\ Stage(r)'
  <2>1. r \in requests /\ r.tab # t /\ Awaited(r) /\ Stage(r)
    BY <1>2, <1>4, <1>7
  <2>2. r.tab # NoTab => r.tab \in Tabs
    BY <2>1 DEF TypeOK, RequestRecord
  <2>3. Awaited(r)'
    BY <1>8, <2>1, <2>2 DEF Awaited, Suits
  <2>4. \A c \in Calls : NotYetIn(r.by, c) => NotYetIn(r.by, c)'
    BY <1>9, CallAssumption DEF NotYetIn, HasCall
  <2>5. ASSUME NEW c \in Calls, AllTold(c)
        PROVE  AllTold(c)'
    <3>1. ASSUME NEW p \in Tabs, tab'[p].active = c
          PROVE  Told(p, c)'
      <4>1. HasCall(tab'[p]) /\ tab[p].active = c
        BY <1>9, <3>1, CallAssumption DEF HasCall
      <4>2. Told(p, c)
        BY <2>5, <4>1 DEF AllTold
      <4>3. p # t
        <5>1. ASSUME p = t
              PROVE  FALSE
          <6>1. ~ (Closes(e) /\ e.call = c)
            BY <1>5, <1>8, <3>1, <4>1, <5>1
          <6>2. ~ Asking(t, "end")
            BY <1>2 DEF Asking
          <6>3. \A d \in Frame : inbox[t] = <<d>> => d = e
            BY <1>2
          <6> QED BY <4>2, <5>1, <6>1, <6>2, <6>3 DEF Told
        <5> QED BY <5>1
      <4> QED BY <1>11, <4>2, <4>3
    <3> QED BY <3>1 DEF AllTold
  <2>6. r.pc = "ok" \/ r.pc = "remove" => r.call \in Calls
    BY <2>1 DEF CallsAreKnown
  <2>7. Stage(r)'
    BY <1>4, <2>1, <2>4, <2>5, <2>6 DEF Stage, Live, Party
  <2> QED BY <2>3, <2>7
<1>15. ASSUME NEW p \in Tabs
       PROVE  TabFits(p)' /\ InboxFits(p)'
  <2>1. CASE p = t
    <3>1. Shape(t, s)'
      BY <1>4, <1>5, <1>10 DEF Shape
    <3>2. Refers(t, s)'
      BY <1>4, <1>5, <1>6 DEF Refers, Live, Party, HasCall
    <3> QED BY <1>8, <2>1, <3>1, <3>2 DEF TabFits, InboxFits
  <2>2. CASE p # t
    <3>1. tab'[p] = tab[p] /\ inbox'[p] = inbox[p]
      BY <1>8, <2>2
    <3>2. Shape(p, tab[p])'
      BY <1>4, <1>7, <1>10, <3>1 DEF TabFits, Shape
    <3>3. Refers(p, tab[p])'
      BY <1>4, <1>7, <1>11, <2>2, <3>1 DEF TabFits, Refers, Live, Party
    <3>4. InboxFits(p)'
      BY <1>4, <1>7, <3>1 DEF InboxFits, FrameFits, Closes, Live, Party, Brings
    <3> QED BY <3>2, <3>3, <3>4 DEF TabFits
  <2> QED BY <2>1, <2>2
<1>16. ASSUME NEW c \in Calls
       PROVE  CallFits(c)'
  <2>1. ASSUME NEW u, Live(c), Carried(c, u)
        PROVE  Carried(c, u)'
    <3>1. CASE \E r \in requests : StandsFor(r, c, u)
      BY <1>4, <3>1 DEF Carried, StandsFor
    <3>2. CASE Speaks(c, u)
      <4>1. PICK p \in Tabs : Owner[p] = u /\ tab[p].active = c
        BY <3>2 DEF Speaks
      <4>2. CASE tab'[p].active = c
        BY <4>1, <4>2 DEF Carried, Speaks
      <4>3. CASE tab'[p].active # c
        <5>1. p = t /\ HasCall(old) /\ old.active = c
          BY <1>1, <1>8, <4>1, <4>3, CallAssumption DEF HasCall
        <5>2. ~ HasCall(s)
          BY <1>5, <1>8, <4>3, <5>1
        <5>3. Closes(e) /\ e.call = c
          BY <1>5, <5>1, <5>2
        <5>4. requests # {}
          BY <1>2, <2>1, <5>3 DEF FrameFits
        <5>5. PICK r \in requests : Brings(r, e) /\ r.call = c /\ Owner[t] # r.by
          BY <1>2, <5>3, <5>4 DEF FrameFits
        <5>6. r.op \in {"decline", "end"} /\ r.pc \in {"remove", "ok"}
          BY <5>3, <5>5 DEF Brings, Closes
        <5>7. r.pc = "remove"
          BY <1>7, <2>1, <5>5, <5>6 DEF Stage
        <5>8. StandsFor(r, c, u)
          BY <4>1, <5>1, <5>5, <5>6, <5>7 DEF StandsFor
        <5> QED BY <1>4, <5>8 DEF Carried, StandsFor
      <4> QED BY <4>2, <4>3
    <3> QED BY <2>1, <3>1, <3>2 DEF Carried
  <2> QED BY <1>4, <1>7, <2>1 DEF CallFits, Live
<1> QED BY <1>12, <1>13, <1>14, <1>15, <1>16 DEF Conversation

-----------------------------------------------------------------------------
(***************************************************************************)
(* What an answer does to the tab: it enters the call it started or        *)
(* accepted, or is free.                                                   *)
(***************************************************************************)
LEMMA AnswerFits ==
  ASSUME TypeOK, CallsAreKnown, Conversation, NEW r \in requests, r.pc \in {"ok", "err"},
         NEW t \in Tabs, r.tab = t, NEW old, old = tab[t], NEW s, s = Answered(old, r)
  PROVE  /\ \/ Free(s)
            \/ Line(s) /\ OneTimer(s, Hangup)
            \/ Talks(s) /\ store[s.active].status # "ringing"
         /\ s.pendingStart = old.pendingStart /\ s.pendingIncoming = old.pendingIncoming
         /\ s.incoming \in {old.incoming, NoCall}
         /\ HasCall(s) =>
              /\ s.active = r.call /\ r.pc = "ok" /\ r.op \in {"initiate", "accept"}
              /\ ~ HasCall(old)
         /\ r.op \in {"initiate", "accept"} /\ r.pc = "ok" => s.active = r.call
         /\ ~ HasCall(s) /\ HasCall(old) => r.op = "end" /\ old.active = r.call
<1>1. old \in TabRecord /\ Shape(t, old) /\ Suits(r, old)
  BY OldTab
<1>2. \E timer \in Timer : NoTimer(old) \/ OneTimer(old, timer)
  BY <1>1 DEF Shape, Free, Dials, Line, RingsIn, Talks, Timer
<1>3. r \in RequestRecord /\ Stage(r)
  BY DEF TypeOK, Conversation
<1>4. CASE r.op = "initiate" /\ r.pc = "ok"
  <2>1. s = Arm([old EXCEPT !.active = r.call], Hangup)
    BY <1>4 DEF Answered
  <2>2. r.call \in Calls /\ r.call # NoCall
    BY <1>4, CallAssumption DEF CallsAreKnown
  <2>3. /\ old.timers = <<>> /\ old.consumedStart /\ old.slot = "mounted" /\ ~ HasCall(old)
        /\ old.ui \in {"idle", "ringing_outgoing"}
    BY <1>1, <1>4 DEF Suits, NoTimer
  <2>4. Append(<<>>, Hangup) = <<Hangup>>
    BY OneElement
  <2>5. s = [old EXCEPT !.active = r.call, !.timers = <<Hangup>>, !.ref = TRUE]
    BY <1>1, <2>1, <2>3, <2>4 DEF Arm, TabRecord
  <2>6. /\ s.active = r.call /\ s.timers = <<Hangup>> /\ s.ref = TRUE
        /\ s.ui = old.ui /\ s.consumedStart = old.consumedStart /\ s.slot = old.slot
        /\ s.pendingStart = old.pendingStart /\ s.pendingIncoming = old.pendingIncoming
        /\ s.incoming = old.incoming
    BY <1>1, <2>5 DEF TabRecord
  <2>7. Line(s) /\ OneTimer(s, Hangup)
    BY <2>2, <2>3, <2>6 DEF Line, OneTimer, HasCall
  <2> QED BY <1>4, <2>2, <2>3, <2>6, <2>7 DEF HasCall
<1>5. CASE r.op = "accept" /\ r.pc = "ok"
  <2>1. PICK u : u = ClearTimers(old)
    OBVIOUS
  <2>2. s = [u EXCEPT !.active = r.call, !.incoming = NoCall, !.ui = "active"]
    BY <1>5, <2>1 DEF Answered
  <2>3. r.call \in Calls /\ r.call # NoCall
    BY <1>5, CallAssumption DEF CallsAreKnown
  <2>4. ~ HasCall(old) /\ old.slot = "mounted" /\ store[r.call].status = "active"
    BY <1>1, <1>3, <1>5 DEF Suits, Stage
  <2>5. /\ u \in TabRecord /\ NoTimer(u)
        /\ u = [old EXCEPT !.timers = <<>>, !.ref = FALSE]
    BY <1>1, <1>2, <2>1, ClearsOne
  <2>6. /\ u.slot = old.slot /\ u.pendingStart = old.pendingStart
        /\ u.pendingIncoming = old.pendingIncoming
    BY <1>1, <2>5 DEF TabRecord
  <2>7. /\ s.active = r.call /\ s.timers = u.timers /\ s.ref = u.ref
        /\ s.ui = "active" /\ s.slot = u.slot /\ s.incoming = NoCall
        /\ s.pendingStart = u.pendingStart /\ s.pendingIncoming = u.pendingIncoming
    BY <2>2, <2>5 DEF TabRecord
  <2>8. Talks(s)
    BY <2>3, <2>4, <2>5, <2>6, <2>7 DEF Talks, NoTimer, HasCall
  <2> QED BY <1>5, <2>3, <2>4, <2>6, <2>7, <2>8 DEF HasCall
<1>6. CASE ~ (r.op \in {"initiate", "accept"} /\ r.pc = "ok")
  <2>1. s = Cleanup(old)
    BY <1>6 DEF Answered
  <2>2. /\ Free(s) /\ s.incoming = NoCall
        /\ s.pendingStart = old.pendingStart /\ s.pendingIncoming = old.pendingIncoming
    BY <1>1, <1>2, <2>1, CleansUp
  <2>3. HasCall(old) => r.op = "end" /\ old.active = r.call
    BY <1>1, <1>3 DEF Suits, RequestRecord
  <2>4. ~ HasCall(s)
    BY <2>2 DEF Free
  <2> QED BY <1>6, <2>2, <2>3, <2>4
<1> QED BY <1>4, <1>5, <1>6

(***************************************************************************)
(* A request is answered.                                                  *)
(***************************************************************************)
LEMMA AnswerStays ==
  ASSUME TypeOK, CallsAreKnown, Conversation, NEW r \in requests, Answer(r)
  PROVE  Conversation'
<1>1. /\ r.pc \in {"ok", "err"} /\ r \in RequestRecord
      /\ UNCHANGED <<store, userCall, inbox>>
  BY DEF Answer, TypeOK
<1>2. /\ Alone /\ Keys /\ OneLine
      /\ Awaited(r) /\ Stage(r)
      /\ \A p \in Tabs : TabFits(p) /\ InboxFits(p)
      /\ \A c \in Calls : CallFits(c)
  BY DEF Conversation
<1>3. requests = {r} /\ requests' = {}
  BY <1>2 DEF Alone, Answer
<1>4. r.tab \in Tabs \/ (r.tab = NoTab /\ r.op = "decline")
  BY <1>1, <1>2 DEF RequestRecord, Awaited
<1>5. PICK s : r.tab \in Tabs => s = Answered(tab[r.tab], r)
  OBVIOUS
<1>6. \A p \in Tabs : tab'[p] = IF p = r.tab THEN s ELSE tab[p]
  BY <1>4, <1>5, CallAssumption DEF Answer, TypeOK
<1>7. PICK old : r.tab \in Tabs => old = tab[r.tab]
  OBVIOUS
<1>8. r.tab \in Tabs =>
        /\ \/ Free(s)
           \/ Line(s) /\ OneTimer(s, Hangup)
           \/ Talks(s) /\ store[s.active].status # "ringing"
        /\ s.pendingStart = old.pendingStart /\ s.pendingIncoming = old.pendingIncoming
        /\ s.incoming \in {old.incoming, NoCall}
        /\ HasCall(s) =>
             /\ s.active = r.call /\ r.pc = "ok" /\ r.op \in {"initiate", "accept"}
             /\ ~ HasCall(old)
        /\ r.op \in {"initiate", "accept"} /\ r.pc = "ok" => s.active = r.call
        /\ ~ HasCall(s) /\ HasCall(old) => r.op = "end" /\ old.active = r.call
  <2>1. ASSUME NEW t \in Tabs, r.tab = t
        PROVE  /\ \/ Free(s)
                  \/ Line(s) /\ OneTimer(s, Hangup)
                  \/ Talks(s) /\ store[s.active].status # "ringing"
               /\ s.pendingStart = old.pendingStart
               /\ s.pendingIncoming = old.pendingIncoming
               /\ s.incoming \in {old.incoming, NoCall}
               /\ HasCall(s) =>
                    /\ s.active = r.call /\ r.pc = "ok" /\ r.op \in {"initiate", "accept"}
                    /\ ~ HasCall(old)
               /\ r.op \in {"initiate", "accept"} /\ r.pc = "ok" => s.active = r.call
               /\ ~ HasCall(s) /\ HasCall(old) => r.op = "end" /\ old.active = r.call
    <3>1. old = tab[t] /\ s = Answered(old, r)
      BY <1>5, <1>7, <2>1
    <3> QED BY <1>1, <2>1, <3>1, AnswerFits
  <2> QED BY <2>1
<1>9. \A op : \A p \in Tabs : p # r.tab => ~ Asking(p, op)
  BY <1>3 DEF Asking
<1>10. \A c : \A p \in Tabs : p # r.tab /\ Told(p, c) => Told(p, c)'
  BY <1>1, <1>9 DEF Told, Closes
<1>11. Alone' /\ Keys'
  BY <1>1, <1>2, <1>3 DEF Alone, Keys, Live, Party
<1>12. HasCall(s) /\ r.tab \in Tabs =>
         /\ NotYetIn(Owner[r.tab], r.call) /\ Live(r.call)
         /\ Owner[r.tab] \in Party(r.call)
         /\ store[r.call].status = "ringing" => store[r.call].from = Owner[r.tab]
  BY <1>2, <1>8, CallAssumption DEF Stage, Awaited, Live, Party
<1>13. OneLine'
  <2>1. ASSUME NEW t \in Tabs, NEW p \in Tabs, HasCall(tab'[t]),
               tab'[p].active = tab'[t].active, Owner[p] = Owner[t], p # t
        PROVE  FALSE
    <3>1. CASE p # r.tab /\ t # r.tab
      BY <1>2, <1>6, <2>1, <3>1 DEF OneLine
    <3>2. CASE t = r.tab
      <4>1. tab'[t] = s /\ tab'[p] = tab[p]
        BY <1>6, <2>1, <3>2
      <4>2. NotYetIn(Owner[t], r.call) /\ s.active = r.call
        BY <1>8, <1>12, <2>1, <3>2, <4>1
      <4> QED BY <2>1, <4>1, <4>2 DEF NotYetIn
    <3>3. CASE p = r.tab
      <4>1. tab'[p] = s /\ tab'[t] = tab[t]
        BY <1>6, <2>1, <3>3
      <4>2. NotYetIn(Owner[p], r.call) /\ s.active = r.call
        BY <1>8, <1>12, <2>1, <3>3, <4>1 DEF HasCall
      <4> QED BY <2>1, <4>1, <4>2 DEF NotYetIn
    <3> QED BY <3>1, <3>2, <3>3
  <2> QED BY <2>1 DEF OneLine
<1>14. ASSUME NEW p \in Tabs
       PROVE  TabFits(p)' /\ InboxFits(p)'
  <2>1. InboxFits(p)'
    <3>1. CASE inbox[p] = <<>>
      BY <1>1, <3>1 DEF InboxFits
    <3>2. ASSUME NEW e \in Frame, inbox[p] = <<e>>, FrameFits(p, e)
          PROVE  InboxFits(p)'
      <4>1. Brings(r, e) /\ r.call = e.call
        BY <3>2 DEF FrameFits
      <4>2. Closes(e) => ~ Live(e.call)
        BY <1>1, <1>2, <4>1 DEF Brings, Closes, Stage
      <4>3. FrameFits(p, e)'
        BY <1>1, <1>3, <3>2, <4>2 DEF FrameFits, Closes, Live, Party
      <4> QED BY <1>1, <3>2, <4>3 DEF InboxFits
    <3> QED BY <1>2, <3>1, <3>2 DEF InboxFits
  <2>2. CASE p = r.tab
    <3>1. old = tab[p] /\ tab'[p] = s
      BY <1>6, <1>7, <2>2
    <3>2. Refers(p, old)
      BY <1>2, <3>1 DEF TabFits
    <3>3. Refers(p, s)'
      BY <1>1, <1>8, <1>12, <2>2, <3>2 DEF Refers, Live, Party
    <3>4. Shape(p, s)'
      BY <1>1, <1>8, <2>2 DEF Shape
    <3> QED BY <2>1, <3>1, <3>3, <3>4 DEF TabFits
  <2>3. CASE p # r.tab
    <3>1. tab'[p] = tab[p]
      BY <1>6, <2>3
    <3>2. Shape(p, tab[p])'
      BY <1>1, <1>2, <1>9, <2>3, <3>1 DEF TabFits, Shape
    <3>3. Refers(p, tab[p])'
      BY <1>1, <1>2, <1>10, <2>3, <3>1 DEF TabFits, Refers, Live, Party
    <3> QED BY <2>1, <3>1, <3>2, <3>3 DEF TabFits
  <2> QED BY <2>2, <2>3
<1>15. ASSUME NEW c \in Calls
       PROVE  CallFits(c)'
  <2>1. ASSUME NEW u, Live(c), Carried(c, u)
        PROVE  Speaks(c, u)'
    <3>1. CASE StandsFor(r, c, u)
      <4>1. /\ r.op \in {"initiate", "accept"} /\ r.pc = "ok" /\ r.by = u /\ r.call = c
        BY <1>1, <3>1 DEF StandsFor
      <4>2. r.tab \in Tabs /\ Owner[r.tab] = u
        BY <1>2, <1>4, <4>1, CallAssumption DEF Awaited
      <4>3. tab'[r.tab].active = c
        BY <1>6, <1>8, <4>1, <4>2
      <4> QED BY <4>2, <4>3 DEF Speaks
    <3>2. CASE Speaks(c, u)
      <4>1. PICK p \in Tabs : Owner[p] = u /\ tab[p].active = c
        BY <3>2 DEF Speaks
      <4>2. p # r.tab
        <5>1. ASSUME p = r.tab
              PROVE  FALSE
          <6>1. HasCall(old) /\ old.active = c
            BY <1>7, <4>1, <5>1, CallAssumption DEF HasCall
          <6>2. r.op = "end" /\ r.call = c
            BY <1>8, <5>1, <6>1
          <6> QED BY <1>1, <1>2, <2>1, <6>2 DEF Stage
        <5> QED BY <5>1
      <4> QED BY <1>6, <4>1, <4>2 DEF Speaks
    <3> QED BY <1>3, <2>1, <3>1, <3>2 DEF Carried
  <2> QED BY <1>1, <1>2, <2>1 DEF CallFits, Live, Carried
<1> QED BY <1>3, <1>11, <1>13, <1>14, <1>15 DEF Conversation

-----------------------------------------------------------------------------
(***************************************************************************)
(* As long as a request has only read, no frame is under way and nobody    *)
(* stands for a party.                                                     *)
(***************************************************************************)
LEMMA NoFramesYet ==
  ASSUME TypeOK, Conversation, NEW r \in requests, r.pc \in {"check", "get", "save", "tell"}
  PROVE  /\ \A t \in Tabs : inbox[t] = <<>>
         /\ \A c : \A t \in Tabs : Told(t, c) => Asking(t, "end")
         /\ \A c, u : Carried(c, u) => Speaks(c, u)
<1>1. requests = {r}
  BY DEF Conversation, Alone
<1>2. \A e : ~ Brings(r, e)
  BY DEF Brings
<1>3. \A t \in Tabs : inbox[t] = <<>>
  BY <1>2 DEF Conversation, InboxFits, FrameFits
<1>4. \A c : \A t \in Tabs : Told(t, c) => Asking(t, "end")
  <2>1. ASSUME NEW c, NEW t \in Tabs, Told(t, c), ~ Asking(t, "end")
        PROVE  FALSE
    <3>1. PICK e \in Frame : inbox[t] = <<e>>
      BY <2>1 DEF Told
    <3> QED BY <1>3, <3>1, OneElement
  <2> QED BY <2>1
<1>5. \A c, u : Carried(c, u) => Speaks(c, u)
  BY <1>1 DEF Carried, StandsFor
<1> QED BY <1>3, <1>4, <1>5

(***************************************************************************)
(* A step of the server, which takes request r to q and leaves the tabs    *)
(* alone: what is left to show is about Redis, the frames and the request. *)
(***************************************************************************)
LEMMA ServerStep ==
  ASSUME TypeOK, Conversation, NEW r \in requests, NEW q,
         q.op = r.op, q.by = r.by, q.tab = r.tab, q.call = r.call \/ q.op # "end",
         requests' = {q}, tab' = tab,
         \A c \in Calls : store[c].status # "unused" =>
           store'[c].from = store[c].from /\ store'[c].to = store[c].to,
         \A t \in Tabs : HasCall(tab[t]) =>
           /\ (Live(tab[t].active) \/ Told(t, tab[t].active))'
           /\ store'[tab[t].active].status = "ringing" =>
                store[tab[t].active].status = "ringing",
         Keys', Stage(q)', \A t \in Tabs : InboxFits(t)', \A c \in Calls : CallFits(c)'
  PROVE  Conversation'
<1>1. /\ Alone /\ Keys /\ OneLine /\ Awaited(r)
      /\ \A t \in Tabs : TabFits(t)
  BY DEF Conversation
<1>2. requests = {r}
  BY <1>1 DEF Alone
<1>3. Alone' /\ OneLine'
  BY <1>1 DEF Alone, OneLine, HasCall
<1>4. \A op : \A t : Asking(t, op)' <=> Asking(t, op)
  BY <1>2 DEF Asking
<1>5. Awaited(q)'
  BY <1>1 DEF Awaited, Suits
<1>6. ASSUME NEW t \in Tabs
      PROVE  TabFits(t)'
  <2>1. PICK s : s = tab[t]
    OBVIOUS
  <2>2. Shape(t, s) /\ Refers(t, s) /\ s \in TabRecord /\ tab'[t] = s
    BY <2>1, OldTab
  <2>3. HasCall(s) /\ store'[s.active].status = "ringing"
          => store[s.active].status = "ringing"
    BY <2>1
  <2>4. Shape(t, s)'
    BY <1>4, <2>2, <2>3 DEF Shape, Talks
  <2>5. Owner[t] \in Users
    BY CallAssumption
  <2>6. ASSUME NEW c \in Calls, store[c].status = "unused"
        PROVE  Owner[t] \notin Party(c)
    BY <1>1, <2>5, <2>6, CallAssumption DEF Keys
  <2>7. \A c \in Calls : Owner[t] \in Party(c) =>
          store'[c].from = store[c].from /\ store'[c].to = store[c].to
    BY <2>6
  <2>8. Refers(t, s)'
    <3>1. s.pendingIncoming # NoCall => store'[s.pendingIncoming].to = Owner[t]
      BY <2>2, <2>7 DEF Refers, Party, TabRecord
    <3>2. s.incoming # NoCall => store'[s.incoming].to = Owner[t]
      BY <2>2, <2>7 DEF Refers, Party, TabRecord
    <3>3. HasCall(s) =>
            /\ store'[s.active].from = store[s.active].from
            /\ store'[s.active].to = store[s.active].to
      BY <2>2, <2>7 DEF Refers, HasCall, TabRecord
    <3>4. HasCall(s) => (Live(s.active) \/ Told(t, s.active))'
      BY <2>1
    <3> QED BY <2>2, <2>3, <3>1, <3>2, <3>3, <3>4 DEF Refers, Party
  <2> QED BY <2>2, <2>4, <2>8 DEF TabFits
<1> QED BY <1>3, <1>5, <1>6 DEF Conversation

(***************************************************************************)
(* Goto, when the request is the only one.                                 *)
(***************************************************************************)
LEMMA NextStage ==
  ASSUME TypeOK, Conversation, NEW r \in requests, NEW pc, Goto(r, pc)
  PROVE  \E q : /\ requests' = {q} /\ q.op = r.op /\ q.by = r.by /\ q.tab = r.tab
                /\ q.call = r.call /\ q.peer = r.peer /\ q.pc = pc
<1>1. requests = {r} /\ r \in RequestRecord
  BY DEF Conversation, Alone, TypeOK
<1>2. PICK q : q = [r EXCEPT !.pc = pc]
  OBVIOUS
<1>3. requests' = {q}
  BY <1>1, <1>2 DEF Goto
<1>4. /\ q.op = r.op /\ q.by = r.by /\ q.tab = r.tab /\ q.call = r.call
      /\ q.peer = r.peer /\ q.pc = pc
  BY <1>1, <1>2 DEF RequestRecord
<1> QED BY <1>3, <1>4

(***************************************************************************)
(* A step that only reads.                                                 *)
(***************************************************************************)
LEMMA ReadStep ==
  ASSUME TypeOK, Conversation, NEW r \in requests, r.pc \in {"check", "get"},
         UNCHANGED <<store, userCall, inbox, tab>>, NEW q, requests' = {q},
         q.op = r.op, q.by = r.by, q.tab = r.tab, q.call = r.call,
         Stage(q), q.pc \in {"save", "tell", "err"}
  PROVE  Conversation'
<1>1. /\ \A t \in Tabs : inbox[t] = <<>>
      /\ \A c : \A t \in Tabs : Told(t, c) => Asking(t, "end")
      /\ \A c, u : Carried(c, u) => Speaks(c, u)
  BY NoFramesYet
<1>2. Stage(q)'
  BY DEF Stage, Live, Party
<1>3. requests = {r}
  BY DEF Conversation, Alone
<1>4. \A t \in Tabs : HasCall(tab[t]) =>
        /\ (Live(tab[t].active) \/ Told(t, tab[t].active))'
        /\ store'[tab[t].active].status = "ringing" =>
             store[tab[t].active].status = "ringing"
  <2>1. ASSUME NEW t \in Tabs, HasCall(tab[t])
        PROVE  (Live(tab[t].active) \/ Told(t, tab[t].active))'
    <3>1. Live(tab[t].active) \/ Asking(t, "end")
      BY <1>1, <2>1, OldTab DEF Refers
    <3>2. Asking(t, "end") => Asking(t, "end")'
      BY <1>3 DEF Asking
    <3> QED BY <3>1, <3>2 DEF Live, Told
  <2> QED BY <2>1
<1>5. Keys'
  BY DEF Conversation, Keys, Live, Party
<1>6. \A t \in Tabs : InboxFits(t)'
  BY <1>1 DEF InboxFits
<1>7. \A c \in Calls : CallFits(c)'
  <2>1. \A c, u : Speaks(c, u) => Carried(c, u)'
    BY DEF Carried, Speaks
  <2> QED BY <1>1, <2>1 DEF Conversation, CallFits, Live
<1> QED BY <1>2, <1>4, <1>5, <1>6, <1>7, ServerStep

(***************************************************************************)
(* Accept reads the call.                                                  *)
(***************************************************************************)
LEMMA ReadForAcceptStays ==
  ASSUME TypeOK, Conversation, NEW r \in requests, ReadForAccept(r)
  PROVE  Conversation'
<1> DEFINE pc == IF store[r.call].status = "ringing" /\ store[r.call].to = r.by
                 THEN "save" ELSE "err"
<1>1. /\ r.op = "accept" /\ r.pc = "get" /\ Goto(r, pc) /\ Stage(r)
      /\ UNCHANGED <<store, userCall, inbox, tab>>
  BY DEF ReadForAccept, At, Conversation
<1>2. PICK q : /\ requests' = {q} /\ q.op = r.op /\ q.by = r.by /\ q.tab = r.tab
               /\ q.call = r.call /\ q.peer = r.peer /\ q.pc = pc
  BY <1>1, NextStage
<1>3. Stage(q)
  BY <1>1, <1>2 DEF Stage
<1> QED BY <1>1, <1>2, <1>3, ReadStep

(***************************************************************************)
(* Decline and End read the call; End finds it alive.                      *)
(***************************************************************************)
LEMMA ReadForCloseStays ==
  ASSUME TypeOK, Conversation, NEW r \in requests, ReadForClose(r)
  PROVE  Conversation'
<1> DEFINE pc == IF store[r.call].status \in Closable(r.op) /\ r.by \in Party(r.call)
                 THEN "tell" ELSE "err"
<1>1. /\ r.op \in {"decline", "end"} /\ r.pc = "get" /\ Goto(r, pc) /\ Stage(r)
      /\ UNCHANGED <<store, userCall, inbox, tab>>
  BY DEF ReadForClose, Conversation
<1>2. PICK q : /\ requests' = {q} /\ q.op = r.op /\ q.by = r.by /\ q.tab = r.tab
               /\ q.call = r.call /\ q.peer = r.peer /\ q.pc = pc
  BY <1>1, NextStage
<1>3. r.op = "end" => pc = "tell"
  BY <1>1 DEF Stage, Closable, Live
<1>4. r.op = "decline" /\ pc = "tell" => store[r.call].status = "ringing"
  BY <1>1 DEF Closable
<1>5. pc \in {"tell", "err"}
  OBVIOUS
<1> HIDE DEF pc
<1>6. Stage(q)
  BY <1>1, <1>2, <1>3, <1>4, <1>5 DEF Stage, Live, Party
<1> QED BY <1>1, <1>2, <1>5, <1>6, ReadStep

(***************************************************************************)
(* Initiate draws an id if neither of the two is busy: their keys are      *)
(* empty then.                                                             *)
(***************************************************************************)
LEMMA CheckPartiesStays ==
  ASSUME TypeOK, Conversation, mishaps = 0, mishaps' = 0,
         NEW r \in requests, CheckParties(r)
  PROVE  Conversation'
<1>1. /\ r.op = "initiate" /\ r.pc = "check" /\ r \in RequestRecord /\ Stage(r)
      /\ UNCHANGED <<userCall, inbox, tab>>
  BY DEF CheckParties, At, Conversation, TypeOK
<1>2. requests = {r}
  BY DEF Conversation, Alone
<1>3. CASE Goto(r, "err") /\ UNCHANGED <<store, mishaps>>
  <2>1. PICK q : /\ requests' = {q} /\ q.op = r.op /\ q.by = r.by /\ q.tab = r.tab
                 /\ q.call = r.call /\ q.peer = r.peer /\ q.pc = "err"
    BY <1>3, NextStage
  <2>2. Stage(q)
    BY <1>1, <2>1 DEF Stage
  <2> QED BY <1>1, <1>3, <2>1, <2>2, ReadStep
<1>4. CASE ~ (Goto(r, "err") /\ UNCHANGED <<store, mishaps>>)
  <2>0. ~ Busy(r.by) /\ ~ Busy(r.peer)
    <3>1. PICK unread \in SUBSET {r.by, r.peer} :
            /\ \A u \in {r.by, r.peer} \ unread : ~ Busy(u)
            /\ mishaps' = mishaps + Cardinality(unread)
      BY <1>4 DEF CheckParties
    <3>2. /\ Cardinality(unread) \in Nat
          /\ Cardinality(unread) = 0 => unread = {}
      BY UnreadLemma
    <3>3. Cardinality(unread) = 0
      BY <3>1, <3>2
    <3> QED BY <3>1, <3>2, <3>3
  <2>1. PICK c \in Calls :
          /\ store[c].status = "unused"
          /\ store' = [store EXCEPT ![c] = [status |-> "new", from |-> r.by, to |-> r.peer]]
          /\ requests' = (requests \ {r}) \cup {[r EXCEPT !.call = c, !.pc = "save"]}
    BY <1>4 DEF CheckParties
  <2>2. PICK q : q = [r EXCEPT !.call = c, !.pc = "save"]
    OBVIOUS
  <2>3. /\ requests' = {q} /\ q.op = "initiate" /\ q.by = r.by /\ q.tab = r.tab
        /\ q.call = c /\ q.peer = r.peer /\ q.pc = "save"
    BY <1>1, <1>2, <2>1, <2>2 DEF RequestRecord
  <2>4. /\ store'[c] = [status |-> "new", from |-> r.by, to |-> r.peer]
        /\ \A d \in Calls \ {c} : store'[d] = store[d]
    BY <2>1 DEF TypeOK
  <2>5. /\ r.by \in Users /\ r.peer \in Users /\ r.by # r.peer
    BY <1>1 DEF Stage, RequestRecord
  <2>6. Keys
    BY DEF Conversation
  <2>7. userCall[r.by] = NoCall /\ userCall[r.peer] = NoCall
    BY <2>0, <2>5, <2>6 DEF Busy, Keys, TypeOK
  <2>8. Stage(q)'
    BY <1>1, <2>3, <2>4, <2>5, <2>7 DEF Stage
  <2>9. ~ Live(c) /\ ~ Live(c)'
    BY <2>1, <2>4 DEF Live
  <2>10. \A d \in Calls \ {c} : (Live(d)' <=> Live(d)) /\ Party(d)' = Party(d)
    BY <2>4 DEF Live, Party
  <2>11. Keys'
    <3>1. ASSUME NEW d \in Calls
          PROVE  /\ store'[d].status = "unused" => Party(d)' = {NoUser}
                 /\ store'[d].status # "unused" =>
                      /\ store'[d].from \in Users /\ store'[d].to \in Users
                      /\ store'[d].from # store'[d].to
      BY <2>4, <2>5, <2>6, <2>10 DEF Keys
    <3>2. ASSUME NEW u \in Users, NEW d \in Calls
          PROVE  userCall'[u] = d <=> Live(d)' /\ u \in Party(d)'
      BY <1>1, <2>6, <2>9, <2>10 DEF Keys
    <3> QED BY <3>1, <3>2 DEF Keys
  <2>12. /\ \A t \in Tabs : inbox[t] = <<>>
         /\ \A d : \A t \in Tabs : Told(t, d) => Asking(t, "end")
         /\ \A d, u : Carried(d, u) => Speaks(d, u)
    BY <1>1, NoFramesYet
  <2>13. \A t \in Tabs : HasCall(tab[t]) =>
          /\ (Live(tab[t].active) \/ Told(t, tab[t].active))'
          /\ store'[tab[t].active].status = "ringing" =>
               store[tab[t].active].status = "ringing"
    <3>1. ASSUME NEW t \in Tabs, HasCall(tab[t])
          PROVE  /\ Live(tab[t].active)'
                 /\ store'[tab[t].active].status = "ringing" =>
                      store[tab[t].active].status = "ringing"
      <4>1. ~ Asking(t, "end")
        BY <1>1, <1>2 DEF Asking
      <4>2. Live(tab[t].active) /\ tab[t].active \in Calls
        BY <2>12, <3>1, <4>1, OldTab DEF Refers, HasCall, TabRecord
      <4> QED BY <1>1, <2>4, <2>9, <2>10, <4>2
    <3> QED BY <3>1
  <2>14. \A t \in Tabs : InboxFits(t)'
    BY <1>1, <2>12 DEF InboxFits
  <2>15. ASSUME NEW d \in Calls
         PROVE  CallFits(d)'
    <3>1. CASE d = c
      BY <2>4, <3>1 DEF CallFits, Live
    <3>2. CASE d # c
      <4>1. store'[d] = store[d] /\ CallFits(d)
        BY <2>4, <3>2 DEF Conversation
      <4>2. \A u : Speaks(d, u) => Carried(d, u)'
        BY <1>1 DEF Carried, Speaks
      <4> QED BY <2>12, <4>1, <4>2 DEF CallFits, Live
    <3> QED BY <3>1, <3>2
  <2>16. \A d \in Calls : store[d].status # "unused" =>
           store'[d].from = store[d].from /\ store'[d].to = store[d].to
    BY <2>1, <2>4
  <2> QED BY <1>1, <2>3, <2>8, <2>11, <2>13, <2>14, <2>15, <2>16, ServerStep
<1> QED BY <1>3, <1>4

(***************************************************************************)
(* A broadcast without a mishap reaches every tab of the user.             *)
(***************************************************************************)
LEMMA NobodyMissesIt ==
  ASSUME TypeOK, mishaps = 0, mishaps' = 0, \A t \in Tabs : inbox[t] = <<>>,
         NEW u, NEW event, NEW c, Broadcast(u, event, c),
         [event |-> event, call |-> c] \in Frame
  PROVE  \A t \in Tabs :
           inbox'[t] = IF Owner[t] = u THEN <<[event |-> event, call |-> c]>> ELSE <<>>
<1> DEFINE f == [event |-> event, call |-> c]
<1>1. PICK missed \in SUBSET {t \in Tabs : Owner[t] = u} :
        /\ mishaps' = mishaps + Cardinality(missed)
        /\ inbox' = [t \in Tabs |->
             IF Owner[t] = u /\ t \notin missed THEN Append(inbox[t], f) ELSE inbox[t]]
  BY DEF Broadcast
<1>2. IsFiniteSet(missed)
  BY CallAssumption, FS_Subset
<1>3. Cardinality(missed) = 0
  BY <1>1, <1>2, FS_CardinalityType
<1>4. missed = {}
  BY <1>2, <1>3, FS_EmptySet
<1>5. Append(<<>>, f) = <<f>>
  BY OneElement
<1> HIDE DEF f
<1>6. \A t \in Tabs : inbox'[t] = IF Owner[t] = u THEN <<f>> ELSE <<>>
  BY <1>1, <1>4, <1>5
<1> QED BY <1>6 DEF f

(***************************************************************************)
(* The call rings: the request stands for the caller until it is answered. *)
(***************************************************************************)
LEMMA SaveNewCallStays ==
  ASSUME TypeOK, CallsAreKnown, Conversation, mishaps = 0, mishaps' = 0,
         NEW r \in requests, SaveNewCall(r)
  PROVE  Conversation'
<1>1. PICK c \in Calls : c = r.call
  BY DEF CallsAreKnown, SaveNewCall, At
<1>2. /\ r.op = "initiate" /\ r.pc = "save" /\ r \in RequestRecord /\ Stage(r)
      /\ store' = [store EXCEPT ![c].status = "ringing"]
      /\ userCall' = [u \in Users |-> IF u \in Party(c) THEN c ELSE userCall[u]]
      /\ Broadcast(r.peer, "call_incoming", c) /\ Goto(r, "ok") /\ tab' = tab
  BY <1>1 DEF SaveNewCall, SaveActiveCall, At, Conversation, TypeOK
<1>3. PICK q : /\ requests' = {q} /\ q.op = r.op /\ q.by = r.by /\ q.tab = r.tab
               /\ q.call = r.call /\ q.peer = r.peer /\ q.pc = "ok"
  BY <1>2, NextStage
<1>4. /\ \A t \in Tabs : inbox[t] = <<>>
      /\ \A d : \A t \in Tabs : Told(t, d) => Asking(t, "end")
      /\ \A d, u : Carried(d, u) => Speaks(d, u)
  BY <1>2, NoFramesYet
<1>5. PICK e : e = [event |-> "call_incoming", call |-> c]
  OBVIOUS
<1>6. e \in Frame /\ e.event = "call_incoming" /\ e.call = c
  BY <1>5 DEF Frame
<1>7. \A t \in Tabs : inbox'[t] = IF Owner[t] = r.peer THEN <<e>> ELSE <<>>
  BY <1>2, <1>4, <1>5, <1>6, NobodyMissesIt
<1>8. /\ store[c].status = "new" /\ store[c].from = r.by /\ store[c].to = r.peer
      /\ userCall[r.by] = NoCall /\ userCall[r.peer] = NoCall
      /\ r.peer # r.by /\ r.by \in Users /\ r.peer \in Users
  BY <1>1, <1>2 DEF Stage, RequestRecord
<1>9. /\ store'[c].status = "ringing" /\ store'[c].from = r.by /\ store'[c].to = r.peer
      /\ \A d \in Calls \ {c} : store'[d] = store[d]
  BY <1>2, <1>8 DEF TypeOK, CallRecord
<1>10. /\ ~ Live(c) /\ Live(c)' /\ Party(c) = {r.by, r.peer} /\ Party(c)' = Party(c)
       /\ \A d \in Calls \ {c} : (Live(d)' <=> Live(d)) /\ Party(d)' = Party(d)
  BY <1>8, <1>9 DEF Live, Party
<1>11. Keys /\ requests = {r}
  BY DEF Conversation, Alone
<1>12. Keys'
  <2>1. ASSUME NEW d \in Calls
        PROVE  /\ store'[d].status = "unused" => Party(d)' = {NoUser}
               /\ store'[d].status # "unused" =>
                    /\ store'[d].from \in Users /\ store'[d].to \in Users
                    /\ store'[d].from # store'[d].to
    BY <1>8, <1>9, <1>10, <1>11 DEF Keys
  <2>2. ASSUME NEW u \in Users, NEW d \in Calls
        PROVE  userCall'[u] = d <=> Live(d)' /\ u \in Party(d)'
    <3>1. userCall'[u] = IF u \in Party(c) THEN c ELSE userCall[u]
      BY <1>2
    <3>2. userCall[u] = d <=> Live(d) /\ u \in Party(d)
      BY <1>11 DEF Keys
    <3>3. u \in Party(c) => ~ (Live(d) /\ u \in Party(d))
      BY <1>8, <1>10, <3>2, CallAssumption
    <3>4. CASE d = c
      BY <1>10, <3>1, <3>2, <3>4
    <3>5. CASE d # c
      BY <1>10, <3>1, <3>2, <3>3, <3>5
    <3> QED BY <3>4, <3>5
  <2> QED BY <2>1, <2>2 DEF Keys
<1>13. \A t \in Tabs : HasCall(tab[t]) =>
         /\ Live(tab[t].active) /\ tab[t].active \in Calls
  <2>1. ASSUME NEW t \in Tabs
        PROVE  ~ Asking(t, "end")
    BY <1>2, <1>11 DEF Asking
  <2> QED BY <1>4, <2>1, OldTab DEF Refers, HasCall, TabRecord
<1>14. \A t \in Tabs : HasCall(tab[t]) =>
         /\ (Live(tab[t].active) \/ Told(t, tab[t].active))'
         /\ store'[tab[t].active].status = "ringing" =>
              store[tab[t].active].status = "ringing"
  BY <1>2, <1>9, <1>10, <1>13
<1>15. NotYetIn(r.by, c)'
  BY <1>2, <1>10, <1>13, CallAssumption DEF NotYetIn, HasCall
<1>16. Stage(q)'
  BY <1>1, <1>2, <1>3, <1>8, <1>9, <1>15 DEF Stage
<1>17. ASSUME NEW t \in Tabs
       PROVE  InboxFits(t)'
  <2>1. CASE Owner[t] # r.peer
    BY <1>7, <2>1 DEF InboxFits
  <2>2. CASE Owner[t] = r.peer
    <3>1. inbox'[t] = <<e>>
      BY <1>7, <2>2
    <3>2. FrameFits(t, e)'
      BY <1>1, <1>2, <1>3, <1>6, <1>8, <1>9, <2>2 DEF FrameFits, Brings, Closes
    <3> QED BY <1>6, <3>1, <3>2 DEF InboxFits
  <2> QED BY <2>1, <2>2
<1>18. ASSUME NEW d \in Calls
       PROVE  CallFits(d)'
  <2>1. CASE d = c
    <3>1. StandsFor(q, c, r.by)
      BY <1>1, <1>2, <1>3 DEF StandsFor
    <3> QED BY <1>3, <1>9, <2>1, <3>1 DEF CallFits, Carried, StandsFor
  <2>2. CASE d # c
    <3>1. store'[d] = store[d] /\ CallFits(d)
      BY <1>9, <2>2 DEF Conversation
    <3>2. \A u : Speaks(d, u) => Carried(d, u)'
      BY <1>2 DEF Carried, Speaks
    <3> QED BY <1>4, <3>1, <3>2 DEF CallFits, Live
  <2> QED BY <2>1, <2>2
<1>19. \A d \in Calls : store[d].status # "unused" =>
         store'[d].from = store[d].from /\ store'[d].to = store[d].to
  BY <1>8, <1>9
<1> QED BY <1>2, <1>3, <1>12, <1>14, <1>16, <1>17, <1>18, <1>19, ServerStep

(***************************************************************************)
(* The call becomes active: the request stands for the callee until it is  *)
(* answered.                                                               *)
(***************************************************************************)
LEMMA SaveAcceptedStays ==
  ASSUME TypeOK, CallsAreKnown, Conversation, mishaps = 0, mishaps' = 0,
         NEW r \in requests, SaveAccepted(r)
  PROVE  Conversation'
<1>1. PICK c \in Calls : c = r.call
  BY DEF CallsAreKnown, SaveAccepted, At
<1>2. PICK u0 : u0 = store[c].from
  OBVIOUS
<1>3. /\ r.op = "accept" /\ r.pc = "save" /\ r \in RequestRecord /\ Stage(r)
      /\ store' = [store EXCEPT ![c].status = "active"]
      /\ userCall' = [u \in Users |-> IF u \in Party(c) THEN c ELSE userCall[u]]
      /\ Broadcast(u0, "call_accepted", c) /\ Goto(r, "ok") /\ tab' = tab
  BY <1>1, <1>2 DEF SaveAccepted, SaveActiveCall, At, Conversation, TypeOK
<1>4. PICK q : /\ requests' = {q} /\ q.op = r.op /\ q.by = r.by /\ q.tab = r.tab
               /\ q.call = r.call /\ q.peer = r.peer /\ q.pc = "ok"
  BY <1>3, NextStage
<1>5. /\ \A t \in Tabs : inbox[t] = <<>>
      /\ \A d : \A t \in Tabs : Told(t, d) => Asking(t, "end")
      /\ \A d, u : Carried(d, u) => Speaks(d, u)
  BY <1>3, NoFramesYet
<1>6. PICK e : e = [event |-> "call_accepted", call |-> c]
  OBVIOUS
<1>7. e \in Frame /\ e.event = "call_accepted" /\ e.call = c
  BY <1>6 DEF Frame
<1>8. \A t \in Tabs : inbox'[t] = IF Owner[t] = u0 THEN <<e>> ELSE <<>>
  BY <1>3, <1>5, <1>6, <1>7, NobodyMissesIt
<1>9. Keys /\ requests = {r}
  BY DEF Conversation, Alone
<1>10. store[c].status = "ringing" /\ store[c].to = r.by /\ u0 # r.by
  BY <1>1, <1>2, <1>3, <1>9 DEF Stage, Keys
<1>11. /\ store'[c].status = "active" /\ store'[c].from = u0 /\ store'[c].to = r.by
       /\ \A d \in Calls \ {c} : store'[d] = store[d]
  BY <1>2, <1>3, <1>10 DEF TypeOK, CallRecord
<1>12. \A d \in Calls : (Live(d)' <=> Live(d)) /\ Party(d)' = Party(d)
  BY <1>2, <1>10, <1>11 DEF Live, Party
<1>13. \A u \in Users : userCall'[u] = userCall[u]
  <2>1. ASSUME NEW u \in Users, u \in Party(c)
        PROVE  userCall[u] = c
    BY <1>9, <1>10, <2>1 DEF Keys, Live
  <2> QED BY <1>3, <2>1
<1>14. Keys'
  <2>1. ASSUME NEW d \in Calls
        PROVE  /\ store'[d].status = "unused" => Party(d)' = {NoUser}
               /\ store'[d].status # "unused" =>
                    /\ store'[d].from \in Users /\ store'[d].to \in Users
                    /\ store'[d].from # store'[d].to
    BY <1>2, <1>9, <1>10, <1>11, <1>12 DEF Keys
  <2>2. \A u \in Users, d \in Calls : userCall'[u] = d <=> Live(d)' /\ u \in Party(d)'
    BY <1>9, <1>12, <1>13 DEF Keys
  <2> QED BY <2>1, <2>2 DEF Keys
<1>15. \A t \in Tabs : HasCall(tab[t]) =>
         /\ Live(tab[t].active) /\ tab[t].active \in Calls
         /\ store[tab[t].active].status = "ringing" =>
              store[tab[t].active].from = Owner[t]
  <2>1. ASSUME NEW t \in Tabs
        PROVE  ~ Asking(t, "end")
    BY <1>3, <1>9 DEF Asking
  <2> QED BY <1>5, <2>1, OldTab DEF Refers, HasCall, TabRecord
<1>16. \A t \in Tabs : HasCall(tab[t]) =>
         /\ (Live(tab[t].active) \/ Told(t, tab[t].active))'
         /\ store'[tab[t].active].status = "ringing" =>
              store[tab[t].active].status = "ringing"
  BY <1>3, <1>11, <1>12, <1>15
<1>17. NotYetIn(r.by, c)'
  BY <1>2, <1>3, <1>10, <1>15, CallAssumption DEF NotYetIn, HasCall
<1>18. Stage(q)'
  BY <1>1, <1>3, <1>4, <1>11, <1>17 DEF Stage
<1>19. ASSUME NEW t \in Tabs
       PROVE  InboxFits(t)'
  <2>1. CASE Owner[t] # u0
    BY <1>8, <2>1 DEF InboxFits
  <2>2. CASE Owner[t] = u0
    <3>1. inbox'[t] = <<e>>
      BY <1>8, <2>2
    <3>2. FrameFits(t, e)'
      BY <1>1, <1>3, <1>4, <1>7, <1>10, <1>11, <2>2 DEF FrameFits, Brings, Closes
    <3> QED BY <1>7, <3>1, <3>2 DEF InboxFits
  <2> QED BY <2>1, <2>2
<1>20. ASSUME NEW d \in Calls
       PROVE  CallFits(d)'
  <2>1. CallFits(d) /\ \A u : Speaks(d, u) => Carried(d, u)'
    BY <1>3 DEF Conversation, Carried, Speaks
  <2>2. CASE d = c
    <3>1. StandsFor(q, c, r.by)
      BY <1>1, <1>3, <1>4 DEF StandsFor
    <3>2. Carried(c, r.by)'
      BY <1>4, <3>1 DEF Carried, StandsFor
    <3>3. Carried(c, u0)'
      BY <1>2, <1>5, <1>10, <2>1, <2>2 DEF CallFits, Live
    <3> QED BY <1>11, <2>2, <3>2, <3>3 DEF CallFits
  <2>3. CASE d # c
    BY <1>5, <1>11, <2>1, <2>3 DEF CallFits, Live
  <2> QED BY <2>2, <2>3
<1>21. \A d \in Calls : store[d].status # "unused" =>
         store'[d].from = store[d].from /\ store'[d].to = store[d].to
  BY <1>2, <1>10, <1>11
<1> QED BY <1>3, <1>4, <1>14, <1>16, <1>18, <1>19, <1>20, <1>21, ServerStep

(***************************************************************************)
(* The other party is told. Whoever is in the call now knows of its end:   *)
(* the tabs of the other party by the frame, and the one that asked.       *)
(***************************************************************************)
LEMMA TellClosedStays ==
  ASSUME TypeOK, CallsAreKnown, Conversation, mishaps = 0, mishaps' = 0,
         NEW r \in requests, TellClosed(r)
  PROVE  Conversation'
<1>1. r \in RequestRecord /\ r.pc = "tell" /\ Stage(r) /\ Awaited(r)
  BY DEF TellClosed, Conversation, TypeOK
<1>2. r.op \in {"decline", "end"}
  BY <1>1 DEF Stage, RequestRecord
<1>3. PICK c \in Calls : c = r.call
  BY <1>1, <1>2 DEF CallsAreKnown
<1>4. PICK u0, event : u0 = Other(c, r.by) /\ event = ClosedEvent(r.op)
  OBVIOUS
<1>5. /\ Broadcast(u0, event, c) /\ Goto(r, "remove")
      /\ UNCHANGED <<store, userCall, tab>>
  BY <1>3, <1>4 DEF TellClosed
<1>6. PICK q : /\ requests' = {q} /\ q.op = r.op /\ q.by = r.by /\ q.tab = r.tab
               /\ q.call = r.call /\ q.peer = r.peer /\ q.pc = "remove"
  BY <1>5, NextStage
<1>7. /\ \A t \in Tabs : inbox[t] = <<>>
      /\ \A d : \A t \in Tabs : Told(t, d) => Asking(t, "end")
      /\ \A d, u : Carried(d, u) => Speaks(d, u)
  BY <1>1, NoFramesYet
<1>8. PICK e : e = [event |-> event, call |-> c]
  OBVIOUS
<1>9. e \in Frame /\ Closes(e) /\ e.call = c /\ [event |-> event, call |-> c] \in Frame
  BY <1>4, <1>8 DEF Frame, ClosedEvent, Closes
<1>10. \A t \in Tabs : inbox'[t] = IF Owner[t] = u0 THEN <<e>> ELSE <<>>
  BY <1>5, <1>7, <1>8, <1>9, NobodyMissesIt
<1>11. Keys /\ OneLine /\ requests = {r}
  BY DEF Conversation, Alone
<1>12. /\ Live(c) /\ r.by \in Party(c) /\ store[c].from # store[c].to
       /\ r.op = "decline" => store[c].status = "ringing" /\ store[c].to = r.by
  BY <1>1, <1>2, <1>3, <1>11 DEF Stage, Keys, Live, Party
<1>13. u0 \in Party(c) /\ u0 # r.by /\ \A u \in Party(c) : u = u0 \/ u = r.by
  BY <1>4, <1>12 DEF Other, Party
<1>14. Keys'
  BY <1>5, <1>11 DEF Keys, Live, Party
<1>15. \A t : Asking(t, "end")' <=> Asking(t, "end")
  BY <1>6, <1>11 DEF Asking
<1>16. AllTold(c)'
  <2>1. ASSUME NEW t \in Tabs, tab[t].active = c
        PROVE  Told(t, c)'
    <3>1. HasCall(tab[t]) /\ Refers(t, tab[t])
      BY <2>1, OldTab, CallAssumption DEF HasCall
    <3>2. CASE Owner[t] = u0
      <4>1. inbox'[t] = <<e>>
        BY <1>10, <3>2
      <4> QED BY <1>9, <4>1 DEF Told, Closes
    <3>3. CASE Owner[t] # u0
      <4>1. Owner[t] = r.by
        BY <1>13, <2>1, <3>1, <3>3 DEF Refers
      <4>2. r.op = "end"
        BY <1>2, <1>12, <2>1, <3>1, <4>1 DEF Refers
      <4>3. r.tab \in Tabs /\ r.by = Owner[r.tab] /\ tab[r.tab].active = c
        BY <1>1, <1>3, <4>2 DEF Awaited, Suits, RequestRecord
      <4>4. t = r.tab
        BY <1>11, <2>1, <3>1, <4>1, <4>3 DEF OneLine
      <4>5. Asking(t, "end")
        BY <4>2, <4>4 DEF Asking
      <4> QED BY <1>15, <4>5 DEF Told
    <3> QED BY <3>2, <3>3
  <2> QED BY <1>5, <2>1 DEF AllTold
<1>17. Stage(q)'
  BY <1>1, <1>2, <1>3, <1>5, <1>6, <1>12, <1>16 DEF Stage, Live, Party
<1>18. \A t \in Tabs : HasCall(tab[t]) =>
         /\ (Live(tab[t].active) \/ Told(t, tab[t].active))'
         /\ store'[tab[t].active].status = "ringing" =>
              store[tab[t].active].status = "ringing"
  <2>1. ASSUME NEW t \in Tabs, HasCall(tab[t])
        PROVE  (Live(tab[t].active) \/ Told(t, tab[t].active))'
    <3>1. Live(tab[t].active) \/ Asking(t, "end")
      BY <1>7, <2>1, OldTab DEF Refers
    <3> QED BY <1>5, <1>15, <3>1 DEF Live, Told
  <2> QED BY <1>5, <2>1
<1>19. ASSUME NEW t \in Tabs
       PROVE  InboxFits(t)'
  <2>1. CASE Owner[t] # u0
    BY <1>10, <2>1 DEF InboxFits
  <2>2. CASE Owner[t] = u0
    <3>1. inbox'[t] = <<e>>
      BY <1>10, <2>2
    <3>2. FrameFits(t, e)'
      BY <1>2, <1>3, <1>5, <1>6, <1>9, <1>13, <2>2 DEF FrameFits, Brings, Closes, Party
    <3> QED BY <1>9, <3>1, <3>2 DEF InboxFits
  <2> QED BY <2>1, <2>2
<1>20. ASSUME NEW d \in Calls
       PROVE  CallFits(d)'
  <2>1. CallFits(d) /\ \A u : Speaks(d, u) => Carried(d, u)'
    BY <1>5 DEF Conversation, Carried, Speaks
  <2> QED BY <1>5, <1>7, <2>1 DEF CallFits, Live
<1>21. \A d \in Calls : store[d].status # "unused" =>
         store'[d].from = store[d].from /\ store'[d].to = store[d].to
  BY <1>5
<1> QED BY <1>5, <1>6, <1>14, <1>17, <1>18, <1>19, <1>20, <1>21, ServerStep

(***************************************************************************)
(* The call is removed: every tab in it was told.                          *)
(***************************************************************************)
LEMMA RemoveActiveCallStays ==
  ASSUME TypeOK, CallsAreKnown, Conversation, NEW r \in requests, RemoveActiveCall(r)
  PROVE  Conversation'
<1>1. r \in RequestRecord /\ r.pc = "remove" /\ Stage(r)
  BY DEF RemoveActiveCall, Conversation, TypeOK
<1>2. r.op \in {"decline", "end"}
  BY <1>1 DEF Stage, RequestRecord
<1>3. PICK c \in Calls : c = r.call
  BY <1>1, <1>2 DEF CallsAreKnown
<1>4. Live(c) /\ AllTold(c) /\ (r.op = "decline" => store[c].to = r.by)
      /\ (r.op = "end" => r.by \in Party(c))
  BY <1>1, <1>2, <1>3 DEF Stage, Live
<1>5. /\ store' = [store EXCEPT ![c].status = "gone"]
      /\ userCall' = [u \in Users |-> IF u \in Party(c) THEN NoCall ELSE userCall[u]]
      /\ Goto(r, "ok") /\ UNCHANGED <<inbox, tab>>
  BY <1>3, <1>4 DEF RemoveActiveCall
<1>6. PICK q : /\ requests' = {q} /\ q.op = r.op /\ q.by = r.by /\ q.tab = r.tab
               /\ q.call = r.call /\ q.peer = r.peer /\ q.pc = "ok"
  BY <1>5, NextStage
<1>7. Keys /\ requests = {r}
  BY DEF Conversation, Alone
<1>8. /\ store'[c].status = "gone" /\ store'[c].from = store[c].from
      /\ store'[c].to = store[c].to
      /\ \A d \in Calls \ {c} : store'[d] = store[d]
  BY <1>5 DEF TypeOK, CallRecord
<1>9. /\ ~ Live(c)' /\ \A d \in Calls : Party(d)' = Party(d)
      /\ \A d \in Calls \ {c} : Live(d)' <=> Live(d)
  BY <1>8 DEF Live, Party
<1>10. Keys'
  <2>1. ASSUME NEW d \in Calls
        PROVE  /\ store'[d].status = "unused" => Party(d)' = {NoUser}
               /\ store'[d].status # "unused" =>
                    /\ store'[d].from \in Users /\ store'[d].to \in Users
                    /\ store'[d].from # store'[d].to
    BY <1>4, <1>7, <1>8, <1>9 DEF Keys, Live
  <2>2. ASSUME NEW u \in Users, NEW d \in Calls
        PROVE  userCall'[u] = d <=> Live(d)' /\ u \in Party(d)'
    <3>1. userCall'[u] = IF u \in Party(c) THEN NoCall ELSE userCall[u]
      BY <1>5
    <3>2. /\ userCall[u] = d <=> Live(d) /\ u \in Party(d)
          /\ userCall[u] = c <=> Live(c) /\ u \in Party(c)
      BY <1>7 DEF Keys
    <3>3. d # NoCall
      BY CallAssumption
    <3>4. CASE d = c
      BY <1>4, <1>9, <3>1, <3>2, <3>3, <3>4
    <3>5. CASE d # c
      BY <1>4, <1>9, <3>1, <3>2, <3>3, <3>5
    <3> QED BY <3>4, <3>5
  <2> QED BY <2>1, <2>2 DEF Keys
<1>11. \A d : \A t : Told(t, d) => Told(t, d)'
  <2>1. \A t : Asking(t, "end") => Asking(t, "end")'
    BY <1>6, <1>7 DEF Asking
  <2> QED BY <1>5, <2>1 DEF Told, Closes
<1>12. \A t \in Tabs : HasCall(tab[t]) =>
         /\ (Live(tab[t].active) \/ Told(t, tab[t].active))'
         /\ store'[tab[t].active].status = "ringing" =>
              store[tab[t].active].status = "ringing"
  <2>1. ASSUME NEW t \in Tabs, HasCall(tab[t])
        PROVE  /\ (Live(tab[t].active) \/ Told(t, tab[t].active))'
               /\ store'[tab[t].active].status = "ringing" =>
                    store[tab[t].active].status = "ringing"
    <3>1. PICK d \in Calls : d = tab[t].active
      BY <2>1, OldTab DEF HasCall, TabRecord
    <3>2. Live(d) \/ Told(t, d)
      BY <2>1, <3>1, OldTab DEF Refers
    <3>3. CASE d = c
      <4>1. Told(t, d)'
        BY <1>4, <1>11, <3>1, <3>3 DEF AllTold
      <4> QED BY <1>5, <1>8, <3>1, <3>3, <4>1
    <3>4. CASE d # c
      <4>1. Live(d)' \/ Told(t, d)'
        BY <1>9, <1>11, <3>2, <3>4
      <4> QED BY <1>5, <1>8, <3>1, <3>4, <4>1
    <3> QED BY <3>3, <3>4
  <2> QED BY <2>1
<1>13. Stage(q)'
  BY <1>2, <1>3, <1>4, <1>6, <1>8, <1>9 DEF Stage
<1>14. ASSUME NEW t \in Tabs
       PROVE  InboxFits(t)'
  <2>1. CASE inbox[t] = <<>>
    BY <1>5, <2>1 DEF InboxFits
  <2>2. ASSUME NEW e \in Frame, inbox[t] = <<e>>, FrameFits(t, e)
        PROVE  InboxFits(t)'
    <3>1. Closes(e) /\ e.call = c /\ Owner[t] # r.by
      BY <1>1, <1>2, <1>3, <2>2 DEF FrameFits, Brings
    <3>2. FrameFits(t, e)'
      BY <1>2, <1>3, <1>6, <1>9, <2>2, <3>1 DEF FrameFits, Brings, Closes
    <3> QED BY <1>5, <2>2, <3>2 DEF InboxFits
  <2> QED BY <2>1, <2>2 DEF Conversation, InboxFits
<1>15. ASSUME NEW d \in Calls
       PROVE  CallFits(d)'
  <2>1. CASE d = c
    BY <1>8, <1>9, <2>1 DEF CallFits
  <2>2. CASE d # c
    <3>1. CallFits(d) /\ \A u : Speaks(d, u) => Carried(d, u)'
      BY <1>5 DEF Conversation, Carried, Speaks
    <3>2. \A u : Carried(d, u) => Speaks(d, u)
      BY <1>3, <1>7, <2>2 DEF Carried, StandsFor
    <3> QED BY <1>8, <2>2, <3>1, <3>2 DEF CallFits, Live
  <2> QED BY <2>1, <2>2
<1>16. \A d \in Calls : store[d].status # "unused" =>
         store'[d].from = store[d].from /\ store'[d].to = store[d].to
  BY <1>8
<1> QED BY <1>5, <1>6, <1>10, <1>12, <1>13, <1>14, <1>15, <1>16, ServerStep

-----------------------------------------------------------------------------
(***************************************************************************)
(* Frames that were missed stay counted.                                   *)
(***************************************************************************)
LEMMA MishapsAreKept ==
  ASSUME TypeOK, NEW u, NEW event, NEW c, Broadcast(u, event, c), mishaps' = 0
  PROVE  mishaps = 0
<1>1. PICK missed \in SUBSET {t \in Tabs : Owner[t] = u} :
        mishaps' = mishaps + Cardinality(missed)
  BY DEF Broadcast
<1>2. Cardinality(missed) \in Nat
  BY CallAssumption, FS_Subset, FS_CardinalityType
<1>3. mishaps \in Nat
  BY CallAssumption DEF TypeOK
<1> QED BY <1>1, <1>2, <1>3

(***************************************************************************)
(* The invariant holds at the start.                                       *)
(***************************************************************************)
LEMMA ConversationInit ==
  ASSUME Init
  PROVE  ConversationInv
<1>1. /\ requests = {} /\ \A c \in Calls : store[c].status = "unused"
      /\ \A c \in Calls : Party(c) = {NoUser}
      /\ \A u \in Users : userCall[u] = NoCall
      /\ \A t \in Tabs : inbox[t] = <<>> /\ tab[t] = FreshTab
  BY DEF Init, Party
<1>2. Alone /\ \A r \in requests : Awaited(r) /\ Stage(r)
  BY <1>1 DEF Alone
<1>3. Keys
  BY <1>1, CallAssumption DEF Keys, Live
<1>4. \A t \in Tabs : /\ Free(tab[t]) /\ tab[t].pendingStart = NoUser
                      /\ tab[t].pendingIncoming = NoCall /\ tab[t].incoming = NoCall
  BY <1>1 DEF FreshTab, Free, HasCall, NoTimer
<1>5. OneLine
  BY <1>4 DEF OneLine, Free
<1>6. \A t \in Tabs : TabFits(t) /\ InboxFits(t)
  BY <1>1, <1>4, CallAssumption DEF TabFits, Shape, Refers, InboxFits, Free
<1>7. \A c \in Calls : CallFits(c)
  BY <1>1 DEF CallFits, Live
<1> QED BY <1>2, <1>3, <1>5, <1>6, <1>7 DEF Conversation, ConversationInv

(***************************************************************************)
(* The steps of the server keep the invariant.                             *)
(***************************************************************************)
LEMMA ServeStays ==
  ASSUME TypeOK, CallsAreKnown, ConversationInv, NEW r \in requests, Serve(r) \/ Answer(r)
  PROVE  ConversationInv'
<1>1. SUFFICES ASSUME calm', mishaps' = 0
               PROVE  Conversation'
  BY DEF ConversationInv
<1>2. calm /\ mishaps = 0
  <2>1. calm' = calm
    BY DEF Serve, CheckParties, SaveNewCall, ReadForAccept, SaveAccepted, ReadForClose,
           TellClosed, RemoveActiveCall, Answer
  <2>2. \/ mishaps' = mishaps
        \/ CheckParties(r) \/ SaveNewCall(r) \/ SaveAccepted(r) \/ TellClosed(r)
    BY DEF Serve, ReadForAccept, ReadForClose, RemoveActiveCall, Answer
  <2>3. CASE CheckParties(r)
    <3>1. mishaps' = mishaps \/ \E unread \in SUBSET {r.by, r.peer} :
                                  mishaps' = mishaps + Cardinality(unread)
      BY <2>3 DEF CheckParties
    <3>2. mishaps \in Nat
      BY CallAssumption DEF TypeOK
    <3>3. ASSUME NEW unread \in SUBSET {r.by, r.peer},
                 mishaps' = mishaps + Cardinality(unread)
          PROVE  mishaps = 0
      <4>1. Cardinality(unread) \in Nat
        BY <3>3, UnreadLemma
      <4> QED BY <1>1, <3>2, <3>3, <4>1
    <3>4. mishaps = 0
      BY <1>1, <3>1, <3>3
    <3> QED BY <2>1, <3>4, <1>1
  <2>4. CASE ~ CheckParties(r)
    <3>1. mishaps = 0
      BY <1>1, <2>2, <2>4, MishapsAreKept DEF SaveNewCall, SaveAccepted, TellClosed
    <3> QED BY <1>1, <2>1, <3>1
  <2> QED BY <2>3, <2>4
<1>3. Conversation
  BY <1>2 DEF ConversationInv
<1> QED
  BY <1>1, <1>2, <1>3, CheckPartiesStays, SaveNewCallStays, ReadForAcceptStays,
     SaveAcceptedStays, ReadForCloseStays, TellClosedStays, RemoveActiveCallStays,
     AnswerStays DEF Serve

(***************************************************************************)
(* The steps of a tab keep the invariant.                                  *)
(***************************************************************************)
LEMMA TabStays ==
  ASSUME TypeOK, CallsAreKnown, ConversationInv, NEW t \in Tabs,
         Click(t) \/ Client(t) \/ RingTimeout(t) \/ Probe(t)
  PROVE  ConversationInv'
<1>1. SUFFICES ASSUME calm', mishaps' = 0
               PROVE  Conversation'
  BY DEF ConversationInv
<1>2. calm
  BY <1>1 DEF Click, Client, ClickCall, HangUp, AcceptIncoming, DeclineIncoming,
              HangUpOrphan, MountRuntime, StartQueued, ReceiveEvent, RingTimeout, Probe,
              DoHangup, Send, SendIf
<1>3. mishaps = 0
  BY <1>1 DEF Click, Client, ClickCall, HangUp, AcceptIncoming, DeclineIncoming,
              HangUpOrphan, MountRuntime, StartQueued, ReceiveEvent, RingTimeout, Probe
<1>4. Conversation
  BY <1>2, <1>3 DEF ConversationInv
<1>5. ~ HangUpOrphan(t)
  BY <1>1 DEF HangUpOrphan, SendIf
<1>6. ASSUME Click(t)
      PROVE  Conversation'
  BY <1>1, <1>4, <1>5, <1>6, ClickCallStays, HangUpStays, AskStays DEF Click
<1>7. ASSUME Client(t)
      PROVE  Conversation'
  BY <1>1, <1>4, <1>7, MountRuntimeStays, StartQueuedStays, ReceiveEventStays DEF Client
<1> QED BY <1>1, <1>4, <1>6, <1>7, RingTimeoutStays, ProbeStays

(***************************************************************************)
(* Every step keeps the invariant.                                         *)
(***************************************************************************)
LEMMA ConversationNext ==
  ASSUME CInv, ConversationInv, [Next]_vars
  PROVE  ConversationInv'
<1>1. TypeOK /\ CallsAreKnown /\ mishaps \in Nat
  BY CallAssumption DEF CInv, TypeOK
<1>2. ASSUME NEW r \in requests, Serve(r) \/ Answer(r)
      PROVE  ConversationInv'
  BY <1>1, <1>2, ServeStays
<1>3. ASSUME NEW t \in Tabs, Click(t) \/ Client(t) \/ RingTimeout(t) \/ Probe(t)
      PROVE  ConversationInv'
  BY <1>1, <1>3, TabStays
<1>4. ASSUME NEW t \in Tabs, Reload(t)
      PROVE  ConversationInv'
  BY <1>1, <1>4 DEF Reload, ConversationInv
<1>5. ASSUME NEW c \in Calls, Expire(c)
      PROVE  ConversationInv'
  BY <1>1, <1>5 DEF Expire, ConversationInv
<1>6. ASSUME NEW r \in requests, Cut(r)
      PROVE  ConversationInv'
  BY <1>1, <1>6 DEF Cut, ConversationInv
<1>7. CASE UNCHANGED vars
  <2>1. Alone' /\ Keys' /\ OneLine' <=> Alone /\ Keys /\ OneLine
    BY <1>7 DEF vars, Alone, Keys, OneLine, Live, Party, HasCall
  <2>2. \A t \in Tabs : TabFits(t)' <=> TabFits(t)
    BY <1>7 DEF vars, TabFits, Shape, Refers, Live, Party, Told, Asking, Closes
  <2>3. \A t \in Tabs : InboxFits(t)' <=> InboxFits(t)
    BY <1>7 DEF vars, InboxFits, FrameFits, Brings, Closes, Live, Party
  <2>4. \A r \in requests : Awaited(r)' <=> Awaited(r)
    BY <1>7 DEF vars, Awaited, Suits
  <2>5. \A c : (AllTold(c)' <=> AllTold(c))
    BY <1>7 DEF vars, AllTold, Told, Asking, Closes
  <2>6. \A u, c : NotYetIn(u, c)' <=> NotYetIn(u, c)
    BY <1>7 DEF vars, NotYetIn
  <2>7. \A r \in requests : Stage(r)' <=> Stage(r)
    BY <1>7, <2>5, <2>6 DEF vars, Stage, Live, Party
  <2>8. \A c \in Calls : CallFits(c)' <=> CallFits(c)
    BY <1>7 DEF vars, CallFits, Carried, Speaks, StandsFor, Live
  <2>9. Conversation' <=> Conversation
    BY <1>7, <2>1, <2>2, <2>3, <2>4, <2>7, <2>8 DEF vars, Conversation
  <2> QED BY <1>7, <2>9 DEF vars, ConversationInv
<1> QED BY <1>2, <1>3, <1>4, <1>5, <1>6, <1>7 DEF Next, ServeSome

(***************************************************************************)
(* Whatever the users do, one request after the other and without mishaps, *)
(* the tabs, the frames, the requests and Redis fit together.              *)
(***************************************************************************)
THEOREM ConversationsHold ==
  Spec => []ConversationInv
<1>1. Init => ConversationInv
  BY ConversationInit
<1>2. CInv /\ ConversationInv /\ [Next]_vars => ConversationInv'
  BY ConversationNext
<1> QED BY <1>1, <1>2, CallInductive, PTL DEF Spec

(***************************************************************************)
(* A quiet tab is idle without a call, or talks in an active call of its   *)
(* user.                                                                   *)
(***************************************************************************)
LEMMA QuietTabs ==
  ASSUME TypeOK, Conversation, Quiet, NEW t \in Tabs
  PROVE  \/ tab[t].ui = "idle" /\ tab[t].active = NoCall
         \/ /\ tab[t].ui = "active" /\ tab[t].active \in Calls
            /\ store[tab[t].active].status = "active"
            /\ Owner[t] \in Party(tab[t].active)
<1>1. PICK s : s = tab[t]
  OBVIOUS
<1>2. s \in TabRecord /\ Shape(t, s) /\ Refers(t, s)
  BY <1>1, OldTab
<1>3. /\ s.timers = <<>> /\ inbox[t] = <<>> /\ \A op : ~ Asking(t, op)
  BY <1>1 DEF Quiet, Settled, Asking
<1>4. \A timer \in Timer : ~ OneTimer(s, timer)
  BY <1>3, OneElement DEF OneTimer
<1>5. \/ Free(s)
      \/ Talks(s) /\ store[s.active].status # "ringing"
  <2>1. ~ RingsIn(s)
    BY <1>4 DEF RingsIn, Timer
  <2>2. Hangup \in Timer
    BY DEF Timer
  <2> QED BY <1>2, <1>3, <1>4, <2>1, <2>2 DEF Shape
<1>6. CASE Free(s)
  BY <1>1, <1>6 DEF Free, HasCall
<1>7. CASE Talks(s) /\ store[s.active].status # "ringing"
  <2>1. ~ Told(t, s.active)
    BY <1>3, OneElement DEF Told
  <2> QED BY <1>1, <1>2, <1>7, <2>1 DEF Talks, HasCall, Refers, Live, TabRecord
<1> QED BY <1>5, <1>6, <1>7

(***************************************************************************)
(* Each party of a call that is alive in a quiet state talks in one of its *)
(* tabs.                                                                   *)
(***************************************************************************)
LEMMA QuietCalls ==
  ASSUME TypeOK, Conversation, Quiet, NEW c \in Calls, Live(c)
  PROVE  \A u \in Party(c) : \E t \in Tabs : Owner[t] = u /\ InCall(t, c)
<1>1. CallFits(c) /\ \A u : Carried(c, u) => Speaks(c, u)
  BY DEF Conversation, Quiet, Settled, Carried
<1>2. ASSUME NEW u, Speaks(c, u)
      PROVE  /\ \E t \in Tabs : Owner[t] = u /\ InCall(t, c)
             /\ store[c].status = "active"
  <2>1. PICK t \in Tabs : Owner[t] = u /\ tab[t].active = c
    BY <1>2 DEF Speaks
  <2>2. c # NoCall
    BY CallAssumption
  <2>3. tab[t].ui = "active" /\ store[c].status = "active"
    BY <2>1, <2>2, QuietTabs
  <2> QED BY <2>1, <2>3 DEF InCall
<1>3. store[c].status = "active"
  BY <1>1, <1>2 DEF CallFits
<1> QED BY <1>1, <1>2, <1>3 DEF CallFits, Party

(***************************************************************************)
(* When nothing is under way any more and nothing went wrong, a tab of     *)
(* useCall is idle, or in a call that is active in Redis and that a tab of *)
(* the other party is in as well: for any number of users, tabs (several   *)
(* of one user among them) and calls.                                      *)
(***************************************************************************)
THEOREM QuietTabsAlwaysAgree ==
  Spec => []QuietTabsAgree
<1>1. CInv /\ ConversationInv => QuietTabsAgree
  <2> SUFFICES ASSUME CInv, ConversationInv, Quiet, calm, mishaps = 0, NEW t \in Tabs,
                      NEW c, c = tab[t].active
               PROVE  /\ tab[t].ui = IF c = NoCall THEN "idle" ELSE "active"
                      /\ c # NoCall =>
                           /\ store[c].status = "active"
                           /\ \E p \in Tabs : Owner[p] = Other(c, Owner[t]) /\ InCall(p, c)
    BY DEF QuietTabsAgree
  <2>1. TypeOK /\ Conversation
    BY DEF CInv, ConversationInv
  <2>2. CASE tab[t].ui = "idle" /\ c = NoCall
    BY <2>2
  <2>3. CASE /\ tab[t].ui = "active" /\ c \in Calls /\ store[c].status = "active"
             /\ Owner[t] \in Party(c)
    <3>1. Live(c) /\ Other(c, Owner[t]) \in Party(c)
      BY <2>3 DEF Live, Other, Party
    <3>2. \E p \in Tabs : Owner[p] = Other(c, Owner[t]) /\ InCall(p, c)
      BY <2>1, <2>3, <3>1, QuietCalls
    <3> QED BY <2>3, <3>2, CallAssumption
  <2> QED BY <2>1, <2>2, <2>3, QuietTabs
<1> QED BY <1>1, CallInductive, ConversationsHold, PTL

(***************************************************************************)
(* A user who is refused as "already in a call" is talking in one of the   *)
(* tabs, then.                                                             *)
(***************************************************************************)
THEOREM BusyIsAlwaysReal ==
  Spec => []BusyIsReal
<1>1. CInv /\ ConversationInv => BusyIsReal
  <2> SUFFICES ASSUME CInv, ConversationInv, Quiet, calm, mishaps = 0,
                      NEW u \in Users, Busy(u)
               PROVE  \E t \in Tabs : Owner[t] = u /\ InCall(t, userCall[u])
    BY DEF BusyIsReal
  <2>1. TypeOK /\ Conversation /\ Keys
    BY DEF CInv, ConversationInv, Conversation
  <2>2. userCall[u] \in Calls /\ Live(userCall[u])
    BY <2>1 DEF TypeOK, Busy
  <2>3. u \in Party(userCall[u])
    BY <2>1, <2>2 DEF Keys
  <2> QED BY <2>1, <2>2, <2>3, QuietCalls
<1> QED BY <1>1, CallInductive, ConversationsHold, PTL
=============================================================================
