--------------------------------- MODULE Call ---------------------------------
(***************************************************************************)
(* Audio and video calls: the call service of the API (app/call over the   *)
(* Redis keys of adapter/redis/call_state.go) and the web client           *)
(* (web/src/features/call), which keeps a state machine of its own in      *)
(* every browser tab and learns of the other side by events alone.         *)
(*                                                                         *)
(* A request runs on the server step by step, one action per access to     *)
(* Redis or broadcast, and its answer reaches the tab as an action of its  *)
(* own: events, ring timers and clicks come in between.  The LiveKit room  *)
(* is left out, but for the duration of a call nothing depends on it.      *)
(***************************************************************************)
EXTENDS Naturals, Sequences, FiniteSets, SequencesExt

CONSTANTS
  Users,       \* people who may call each other
  Tabs,        \* browser tabs, each with one CallSlot
  Owner,       \* Owner[t]: the user logged in at tab t
  Calls,       \* call ids that may be drawn
  NoCall, NoUser, NoTab,
  MaxRequests, \* bound: requests in flight at once
  Dialers,     \* the tabs where somebody may press the call button
  MaxMishaps   \* bound: lost events, cut requests, failed reads of a user's
               \* call, reloads and expiries

ASSUME CallAssumption ==
  /\ IsFiniteSet(Tabs) /\ Owner \in [Tabs -> Users] /\ Dialers \subseteq Tabs
  /\ NoCall \notin Calls /\ NoUser \notin Users /\ NoTab \notin Tabs
  /\ MaxRequests \in Nat \ {0} /\ MaxMishaps \in Nat

VARIABLES
  store,       \* Redis call:{id}: [status, from, to]
  userCall,    \* Redis call:user:{id}
  requests,    \* API requests that are running or not yet answered
  inbox,       \* inbox[t]: call_event frames on their way to tab t
  tab,         \* tab[t]: state of CallSlot, CallRuntime and useCall
  mishaps,     \* so far
  calm         \* so far no request started before the last one was answered and
               \* its frames were handled, none was sent by the reconcile toast, and no runtime replayed
               \* an outgoing and an incoming call at once

serverVars == <<store, userCall>>
vars == <<store, userCall, requests, inbox, tab, mishaps, calm>>

Live(c) == store[c].status \in {"ringing", "active"}
Party(c) == {store[c].from, store[c].to}
Other(c, u) == IF store[c].from = u THEN store[c].to ELSE store[c].from

\* GetActiveCallByUser: both keys have to be there.
Busy(u) == userCall[u] # NoCall /\ Live(userCall[u])

-----------------------------------------------------------------------------
(***************************************************************************)
(* A tab.  slot says how far the lazily loaded CallRuntime is.  timers are *)
(* the ring timers that are armed, oldest first; ref says whether          *)
(* ringTimerRef still names the last one.                                  *)
(***************************************************************************)
FreshTab == [slot |-> "cold", pendingStart |-> NoUser, pendingIncoming |-> NoCall,
             consumedStart |-> FALSE, probed |-> FALSE, orphan |-> NoCall,
             ui |-> "idle", active |-> NoCall, incoming |-> NoCall,
             timers |-> <<>>, ref |-> FALSE]

Request(op, u, t, c, peer) ==
  [op |-> op, by |-> u, tab |-> t, call |-> c, peer |-> peer,
   pc |-> IF op = "initiate" THEN "check" ELSE "get"]

Hangup == [kind |-> "hangup", call |-> NoCall]
AutoDecline(c) == [kind |-> "decline", call |-> c]

Arm(s, timer) == [s EXCEPT !.timers = Append(@, timer), !.ref = TRUE]

ClearTimers(s) ==
  IF s.ref THEN [s EXCEPT !.timers = Front(@), !.ref = FALSE] ELSE s

Cleanup(s) ==
  [ClearTimers(s) EXCEPT !.ui = "idle", !.active = NoCall, !.incoming = NoCall]

Init ==
  /\ store = [c \in Calls |-> [status |-> "unused", from |-> NoUser, to |-> NoUser]]
  /\ userCall = [u \in Users |-> NoCall]
  /\ requests = {}
  /\ inbox = [t \in Tabs |-> <<>>]
  /\ tab = [t \in Tabs |-> FreshTab]
  /\ mishaps = 0
  /\ calm = TRUE

-----------------------------------------------------------------------------
(***************************************************************************)
(* The server: one step of request r.                                      *)
(***************************************************************************)
Goto(r, pc) == requests' = (requests \ {r}) \cup {[r EXCEPT !.pc = pc]}

At(r, op, pc) == r.op = op /\ r.pc = pc

\* Broadcast through the Redis stream and the hubs: a tab whose socket is
\* down, or whose buffer is full, misses the frame for good.
Broadcast(u, event, c) ==
  \E missed \in SUBSET {t \in Tabs : Owner[t] = u} :
    /\ mishaps + Cardinality(missed) <= MaxMishaps
    /\ mishaps' = mishaps + Cardinality(missed)
    /\ inbox' = [t \in Tabs |->
         IF Owner[t] = u /\ t \notin missed
         THEN Append(inbox[t], [event |-> event, call |-> c]) ELSE inbox[t]]

\* SaveActiveCall: three SETs in one pipeline, whatever the keys held.
SaveActiveCall(c, status) ==
  /\ store' = [store EXCEPT ![c].status = status]
  /\ userCall' = [u \in Users |-> IF u \in Party(c) THEN c ELSE userCall[u]]

\* Initiate.  Is one of the two in a call already (a read that fails says
\* no), and is the recipient online (a presence key that may have lapsed)?
\* Then an id is drawn.
CheckParties(r) ==
  /\ At(r, "initiate", "check")
  /\ \/ Goto(r, "err") /\ UNCHANGED <<store, mishaps>>
     \/ /\ \E unread \in SUBSET {r.by, r.peer} :
             /\ \A u \in {r.by, r.peer} \ unread : ~ Busy(u)
             /\ mishaps + Cardinality(unread) <= MaxMishaps
             /\ mishaps' = mishaps + Cardinality(unread)
        /\ \E c \in Calls :
             /\ store[c].status = "unused"
             /\ store' = [store EXCEPT ![c] =
                            [status |-> "new", from |-> r.by, to |-> r.peer]]
             /\ requests' = (requests \ {r})
                              \cup {[r EXCEPT !.call = c, !.pc = "save"]}
  /\ UNCHANGED <<userCall, inbox, tab, calm>>

\* ... and the call is saved without another look, and rings.
SaveNewCall(r) ==
  /\ At(r, "initiate", "save")
  /\ SaveActiveCall(r.call, "ringing")
  /\ Broadcast(r.peer, "call_incoming", r.call)
  /\ Goto(r, "ok")
  /\ UNCHANGED <<tab, calm>>

\* Accept: the call as it was read is written back with its new status.
ReadForAccept(r) ==
  /\ At(r, "accept", "get")
  /\ Goto(r, IF store[r.call].status = "ringing" /\ store[r.call].to = r.by
             THEN "save" ELSE "err")
  /\ UNCHANGED <<store, userCall, inbox, tab, mishaps, calm>>

SaveAccepted(r) ==
  /\ At(r, "accept", "save")
  /\ SaveActiveCall(r.call, "active")
  /\ Broadcast(store[r.call].from, "call_accepted", r.call)
  /\ Goto(r, "ok")
  /\ UNCHANGED <<tab, calm>>

\* Fault: an accepted call can not be ended.
ClosableWhileRinging(op) == {"ringing"}

\* Fault: a call that is still ringing can not be ended by its initiator.
ClosableOnceActive(op) == IF op = "decline" THEN {"ringing"} ELSE {"active"}

\* Decline and End: the other party is told before the call is removed.
Closable(op) == IF op = "decline" THEN {"ringing"} ELSE {"ringing", "active"}
ClosedEvent(op) == IF op = "decline" THEN "call_declined" ELSE "call_ended"

ReadForClose(r) ==
  /\ r.op \in {"decline", "end"} /\ r.pc = "get"
  /\ Goto(r, IF store[r.call].status \in Closable(r.op) /\ r.by \in Party(r.call)
             THEN "tell" ELSE "err")
  /\ UNCHANGED <<store, userCall, inbox, tab, mishaps, calm>>

TellClosed(r) ==
  /\ r.pc = "tell"
  /\ Broadcast(Other(r.call, r.by), ClosedEvent(r.op), r.call)
  /\ Goto(r, "remove")
  /\ UNCHANGED <<store, userCall, tab, calm>>

\* Fault: the ended call is saved instead of removed.
KeepEndedCall(r) ==
  /\ r.pc = "remove"
  /\ store' = [store EXCEPT ![r.call].status = "ended"]
  /\ userCall' = [u \in Users |-> IF u \in Party(r.call) THEN NoCall ELSE userCall[u]]
  /\ Goto(r, "ok")
  /\ UNCHANGED <<inbox, tab, mishaps, calm>>

\* RemoveActiveCall: the user keys go too, whichever call they name by now.
RemoveActiveCall(r) ==
  /\ r.pc = "remove"
  /\ IF Live(r.call)
     THEN /\ store' = [store EXCEPT ![r.call].status = "gone"]
          /\ userCall' = [u \in Users |->
                            IF u \in Party(r.call) THEN NoCall ELSE userCall[u]]
     ELSE UNCHANGED serverVars
  /\ Goto(r, "ok")
  /\ UNCHANGED <<inbox, tab, mishaps, calm>>

\* A Redis or network error, the death of the API process, a lost answer.
Cut(r) ==
  /\ r.pc # "err" /\ mishaps < MaxMishaps
  /\ mishaps' = mishaps + 1
  /\ Goto(r, "err")
  /\ UNCHANGED <<store, userCall, inbox, tab, calm>>

\* The keys of a call have a TTL of 30 minutes, renewed by Accept alone.
\* No ring timer and no request lasts that long.
Expire(c) ==
  /\ Live(c) /\ mishaps < MaxMishaps
  /\ requests = {} /\ \A t \in Tabs : tab[t].timers = <<>> /\ inbox[t] = <<>>
  /\ store' = [store EXCEPT ![c].status = "gone"]
  /\ userCall' = [u \in Users |-> IF userCall[u] = c THEN NoCall ELSE userCall[u]]
  /\ mishaps' = mishaps + 1
  /\ UNCHANGED <<requests, inbox, tab, calm>>

-----------------------------------------------------------------------------
(***************************************************************************)
(* The client.                                                             *)
(***************************************************************************)
Settled == requests = {} /\ \A t \in Tabs : inbox[t] = <<>>

SendIf(unhurried, new) ==
  /\ Cardinality(requests \cup new) <= MaxRequests
  /\ requests' = requests \cup new
  /\ calm' = (calm /\ unhurried /\ (new = {} \/ Settled))

Send(new) == SendIf(TRUE, new)

\* Tab t awaits the answer to a request of this kind.
Asking(t, op) == \E r \in requests : r.tab = t /\ r.op = op

Become(t, s) == tab' = [tab EXCEPT ![t] = s]

\* CallSlot.startCall.  (Once the runtime has consumed a start, a further one
\* is queued and never looked at.)
ClickCall(t, u) ==
  /\ t \in Dialers /\ u # Owner[t] /\ tab[t].pendingStart = NoUser /\ ~ tab[t].consumedStart
  /\ Become(t, [tab[t] EXCEPT !.pendingStart = u,
                              !.slot = IF @ = "cold" THEN "loading" ELSE @])
  /\ UNCHANGED <<store, userCall, requests, inbox, mishaps, calm>>

\* The effect of CallRuntime that replays the queued start: only once in
\* the life of the runtime, and useCall.startCall only when idle.
StartsNow(s) == s.pendingStart # NoUser /\ ~ s.consumedStart

AfterStart(s) ==
  [s EXCEPT !.consumedStart = TRUE, !.pendingStart = NoUser,
            !.pendingIncoming = NoCall,
            !.ui = IF @ = "idle" THEN "ringing_outgoing" ELSE @]

StartRequest(t) ==
  IF StartsNow(tab[t]) /\ tab[t].ui = "idle"
  THEN {Request("initiate", Owner[t], t, NoCall, tab[t].pendingStart)} ELSE {}

StartQueued(t) ==
  /\ tab[t].slot = "mounted" /\ StartsNow(tab[t])
  /\ Become(t, AfterStart(tab[t]))
  /\ Send(StartRequest(t))
  /\ UNCHANGED <<store, userCall, inbox, mishaps>>

\* Fault: an incoming call does not time out.
RingWithoutTimer(s, c) == [s EXCEPT !.incoming = c, !.ui = "ringing_incoming"]

\* handleCallEvent, call_incoming
RingIncoming(s, c) ==
  Arm([s EXCEPT !.incoming = c, !.ui = "ringing_incoming"], AutoDecline(c))

\* The chunk has loaded: both replay effects run in one flush, on the state
\* of the first render.
MountRuntime(t) ==
  LET s == tab[t]
      started == IF StartsNow(s) THEN AfterStart(s) ELSE s
  IN /\ s.slot = "loading"
     /\ Become(t, [(IF s.pendingIncoming = NoCall THEN started
                    ELSE RingIncoming(started, s.pendingIncoming))
                     EXCEPT !.slot = "mounted", !.pendingIncoming = NoCall])
     /\ SendIf(s.pendingIncoming = NoCall \/ started = s, StartRequest(t))
     /\ UNCHANGED <<store, userCall, inbox, mishaps>>

\* doHangup of tab t, which is in state s.
DoHangup(t, s) ==
  IF s.active = NoCall
  THEN Become(t, Cleanup(s)) /\ Send({})
  ELSE /\ Become(t, s)
       /\ Send({Request("end", Owner[t], t, s.active, NoUser)})

\* The buttons stay enabled while a request is under way: a second click
\* sends a second one.  (Two requests that are equal down to their next step
\* are one member of the set.)
HangUp(t) ==
  /\ tab[t].ui \in {"active", "ringing_outgoing"}
  /\ DoHangup(t, tab[t])
  /\ UNCHANGED <<store, userCall, inbox, mishaps>>

AcceptIncoming(t) ==
  /\ tab[t].ui = "ringing_incoming" /\ tab[t].incoming # NoCall
  /\ Send({Request("accept", Owner[t], t, tab[t].incoming, NoUser)})
  /\ UNCHANGED <<store, userCall, inbox, tab, mishaps>>

\* By a click, or by the countdown of IncomingCallOverlay.
DeclineIncoming(t) ==
  /\ tab[t].ui = "ringing_incoming" /\ tab[t].incoming # NoCall
  /\ Send({Request("decline", Owner[t], t, tab[t].incoming, NoUser)})
  /\ UNCHANGED <<store, userCall, inbox, tab, mishaps>>

\* Timers of equal length fire in the order they were armed.  Clearing a
\* timer that has fired does nothing.
RingTimeout(t) ==
  LET timer == Head(tab[t].timers)
      s == [tab[t] EXCEPT !.timers = Tail(@), !.ref = @ /\ Len(tab[t].timers) > 1]
  IN /\ tab[t].timers # <<>>
     /\ CASE timer.kind = "hangup" -> DoHangup(t, s)
          [] timer.kind = "decline" /\ s.ui = "ringing_incoming" ->
               /\ Become(t, Cleanup(s))
               /\ Send({Request("decline", Owner[t], NoTab, timer.call, NoUser)})
          [] OTHER -> Become(t, s) /\ Send({})
     /\ UNCHANGED <<store, userCall, inbox, mishaps>>

\* handleCallEvent
Handled(s, e) ==
  CASE e.event = "call_incoming" /\ s.ui = "idle" -> RingIncoming(s, e.call)
    [] e.event = "call_accepted" /\ s.ui = "ringing_outgoing" ->
         [ClearTimers(s) EXCEPT !.ui = "active"]
    [] /\ e.event \in {"call_declined", "call_ended"}
       /\ e.call = s.active \/ s.ui = "ringing_incoming" -> Cleanup(s)
    [] OTHER -> s

\* preMountHandler until the runtime has registered its own.
Received(s, e) ==
  CASE s.slot = "mounted" -> Handled(s, e)
    [] s.slot = "cold" /\ e.event = "call_incoming" ->
         [s EXCEPT !.pendingIncoming = e.call, !.slot = "loading"]
    [] OTHER -> s

ReceiveEvent(t) ==
  /\ inbox[t] # <<>>
  /\ Become(t, Received(tab[t], Head(inbox[t])))
  /\ inbox' = [inbox EXCEPT ![t] = Tail(@)]
  /\ UNCHANGED <<store, userCall, requests, mishaps, calm>>

\* What the answer to r does to the tab that awaits it.
Answered(s, r) ==
  CASE r.op = "initiate" /\ r.pc = "ok" -> Arm([s EXCEPT !.active = r.call], Hangup)
    [] r.op = "accept" /\ r.pc = "ok" ->
         [ClearTimers(s) EXCEPT !.active = r.call, !.incoming = NoCall, !.ui = "active"]
    [] OTHER -> Cleanup(s)

Answer(r) ==
  /\ r.pc \in {"ok", "err"}
  /\ requests' = requests \ {r}
  /\ tab' = IF r.tab = NoTab THEN tab
            ELSE [tab EXCEPT ![r.tab] = Answered(@, r)]
  /\ UNCHANGED <<store, userCall, inbox, mishaps, calm>>

\* The tab is closed or reloaded.  pagehide sends a beacon if it knows of a
\* call; requests on their way go on unanswered, or are cancelled.
Reload(t) ==
  LET s == tab[t]
      mine == {r \in requests : r.tab = t}
      beacon == IF s.active # NoCall /\ s.ui \in {"active", "ringing_outgoing"}
                THEN {Request("end", Owner[t], NoTab, s.active, NoUser)} ELSE {}
  IN /\ s # FreshTab /\ mishaps < MaxMishaps
     /\ mishaps' = mishaps + 1
     /\ \E kept \in SUBSET mine, sent \in SUBSET beacon :
          requests' = (requests \ mine)
                        \cup {[r EXCEPT !.tab = NoTab] : r \in kept} \cup sent
     /\ Become(t, FreshTab)
     /\ inbox' = [inbox EXCEPT ![t] = <<>>]
     /\ UNCHANGED <<store, userCall, calm>>

\* useReconcileCallOnMount: one probe per page load, and a toast that hangs up.
Probe(t) ==
  /\ ~ tab[t].probed /\ Busy(Owner[t])
  /\ Become(t, [tab[t] EXCEPT !.probed = TRUE, !.orphan = userCall[Owner[t]]])
  /\ UNCHANGED <<store, userCall, requests, inbox, mishaps, calm>>

HangUpOrphan(t) ==
  /\ tab[t].orphan # NoCall
  /\ Become(t, [tab[t] EXCEPT !.orphan = NoCall])
  /\ SendIf(FALSE, {Request("end", Owner[t], NoTab, tab[t].orphan, NoUser)})
  /\ UNCHANGED <<store, userCall, inbox, mishaps>>

-----------------------------------------------------------------------------
Serve(r) ==
  \/ CheckParties(r) \/ SaveNewCall(r) \/ ReadForAccept(r) \/ SaveAccepted(r)
  \/ ReadForClose(r) \/ TellClosed(r) \/ RemoveActiveCall(r)

ServeSome == \E r \in requests : Serve(r) \/ Answer(r)

Click(t) ==
  \/ \E u \in Users : ClickCall(t, u)
  \/ HangUp(t) \/ AcceptIncoming(t) \/ DeclineIncoming(t) \/ HangUpOrphan(t)

Client(t) == MountRuntime(t) \/ StartQueued(t) \/ ReceiveEvent(t)

Next ==
  \/ ServeSome
  \/ \E r \in requests : Cut(r)
  \/ \E c \in Calls : Expire(c)
  \/ \E t \in Tabs : Click(t) \/ Client(t) \/ RingTimeout(t) \/ Probe(t) \/ Reload(t)

Spec == Init /\ [][Next]_vars

-----------------------------------------------------------------------------
CallRecord == [status : {"unused", "new", "ringing", "active", "gone"},
               from : Users \cup {NoUser}, to : Users \cup {NoUser}]

RequestRecord ==
  [op : {"initiate", "accept", "decline", "end"}, by : Users,
   tab : Tabs \cup {NoTab}, call : Calls \cup {NoCall}, peer : Users \cup {NoUser},
   pc : {"check", "get", "save", "tell", "remove", "ok", "err"}]

Frame == [event : {"call_incoming", "call_accepted", "call_declined", "call_ended"},
          call : Calls]

Timer == {Hangup} \cup {AutoDecline(c) : c \in Calls}

TabRecord ==
  [slot : {"cold", "loading", "mounted"}, pendingStart : Users \cup {NoUser},
   pendingIncoming : Calls \cup {NoCall}, consumedStart : BOOLEAN,
   probed : BOOLEAN, orphan : Calls \cup {NoCall},
   ui : {"idle", "ringing_outgoing", "ringing_incoming", "active"},
   active : Calls \cup {NoCall}, incoming : Calls \cup {NoCall},
   timers : Seq(Timer), ref : BOOLEAN]

(***************************************************************************)
(* Redis holds ringing and active calls only, and a tab has one of the     *)
(* four states of CallState that useCall enters (types.ts also lists       *)
(* "ended").  A ring timer the tab can still cancel is one that is armed.  *)
(***************************************************************************)
TypeOK ==
  /\ store \in [Calls -> CallRecord]
  /\ userCall \in [Users -> Calls \cup {NoCall}]
  /\ requests \subseteq RequestRecord
  /\ inbox \in [Tabs -> Seq(Frame)]
  /\ tab \in [Tabs -> TabRecord]
  /\ \A t \in Tabs : tab[t].ref => tab[t].timers # <<>>
  /\ mishaps \in 0 .. MaxMishaps
  /\ calm \in BOOLEAN

(***************************************************************************)
(* No tab rings for ever, whatever gets lost: a ringing tab has a timer    *)
(* armed that will stop it, or awaits an answer that stops it or arms the  *)
(* timer.  Timers are cancelled through a reference that a later timer     *)
(* overwrites, and three different answers and three events reset it.      *)
(***************************************************************************)
HasTimer(s, kind) == \E i \in 1 .. Len(s.timers) : s.timers[i].kind = kind

Armed(t, kind) == HasTimer(tab[t], kind)

RingIsBounded ==
  \A t \in Tabs :
    /\ tab[t].ui = "ringing_outgoing" =>
         Armed(t, "hangup") \/ Asking(t, "initiate") \/ Asking(t, "end")
    /\ tab[t].ui = "ringing_incoming" => Armed(t, "decline")

(***************************************************************************)
(* When nothing is under way any more and nothing went wrong, the two ends *)
(* and the server agree: a tab is idle, or in a call that is active on the *)
(* server and that a tab of the other party is in as well.  Frames carry   *)
(* the whole agreement: neither end ever asks the server again.            *)
(***************************************************************************)
Quiet ==
  /\ Settled
  /\ \A t \in Tabs : /\ tab[t].timers = <<>> /\ tab[t].slot # "loading"
                     /\ ~ StartsNow(tab[t])

InCall(t, c) == tab[t].ui = "active" /\ tab[t].active = c

QuietTabsAgree ==
  Quiet /\ calm /\ mishaps = 0 =>
    \A t \in Tabs :
      LET c == tab[t].active
      IN /\ tab[t].ui = IF c = NoCall THEN "idle" ELSE "active"
         /\ c # NoCall =>
              /\ store[c].status = "active"
              /\ \E p \in Tabs : Owner[p] = Other(c, Owner[t]) /\ InCall(p, c)

(***************************************************************************)
(* "User is already in a call" (ErrUserBusy) is then true of the users it  *)
(* is said of: nobody is locked out by a call that every tab has left.     *)
(***************************************************************************)
BusyIsReal ==
  Quiet /\ calm /\ mishaps = 0 =>
    \A u \in Users :
      Busy(u) => \E t \in Tabs : Owner[t] = u /\ InCall(t, userCall[u])
=============================================================================
