----------------------------- MODULE BleSession -----------------------------
(***************************************************************************)
(* One SesameBleSession (packages/core/src/ble/session.js) on its          *)
(* NobleTransport (packages/core/src/ble/transport.js): connect(),         *)
(* register(), request(), disconnect(), their time-outs, and the loss of   *)
(* the link at any moment.                                                 *)
(*                                                                         *)
(* An action runs from one await, timer or notification to the next.  A    *)
(* connection is named by its number, which stands for its initial token   *)
(* and for the session key made of it.  The frames under way in either     *)
(* direction are one sequence: what the device will say next, if it does.  *)
(* Ciphers and segments are the subject of BleFrames.  The profile is      *)
(* "lock"; "wm2" differs in its payloads and refuses signLogin.            *)
(***************************************************************************)
EXTENDS Naturals, Sequences, FiniteSets, SequencesExt

CONSTANTS
  Calls,     \* calls of connect() or register()
  Requests,  \* calls of request()
  Items,     \* item codes
  None,
  MaxConns   \* bound on the connections

ASSUME ConnsAssumption == MaxConns \in Nat
ASSUME CallsAssumption == None \notin Calls

VARIABLES
  secret,      \* whether there is a _secretKey
  pc,          \* where each call is
  promise,     \* what became of the promise of its waiter
  waiter,      \* _loginWaiter, _readyWaiter and _registerWaiter: a call or None
  timers,      \* the calls whose timer of each waiter is running
  signLogin,   \* whether _signLogin is set
  signing,     \* the connections whose token is being signed by the server
  loggedIn,    \* _loggedIn
  ready,       \* _readyToRegister
  token,       \* _token, or 0
  key,         \* _key, or 0
  serverSecret,\* the token that each call of register() goes on with
  pending,     \* _pending
  request,     \* what became of each request
  crossed,     \* items of which a response resolved another request than its own
  astray,      \* items with a request given up or a response that never came
  link,        \* whether the peripheral is connected
  attached,    \* the calls in transport.connect() whose connectAsync() the link answered
  conns,       \* the number of connections so far
  dropped,     \* _disconnected
  stuck,       \* whether _writeChain is rejected
  device       \* what the device is going to say

callVars    == <<pc, promise, waiter, timers>>
stateVars   == <<loggedIn, ready>>
keyVars     == <<signing, token, key, serverSecret>>
requestVars == <<pending, request, crossed, astray>>
linkVars    == <<link, attached, conns, dropped, stuck, device>>
vars == <<secret, callVars, signLogin, stateVars, keyVars, requestVars, linkVars>>

Waiters == {"login", "ready", "register"}
Places == {"idle", "toLogin", "toRegister", "login", "ready", "enrol", "register", "done", "failed"}
Frames ==
  [says : {"initial", "login"}, of : 1..MaxConns]
    \cup [says : {"registration"}] \cup [says : {"response"}, to : Requests, item : Items]

(* Types; nothing is under way where there is no link.                     *)
TypeOK ==
  /\ {secret, signLogin, loggedIn, ready, dropped, stuck, link} \subseteq BOOLEAN
  /\ pc \in [Calls -> Places]
  /\ promise \in [Calls -> {"pending", "kept", "broken"}]
  /\ waiter \in [Waiters -> Calls \cup {None}] /\ timers \in [Waiters -> SUBSET Calls]
  /\ signing \subseteq 1..MaxConns /\ {token, key, conns} \subseteq 0..MaxConns
  /\ serverSecret \in [Calls -> 0..MaxConns]
  /\ DOMAIN pending = Items /\ \A i \in Items : Range(pending[i]) \subseteq Requests
  /\ request \in [Requests -> {"idle", "waiting", "answered", "failed"}]
  /\ crossed \subseteq Items /\ astray \subseteq Items
  /\ Range(device) \subseteq Frames
  /\ attached \subseteq Calls
  /\ ~link => device = <<>> /\ attached = {}

Init ==
  /\ secret \in BOOLEAN
  /\ pc = [c \in Calls |-> "idle"] /\ promise = [c \in Calls |-> "pending"]
  /\ waiter = [w \in Waiters |-> None] /\ timers = [w \in Waiters |-> {}]
  /\ signLogin = FALSE /\ loggedIn = FALSE /\ ready = FALSE
  /\ signing = {} /\ token = 0 /\ key = 0 /\ serverSecret = [c \in Calls |-> 0]
  /\ pending = [i \in Items |-> <<>>] /\ request = [r \in Requests |-> "idle"]
  /\ crossed = {} /\ astray = {}
  /\ link = FALSE /\ attached = {} /\ conns = 0 /\ dropped = FALSE /\ stuck = FALSE /\ device = <<>>

-----------------------------------------------------------------------------
(* Promises and frames.                                                    *)

Linking == {"toLogin", "toRegister"}  \* in transport.connect()

(* Where a call goes on that awaits the promise which is now settled.  A   *)
(* call still in transport.connect() does not await it yet.                *)
GoesOn(place, outcome) ==
  IF place \in Linking THEN place
  ELSE IF outcome = "broken" THEN "failed"
  ELSE IF place = "ready" THEN "enrol" ELSE "done"

Settle(cs, outcome) ==
  /\ promise' = [c \in Calls |-> IF c \in cs THEN outcome ELSE promise[c]]
  /\ pc' = [c \in Calls |-> IF c \in cs THEN GoesOn(pc[c], outcome) ELSE pc[c]]

(* _rejectWaiter and its counterpart, on the waiters ws.                   *)
EmptyWaiters(ws, outcome) ==  \* faulty: what waits is forgotten, and never told
  /\ waiter' = [w \in Waiters |-> IF w \in ws THEN None ELSE waiter[w]]
  /\ timers' = [w \in Waiters |-> IF w \in ws THEN timers[w] \ {waiter[w]} ELSE timers[w]]
  /\ UNCHANGED <<pc, promise>>

SettleWaiters(ws, outcome) ==
  /\ Settle({waiter[w] : w \in ws} \ {None}, outcome)
  /\ waiter' = [w \in Waiters |-> IF w \in ws THEN None ELSE waiter[w]]
  /\ timers' = [w \in Waiters |-> IF w \in ws THEN timers[w] \ {waiter[w]} ELSE timers[w]]

Waiting == {r \in Requests : request[r] = "waiting"}

(* _failAllPending *)
FailOnlyWaiters ==  \* faulty: the requests are left to their time-outs
  /\ SettleWaiters(Waiters, "broken")
  /\ loggedIn' = FALSE /\ ready' = FALSE /\ signLogin' = FALSE
  /\ UNCHANGED requestVars

FailAllPending ==
  /\ pending' = [i \in Items |-> <<>>]
  /\ request' = [r \in Requests |-> IF r \in Waiting THEN "failed" ELSE request[r]]
  /\ SettleWaiters(Waiters, "broken")
  /\ loggedIn' = FALSE /\ ready' = FALSE /\ signLogin' = FALSE
  /\ UNCHANGED <<crossed, astray>>

(* _writeSeg, to a transport that writes the frame or swallows it.  Once a  *)
(* write has failed its promise chain stays rejected, and swallows all.    *)
Writable == link /\ ~dropped /\ ~stuck
Written(frames, f) == IF Writable THEN Append(frames, f) ELSE frames
ChainAfterWrite == stuck' = (stuck \/ ~Writable)

Busy == loggedIn \/ ready \/ \E w \in Waiters : waiter[w] # None

-----------------------------------------------------------------------------
(* connect() and register(), up to transport.connect().                    *)

Accept(c, w) ==
  /\ waiter' = [waiter EXCEPT ![w] = c]
  /\ timers' = [timers EXCEPT ![w] = @ \cup {c}]
  /\ pc' = [pc EXCEPT ![c] = IF w = "login" THEN "toLogin" ELSE "toRegister"]
  /\ dropped' = FALSE
  /\ UNCHANGED <<secret, promise, stateVars, keyVars, requestVars, link, attached, conns, stuck, device>>

Connect(c) ==
  /\ pc[c] = "idle" /\ secret /\ ~Busy
  /\ signLogin' \in BOOLEAN
  /\ Accept(c, "login")

Register(c) ==
  /\ pc[c] = "idle" /\ ~secret /\ ~Busy
  /\ Accept(c, "ready")
  /\ UNCHANGED signLogin

Refused(c) ==
  /\ pc[c] = "idle" /\ Busy
  /\ pc' = [pc EXCEPT ![c] = "failed"]
  /\ UNCHANGED <<secret, promise, waiter, timers, signLogin, stateVars, keyVars, requestVars, linkVars>>

(* The peripheral is found and connects, for the calls that have got as    *)
(* far as connectAsync(); noble refuses those that come later.  The device *)
(* says its initial token as soon as the notifications are subscribed.     *)
LinkUp ==
  /\ ~link /\ conns < MaxConns
  /\ attached' \in SUBSET {c \in Calls : pc[c] \in Linking} \ {{}}
  /\ link' = TRUE /\ conns' = conns + 1
  /\ device' = <<[says |-> "initial", of |-> conns + 1]>>
  /\ UNCHANGED <<secret, callVars, signLogin, stateVars, keyVars, requestVars, dropped, stuck>>

(* The waiter whose promise a call awaits after transport.connect().       *)
WaiterOf(c) == IF pc[c] = "toLogin" THEN "login" ELSE "ready"

(* transport.connect() returns. *)
Linked(c) ==
  /\ pc[c] \in Linking /\ c \in attached
  /\ attached' = attached \ {c}
  /\ pc' = [pc EXCEPT ![c] = IF promise[c] = "pending" THEN WaiterOf(c)
                                                       ELSE GoesOn(WaiterOf(c), promise[c])]
  /\ serverSecret' = [serverSecret EXCEPT ![c] = IF pc'[c] = "enrol" THEN token ELSE @]
  /\ UNCHANGED <<secret, promise, waiter, timers, signLogin, stateVars, signing, token, key, requestVars,
                 link, conns, dropped, stuck, device>>

(* It throws, before or after the peripheral has connected: the catch      *)
(* block empties the waiter of its kind and clears its timer, whosever.    *)
LinkFails(c) ==
  /\ pc[c] \in Linking
  /\ pc' = [pc EXCEPT ![c] = "failed"]
  /\ waiter' = [waiter EXCEPT ![WaiterOf(c)] = None]
  /\ timers' = [timers EXCEPT ![WaiterOf(c)] = @ \ {waiter[WaiterOf(c)]}]
  /\ attached' = attached \ {c}
  /\ UNCHANGED <<secret, promise, signLogin, stateVars, keyVars, requestVars,
                 link, conns, dropped, stuck, device>>

(* The timer of a waiter empties it, even if another call waits there now. *)
WaiterTimesOut(c, w) ==
  /\ c \in timers[w]
  /\ Settle({c}, "broken")
  /\ waiter' = [waiter EXCEPT ![w] = None]
  /\ timers' = [timers EXCEPT ![w] = @ \ {c}]
  /\ UNCHANGED <<secret, signLogin, stateVars, keyVars, requestVars, linkVars>>

-----------------------------------------------------------------------------
(* What the device says.                                                   *)

(* _handleInitial: the handshake of its kind begins. *)
HearInitial ==
  /\ device # <<>> /\ Head(device).says = "initial"
  /\ LET n == Head(device).of IN
     /\ token' = n
     /\ IF ~secret THEN /\ ready' = TRUE
                        /\ SettleWaiters({"ready"}, "kept")
                        /\ serverSecret' = [c \in Calls |-> IF c = waiter["ready"] THEN n ELSE serverSecret[c]]
                        /\ device' = Tail(device) /\ UNCHANGED <<signing, key, stuck>>
        ELSE IF signLogin THEN /\ signing' = signing \cup {n}
                               /\ device' = Tail(device)
                               /\ UNCHANGED <<callVars, ready, key, serverSecret, stuck>>
        ELSE /\ key' = n
             /\ device' = Written(Tail(device), [says |-> "login", of |-> n]) /\ ChainAfterWrite
             /\ UNCHANGED <<callVars, ready, signing, serverSecret>>
  /\ UNCHANGED <<secret, signLogin, loggedIn, requestVars, link, attached, conns, dropped>>

(* A token that is not of four bytes. *)
HearBadInitial ==
  /\ device # <<>> /\ Head(device).says = "initial"
  /\ SettleWaiters({"login", "ready"}, "broken")
  /\ device' = Tail(device)
  /\ UNCHANGED <<secret, signLogin, stateVars, keyVars, requestVars, link, attached, conns, dropped, stuck>>

(* _loginViaServer, when signLogin returns. *)
ServerSigns(n) ==
  /\ n \in signing
  /\ signing' = signing \ {n}
  /\ key' = n
  /\ device' = Written(device, [says |-> "login", of |-> n]) /\ ChainAfterWrite
  /\ UNCHANGED <<secret, callVars, signLogin, stateVars, token, serverSecret, requestVars,
                 link, attached, conns, dropped>>

ServerRefuses(n) ==
  /\ n \in signing
  /\ signing' = signing \ {n}
  /\ SettleWaiters({"login"}, "broken")
  /\ UNCHANGED <<secret, signLogin, stateVars, token, key, serverSecret, requestVars, linkVars>>

(* _handleLoginResponse.  The device accepts the key of this connection.   *)
(* The TIME frame that _maybeSyncTime sends after it is left out: no call  *)
(* waits for its answer, but that may resolve a request of item TIME.      *)
HearLogin ==
  /\ device # <<>> /\ Head(device).says = "login"
  /\ LET accepted == Head(device).of = conns IN
     /\ SettleWaiters({"login"}, IF accepted THEN "kept" ELSE "broken")
     /\ loggedIn' = (loggedIn \/ (waiter["login"] # None /\ accepted))
  /\ device' = Tail(device)
  /\ UNCHANGED <<secret, signLogin, ready, keyVars, requestVars, link, attached, conns, dropped, stuck>>

(* registerSesame5 returns or throws: REGISTRATION is sent.                *)
Enrolled(c) ==
  /\ pc[c] = "enrol"
  /\ pc' = [pc EXCEPT ![c] = "register"]
  /\ promise' = [promise EXCEPT ![c] = "pending"]
  /\ waiter' = [waiter EXCEPT !["register"] = c]
  /\ timers' = [timers EXCEPT !["register"] = @ \cup {c}]
  /\ device' = Written(device, [says |-> "registration"]) /\ ChainAfterWrite
  /\ UNCHANGED <<secret, signLogin, stateVars, keyVars, requestVars, link, attached, conns, dropped>>

(* _handleRegistrationResponse, and the rest of register().                *)
HearRegistration ==
  /\ device # <<>> /\ Head(device).says = "registration"
  /\ \E accepted \in BOOLEAN :
       /\ SettleWaiters({"register"}, IF accepted THEN "kept" ELSE "broken")
       /\ IF accepted /\ waiter["register"] # None
          THEN loggedIn' = TRUE /\ ready' = FALSE /\ secret' = TRUE
               /\ key' = serverSecret[waiter["register"]]
          ELSE UNCHANGED <<stateVars, secret, key>>
  /\ device' = Tail(device)
  /\ UNCHANGED <<signLogin, signing, token, serverSecret, requestVars, link, attached, conns, dropped, stuck>>

-----------------------------------------------------------------------------
(* request().  The device reads it, and answers, if it is enciphered for    *)
(* the connection that there is.                                           *)

Request(r, i) ==
  /\ request[r] = "idle"
  /\ IF loggedIn
     THEN /\ request' = [request EXCEPT ![r] = "waiting"]
          /\ pending' = [pending EXCEPT ![i] = Append(@, r)]
          /\ ChainAfterWrite
          /\ IF key = conns
             THEN /\ device' = Written(device, [says |-> "response", to |-> r, item |-> i])
                  /\ UNCHANGED astray
             ELSE astray' = astray \cup {i} /\ UNCHANGED device
     ELSE request' = [request EXCEPT ![r] = "failed"] /\ UNCHANGED <<pending, astray, device, stuck>>
  /\ UNCHANGED <<secret, callVars, signLogin, stateVars, keyVars, crossed, link, attached, conns, dropped>>

(* _dequeue of the entry at index j *)
Dequeued(i, j) == [pending EXCEPT ![i] = RemoveAt(@, j)]

RequestTimesOut(r) ==
  /\ request[r] = "waiting"
  /\ request' = [request EXCEPT ![r] = "failed"]
  /\ \E i \in Items : \E j \in 1 .. Len(pending[i]) :
       /\ pending[i][j] = r
       /\ pending' = Dequeued(i, j)
       /\ astray' = astray \cup {i}
  /\ UNCHANGED <<secret, callVars, signLogin, stateVars, keyVars, crossed, linkVars>>

(* _resolvePending *)
HearOnlySuccess ==  \* faulty: a result other than 0 rejects nothing
  /\ device # <<>> /\ Head(device).says = "response"
  /\ LET i == Head(device).item IN
     IF pending[i] = <<>> THEN UNCHANGED requestVars
     ELSE /\ pending' = [pending EXCEPT ![i] = Tail(@)]
          /\ crossed' = crossed \cup IF Head(pending[i]) = Head(device).to THEN {} ELSE {i}
          /\ \E outcome \in {"answered", "waiting"} :
               request' = [request EXCEPT ![Head(pending[i])] = outcome]
          /\ UNCHANGED astray
  /\ device' = Tail(device)
  /\ UNCHANGED <<secret, callVars, signLogin, stateVars, keyVars, link, attached, conns, dropped, stuck>>

HearNewest ==  \* faulty: a response goes to the request made last
  /\ device # <<>> /\ Head(device).says = "response"
  /\ LET i == Head(device).item IN
     IF pending[i] = <<>> THEN UNCHANGED requestVars
     ELSE /\ pending' = [pending EXCEPT ![i] = Front(@)]
          /\ crossed' = crossed \cup IF Last(pending[i]) = Head(device).to THEN {} ELSE {i}
          /\ request' = [request EXCEPT ![Last(pending[i])] = "answered"]
          /\ UNCHANGED astray
  /\ device' = Tail(device)
  /\ UNCHANGED <<secret, callVars, signLogin, stateVars, keyVars, link, attached, conns, dropped, stuck>>

HearResponse ==
  /\ device # <<>> /\ Head(device).says = "response"
  /\ LET i == Head(device).item IN
     IF pending[i] = <<>> THEN UNCHANGED requestVars
     ELSE /\ pending' = [pending EXCEPT ![i] = Tail(@)]
          /\ crossed' = crossed \cup IF Head(pending[i]) = Head(device).to THEN {} ELSE {i}
          /\ \E outcome \in {"answered", "failed"} :
               request' = [request EXCEPT ![Head(pending[i])] = outcome]
          /\ UNCHANGED astray
  /\ device' = Tail(device)
  /\ UNCHANGED <<secret, callVars, signLogin, stateVars, keyVars, link, attached, conns, dropped, stuck>>

-----------------------------------------------------------------------------
(* The end of the link.                                                    *)

(* _handleDisconnect and _handleTransportDisconnect. *)
HandleDisconnect ==
  /\ dropped' = TRUE
  /\ IF dropped THEN UNCHANGED <<callVars, stateVars, signLogin, requestVars>>
                ELSE FailAllPending

Lost ==
  /\ link
  /\ link' = FALSE /\ attached' = {} /\ device' = <<>>
  /\ HandleDisconnect
  /\ UNCHANGED <<secret, keyVars, conns, stuck>>

(* _writeWithRetry gives up: what was to be written is not, nor is         *)
(* anything after it on this transport.                                    *)
WriteFails ==
  /\ Writable
  /\ \E k \in 0..(Len(device) - 1) :
       /\ \A j \in (k + 1)..Len(device) : device[j].says # "initial"
       /\ device' = SubSeq(device, 1, k)
  /\ stuck' = TRUE
  /\ HandleDisconnect
  /\ UNCHANGED <<secret, keyVars, link, attached, conns>>

(* The device does not answer. *)
Silent ==
  /\ device # <<>>
  /\ device' = Tail(device)
  /\ astray' = astray \cup {i \in Items : Head(device).says = "response" /\ Head(device).item = i}
  /\ UNCHANGED <<secret, callVars, signLogin, stateVars, keyVars, pending, request, crossed,
                 link, attached, conns, dropped, stuck>>

(* disconnect(), up to the end of the transport's: its awaits are one step. *)
Disconnect ==
  /\ FailAllPending
  /\ dropped' = TRUE
  /\ link' = FALSE /\ attached' = {} /\ device' = <<>>
  /\ UNCHANGED <<secret, keyVars, conns, stuck>>

Next ==
  \/ \E c \in Calls : Connect(c) \/ Register(c) \/ Refused(c) \/ Linked(c) \/ LinkFails(c) \/ Enrolled(c)
  \/ LinkUp \/ \E c \in Calls, w \in Waiters : WaiterTimesOut(c, w)
  \/ HearInitial \/ HearBadInitial \/ HearLogin \/ HearRegistration \/ HearResponse \/ Silent
  \/ \E n \in signing : ServerSigns(n) \/ ServerRefuses(n)
  \/ \E r \in Requests : RequestTimesOut(r) \/ \E i \in Items : Request(r, i)
  \/ Lost \/ WriteFails \/ Disconnect

Spec == Init /\ [][Next]_vars

(* transport.connect() and registerSesame5() return or throw, timers fire. *)
Fairness ==
  /\ \A c \in Calls : WF_vars(Linked(c) \/ LinkFails(c)) /\ WF_vars(Enrolled(c))
  /\ \A c \in Calls, w \in Waiters : WF_vars(WaiterTimesOut(c, w))
  /\ \A r \in Requests : WF_vars(RequestTimesOut(r))

FairSpec == Spec /\ Fairness

-----------------------------------------------------------------------------
(* The calls of register() that have taken a token to the server.  One     *)
(* that is cut off there goes on when the server answers, and may hear the *)
(* device's answer to the REGISTRATION of another.                         *)
Enrolling == {c \in Calls : serverSecret[c] # 0}
Twice  == \E c, d \in Enrolling : c # d
Thrice == \E c, d, e \in Enrolling : c # d /\ d # e /\ c # e

(* A request waits only on a session that is logged in, over a link that   *)
(* is up and not given up: whatever ends the link ends the request at      *)
(* once.  Only a third call of register() can log in a link given up.      *)
FailFast == Waiting # {} => loggedIn /\ (Thrice \/ (link /\ ~dropped))

(* Hoped for: the commands of a session are enciphered for the connection  *)
(* it is on.  They are on the first connection; on a later one a signature *)
(* or an enrolment of an earlier one may arrive and replace the key.       *)
KeyFitsConnection == loggedIn => key = conns /\ token = conns

(* Of a session that is called once: the call that awaits its handshake is *)
(* where the handshake, its time-out and the loss of the link look for it. *)
(* With a second call it is only hoped for: transport.connect() of a first *)
(* one that has timed out may fail, and empty the waiter of the second.    *)
AwaitedIsWaiter ==
  \A c \in Calls : pc[c] \in Waiters => waiter[pc[c]] = c

(* No promise is rejected that no call awaits yet.                         *)
NoOrphanRejected == \A c \in Calls : pc[c] \in Linking => promise[c] # "broken"

(* A request is resolved by its own response, of however many of the same  *)
(* item, unless an earlier one of that item went unanswered or timed out,  *)
(* or the session was registered twice.                                    *)
OwnResponse == Twice \/ crossed \subseteq astray

(* Every call comes to an end, and so does every request.                  *)
CallsSettle == \A c \in Calls : pc[c] # "idle" ~> pc[c] \in {"done", "failed"}
RequestsSettle == \A r \in Requests : request[r] = "waiting" ~> request[r] # "waiting"
=============================================================================
