------------------------------- MODULE Hub3Ws -------------------------------
(***************************************************************************)
(* The cloud transport, Hub3WsClient (packages/core/src/transport.js): one *)
(* reconnecting WebSocket with its timers, the queue of frames waiting for *)
(* a connection, and the FIFO of resolvers that pairs replies with         *)
(* requests.  JavaScript runs each handler to completion, so an action is  *)
(* one handler: a call of the public API, an event of the `ws' socket, a   *)
(* timer, or the continuation after an await.                              *)
(*                                                                         *)
(* The socket library and the server are the environment: a socket opens,  *)
(* ends, or goes silent (half open) at any time, and the server answers    *)
(* the frames of one socket in the order it received them or not at all.   *)
(***************************************************************************)
EXTENDS Integers, Sequences, SequencesExt

CONSTANTS
  Sockets,        \* WebSocket objects, reused once they have no effect left
  Callers,        \* calls of connect(), each made at most once
  Frames,         \* payloads given to request() or send(), each at most once
  Keys,           \* "<action>:<op>" strings
  KeyOf,          \* the key of each payload
  KeepaliveKey,   \* the key of a heartbeat and of ping()
  RetryThreshold, \* MAX_RETRIES_BEFORE_TOKEN_CHECK
  AutoReconnect,  \* cfg.autoReconnect
  MaxOrphans,     \* bound of the model: lost connect timers armed at a time
  MaxRefreshes,   \* bound of the model: token refreshes in flight at a time
  None

ASSUME SocketsAssumption == None \notin Sockets
ASSUME CallersAssumption == None \notin Callers
ASSUME FramesAssumption  == /\ None \notin Frames
                            /\ KeyOf \in [Frames -> Keys]
                            /\ KeepaliveKey \in Keys
ASSUME RetryAssumption   == RetryThreshold \in Nat \ {0}
ASSUME AutoAssumption    == AutoReconnect \in BOOLEAN
ASSUME BoundsAssumption  == MaxOrphans \in Nat /\ MaxRefreshes \in Nat

VARIABLES
  status,         \* this.status
  ws,             \* this.ws
  sock,           \* what each WebSocket object is doing
  closedByUser,
  everConnected,
  retryCount,     \* counted up to RetryThreshold + 1, which no test tells apart
  refreshed,      \* this._refreshedThisCycle
  refreshing,     \* awaits of onTokenRefreshNeeded in flight
  keepaliveTimer, pongTimer, reconnectTimer, sleepTimer,
  connectTimer,   \* this.connectTimer is set
  orphanTimers,   \* connect timers still armed that this.connectTimer lost
  promise,        \* the call whose promise is this._connectPromise
  initial,        \* the call whose resolver is this._initialConnectResolve
  call,           \* progress of each connect() call
  awaits,         \* the call whose promise a connect() call is waiting for
  pending,        \* this.pending: key -> FIFO of requests without an answer
  queue,          \* this.messageQueue
  stale,          \* how many entries of queue are past QUEUE_ENTRY_MAX_AGE_MS
  frame,          \* what the caller of each payload knows of it
  answer,         \* the payload whose reply a request was resolved with
  wire            \* payloads received by the server on a socket, unanswered

connVars  == <<status, ws, sock>>
modeVars  == <<closedByUser, everConnected>>
retryVars == <<retryCount, refreshed, refreshing>>
aliveVars == <<keepaliveTimer, pongTimer>>
dialVars  == <<connectTimer, orphanTimers>>
callVars  == <<promise, initial, call, awaits>>
dataVars  == <<pending, queue, stale, frame, answer, wire>>
vars == <<connVars, modeVars, retryVars, aliveVars, reconnectTimer, sleepTimer,
          dialVars, callVars, dataVars>>

TypeOK ==
  /\ status \in {"disconnected", "connecting", "open"}
  /\ ws \in Sockets \cup {None}
  /\ sock \in [Sockets -> {"free", "connecting", "open", "half", "closing"}]
  /\ closedByUser \in BOOLEAN /\ everConnected \in BOOLEAN
  /\ retryCount \in Nat /\ refreshed \in BOOLEAN /\ refreshing \in Nat
  /\ keepaliveTimer \in BOOLEAN /\ pongTimer \in BOOLEAN
  /\ reconnectTimer \in BOOLEAN /\ sleepTimer \in BOOLEAN
  /\ connectTimer \in BOOLEAN /\ orphanTimers \in Nat
  /\ promise \in Callers \cup {None} /\ initial \in Callers \cup {None}
  /\ call \in [Callers -> {"idle", "waiting", "resolved", "rejected", "ok", "failed"}]
  /\ awaits \in [Callers -> Callers \cup {None}]
  /\ pending \in [Keys -> Seq(Frames)]
  /\ queue \in Seq(Frames) /\ stale \in Nat
  /\ frame \in [Frames -> {"idle", "waiting", "ok", "failed", "sent"}]
  /\ answer \in [Frames -> Frames \cup {None}]
  /\ wire \in [Sockets -> Seq(Frames)]

Init ==
  /\ status = "disconnected" /\ ws = None
  /\ sock = [s \in Sockets |-> "free"]
  /\ closedByUser = FALSE /\ everConnected = FALSE
  /\ retryCount = 0 /\ refreshed = FALSE /\ refreshing = 0
  /\ keepaliveTimer = FALSE /\ pongTimer = FALSE
  /\ reconnectTimer = FALSE /\ sleepTimer = FALSE
  /\ connectTimer = FALSE /\ orphanTimers = 0
  /\ promise = None /\ initial = None
  /\ call = [c \in Callers |-> "idle"]
  /\ awaits = [c \in Callers |-> None]
  /\ pending = [k \in Keys |-> <<>>]
  /\ queue = <<>> /\ stale = 0
  /\ frame = [f \in Frames |-> "idle"]
  /\ answer = [f \in Frames |-> None]
  /\ wire = [s \in Sockets |-> <<>>]

-----------------------------------------------------------------------------
(* Steps shared by the handlers.                                           *)

(* Settling the promise of call c: the calls that joined it return with    *)
(* the outcome, c itself once its finally block has run (ConnectFinally).  *)
Settle(c, outcome) ==
  call' = [d \in Callers |->
             IF d = c THEN IF outcome = "ok" THEN "resolved" ELSE "rejected"
             ELSE IF call[d] = "waiting" /\ awaits[d] = c THEN outcome
             ELSE call[d]]

SettleInitial(outcome) ==
  /\ IF initial = None THEN call' = call ELSE Settle(initial, outcome)
  /\ initial' = None

(* _initWebSocket: the current socket is silenced and closed, a new one    *)
(* replaces it, and its connect timer overwrites this.connectTimer, whose  *)
(* previous timer, if `tracked', stays armed.                              *)
InitWebSocketKeepsOld(s, tracked) ==  \* faulty: the old socket stays open
  /\ sock[s] = "free"
  /\ sock' = [sock EXCEPT ![s] = "connecting"]
  /\ ws' = s /\ status' = "connecting" /\ connectTimer' = TRUE
  /\ UNCHANGED <<orphanTimers, wire>>

InitWebSocket(s, tracked) ==
  /\ sock[s] = "free"
  /\ sock' = [x \in Sockets |-> IF x = s THEN "connecting"
                                ELSE IF x = ws THEN "free" ELSE sock[x]]
  /\ wire' = [x \in Sockets |-> IF x = ws THEN <<>> ELSE wire[x]]
  /\ ws' = s
  /\ status' = "connecting"
  /\ connectTimer' = TRUE
  /\ orphanTimers' = IF tracked THEN orphanTimers + 1 ELSE orphanTimers
  /\ orphanTimers' <= MaxOrphans

(* _rejectAllPending *)
RejectAllPending ==
  /\ frame' = [f \in Frames |-> IF \E k \in Keys : Contains(pending[k], f)
                                THEN "failed" ELSE frame[f]]
  /\ pending' = [k \in Keys |-> <<>>]

(* _reconnect: at once, without back-off; pending is not rejected.  Once   *)
(* closed it only returns, and pongTimer becomes `pong'.                   *)
ActiveReconnectEvenClosed(pong) ==  \* faulty: closedByUser is not tested
  /\ keepaliveTimer' = FALSE /\ pongTimer' = FALSE /\ reconnectTimer' = FALSE
  /\ retryCount' = 0 /\ refreshed' = FALSE
  /\ \E s \in Sockets : InitWebSocket(s, FALSE)
  /\ UNCHANGED <<modeVars, refreshing, sleepTimer, callVars,
                 pending, queue, stale, frame, answer>>

ActiveReconnect(pong) ==
  /\ \/ /\ closedByUser
        /\ pongTimer' = pong
        /\ UNCHANGED <<connVars, retryCount, refreshed, keepaliveTimer, reconnectTimer,
                       dialVars, wire>>
     \/ /\ ~closedByUser
        /\ keepaliveTimer' = FALSE /\ pongTimer' = FALSE /\ reconnectTimer' = FALSE
        /\ retryCount' = 0 /\ refreshed' = FALSE
        /\ \E s \in Sockets : InitWebSocket(s, FALSE)
  /\ UNCHANGED <<modeVars, refreshing, sleepTimer, callVars,
                 pending, queue, stale, frame, answer>>

(* _sendOrQueue: ws.send reaches the server only on a socket that is       *)
(* really open; on a half-open one the frame is lost without an error.     *)
SendOrQueue(f) ==
  IF ws # None /\ status = "open"
  THEN /\ wire' = IF sock[ws] = "open" THEN [wire EXCEPT ![ws] = Append(@, f)]
                                       ELSE wire
       /\ UNCHANGED queue
  ELSE queue' = Append(queue, f) /\ UNCHANGED wire

(* The resolver at the head of the FIFO of key k takes the reply to f.     *)
ResolveLast(k, f) ==  \* faulty: the newest resolver takes the reply
  IF pending[k] = <<>>
  THEN UNCHANGED <<pending, frame, answer>>
  ELSE /\ pending' = [pending EXCEPT ![k] = Front(@)]
       /\ frame' = [frame EXCEPT ![Last(pending[k])] = "ok"]
       /\ answer' = [answer EXCEPT ![Last(pending[k])] = f]

ResolveHead(k, f) ==
  IF pending[k] = <<>>
  THEN UNCHANGED <<pending, frame, answer>>
  ELSE /\ pending' = [pending EXCEPT ![k] = Tail(@)]
       /\ frame' = [frame EXCEPT ![Head(pending[k])] = "ok"]
       /\ answer' = [answer EXCEPT ![Head(pending[k])] = f]

-----------------------------------------------------------------------------
(* The public API.                                                         *)

(* connect() on an open transport, or while _connectPromise is set: the    *)
(* promise of a call in progress, or of one whose finally is yet to run.   *)
ConnectReturns(c) ==
  /\ call[c] = "idle"
  /\ status = "open"
  /\ call' = [call EXCEPT ![c] = "ok"]
  /\ UNCHANGED <<connVars, modeVars, retryVars, aliveVars, reconnectTimer, sleepTimer,
                 dialVars, promise, initial, awaits, dataVars>>

ConnectJoins(c) ==
  /\ call[c] = "idle"
  /\ status # "open" /\ promise # None
  /\ \/ /\ call[promise] = "waiting"
        /\ call' = [call EXCEPT ![c] = "waiting"]
     \/ /\ call[promise] = "resolved"
        /\ call' = [call EXCEPT ![c] = "ok"]
     \/ /\ call[promise] = "rejected"
        /\ call' = [call EXCEPT ![c] = "failed"]
  /\ awaits' = [awaits EXCEPT ![c] = promise]
  /\ UNCHANGED <<connVars, modeVars, retryVars, aliveVars, reconnectTimer, sleepTimer,
                 dialVars, promise, initial, dataVars>>

(* connect() starts connecting.  It does not cancel reconnectTimer.        *)
ConnectStarts(c) ==
  /\ call[c] = "idle"
  /\ status # "open" /\ promise = None
  /\ closedByUser' = FALSE /\ retryCount' = 0 /\ refreshed' = FALSE
  /\ sleepTimer' = TRUE
  /\ promise' = c /\ initial' = c
  /\ call' = [call EXCEPT ![c] = "waiting"]
  /\ awaits' = [awaits EXCEPT ![c] = c]
  /\ \E s \in Sockets : InitWebSocket(s, connectTimer)
  /\ UNCHANGED <<everConnected, refreshing, aliveVars, reconnectTimer,
                 pending, queue, stale, frame, answer>>

(* The finally block of the call that created the promise, a microtask     *)
(* after the promise settled, clears whatever _connectPromise is then.     *)
ConnectFinally(c) ==
  /\ call[c] \in {"resolved", "rejected"}
  /\ call' = [call EXCEPT ![c] = IF @ = "resolved" THEN "ok" ELSE "failed"]
  /\ promise' = None
  /\ UNCHANGED <<connVars, modeVars, retryVars, aliveVars, reconnectTimer, sleepTimer,
                 dialVars, initial, awaits, dataVars>>

(* close() drops the socket: an open one keeps its message listener until  *)
(* it has finished closing; one still connecting is aborted.               *)
DropSocket ==
  /\ sock' = [s \in Sockets |->
                IF s # ws THEN sock[s]
                ELSE IF sock[s] = "open" THEN "closing" ELSE "free"]
  /\ wire' = [s \in Sockets |->
                IF s = ws /\ sock[s] # "open" THEN <<>> ELSE wire[s]]
  /\ ws' = None /\ status' = "disconnected"

(* _clearAllTimers *)
ClearAllTimers ==
  /\ keepaliveTimer' = FALSE /\ pongTimer' = FALSE
  /\ connectTimer' = FALSE /\ reconnectTimer' = FALSE

Close ==
  /\ closedByUser' = TRUE
  /\ ClearAllTimers /\ sleepTimer' = FALSE
  /\ DropSocket
  /\ RejectAllPending
  /\ queue' = <<>> /\ stale' = 0
  /\ SettleInitial("failed")
  /\ promise' = None
  /\ UNCHANGED <<everConnected, retryVars, orphanTimers, awaits, answer>>

(* request(): the resolver is registered first, then the frame goes out or *)
(* into the queue.                                                         *)
Request(f) ==
  /\ frame[f] = "idle"
  /\ frame' = [frame EXCEPT ![f] = "waiting"]
  /\ pending' = [pending EXCEPT ![KeyOf[f]] = Append(@, f)]
  /\ SendOrQueue(f)
  /\ UNCHANGED <<connVars, modeVars, retryVars, aliveVars, reconnectTimer, sleepTimer,
                 dialVars, callVars, stale, answer>>

(* send(): no resolver. *)
Send(f) ==
  /\ frame[f] = "idle"
  /\ frame' = [frame EXCEPT ![f] = "sent"]
  /\ SendOrQueue(f)
  /\ UNCHANGED <<connVars, modeVars, retryVars, aliveVars, reconnectTimer, sleepTimer,
                 dialVars, callVars, pending, stale, answer>>

(* _unregisterPending *)
UnregisterNothing(f) == UNCHANGED pending  \* faulty

UnregisterPending(f) ==
  LET waiting == pending[KeyOf[f]] IN
  \/ ~Contains(waiting, f) /\ UNCHANGED pending
  \/ \E i \in 1 .. Len(waiting) :
       /\ waiting[i] = f
       /\ pending' = [pending EXCEPT ![KeyOf[f]] = RemoveAt(@, i)]

(* The timer of a request: its resolver is removed, its frame is not.      *)
RequestTimeout(f) ==
  /\ frame[f] = "waiting"
  /\ frame' = [frame EXCEPT ![f] = "failed"]
  /\ UnregisterPending(f)
  /\ UNCHANGED <<connVars, modeVars, retryVars, aliveVars, reconnectTimer, sleepTimer,
                 dialVars, callVars, queue, stale, answer, wire>>

-----------------------------------------------------------------------------
(* Events of the socket.                                                   *)

(* The continuation of a settled connect() is a microtask: it runs before  *)
(* any other event or timer, after the calls made in the same turn.        *)
MicrotasksDone == \A c \in Callers : call[c] \notin {"resolved", "rejected"}

(* _startKeepalive: the interval, and a first heartbeat at once. *)
StartNoInterval ==  \* faulty: only the first heartbeat
  keepaliveTimer' = FALSE /\ pongTimer' = TRUE

StartKeepalive == keepaliveTimer' = TRUE /\ pongTimer' = TRUE

(* _onOpen: the first heartbeat goes out, then the queue without its stale *)
(* entries, then connect() resolves.                                       *)
OnOpen ==
  /\ MicrotasksDone
  /\ ws # None /\ sock[ws] = "connecting"
  /\ sock' = [sock EXCEPT ![ws] = "open"]
  /\ status' = "open"
  /\ everConnected' = TRUE
  /\ connectTimer' = FALSE
  /\ retryCount' = 0 /\ refreshed' = FALSE
  /\ StartKeepalive
  /\ wire' = [wire EXCEPT ![ws] = @ \o SubSeq(queue, stale + 1, Len(queue))]
  /\ queue' = <<>> /\ stale' = 0
  /\ SettleInitial("ok")
  /\ UNCHANGED <<ws, closedByUser, refreshing, reconnectTimer, sleepTimer,
                 orphanTimers, promise, awaits, pending, frame, answer>>

(* What _onClose does after the clean-up: nothing once closed, the failure *)
(* of a connect() whose socket never opened, or a scheduled reconnect.     *)
AfterCloseOnlyIfOpen(wasOpen) ==  \* faulty: a failed attempt is not repeated
  /\ reconnectTimer' = (reconnectTimer \/ (~closedByUser /\ wasOpen /\ AutoReconnect))
  /\ UNCHANGED <<closedByUser, queue, stale, initial, call>>

AfterClose(wasOpen) ==
  \/ /\ closedByUser
     /\ UNCHANGED <<closedByUser, reconnectTimer, queue, stale, initial, call>>
  \/ /\ ~closedByUser /\ ~wasOpen /\ initial # None
     /\ SettleInitial("failed")
     /\ closedByUser' = TRUE
     /\ queue' = <<>> /\ stale' = 0
     /\ UNCHANGED reconnectTimer
  \/ /\ ~closedByUser /\ (wasOpen \/ initial = None)
     /\ reconnectTimer' = (reconnectTimer \/ AutoReconnect)
     /\ UNCHANGED <<closedByUser, queue, stale, initial, call>>

(* _onClose (and _onError, which leaves everything to it). *)
OnClose ==
  /\ MicrotasksDone
  /\ ws # None
  /\ keepaliveTimer' = FALSE /\ pongTimer' = FALSE /\ connectTimer' = FALSE
  /\ sock' = [sock EXCEPT ![ws] = "free"]
  /\ wire' = [wire EXCEPT ![ws] = <<>>]
  /\ ws' = None
  /\ status' = "disconnected"
  /\ RejectAllPending
  /\ AfterClose(status = "open")
  /\ UNCHANGED <<everConnected, retryVars, sleepTimer, orphanTimers, promise, awaits, answer>>

(* A message listener is attached to the current socket and to one that    *)
(* close() left behind.                                                    *)
Hears(s) == sock[s] = "open" \/ (sock[s] = "closing" /\ s # ws)

(* _onMessage with the reply to the oldest frame of a socket; the reply to *)
(* a ping() clears pongTimer like a heartbeat ack.                         *)
OnReply(s) ==
  /\ MicrotasksDone
  /\ Hears(s) /\ wire[s] # <<>>
  /\ wire' = [wire EXCEPT ![s] = Tail(@)]
  /\ pongTimer' = (pongTimer /\ KeyOf[Head(wire[s])] # KeepaliveKey)
  /\ ResolveHead(KeyOf[Head(wire[s])], Head(wire[s]))
  /\ UNCHANGED <<connVars, modeVars, retryVars, keepaliveTimer, reconnectTimer,
                 sleepTimer, dialVars, callVars, queue, stale>>

(* _onMessage with a heartbeat ack: clears pongTimer and resolves a ping().*)
OnHeartbeatAck ==
  /\ MicrotasksDone
  /\ \E s \in Sockets : Hears(s)
  /\ pongTimer' = FALSE
  /\ IF pending[KeepaliveKey] = <<>>
     THEN UNCHANGED <<pending, frame, answer>>
     ELSE ResolveHead(KeepaliveKey, Head(pending[KeepaliveKey]))
  /\ UNCHANGED <<connVars, modeVars, retryVars, keepaliveTimer, reconnectTimer,
                 sleepTimer, dialVars, callVars, queue, stale, wire>>

(* The environment: the server never answers the oldest frame; the link    *)
(* dies without a close event; a socket close() left behind is gone.       *)
NeverAnswered(s) ==
  /\ MicrotasksDone
  /\ wire[s] # <<>>
  /\ wire' = [wire EXCEPT ![s] = Tail(@)]
  /\ UNCHANGED <<connVars, modeVars, retryVars, aliveVars, reconnectTimer, sleepTimer,
                 dialVars, callVars, pending, queue, stale, frame, answer>>

HalfOpen ==
  /\ MicrotasksDone
  /\ ws # None /\ sock[ws] = "open"
  /\ sock' = [sock EXCEPT ![ws] = "half"]
  /\ wire' = [wire EXCEPT ![ws] = <<>>]
  /\ UNCHANGED <<status, ws, modeVars, retryVars, aliveVars, reconnectTimer, sleepTimer,
                 dialVars, callVars, pending, queue, stale, frame, answer>>

DetachedEnds(s) ==
  /\ MicrotasksDone
  /\ s # ws /\ sock[s] = "closing"
  /\ sock' = [sock EXCEPT ![s] = "free"]
  /\ wire' = [wire EXCEPT ![s] = <<>>]
  /\ UNCHANGED <<status, ws, modeVars, retryVars, aliveVars, reconnectTimer, sleepTimer,
                 dialVars, callVars, pending, queue, stale, frame, answer>>

-----------------------------------------------------------------------------
(* Timers.                                                                 *)

(* The callback of reconnectTimer up to the await of onTokenRefreshNeeded. *)
ReconnectTimerRefreshes ==
  /\ MicrotasksDone
  /\ reconnectTimer
  /\ retryCount + 1 = RetryThreshold /\ ~refreshed
  /\ reconnectTimer' = FALSE
  /\ retryCount' = retryCount + 1
  /\ refreshed' = TRUE
  /\ refreshing' = refreshing + 1 /\ refreshing' <= MaxRefreshes
  /\ UNCHANGED <<connVars, modeVars, aliveVars, sleepTimer, dialVars, callVars, dataVars>>

ReconnectTimerDials ==
  /\ MicrotasksDone
  /\ reconnectTimer
  /\ retryCount + 1 # RetryThreshold \/ refreshed
  /\ reconnectTimer' = FALSE
  /\ retryCount' = IF retryCount > RetryThreshold THEN retryCount ELSE retryCount + 1
  /\ \E s \in Sockets : InitWebSocket(s, connectTimer)
  /\ UNCHANGED <<modeVars, refreshed, refreshing, aliveVars, sleepTimer, callVars,
                 pending, queue, stale, frame, answer>>

(* After the await, with a new token or without: _initWebSocket follows    *)
(* whatever has happened meanwhile.                                        *)
TokenRefreshReturns ==
  /\ MicrotasksDone
  /\ refreshing > 0
  /\ refreshing' = refreshing - 1
  /\ retryCount' \in {0, retryCount}
  /\ \E s \in Sockets : InitWebSocket(s, connectTimer)
  /\ UNCHANGED <<modeVars, refreshed, aliveVars, reconnectTimer, sleepTimer, callVars,
                 pending, queue, stale, frame, answer>>

(* A connect timer.  An orphan also clears this.connectTimer, which makes  *)
(* an orphan of the timer tracked until then.                              *)
CutHandshake ==
  sock' = IF ws # None /\ status # "open" THEN [sock EXCEPT ![ws] = "closing"] ELSE sock

ConnectTimeout ==
  /\ MicrotasksDone
  /\ \/ connectTimer /\ UNCHANGED orphanTimers
     \/ /\ orphanTimers > 0
        /\ orphanTimers' = IF connectTimer THEN orphanTimers ELSE orphanTimers - 1
  /\ connectTimer' = FALSE
  /\ CutHandshake
  /\ UNCHANGED <<status, ws, modeVars, retryVars, aliveVars, reconnectTimer, sleepTimer,
                 callVars, dataVars>>

(* The keepalive tick: the connection was idle for too long, or            *)
(* _triggerHeartbeatCheck sends a heartbeat and re-arms pongTimer.         *)
KeepaliveTickIdle ==
  /\ MicrotasksDone
  /\ keepaliveTimer /\ ws # None /\ status = "open"
  /\ ActiveReconnect(pongTimer)

SendHeartbeatUnwatched ==  \* faulty: no pong timer
  UNCHANGED vars

SendHeartbeat ==
  /\ pongTimer' = TRUE
  /\ UNCHANGED <<connVars, modeVars, retryVars, keepaliveTimer, reconnectTimer, sleepTimer,
                 dialVars, callVars, dataVars>>

KeepaliveTick ==
  /\ MicrotasksDone
  /\ keepaliveTimer /\ ws # None /\ status = "open"
  /\ SendHeartbeat

PongTimeout ==
  /\ MicrotasksDone
  /\ pongTimer
  /\ ActiveReconnect(FALSE)

(* The sleep detector saw a gap: _wakeUpConnection.                        *)
WakeUpReconnects ==
  /\ MicrotasksDone
  /\ sleepTimer /\ ~closedByUser
  /\ ActiveReconnect(pongTimer)

WakeUpHeartbeat ==
  /\ MicrotasksDone
  /\ sleepTimer /\ ~closedByUser /\ ws # None /\ status = "open"
  /\ SendHeartbeat

(* Time: one more entry at the head of the queue is too old.               *)
QueueAges ==
  /\ MicrotasksDone
  /\ stale < Len(queue)
  /\ stale' = stale + 1
  /\ UNCHANGED <<connVars, modeVars, retryVars, aliveVars, reconnectTimer, sleepTimer,
                 dialVars, callVars, pending, queue, frame, answer, wire>>

-----------------------------------------------------------------------------
Api ==
  \/ \E c \in Callers : \/ ConnectReturns(c) \/ ConnectJoins(c)
                        \/ ConnectStarts(c)  \/ ConnectFinally(c)
  \/ Close
  \/ \E f \in Frames : Request(f) \/ Send(f) \/ RequestTimeout(f)

Events ==
  \/ OnOpen \/ OnClose \/ OnHeartbeatAck \/ HalfOpen
  \/ \E s \in Sockets : OnReply(s) \/ NeverAnswered(s) \/ DetachedEnds(s)

Timers ==
  \/ ReconnectTimerRefreshes \/ ReconnectTimerDials \/ TokenRefreshReturns
  \/ ConnectTimeout \/ KeepaliveTickIdle \/ KeepaliveTick \/ PongTimeout
  \/ WakeUpReconnects \/ WakeUpHeartbeat \/ QueueAges

Next == Api \/ Events \/ Timers

Spec == Init /\ [][Next]_vars

(* Node.js fires its timers and runs its continuations; a token refresh is *)
(* an HTTP call with a time-out; a socket whose close() was called ends;   *)
(* and a handshake that is tried again and again succeeds at last, which   *)
(* is what "the network comes back" means here.                            *)
Fairness ==
  /\ WF_vars(ReconnectTimerRefreshes \/ ReconnectTimerDials)
  /\ WF_vars(TokenRefreshReturns)
  /\ WF_vars(ConnectTimeout)
  /\ WF_vars(PongTimeout)
  /\ WF_vars(KeepaliveTick)
  /\ WF_vars(ws # None /\ sock[ws] = "closing" /\ OnClose)
  /\ WF_vars(\E s \in Sockets : DetachedEnds(s))
  /\ WF_vars(\E c \in Callers : ConnectFinally(c))
  /\ SF_vars(OnOpen)

FairSpec == Spec /\ Fairness

-----------------------------------------------------------------------------
(* Properties of the life cycle.                                           *)

(* A socket is in use only while it is this.ws: every path that drops or   *)
(* replaces this.ws closes what it held, so no connection is left open     *)
(* that nobody can close any more.                                         *)
NoLeakedSocket ==
  \A s \in Sockets : s # ws => sock[s] \notin {"connecting", "open", "half"}

(* After connect() and until close() or the failure of the first attempt,  *)
(* a transport that is not open has something armed that will make it try  *)
(* again: a socket, the back-off timer or a token refresh.                 *)
TriesAgain ==
  (sleepTimer /\ ~closedByUser /\ AutoReconnect /\ status # "open")
    => ws # None \/ reconnectTimer \/ refreshing > 0

(* While the transport is connecting, a connect timer is armed or has      *)
(* already cut the socket off.                                             *)
HandshakeBounded ==
  status = "connecting"
    => ws # None /\ (sock[ws] = "closing" \/ connectTimer \/ orphanTimers > 0)

(* An open transport has the keepalive interval that finds out when its    *)
(* connection has silently died.                                           *)
OpenIsWatched ==
  status = "open" => ws # None /\ sock[ws] \in {"open", "half"} /\ keepaliveTimer

(* Whatever its state, a transport that is wanted has something armed that *)
(* will take it out of that state if the network never says anything more. *)
NeverStranded == TriesAgain /\ HandshakeBounded /\ OpenIsWatched

(* While it is closed, by the user or by a failed first attempt, the       *)
(* transport opens a socket only by using up a token refresh in flight or  *)
(* the back-off timer: a keepalive tick, a pong time-out or a wake-up does *)
(* not.  It says nothing of when those two were armed.                     *)
DialAfterCloseIsLeftover ==
  [][closedByUser /\ closedByUser' /\ ws' \notin {ws, None}
       => refreshing' < refreshing \/ (reconnectTimer /\ ~reconnectTimer')]_vars

(* Every connect() call that is waiting will be settled by the resolvers   *)
(* the transport holds.                                                    *)
ConnectCallsSettle ==
  \A c \in Callers : call[c] = "waiting" => initial # None /\ awaits[c] = initial

(* close() keeps the transport closed until the next connect().            *)
ClosedStaysClosed == closedByUser => status # "open"

(* Unless it is closed, a transport that has been connected once gets back *)
(* to an open connection after any loss of it.                             *)
Recovers ==
  (everConnected /\ AutoReconnect /\ ~closedByUser) ~> (status = "open" \/ closedByUser)

(* A connection that died without a close event is given up.               *)
HalfOpenDetected ==
  (ws # None /\ sock[ws] = "half" /\ ~closedByUser)
    ~> (closedByUser \/ ws = None \/ sock[ws] # "half")

-----------------------------------------------------------------------------
(* Properties of requests.                                                 *)

(* The requests that wait for an answer are exactly the ones with a        *)
(* resolver in the FIFO of their key, once each: none is settled twice and *)
(* none is forgotten, whatever replies, time-outs and closes happen.       *)
WaitingIffPending ==
  /\ \A k \in Keys : IsInjective(pending[k])
  /\ \A f \in Frames, k \in Keys :
       Contains(pending[k], f) <=> frame[f] = "waiting" /\ k = KeyOf[f]

InFlight(f) == Contains(queue, f) \/ \E s \in Sockets : Contains(wire[s], f)

(* A reply resolves a request other than its own only if its FIFO holds    *)
(* leftovers: a frame still to be answered that no request waits for, or a *)
(* request whose frame is gone.                                            *)
CrossedOnlyByLeftovers ==
  [][\A f \in Frames : answer'[f] \notin {answer[f], f}
       => \E g \in Frames : KeyOf[g] = KeyOf[f] /\ ~((frame[g] = "waiting") <=> InFlight(g))]_vars

(* A request is never resolved with the reply to another request.         *)
RepliesMatch ==
  \A f, g \in Frames : answer[f] = g => f = g \/ frame[g] = "sent"
=============================================================================
