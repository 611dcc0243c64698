----------------------------- MODULE ServeDaemon -----------------------------
(***************************************************************************)
(* The serve daemon (packages/kit/src/serve/daemon.js) over the cloud hub  *)
(* (connect, close, onReconnect and onDeviceUpdate of                      *)
(* packages/core/src/client.js): the loop that connects, the single state  *)
(* subscription shared by all clients, and shutdown().                     *)
(*                                                                         *)
(* An action runs from one await or callback to the next.  A transport is  *)
(* reduced to what Hub3Ws lets its user see.  The daemon subscribes to     *)
(* state changes and to device list changes, always to both at once: they  *)
(* are one subscription here, and a client subscribes to topics or not.    *)
(* A closed transport is taken to stay closed: that a refresh of its token *)
(* can undo this is a matter of Hub3Ws (ClosedStaysClosed).  runServe      *)
(* stops the framings before it calls shutdown(), so that no client calls  *)
(* the daemon from then on.                                                *)
(***************************************************************************)
EXTENDS Naturals

CONSTANTS
  Links,    \* Hub3WsClient objects; bound of the model
  Clients,  \* persistent connections to the daemon
  None

ASSUME LinksAssumption == None \notin Links

VARIABLES
  ws,        \* the hub's _ws, or None
  link,      \* the state of each transport
  queued,    \* transports with a subscribe frame in their queue
  told,      \* transports whose current connection has sent a subscribe frame
  missed,    \* transports whose first dial outlived a subscribe frame that was not made up for since
  handlers,  \* how many handlers of the daemon each transport delivers to
  loop,      \* where _connectLoop is
  timer,     \* whether the timer of its _sleep is set
  auth,      \* authState
  tokens,    \* whether tokens are stored
  conns,     \* the clients that are connected
  topics,    \* those of them that have subscribed to some topic
  sub,       \* the transport that the daemon's subscription was made on, or None
  down       \* how far shutdown() is

vars == <<ws, link, queued, told, missed, handlers, loop, timer, auth, tokens, conns, topics, sub, down>>

linkVars == <<ws, link>>
subVars  == <<queued, told, missed, handlers, sub>>
loopVars == <<loop, timer, auth>>

LinkStates == {"unused", "connecting", "open", "lost", "dead"}
LoopPlaces == {"off", "connect", "token", "dialing", "account", "sleeping", "done"}

TypeOK ==
  /\ ws \in Links \cup {None}
  /\ link \in [Links -> LinkStates]
  /\ queued \subseteq Links /\ told \subseteq Links /\ missed \subseteq Links
  /\ handlers \in [Links -> Nat]
  /\ loop \in LoopPlaces
  /\ timer \in BOOLEAN
  /\ auth \in {"ok", "degraded", "expired"}
  /\ tokens \in BOOLEAN
  /\ topics \subseteq conns /\ conns \subseteq Clients
  /\ sub \in Links \cup {None}
  /\ down \in {"up", "cleaning", "closed"}
  /\ told \subseteq {l \in Links : link[l] = "open"}
  /\ loop = "dialing" <=> \E l \in Links : link[l] = "connecting"

Init ==
  /\ ws = None /\ link = [l \in Links |-> "unused"]
  /\ queued = {} /\ told = {} /\ missed = {} /\ handlers = [l \in Links |-> 0] /\ sub = None
  /\ loop = "off" /\ timer = FALSE /\ auth = "degraded" /\ tokens \in BOOLEAN
  /\ conns = {} /\ topics = {}
  /\ down = "up"

Stopped == down # "up"

(* A frame is sent if the connection is open, and queued otherwise. *)
Send(l) ==
  /\ missed' = missed \ {l}
  /\ IF link[l] = "open" THEN told' = told \cup {l} /\ UNCHANGED queued
                         ELSE queued' = queued \cup {l} /\ UNCHANGED told

-----------------------------------------------------------------------------
(* The subscription.                                                       *)

(* What the unsubscribe function does to the handlers of its transport.    *)
Unsubscribed ==
  [l \in Links |-> IF l = sub /\ handlers[l] > 0 THEN handlers[l] - 1 ELSE handlers[l]]

(* _ensureStateSub *)
EnsureNothing ==  \* faulty: the subscription waits for the next client
  UNCHANGED subVars

EnsureStateSub ==
  IF ws # None /\ sub = None
  THEN /\ sub' = ws
       /\ handlers' = [handlers EXCEPT ![ws] = @ + 1]
       /\ Send(ws)
  ELSE UNCHANGED subVars

(* _maybeTeardownStateSub, with the clients that are left.                 *)
MaybeTeardown(left) ==
  IF left = {} THEN sub' = None /\ handlers' = Unsubscribed
               ELSE UNCHANGED <<sub, handlers>>

(* _reestablishStateSub on a connection of l that has just opened, and     *)
(* then the library's own callbacks: each handler's frame is sent again.   *)
ReestablishOnTop(l) ==  \* faulty: the former subscription is not ended
  /\ sub' = IF topics # {} THEN ws ELSE None
  /\ handlers' = IF topics # {} THEN [handlers EXCEPT ![ws] = @ + 1] ELSE handlers
  /\ told' = told \cup {l} /\ missed' = missed \ {l}

Reestablish(l) ==
  /\ sub' = IF topics # {} THEN ws ELSE None
  /\ handlers' = IF topics # {} THEN [Unsubscribed EXCEPT ![ws] = @ + 1] ELSE Unsubscribed
  /\ told' = IF topics # {} \/ l \in queued \/ handlers[l] > 0 THEN told \cup {l} ELSE told
  /\ missed' = missed \ {l}

AddConnection(c) ==
  /\ ~Stopped /\ c \notin conns
  /\ conns' = conns \cup {c}
  /\ UNCHANGED <<linkVars, subVars, loopVars, tokens, topics, down>>

RemoveConnection(c) ==
  /\ c \in conns
  /\ conns' = conns \ {c}
  /\ topics' = topics \ {c}
  /\ MaybeTeardown(topics \ {c})
  /\ UNCHANGED <<linkVars, queued, told, missed, loopVars, tokens, down>>

Subscribe(c) ==
  /\ ~Stopped /\ c \in conns
  /\ topics' = topics \cup {c}
  /\ EnsureStateSub
  /\ UNCHANGED <<linkVars, loopVars, tokens, conns, down>>

Unsubscribe(c) ==
  /\ ~Stopped /\ c \in conns
  /\ topics' = topics \ {c}
  /\ MaybeTeardown(topics \ {c})
  /\ UNCHANGED <<linkVars, queued, told, missed, loopVars, tokens, conns, down>>

-----------------------------------------------------------------------------
(* _connectLoop and SesameHub3.connect.                                    *)

Start ==
  /\ loop = "off"
  /\ loop' = "connect"
  /\ UNCHANGED <<linkVars, subVars, timer, auth, tokens, conns, topics, down>>

(* The head of the loop.  connect() returns at once if there is a _ws.     *)
CallConnect ==
  /\ loop = "connect"
  /\ IF Stopped THEN loop' = "done" /\ UNCHANGED auth
     ELSE IF ws # None THEN loop' = "account" /\ auth' = "ok"
     ELSE loop' = "token" /\ UNCHANGED auth
  /\ UNCHANGED <<linkVars, subVars, timer, tokens, conns, topics, down>>

(* The catch block, and _sleep. *)
ConnectFailed ==
  /\ auth' = IF tokens THEN "degraded" ELSE "expired"
  /\ loop' = "sleeping" /\ timer' = TRUE

(* getValidIdToken throws. *)
TokenFails ==
  /\ loop = "token"
  /\ ConnectFailed
  /\ UNCHANGED <<linkVars, subVars, tokens, conns, topics, down>>

(* getValidIdToken returns: a transport is made, and it dials. *)
TokenArrives ==
  /\ loop = "token" /\ tokens
  /\ \E l \in Links :
       /\ link[l] = "unused"
       /\ ws' = l
       /\ link' = [link EXCEPT ![l] = "connecting"]
  /\ loop' = "dialing"
  /\ UNCHANGED <<subVars, timer, auth, tokens, conns, topics, down>>

(* The first connection opens: the queue is flushed. *)
Opens(l) ==
  /\ link[l] = "connecting"
  /\ link' = [link EXCEPT ![l] = "open"]
  /\ told' = IF l \in queued THEN told \cup {l} ELSE told
  /\ queued' = queued \ {l}
  /\ loop' = "account" /\ auth' = "ok"
  /\ UNCHANGED <<ws, missed, handlers, sub, timer, tokens, conns, topics, down>>

(* It does not: the transport behaves as if closed from then on, but stays *)
(* the hub's _ws.                                                          *)
InitialFails(l) ==
  /\ link[l] = "connecting"
  /\ link' = [link EXCEPT ![l] = "dead"]
  /\ queued' = queued \ {l}
  /\ ConnectFailed
  /\ UNCHANGED <<ws, told, missed, handlers, sub, tokens, conns, topics, down>>

(* refreshAccount() has returned or thrown. *)
AccountReturns ==
  /\ loop = "account"
  /\ EnsureStateSub
  /\ loop' = "done"
  /\ UNCHANGED <<linkVars, timer, auth, tokens, conns, topics, down>>

SleepEnds ==
  /\ loop = "sleeping" /\ timer
  /\ timer' = FALSE
  /\ loop' = "connect"
  /\ UNCHANGED <<linkVars, subVars, auth, tokens, conns, topics, down>>

-----------------------------------------------------------------------------
(* The transport once connected (Hub3Ws), and the user's login.            *)

Lost(l) ==
  /\ link[l] = "open"
  /\ link' = [link EXCEPT ![l] = "lost"]
  /\ told' = told \ {l}
  /\ UNCHANGED <<ws, queued, missed, handlers, sub, loopVars, tokens, conns, topics, down>>

(* Frames queued for longer than QUEUE_ENTRY_MAX_AGE_MS are dropped when   *)
(* the connection opens, be it for the first time: a host asleep during    *)
(* the first dial wakes up and dials again.  Only a reconnection makes up  *)
(* for them, with onReopen.                                                *)
QueueExpires(l) ==
  /\ link[l] \in {"connecting", "lost"} /\ l \in queued
  /\ queued' = queued \ {l}
  /\ missed' = IF link[l] = "connecting" THEN missed \cup {l} ELSE missed
  /\ UNCHANGED <<linkVars, told, handlers, sub, loopVars, tokens, conns, topics, down>>

Reopens(l) ==
  /\ link[l] = "lost"
  /\ link' = [link EXCEPT ![l] = "open"]
  /\ queued' = queued \ {l}
  /\ Reestablish(l)
  /\ UNCHANGED <<ws, loopVars, tokens, conns, topics, down>>

LoginOrLogout ==
  /\ tokens' = ~tokens
  /\ UNCHANGED <<linkVars, subVars, loopVars, conns, topics, down>>

-----------------------------------------------------------------------------
(* shutdown() and SesameHub3.close.                                        *)

(* _ws.close(), if there is a _ws.  A connect() that waits for it fails.   *)
HubForgets ==  \* faulty: _ws is dropped without being closed
  ws' = None /\ down' = "closed" /\ UNCHANGED <<link, queued, told, missed>>

HubCloses ==
  /\ ws' = None
  /\ IF ws = None THEN UNCHANGED <<link, queued, told>>
     ELSE /\ link' = [link EXCEPT ![ws] = "dead"]
          /\ queued' = queued \ {ws}
          /\ told' = told \ {ws}
  /\ UNCHANGED missed
  /\ down' = "closed"

Forgotten(h) == [l \in Links |-> IF l = ws THEN 0 ELSE h[l]]

LeaveAsleep == UNCHANGED loop  \* faulty: the timer is cleared and nothing wakes the loop

(* The sleep of the loop is cut short. *)
WakeLoop == loop' = IF loop = "sleeping" THEN "connect" ELSE loop

(* No cleanup is pending. *)
Shutdown ==
  /\ down = "up"
  /\ sub' = None
  /\ handlers' = Forgotten(Unsubscribed)
  /\ HubCloses
  /\ IF loop = "dialing" THEN ConnectFailed
     ELSE timer' = FALSE /\ WakeLoop /\ UNCHANGED auth
  /\ UNCHANGED <<tokens, conns, topics>>

(* close() awaits the cleanups of onIRLearned first. *)
ShutdownWaits ==
  /\ down = "up"
  /\ sub' = None
  /\ handlers' = Unsubscribed
  /\ down' = "cleaning"
  /\ timer' = FALSE /\ WakeLoop
  /\ UNCHANGED <<linkVars, queued, told, missed, auth, tokens, conns, topics>>

CleanupsDone ==
  /\ down = "cleaning"
  /\ handlers' = Forgotten(handlers)
  /\ HubCloses
  /\ IF loop = "dialing" THEN ConnectFailed ELSE UNCHANGED loopVars
  /\ UNCHANGED <<sub, tokens, conns, topics>>

Next ==
  \/ Start \/ CallConnect \/ TokenFails \/ TokenArrives \/ AccountReturns \/ SleepEnds
  \/ LoginOrLogout \/ Shutdown \/ ShutdownWaits \/ CleanupsDone
  \/ \E l \in Links : Opens(l) \/ InitialFails(l) \/ Lost(l) \/ QueueExpires(l) \/ Reopens(l)
  \/ \E c \in Clients :
       AddConnection(c) \/ RemoveConnection(c) \/ Subscribe(c) \/ Unsubscribe(c)

Spec == Init /\ [][Next]_vars

(* Calls return or time out, timers fire, the loop goes on.                *)
Fairness ==
  /\ WF_vars(CallConnect) /\ WF_vars(AccountReturns) /\ WF_vars(SleepEnds)
  /\ WF_vars(TokenFails \/ TokenArrives) /\ WF_vars(CleanupsDone)
  /\ \A l \in Links : WF_vars(Opens(l) \/ InitialFails(l))

FairSpec == Spec /\ Fairness

-----------------------------------------------------------------------------
(* Every transport that is alive is the hub's _ws, so that close() reaches *)
(* it: none is left behind by a connect() and a shutdown() that cross.     *)
LiveIsReachable == \A l \in Links : link[l] \in {"connecting", "open", "lost"} => ws = l

(* A push is delivered to a client once: the handlers of a transport are   *)
(* those of the subscription the daemon knows of, over any number of       *)
(* reconnections.                                                          *)
SingleDelivery == \A l \in Links : handlers[l] > 0 => handlers[l] = 1 /\ sub = l

(* While the daemon is up and its connection open, a client that has       *)
(* subscribed is served: there is a handler, and the server was told on    *)
(* this very connection.  The one exception is a subscription made while   *)
(* the first dial took so long that its frame was dropped, until the       *)
(* connection is lost and reopened, or the topics are subscribed to anew.  *)
SubscribersServed ==
  loop = "done" /\ ~Stopped /\ topics # {} /\ ws # None /\ link[ws] = "open"
    => sub = ws /\ handlers[ws] = 1 /\ ws \in told \cup missed

(* Without that exception it is not true: the frame of a first subscription*)
(* is dropped and onReopen is not called.                                  *)
AlwaysServed ==
  loop = "done" /\ ~Stopped /\ topics # {} /\ ws # None /\ link[ws] = "open" => ws \in told

(* Whatever shutdown() interrupts, the loop does not stay where it is.     *)
LoopEnds == Stopped ~> loop \in {"off", "done"}

(* The daemon goes on trying to connect: the loop ends with a transport    *)
(* that is connected or reconnects by itself.                              *)
NeverGivesUp == loop = "done" /\ ~Stopped => ws # None /\ link[ws] # "dead"

(* Once shutdown() is over no connection is open.                          *)
ShutdownIsFinal == down = "closed" => \A l \in Links : link[l] # "open"
=============================================================================
