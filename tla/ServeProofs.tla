---------------------------- MODULE ServeProofs -----------------------------
(***************************************************************************)
(* sesame serve and its clients: the daemon of any number of transports    *)
(* and clients (ServeDaemon), the starts of any number of daemons          *)
(* (ServeStart), what a client is sent (LineConn), the client of the       *)
(* socket (SocketClient) and the login dialogue of any number of processes *)
(* (LoginDialogue).  The five share no state.                              *)
(***************************************************************************)
EXTENDS ServeDaemon, ServeStart, LineConn, SocketClient, LoginDialogue,
        SequenceTheorems, FiniteSetTheorems, TLAPS

-----------------------------------------------------------------------------
(***************************************************************************)
(* The daemon: close() reaches every transport that is alive, a push is    *)
(* delivered once, and whoever has subscribed is served.                   *)
(***************************************************************************)

(* A transport is only made when there is none.                            *)
TokenForNone == loop = "token" => ws = None

(* While the daemon is up its subscription is on the hub's transport, with *)
(* its handler, and with a subscribe frame sent, in the queue or dropped   *)
(* from it.                                                                *)
SubOnLink ==
  ~Stopped /\ sub # None =>
    /\ sub = ws
    /\ handlers[sub] = 1
    /\ link[sub] = "open" => sub \in told \cup missed
    /\ link[sub] = "connecting" => sub \in queued \cup missed

(* Once the loop has ended, a client with topics has the subscription.     *)
TopicsHaveSub == loop = "done" /\ ~Stopped /\ ws # None /\ topics # {} => sub = ws

DaemonInv == /\ TypeOK
        /\ LiveIsReachable
        /\ SingleDelivery
        /\ TokenForNone
        /\ SubOnLink
        /\ TopicsHaveSub

LEMMA InitHolds == Init => DaemonInv
<1> SUFFICES ASSUME Init PROVE DaemonInv
  OBVIOUS
<1>1. TypeOK
  BY DEF Init, TypeOK, LinkStates, LoopPlaces
<1>2. LiveIsReachable /\ SingleDelivery
  BY DEF Init, LiveIsReachable, SingleDelivery
<1>3. TokenForNone /\ SubOnLink /\ TopicsHaveSub
  BY DEF Init, TokenForNone, SubOnLink, TopicsHaveSub
<1> QED
  BY <1>1, <1>2, <1>3 DEF DaemonInv

(* Ending the subscription leaves no handler.                              *)
LEMMA UnsubscribedIsZero ==
  ASSUME TypeOK, SingleDelivery PROVE Unsubscribed = [l \in Links |-> 0]
<1>1. ASSUME NEW l \in Links
      PROVE (IF l = sub /\ handlers[l] > 0 THEN handlers[l] - 1 ELSE handlers[l]) = 0
  <2>1. handlers[l] \in Nat
    BY DEF TypeOK
  <2>2. CASE handlers[l] > 0
    BY <2>1, <2>2 DEF SingleDelivery
  <2>3. CASE handlers[l] = 0
    BY <2>3
  <2> QED
    BY <2>1, <2>2, <2>3
<1> QED
  BY <1>1 DEF Unsubscribed

LEMMA StepHolds == DaemonInv /\ [Next]_vars => DaemonInv'
<1> SUFFICES ASSUME DaemonInv, [Next]_vars PROVE DaemonInv'
  OBVIOUS
<1> USE LinksAssumption
    DEF DaemonInv, TypeOK, LinkStates, LoopPlaces, LiveIsReachable, SingleDelivery,
        TokenForNone, SubOnLink, TopicsHaveSub, Stopped, linkVars, subVars, loopVars
<1>0. Unsubscribed = [l \in Links |-> 0]
  BY UnsubscribedIsZero
<1>1. CASE UNCHANGED vars
  BY <1>1 DEF vars
<1>2. CASE Start
  BY <1>2 DEF Start
<1>3. CASE CallConnect
  BY <1>3 DEF CallConnect
<1>4. CASE TokenFails
  BY <1>4 DEF TokenFails, ConnectFailed
<1>5. CASE TokenArrives
  BY <1>5 DEF TokenArrives
<1>6. CASE AccountReturns
  BY <1>6 DEF AccountReturns, EnsureStateSub, Send
<1>7. CASE SleepEnds
  BY <1>7 DEF SleepEnds
<1>8. CASE LoginOrLogout
  BY <1>8 DEF LoginOrLogout
<1>9. CASE Shutdown
  <2>1. /\ sub' = None /\ ws' = None /\ down' = "closed"
        /\ handlers' = [l \in Links |-> 0]
        /\ link' = [l \in Links |-> IF l = ws THEN "dead" ELSE link[l]]
    BY <1>9, <1>0 DEF Shutdown, HubCloses, Forgotten
  <2>2. \A l \in Links : link'[l] \notin {"connecting", "open", "lost"}
    BY <2>1
  <2>3. told' = {} /\ queued' \subseteq queued
    BY <1>9 DEF Shutdown, HubCloses
  <2>4. loop' \in LoopPlaces \ {"dialing", "done"} \/ loop' = loop
    BY <1>9 DEF Shutdown, ConnectFailed, WakeLoop
  <2>5. loop' # "dialing" /\ timer' \in BOOLEAN /\ auth' \in {"ok", "degraded", "expired"}
    BY <1>9 DEF Shutdown, ConnectFailed, WakeLoop
  <2>6. UNCHANGED <<missed, tokens, conns, topics>>
    BY <1>9 DEF Shutdown, HubCloses
  <2>7. TypeOK'
    BY <2>1, <2>2, <2>3, <2>4, <2>5, <2>6
  <2>8. (LiveIsReachable /\ SingleDelivery /\ TokenForNone /\ SubOnLink /\ TopicsHaveSub)'
    BY <2>1, <2>2
  <2> QED
    BY <2>7, <2>8
<1>10. CASE ShutdownWaits
  <2>1. handlers' = [l \in Links |-> 0]
    BY <1>10, <1>0 DEF ShutdownWaits
  <2>2. /\ sub' = None /\ down' = "cleaning" /\ timer' = FALSE
        /\ UNCHANGED <<ws, link, queued, told, missed, auth, tokens, conns, topics>>
    BY <1>10 DEF ShutdownWaits
  <2>3. /\ loop' \in LoopPlaces
        /\ loop' = "dialing" <=> loop = "dialing"
        /\ loop' = "token" => loop = "token"
    BY <1>10 DEF ShutdownWaits, WakeLoop
  <2>4. TypeOK'
    BY <2>1, <2>2, <2>3
  <2> QED
    BY <2>1, <2>2, <2>3, <2>4
<1>11. CASE CleanupsDone
  <2>1. /\ UNCHANGED sub /\ ws' = None /\ down' = "closed"
        /\ handlers' = [l \in Links |-> IF l = ws THEN 0 ELSE handlers[l]]
        /\ link' = [l \in Links |-> IF l = ws THEN "dead" ELSE link[l]]
    BY <1>11 DEF CleanupsDone, HubCloses, Forgotten
  <2>2. \A l \in Links : link'[l] \notin {"connecting", "open", "lost"}
    BY <2>1
  <2>3. told' = {} /\ queued' \subseteq queued
    BY <1>11 DEF CleanupsDone, HubCloses
  <2>4. /\ loop' \in LoopPlaces \ {"dialing"} /\ timer' \in BOOLEAN
        /\ auth' \in {"ok", "degraded", "expired"}
        /\ loop' = "token" => loop = "token"
    BY <1>11 DEF CleanupsDone, ConnectFailed
  <2>5. UNCHANGED <<missed, tokens, conns, topics>> /\ Stopped
    BY <1>11 DEF CleanupsDone, HubCloses
  <2>6. TypeOK'
    BY <2>1, <2>2, <2>3, <2>4, <2>5
  <2>7. (LiveIsReachable /\ SingleDelivery /\ TokenForNone /\ SubOnLink /\ TopicsHaveSub)'
    BY <2>1, <2>2
  <2> QED
    BY <2>6, <2>7
<1>12. ASSUME NEW l \in Links, Opens(l) PROVE DaemonInv'
  BY <1>12 DEF Opens
<1>13. ASSUME NEW l \in Links, InitialFails(l) PROVE DaemonInv'
  BY <1>13 DEF InitialFails, ConnectFailed
<1>14. ASSUME NEW l \in Links, Lost(l) PROVE DaemonInv'
  BY <1>14 DEF Lost
<1>15. ASSUME NEW l \in Links, QueueExpires(l) PROVE DaemonInv'
  BY <1>15 DEF QueueExpires
<1>16. ASSUME NEW l \in Links, Reopens(l) PROVE DaemonInv'
  BY <1>16, <1>0 DEF Reopens, Reestablish
<1>17. ASSUME NEW c \in Clients, AddConnection(c) PROVE DaemonInv'
  BY <1>17 DEF AddConnection
<1>18. ASSUME NEW c \in Clients, RemoveConnection(c) PROVE DaemonInv'
  BY <1>18, <1>0 DEF RemoveConnection, MaybeTeardown
<1>19. ASSUME NEW c \in Clients, Subscribe(c) PROVE DaemonInv'
  BY <1>19 DEF Subscribe, EnsureStateSub, Send
<1>20. ASSUME NEW c \in Clients, Unsubscribe(c) PROVE DaemonInv'
  BY <1>20, <1>0 DEF Unsubscribe, MaybeTeardown
<1> QED
  BY <1>1, <1>2, <1>3, <1>4, <1>5, <1>6, <1>7, <1>8, <1>9, <1>10, <1>11, <1>12, <1>13,
     <1>14, <1>15, <1>16, <1>17, <1>18, <1>19, <1>20 DEF Next

LEMMA Invariance == Spec => []DaemonInv
BY InitHolds, StepHolds, PTL DEF Spec

(* In any order of the callbacks, every state is of the declared type; in  *)
(* particular the loop waits for a handshake exactly while a transport is  *)
(* in one.                                                                 *)
THEOREM DaemonTypeCorrect == Spec => []TypeOK
<1>1. DaemonInv => TypeOK
  BY DEF DaemonInv
<1> QED
  BY <1>1, Invariance, PTL

(* However connect(), its failures and shutdown() cross, a transport that  *)
(* is alive is the one that close() will find in _ws.                      *)
THEOREM NoneLeftBehind == Spec => []LiveIsReachable
<1>1. DaemonInv => LiveIsReachable
  BY DEF DaemonInv
<1> QED
  BY <1>1, Invariance, PTL

(* Over any number of reconnections no push is delivered twice.            *)
THEOREM DeliveredOnce == Spec => []SingleDelivery
<1>1. DaemonInv => SingleDelivery
  BY DEF DaemonInv
<1> QED
  BY <1>1, Invariance, PTL

(* A client that has subscribed is served whenever the connection is open, *)
(* unless its frame was dropped during the first dial and not sent since.  *)
THEOREM ServedWhenOpen == Spec => []SubscribersServed
<1>1. DaemonInv => SubscribersServed
  BY DEF DaemonInv, TypeOK, SubOnLink, TopicsHaveSub, SubscribersServed
<1> QED
  BY <1>1, Invariance, PTL

-----------------------------------------------------------------------------
(***************************************************************************)
(* The starts: daemons started one at a time do not take the socket path   *)
(* from each other.                                                        *)
(*                                                                         *)
(* The invariant holds only as long as starts do not overlap, so it is     *)
(* inductive relative to StartsApart: a process about to unlink the path   *)
(* has found that nobody answers there, and nobody has come to listen      *)
(* since.                                                                  *)
(***************************************************************************)

(* How many framings there are to stop, by the progress of the start.      *)
HandlesAt(p) ==
  /\ start[p] = "new" => Len(handles[p]) = 0
  /\ start[p] \in {"exists", "probing", "unlinking", "listening"} => Len(handles[p]) = 1
  /\ start[p] = "port" => Len(handles[p]) = 2
  /\ start[p] \in {"serving", "late"} => Len(handles[p]) = 3
  /\ start[p] = "failed" => Len(handles[p]) \in {1, 2}
  /\ \A i \in 1 .. Len(handles[p]) : handles[p][i] = "socket" <=> i = 2

HandlesOf == \A p \in Servers : HandlesAt(p)

(* The socket is up from listen() to its turn in shutdown().               *)
SocketUpAt(p) ==
  /\ pos[p] <= Len(handles[p]) + 1
  /\ "socket" \in up[p] <=> p \notin gone /\ Len(handles[p]) >= 2 /\ pos[p] <= 2

SocketUp == \A p \in Servers : SocketUpAt(p)

(* Who unlinks the path unlinks nobody's.                                  *)
UnlinksStale ==
  \A p \in Servers : p \notin gone /\ start[p] = "unlinking" =>
    \A q \in Servers : "socket" \notin up[q]

StartInv == HandlesOf /\ SocketUp /\ RunningIsReachable /\ UnlinksStale

-----------------------------------------------------------------------------
(* The types.                                                              *)

(* A framing that is started is the last to be stopped.                    *)
NowLast(p, f) ==
  /\ handles' \in [Servers -> Seq(Framings)]
  /\ up' \in [Servers -> SUBSET Framings]
  /\ up'[p] = up[p] \cup {f}
  /\ Len(handles'[p]) = Len(handles[p]) + 1
  /\ handles'[p][Len(handles[p]) + 1] = f
  /\ \A i \in 1 .. Len(handles[p]) : handles'[p][i] = handles[p][i]
  /\ \A q \in Servers \ {p} : handles'[q] = handles[q] /\ up'[q] = up[q]

(* What Append does to the list, and what it leaves alone.                 *)
LEMMA StartedLast ==
  ASSUME StartTypeOK, NEW p \in Servers, NEW f \in Framings, Started(p, f)
  PROVE  NowLast(p, f)
<1>1. handles[p] \in Seq(Framings) /\ handles'[p] = Append(handles[p], f)
  BY DEF StartTypeOK, Started
<1>2. up' = [up EXCEPT ![p] = up[p] \cup {f}]
  BY DEF Started
<1>3. handles' = [handles EXCEPT ![p] = Append(handles[p], f)]
  BY DEF Started
<1>4. Append(handles[p], f) \in Seq(Framings)
  BY <1>1
<1>5. Len(handles'[p]) = Len(handles[p]) + 1 /\ handles'[p][Len(handles[p]) + 1] = f
  BY <1>1
<1>6. \A i \in 1 .. Len(handles[p]) : handles'[p][i] = handles[p][i]
  BY <1>1
<1> QED
  BY <1>2, <1>3, <1>4, <1>5, <1>6 DEF StartTypeOK, NowLast

(* The three framings of the model.                                        *)
LEMMA StartsLast ==
  ASSUME StartTypeOK, NEW p \in Servers
  PROVE  /\ StartStdio(p) => NowLast(p, "stdio")
         /\ Listen(p) /\ path = Nobody => NowLast(p, "socket")
         /\ StartPort(p) => NowLast(p, "port")
<1>1. "stdio" \in Framings /\ "socket" \in Framings /\ "port" \in Framings
  BY DEF Framings
<1>2. StartStdio(p) => Started(p, "stdio")
  BY DEF StartStdio
<1>3. Listen(p) /\ path = Nobody => Started(p, "socket")
  BY DEF Listen
<1>4. StartPort(p) => Started(p, "port")
  BY DEF StartPort
<1> QED
  BY <1>1, <1>2, <1>3, <1>4, StartedLast

(* Init and every step keep the types.                                     *)
LEMMA StartTypeInit == StartInit => StartTypeOK
BY PathAssumption DEF StartInit, StartTypeOK, Framings

LEMMA StartTypeStep == StartTypeOK /\ [StartNext]_startVars => StartTypeOK'
<1> SUFFICES ASSUME StartTypeOK, [StartNext]_startVars PROVE StartTypeOK'
  OBVIOUS
<1> USE DEF StartTypeOK, Framings, Goes, Runs
<1>1. CASE UNCHANGED startVars
  BY <1>1 DEF startVars
<1>2. ASSUME NEW p \in Servers, StartStdio(p) PROVE StartTypeOK'
  <2>1. NowLast(p, "stdio")
    BY <1>2, StartsLast
  <2> QED
    BY <1>2, <2>1 DEF StartStdio, NowLast
<1>3. ASSUME NEW p \in Servers, Exists(p) PROVE StartTypeOK'
  BY <1>3 DEF Exists
<1>4. ASSUME NEW p \in Servers, AlreadyRunning(p) PROVE StartTypeOK'
  BY <1>4 DEF AlreadyRunning, Fails, Ends
<1>5. ASSUME NEW p \in Servers, Unanswered(p) PROVE StartTypeOK'
  BY <1>5 DEF Unanswered
<1>6. ASSUME NEW p \in Servers, Unlink(p) PROVE StartTypeOK'
  BY <1>6 DEF Unlink
<1>7. ASSUME NEW p \in Servers, Listen(p) PROVE StartTypeOK'
  <2>1. CASE path = Nobody
    <3>1. NowLast(p, "socket")
      BY <1>7, <2>1, StartsLast
    <3> QED
      BY <1>7, <2>1, <3>1 DEF Listen, NowLast
  <2>2. CASE path # Nobody
    BY <1>7, <2>2 DEF Listen, Fails, Ends
  <2> QED
    BY <2>1, <2>2
<1>8. ASSUME NEW p \in Servers, StartPort(p) PROVE StartTypeOK'
  <2>1. NowLast(p, "port")
    BY <1>8, StartsLast
  <2> QED
    BY <1>8, <2>1 DEF StartPort, NowLast
<1>9. ASSUME NEW p \in Servers, PortTaken(p) PROVE StartTypeOK'
  BY <1>9 DEF PortTaken, Fails, Ends
<1>10. ASSUME NEW p \in Servers, ShutdownBegins(p) PROVE StartTypeOK'
  BY <1>10 DEF ShutdownBegins
<1>11. ASSUME NEW p \in Servers, Stop(p) PROVE StartTypeOK'
  BY <1>11 DEF Stop
<1>12. ASSUME NEW p \in Servers, AllStopped(p) PROVE StartTypeOK'
  BY <1>12 DEF AllStopped
<1>13. ASSUME NEW p \in Servers, HubClosed(p) PROVE StartTypeOK'
  BY <1>13 DEF HubClosed
<1>14. ASSUME NEW p \in Servers, Watchdog(p) PROVE StartTypeOK'
  BY <1>14 DEF Watchdog, Ends
<1>15. ASSUME NEW p \in Servers, Exit(p) PROVE StartTypeOK'
  BY <1>15 DEF Exit, Ends
<1>16. ASSUME NEW p \in Servers, Killed(p) PROVE StartTypeOK'
  BY <1>16 DEF Killed, Ends
<1> QED
  BY <1>1, <1>2, <1>3, <1>4, <1>5, <1>6, <1>7, <1>8,
     <1>9, <1>10, <1>11, <1>12, <1>13, <1>14, <1>15, <1>16 DEF StartNext

(* The variables of cmdServe's start and end keep their types.             *)
THEOREM StartTypeCorrect == StartSpec => []StartTypeOK
<1> QED
  BY StartTypeInit, StartTypeStep, PTL DEF StartSpec

-----------------------------------------------------------------------------
(* The path.                                                               *)

(* At first nothing is up.                                                 *)
LEMMA StartInvInit == StartInit => StartInv
BY DEF StartInit, StartInv, HandlesOf, HandlesAt, SocketUp, SocketUpAt, RunningIsReachable, UnlinksStale

(* The start and the list of framings go together.                         *)
LEMMA HandlesStep ==
  ASSUME StartTypeOK, HandlesOf, [StartNext]_startVars PROVE HandlesOf'
<1>0. \A p \in Servers : \A i \in 1 .. Len(handles[p]) : handles[p][i] = "socket" <=> i = 2
  BY DEF HandlesOf, HandlesAt
<1> USE DEF StartTypeOK, Framings, HandlesOf, HandlesAt, Goes, Runs
<1>1. CASE UNCHANGED startVars
  BY <1>1 DEF startVars
<1>2. ASSUME NEW p \in Servers, StartStdio(p) PROVE HandlesOf'
  <2>1. NowLast(p, "stdio")
    BY <1>2, StartsLast
  <2>2. HandlesAt(p)'
    BY <1>2, <2>1 DEF StartStdio, NowLast
  <2>3. \A q \in Servers \ {p} : HandlesAt(q)'
    BY <1>2, <2>1 DEF StartStdio, NowLast
  <2> QED
    BY <2>2, <2>3
<1>3. ASSUME NEW p \in Servers, Exists(p) PROVE HandlesOf'
  BY <1>3 DEF Exists
<1>4. ASSUME NEW p \in Servers, AlreadyRunning(p) PROVE HandlesOf'
  BY <1>4 DEF AlreadyRunning, Fails, Ends
<1>5. ASSUME NEW p \in Servers, Unanswered(p) PROVE HandlesOf'
  BY <1>5 DEF Unanswered
<1>6. ASSUME NEW p \in Servers, Unlink(p) PROVE HandlesOf'
  BY <1>6 DEF Unlink
<1>7. ASSUME NEW p \in Servers, Listen(p) PROVE HandlesOf'
  <2>1. CASE path = Nobody
    <3>1. NowLast(p, "socket")
      BY <1>7, <2>1, StartsLast
    <3>2. HandlesAt(p)'
      <4>1. Len(handles[p]) = 1 /\ handles[p][1] # "socket"
        BY <1>7 DEF Listen
      <4>2. /\ Len(handles'[p]) = 2
            /\ handles'[p][1] # "socket" /\ handles'[p][2] = "socket"
        BY <3>1, <4>1 DEF NowLast
      <4>3. \A k \in 1 .. 2 : k = 1 \/ k = 2
        OBVIOUS
      <4>4. start'[p] = "port"
        BY <1>7, <2>1 DEF Listen
      <4> QED
        BY <4>2, <4>3, <4>4
    <3>3. \A q \in Servers \ {p} : HandlesAt(q)'
      BY <1>7, <2>1, <3>1 DEF Listen, NowLast
    <3> QED
      BY <3>2, <3>3
  <2>2. CASE path # Nobody
    BY <1>7, <2>2 DEF Listen, Fails, Ends
  <2> QED
    BY <2>1, <2>2
<1>8. ASSUME NEW p \in Servers, StartPort(p) PROVE HandlesOf'
  <2>1. NowLast(p, "port")
    BY <1>8, StartsLast
  <2>2. HandlesAt(p)'
    <3>1. Len(handles[p]) = 2
      BY <1>8 DEF StartPort
    <3>2. Len(handles'[p]) = 3 /\ handles'[p][3] = "port"
      BY <2>1, <3>1 DEF NowLast
    <3>3. \A i \in 1 .. 2 : handles'[p][i] = "socket" <=> i = 2
      <4>1. \A i \in 1 .. 2 : handles'[p][i] = handles[p][i]
        BY <2>1, <3>1 DEF NowLast
      <4>2. \A i \in 1 .. 2 : handles[p][i] = "socket" <=> i = 2
        BY <1>0, <3>1
      <4> QED
        BY <4>1, <4>2
    <3>4. \A i \in 1 .. 3 : i \in 1 .. 2 \/ i = 3
      OBVIOUS
    <3>5. start'[p] \in {"serving", "late"}
      BY <1>8 DEF StartPort
    <3> QED
      BY <3>2, <3>3, <3>4, <3>5
  <2>3. \A q \in Servers \ {p} : HandlesAt(q)'
    BY <1>8, <2>1 DEF StartPort, NowLast
  <2> QED
    BY <2>2, <2>3
<1>9. ASSUME NEW p \in Servers, PortTaken(p) PROVE HandlesOf'
  BY <1>9 DEF PortTaken, Fails, Ends
<1>10. ASSUME NEW p \in Servers, ShutdownBegins(p) PROVE HandlesOf'
  BY <1>10 DEF ShutdownBegins
<1>11. ASSUME NEW p \in Servers, Stop(p) PROVE HandlesOf'
  BY <1>11 DEF Stop
<1>12. ASSUME NEW p \in Servers, AllStopped(p) PROVE HandlesOf'
  BY <1>12 DEF AllStopped
<1>13. ASSUME NEW p \in Servers, HubClosed(p) PROVE HandlesOf'
  BY <1>13 DEF HubClosed
<1>14. ASSUME NEW p \in Servers, Watchdog(p) PROVE HandlesOf'
  BY <1>14 DEF Watchdog, Ends
<1>15. ASSUME NEW p \in Servers, Exit(p) PROVE HandlesOf'
  BY <1>15 DEF Exit, Ends
<1>16. ASSUME NEW p \in Servers, Killed(p) PROVE HandlesOf'
  BY <1>16 DEF Killed, Ends
<1> QED
  BY <1>1, <1>2, <1>3, <1>4, <1>5, <1>6, <1>7, <1>8,
     <1>9, <1>10, <1>11, <1>12, <1>13, <1>14, <1>15, <1>16 DEF StartNext

(* Only shutdown(), in its turn, and the end of the process take it down.  *)
LEMMA SocketStep ==
  ASSUME StartTypeOK, HandlesOf, SocketUp, [StartNext]_startVars PROVE SocketUp'
<1>0. \A p \in Servers :
        /\ pos[p] \in Nat /\ Len(handles[p]) \in Nat /\ pos[p] <= Len(handles[p]) + 1
        /\ "socket" \in up[p] <=> p \notin gone /\ Len(handles[p]) >= 2 /\ pos[p] <= 2
  BY DEF StartTypeOK, SocketUp, SocketUpAt
<1> USE DEF StartTypeOK, SocketUp, SocketUpAt, Goes, Runs
<1>1. CASE UNCHANGED startVars
  BY <1>1 DEF startVars
<1>2. ASSUME NEW p \in Servers, StartStdio(p) PROVE SocketUp'
  <2>1. NowLast(p, "stdio")
    BY <1>2, StartsLast
  <2>2. SocketUpAt(p)'
    BY <1>2, <2>1 DEF StartStdio, NowLast, HandlesOf, HandlesAt
  <2>3. \A q \in Servers \ {p} : SocketUpAt(q)'
    BY <1>2, <2>1 DEF StartStdio, NowLast, HandlesOf, HandlesAt
  <2> QED
    BY <2>2, <2>3
<1>3. ASSUME NEW p \in Servers, Exists(p) PROVE SocketUp'
  BY <1>3 DEF Exists
<1>4. ASSUME NEW p \in Servers, AlreadyRunning(p) PROVE SocketUp'
  BY <1>4 DEF AlreadyRunning, Fails, Ends
<1>5. ASSUME NEW p \in Servers, Unanswered(p) PROVE SocketUp'
  BY <1>5 DEF Unanswered
<1>6. ASSUME NEW p \in Servers, Unlink(p) PROVE SocketUp'
  BY <1>6 DEF Unlink
<1>7. ASSUME NEW p \in Servers, Listen(p) PROVE SocketUp'
  <2>1. CASE path = Nobody
    <3>1. NowLast(p, "socket")
      BY <1>7, <2>1, StartsLast
    <3>2. SocketUpAt(p)'
      <4>1. Len(handles[p]) = 1
        BY <1>7 DEF Listen, HandlesOf, HandlesAt
      <4>2. Len(handles'[p]) = 2 /\ "socket" \in up'[p]
        BY <3>1, <4>1 DEF NowLast
      <4>3. pos' = pos /\ gone' = gone /\ p \notin gone
        BY <1>7, <2>1 DEF Listen
      <4>4. pos[p] \in Nat /\ pos[p] <= Len(handles[p]) + 1
        BY <1>0
      <4>5. pos[p] <= 2
        BY <4>1, <4>4
      <4>6. pos'[p] = pos[p] /\ p \notin gone'
        BY <4>3
      <4> QED
        BY <4>2, <4>4, <4>5, <4>6
    <3>3. \A q \in Servers \ {p} : SocketUpAt(q)'
      BY <1>7, <2>1, <3>1 DEF Listen, NowLast
    <3> QED
      BY <3>2, <3>3
  <2>2. CASE path # Nobody
    BY <1>7, <2>2 DEF Listen, Fails, Ends
  <2> QED
    BY <2>1, <2>2
<1>8. ASSUME NEW p \in Servers, StartPort(p) PROVE SocketUp'
  <2>1. NowLast(p, "port")
    BY <1>8, StartsLast
  <2>2. SocketUpAt(p)'
    <3>1. Len(handles[p]) = 2
      BY <1>8 DEF StartPort, HandlesOf, HandlesAt
    <3>2. Len(handles'[p]) = 3 /\ ("socket" \in up'[p] <=> "socket" \in up[p])
      BY <2>1, <3>1 DEF NowLast
    <3>3. pos' = pos /\ gone' = gone
      BY <1>8 DEF StartPort
    <3>4. pos[p] \in Nat /\ pos[p] <= Len(handles[p]) + 1
      BY <1>0
    <3>5. pos[p] <= 3
      BY <3>1, <3>4
    <3>6. Len(handles[p]) >= 2
      BY <3>1
    <3>7. "socket" \in up[p] <=> p \notin gone /\ pos[p] <= 2
      BY <1>0, <3>6, Zenon
    <3> QED
      BY <3>2, <3>3, <3>4, <3>5, <3>7
  <2>3. \A q \in Servers \ {p} : SocketUpAt(q)'
    BY <1>8, <2>1 DEF StartPort, NowLast
  <2> QED
    BY <2>2, <2>3
<1>9. ASSUME NEW p \in Servers, PortTaken(p) PROVE SocketUp'
  BY <1>9 DEF PortTaken, Fails, Ends
<1>10. ASSUME NEW p \in Servers, ShutdownBegins(p) PROVE SocketUp'
  BY <1>10 DEF ShutdownBegins
<1>11. ASSUME NEW p \in Servers, Stop(p) PROVE SocketUp'
  BY <1>11 DEF Stop, HandlesOf, HandlesAt, Framings
<1>12. ASSUME NEW p \in Servers, AllStopped(p) PROVE SocketUp'
  BY <1>12 DEF AllStopped
<1>13. ASSUME NEW p \in Servers, HubClosed(p) PROVE SocketUp'
  BY <1>13 DEF HubClosed
<1>14. ASSUME NEW p \in Servers, Watchdog(p) PROVE SocketUp'
  BY <1>14 DEF Watchdog, Ends
<1>15. ASSUME NEW p \in Servers, Exit(p) PROVE SocketUp'
  BY <1>15 DEF Exit, Ends
<1>16. ASSUME NEW p \in Servers, Killed(p) PROVE SocketUp'
  BY <1>16 DEF Killed, Ends
<1> QED
  BY <1>1, <1>2, <1>3, <1>4, <1>5, <1>6, <1>7, <1>8,
     <1>9, <1>10, <1>11, <1>12, <1>13, <1>14, <1>15, <1>16 DEF StartNext

(* A path that is listened to is not unlinked: who is about to unlink it   *)
(* has found nobody there, and listen() of another process is not under    *)
(* way meanwhile.                                                          *)
LEMMA PathStep ==
  ASSUME StartTypeOK, StartInv, StartsApart, [StartNext]_startVars
  PROVE  RunningIsReachable' /\ UnlinksStale'
<1> USE PathAssumption
    DEF StartTypeOK, StartInv, RunningIsReachable, UnlinksStale, Goes, Runs
<1>1. CASE UNCHANGED startVars
  BY <1>1 DEF startVars
<1>2. ASSUME NEW p \in Servers, StartStdio(p) PROVE RunningIsReachable' /\ UnlinksStale'
  <2>1. NowLast(p, "stdio")
    BY <1>2, StartsLast
  <2>2. \A q \in Servers : "socket" \in up'[q] <=> "socket" \in up[q]
    <3>1. "socket" \in up'[p] <=> "socket" \in up[p]
      BY <2>1 DEF NowLast
    <3>2. \A q \in Servers \ {p} : up'[q] = up[q]
      BY <2>1 DEF NowLast
    <3> QED
      BY <3>1, <3>2
  <2> QED
    BY <1>2, <2>2 DEF StartStdio
<1>3. ASSUME NEW p \in Servers, Exists(p) PROVE RunningIsReachable' /\ UnlinksStale'
  BY <1>3 DEF Exists
<1>4. ASSUME NEW p \in Servers, AlreadyRunning(p) PROVE RunningIsReachable' /\ UnlinksStale'
  BY <1>4 DEF AlreadyRunning, Fails, Ends
<1>5. ASSUME NEW p \in Servers, Unanswered(p) PROVE RunningIsReachable' /\ UnlinksStale'
  BY <1>5 DEF Unanswered, Answered
<1>6. ASSUME NEW p \in Servers, Unlink(p) PROVE RunningIsReachable' /\ UnlinksStale'
  BY <1>6 DEF Unlink
<1>7. ASSUME NEW p \in Servers, Listen(p) PROVE RunningIsReachable' /\ UnlinksStale'
  <2>1. CASE path = Nobody
    <3>1. NowLast(p, "socket")
      BY <1>7, <2>1, StartsLast
    <3> QED
      BY <1>7, <2>1, <3>1 DEF Listen, NowLast, StartsApart, Takes
  <2>2. CASE path # Nobody
    BY <1>7, <2>2 DEF Listen, Fails, Ends
  <2> QED
    BY <2>1, <2>2
<1>8. ASSUME NEW p \in Servers, StartPort(p) PROVE RunningIsReachable' /\ UnlinksStale'
  <2>1. NowLast(p, "port")
    BY <1>8, StartsLast
  <2>2. \A q \in Servers : "socket" \in up'[q] <=> "socket" \in up[q]
    <3>1. "socket" \in up'[p] <=> "socket" \in up[p]
      BY <2>1 DEF NowLast
    <3>2. \A q \in Servers \ {p} : up'[q] = up[q]
      BY <2>1 DEF NowLast
    <3> QED
      BY <3>1, <3>2
  <2> QED
    BY <1>8, <2>2 DEF StartPort
<1>9. ASSUME NEW p \in Servers, PortTaken(p) PROVE RunningIsReachable' /\ UnlinksStale'
  BY <1>9 DEF PortTaken, Fails, Ends
<1>10. ASSUME NEW p \in Servers, ShutdownBegins(p) PROVE RunningIsReachable' /\ UnlinksStale'
  BY <1>10 DEF ShutdownBegins
<1>11. ASSUME NEW p \in Servers, Stop(p) PROVE RunningIsReachable' /\ UnlinksStale'
  BY <1>11 DEF Stop, HandlesOf, HandlesAt, SocketUp, SocketUpAt
<1>12. ASSUME NEW p \in Servers, AllStopped(p) PROVE RunningIsReachable' /\ UnlinksStale'
  BY <1>12 DEF AllStopped
<1>13. ASSUME NEW p \in Servers, HubClosed(p) PROVE RunningIsReachable' /\ UnlinksStale'
  BY <1>13 DEF HubClosed
<1>14. ASSUME NEW p \in Servers, Watchdog(p) PROVE RunningIsReachable' /\ UnlinksStale'
  BY <1>14 DEF Watchdog, Ends
<1>15. ASSUME NEW p \in Servers, Exit(p) PROVE RunningIsReachable' /\ UnlinksStale'
  BY <1>15 DEF Exit, Ends
<1>16. ASSUME NEW p \in Servers, Killed(p) PROVE RunningIsReachable' /\ UnlinksStale'
  BY <1>16 DEF Killed, Ends
<1> QED
  BY <1>1, <1>2, <1>3, <1>4, <1>5, <1>6, <1>7, <1>8,
     <1>9, <1>10, <1>11, <1>12, <1>13, <1>14, <1>15, <1>16 DEF StartNext

(* The daemon that runs keeps its address, as long as starts do not        *)
(* overlap (cmdServe, ensureFreeSocket and startSocketFraming).            *)
THEOREM PathIsKept == StartSpec => ReachableIfApart
<1>1. StartTypeOK /\ StartInv /\ StartsApart /\ [StartNext]_startVars => StartInv'
  BY HandlesStep, SocketStep, PathStep DEF StartInv
<1>2. StartInv => RunningIsReachable
  BY DEF StartInv
<1> QED
  BY <1>1, <1>2, StartInvInit, StartTypeCorrect, PTL DEF StartSpec, ReachableIfApart

-----------------------------------------------------------------------------
(***************************************************************************)
(* What a client of the daemon is sent.                                    *)
(***************************************************************************)

(* The queue is there for a stream that asked to wait, which an open one   *)
(* only does until it is empty.                                            *)
Waiting ==
  /\ queue # <<>> => draining
  /\ stream # "open" => closed
  /\ draining /\ stream = "open" => buffer # <<>> \/ drainDue

(* What was read, what the stream has and what is in the queue continue    *)
(* each other.                                                             *)
Numbered ==
  /\ sent = Len(read) + Len(buffer) + Len(queue)
  /\ \A i \in 1 .. Len(read) : read[i] = i
  /\ \A i \in 1 .. Len(buffer) : buffer[i] = Len(read) + i
  /\ \A i \in 1 .. Len(queue) : queue[i] = Len(read) + Len(buffer) + i

LineInv ==
  /\ LineTypeOK
  /\ Waiting
  /\ stream # "destroyed" => Numbered

(* What is written from the queue continues what the stream has.           *)
LEMMA DrainWrites ==
  ASSUME LineTypeOK, DrainQueue
  PROVE  \E n \in 0 .. Len(queue) :
           /\ n <= HighWater
           /\ draining' = (n = HighWater) /\ (n < HighWater => n = Len(queue))
           /\ buffer' \in Seq(Nat) /\ Len(buffer') = Len(buffer) + n
           /\ \A i \in 1 .. Len(buffer) : buffer'[i] = buffer[i]
           /\ \A i \in 1 .. n : buffer'[Len(buffer) + i] = queue[i]
           /\ queue' \in Seq(Nat) /\ Len(queue') = Len(queue) - n
           /\ \A i \in 1 .. Len(queue) - n : queue'[i] = queue[n + i]
<1> DEFINE n == IF Len(queue) < HighWater THEN Len(queue) ELSE HighWater
           l == SubSeq(queue, 1, n)
           r == SubSeq(queue, n + 1, Len(queue))
<1>1. /\ queue \in Seq(Nat) /\ buffer \in Seq(Nat) /\ HighWater \in Nat
      /\ Len(queue) \in Nat /\ Len(buffer) \in Nat
      /\ \A i \in 1 .. Len(queue) : queue[i] \in Nat
  BY LineAssumption DEF LineTypeOK
<1>2. n \in 0 .. Len(queue) /\ n <= HighWater /\ (n < HighWater => n = Len(queue))
  BY <1>1
<1>3. draining' = (n = HighWater) /\ buffer' = buffer \o l /\ queue' = r
  BY DEF DrainQueue
<1> HIDE DEF n
<1>4. l \in Seq(Nat) /\ Len(l) = n /\ \A i \in 1 .. n : l[i] = queue[i]
  <2>1. \A i \in 1 .. n : queue[i] \in Nat
    BY <1>1, <1>2
  <2>2. /\ l \in Seq(Nat) /\ Len(l) = (IF 1 <= n THEN n - 1 + 1 ELSE 0)
        /\ \A i \in 1 .. n - 1 + 1 : l[i] = queue[1 + i - 1]
    BY <1>2, <2>1, SubSeqProperties
  <2> QED BY <1>2, <2>2
<1>5. /\ r \in Seq(Nat) /\ Len(r) = Len(queue) - n
      /\ \A i \in 1 .. Len(queue) - n : r[i] = queue[n + i]
  <2>1. n + 1 \in Int /\ Len(queue) \in Int /\ \A i \in n + 1 .. Len(queue) : queue[i] \in Nat
    BY <1>1, <1>2
  <2>2. /\ r \in Seq(Nat)
        /\ Len(r) = (IF n + 1 <= Len(queue) THEN Len(queue) - (n + 1) + 1 ELSE 0)
        /\ \A i \in 1 .. Len(queue) - (n + 1) + 1 : r[i] = queue[(n + 1) + i - 1]
    BY <2>1, SubSeqProperties
  <2> QED BY <1>1, <1>2, <2>2
<1> HIDE DEF l, r
<1>6. /\ buffer' \in Seq(Nat) /\ Len(buffer') = Len(buffer) + Len(l)
      /\ \A i \in 1 .. Len(buffer) + Len(l) :
           buffer'[i] = IF i <= Len(buffer) THEN buffer[i] ELSE l[i - Len(buffer)]
  BY <1>1, <1>3, <1>4, ConcatProperties
<1>7. \A i \in 1 .. Len(buffer) : buffer'[i] = buffer[i]
  BY <1>1, <1>2, <1>4, <1>6
<1>8. ASSUME NEW i \in 1 .. n PROVE buffer'[Len(buffer) + i] = queue[i]
  <2>1. /\ Len(buffer) + i \in 1 .. Len(buffer) + Len(l) /\ ~(Len(buffer) + i <= Len(buffer))
        /\ Len(buffer) + i - Len(buffer) = i
    BY <1>1, <1>2, <1>4
  <2>2. buffer'[Len(buffer) + i] = l[Len(buffer) + i - Len(buffer)]
    BY <1>6, <2>1
  <2> QED BY <1>4, <2>1, <2>2
<1> QED BY <1>2, <1>3, <1>4, <1>5, <1>6, <1>7, <1>8

LEMMA LineInvStep ==
  ASSUME LineInv, [LineNext]_lineVars
  PROVE  LineInv'
<1>1. /\ LineTypeOK /\ Waiting /\ HighWater \in Nat \ {0}
      /\ queue \in Seq(Nat) /\ buffer \in Seq(Nat) /\ read \in Seq(Nat) /\ sent \in Nat
      /\ Len(queue) \in Nat /\ Len(buffer) \in Nat /\ Len(read) \in Nat
  BY LineAssumption DEF LineInv, LineTypeOK
<1>2. CASE SendLine
  <2> DEFINE n == sent + 1
  <2>1. /\ ~closed /\ sent' = n /\ n \in Nat /\ stream = "open" /\ read' = read /\ owned' = owned
        /\ stream # "destroyed" /\ Numbered
    BY <1>1, <1>2 DEF SendLine, LineInv, Waiting
  <2>2. CASE ~draining
    <3>1. /\ buffer' = Append(buffer, n) /\ draining' = (Len(buffer') >= HighWater)
          /\ UNCHANGED <<queue, closed, stream, drainDue>>
      BY <1>2, <2>2 DEF SendLine
    <3>2. queue = <<>> /\ Len(queue) = 0
      BY <1>1, <2>2 DEF Waiting
    <3>3. /\ buffer' \in Seq(Nat) /\ Len(buffer') = Len(buffer) + 1
          /\ \A i \in 1 .. Len(buffer) : buffer'[i] = buffer[i]
          /\ buffer'[Len(buffer) + 1] = n
      BY <1>1, <2>1, <3>1, AppendProperties
    <3>4. draining' \in BOOLEAN
      BY <3>1
    <3>5. LineTypeOK'
      BY <1>1, <2>1, <3>1, <3>3, <3>4 DEF LineTypeOK
    <3>6. Waiting'
      BY <1>1, <2>1, <3>1, <3>2, <3>3 DEF Waiting
    <3>7. ASSUME NEW i \in 1 .. Len(buffer') PROVE buffer'[i] = Len(read) + i
      <4>1. i = Len(buffer) + 1 \/ i \in 1 .. Len(buffer)
        BY <1>1, <3>3
      <4>2. n = Len(read) + (Len(buffer) + 1)
        BY <1>1, <2>1, <3>2 DEF Numbered
      <4> QED BY <2>1, <3>3, <4>1, <4>2 DEF Numbered
    <3>8. sent' = Len(read') + Len(buffer') + Len(queue')
      BY <1>1, <2>1, <3>1, <3>2, <3>3 DEF Numbered
    <3>9. Len(queue') = 0 /\ \A i \in 1 .. Len(queue') : FALSE
      BY <3>1, <3>2
    <3>10. Numbered'
      BY <2>1, <3>7, <3>8, <3>9 DEF Numbered
    <3> QED BY <3>5, <3>6, <3>10 DEF LineInv
  <2>3. CASE draining
    <3>1. /\ queue' = Append(queue, n) /\ UNCHANGED <<buffer, draining>>
          /\ IF Len(queue') > MaxQueue THEN Close ELSE UNCHANGED <<closed, stream, drainDue>>
      BY <1>2, <2>3 DEF SendLine
    <3>2. /\ queue' \in Seq(Nat) /\ Len(queue') = Len(queue) + 1
          /\ \A i \in 1 .. Len(queue) : queue'[i] = queue[i]
          /\ queue'[Len(queue) + 1] = n
      BY <1>1, <2>1, <3>1, AppendProperties
    <3>3. /\ closed' \in BOOLEAN /\ drainDue' \in BOOLEAN
          /\ \/ closed' = TRUE /\ stream' = "ended"
             \/ stream' = "open" /\ drainDue' = drainDue
      BY <1>1, <2>1, <3>1 DEF Close, LineTypeOK
    <3>4. LineTypeOK'
      BY <1>1, <2>1, <3>1, <3>2, <3>3 DEF LineTypeOK
    <3>5. Waiting'
      BY <1>1, <2>1, <2>3, <3>1, <3>3 DEF Waiting
    <3>6. ASSUME NEW i \in 1 .. Len(queue') PROVE queue'[i] = Len(read) + Len(buffer) + i
      <4>1. i = Len(queue) + 1 \/ i \in 1 .. Len(queue)
        BY <1>1, <3>2
      <4>2. n = Len(read) + Len(buffer) + (Len(queue) + 1)
        BY <1>1, <2>1 DEF Numbered
      <4> QED BY <2>1, <3>2, <4>1, <4>2 DEF Numbered
    <3>7. sent' = Len(read') + Len(buffer') + Len(queue')
      BY <1>1, <2>1, <3>1, <3>2 DEF Numbered
    <3>8. Numbered'
      BY <2>1, <3>1, <3>6, <3>7 DEF Numbered
    <3> QED BY <3>4, <3>5, <3>8 DEF LineInv
  <2> QED BY <2>2, <2>3
<1>3. CASE Drain
  <2>1. drainDue' = FALSE /\ DrainQueue /\ UNCHANGED <<owned, sent, closed, stream, read>>
    BY <1>3 DEF Drain
  <2>2. PICK n \in 0 .. Len(queue) :
           /\ n <= HighWater
           /\ draining' = (n = HighWater) /\ (n < HighWater => n = Len(queue))
           /\ buffer' \in Seq(Nat) /\ Len(buffer') = Len(buffer) + n
           /\ \A i \in 1 .. Len(buffer) : buffer'[i] = buffer[i]
           /\ \A i \in 1 .. n : buffer'[Len(buffer) + i] = queue[i]
           /\ queue' \in Seq(Nat) /\ Len(queue') = Len(queue) - n
           /\ \A i \in 1 .. Len(queue) - n : queue'[i] = queue[n + i]
    BY <1>1, <2>1, DrainWrites
  <2>3. /\ n \in Nat /\ n <= Len(queue) /\ n <= HighWater /\ (n < HighWater => n = Len(queue))
        /\ draining' \in BOOLEAN /\ (draining' <=> n = HighWater)
        /\ Len(buffer') = Len(buffer) + n /\ Len(queue') = Len(queue) - n
    <3>1. draining' = (n = HighWater)
      BY <2>2
    <3>2. draining' \in BOOLEAN /\ (draining' <=> n = HighWater)
      BY <3>1
    <3>3. n \in Nat /\ n <= Len(queue)
      BY <1>1
    <3> QED BY <2>2, <3>2, <3>3
  <2>4. LineTypeOK'
    BY <1>1, <2>1, <2>2, <2>3 DEF LineTypeOK
  <2>5. queue' # <<>> => draining'
    <3>1. n < HighWater => Len(queue') = 0
      BY <1>1, <2>3
    <3>2. Len(queue') = 0 => queue' = <<>>
      BY <2>2, EmptySeq
    <3> QED BY <1>1, <2>3, <3>1, <3>2
  <2>6. draining' => buffer' # <<>>
    <3>1. draining' => Len(buffer') # 0
      BY <1>1, <2>3
    <3>2. Len(<<>>) = 0
      OBVIOUS
    <3> QED BY <3>1, <3>2
  <2>7. Waiting'
    BY <1>1, <2>1, <2>5, <2>6 DEF Waiting
  <2>8. ASSUME stream' # "destroyed" PROVE Numbered'
    <3>1. Numbered
      BY <2>1, <2>8 DEF LineInv
    <3>2. ASSUME NEW i \in 1 .. Len(buffer') PROVE buffer'[i] = Len(read) + i
      <4>1. CASE i <= Len(buffer)
        BY <1>1, <2>2, <3>1, <4>1 DEF Numbered
      <4>2. CASE ~(i <= Len(buffer))
        <5>1. i - Len(buffer) \in 1 .. n /\ i - Len(buffer) \in 1 .. Len(queue) /\ Len(buffer) + (i - Len(buffer)) = i
          BY <1>1, <2>3, <4>2
        <5>2. buffer'[i] = queue[i - Len(buffer)]
          BY <2>2, <5>1
        <5>3. queue[i - Len(buffer)] = Len(read) + Len(buffer) + (i - Len(buffer))
          BY <3>1, <5>1 DEF Numbered
        <5> QED BY <1>1, <5>1, <5>2, <5>3
      <4> QED BY <4>1, <4>2
    <3>3. ASSUME NEW i \in 1 .. Len(queue') PROVE queue'[i] = Len(read) + Len(buffer') + i
      <4>1. n + i \in 1 .. Len(queue) /\ i \in 1 .. Len(queue) - n
        BY <1>1, <2>3
      <4>2. queue'[i] = queue[n + i] /\ queue[n + i] = Len(read) + Len(buffer) + (n + i)
        BY <2>2, <3>1, <4>1 DEF Numbered
      <4> QED BY <1>1, <2>3, <4>2
    <3>4. sent' = Len(read') + Len(buffer') + Len(queue')
      BY <1>1, <2>1, <2>3, <3>1 DEF Numbered
    <3> QED BY <2>1, <3>1, <3>2, <3>3, <3>4 DEF Numbered
  <2> QED BY <2>4, <2>7, <2>8 DEF LineInv
<1>4. CASE ReaderTakes
  <2>1. /\ buffer # <<>> /\ read' = Append(read, Head(buffer)) /\ buffer' = Tail(buffer)
        /\ drainDue' = (drainDue \/ (draining /\ stream = "open" /\ buffer' = <<>>))
        /\ UNCHANGED <<owned, sent, queue, draining, closed, stream>>
    BY <1>4 DEF ReaderTakes
  <2>2. /\ Head(buffer) \in Nat /\ Head(buffer) = buffer[1]
        /\ buffer' \in Seq(Nat) /\ Len(buffer') = Len(buffer) - 1 /\ Len(buffer) >= 1
        /\ \A i \in 1 .. Len(buffer') : buffer'[i] = buffer[i + 1]
    BY <1>1, <2>1, HeadTailProperties
  <2>3. /\ read' \in Seq(Nat) /\ Len(read') = Len(read) + 1
        /\ \A i \in 1 .. Len(read) : read'[i] = read[i]
        /\ read'[Len(read) + 1] = buffer[1]
    BY <1>1, <2>1, <2>2, AppendProperties
  <2>4. drainDue' \in BOOLEAN
    BY <1>1, <2>1 DEF LineTypeOK
  <2>5. LineTypeOK'
    BY <1>1, <2>1, <2>2, <2>3, <2>4 DEF LineTypeOK
  <2>6. Waiting'
    BY <1>1, <2>1 DEF Waiting
  <2>7. ASSUME stream' # "destroyed" PROVE Numbered'
    <3>1. Numbered
      BY <2>1, <2>7 DEF LineInv
    <3>2. ASSUME NEW i \in 1 .. Len(read') PROVE read'[i] = i
      <4>1. i = Len(read) + 1 \/ i \in 1 .. Len(read)
        BY <1>1, <2>3
      <4>2. buffer[1] = Len(read) + 1
        <5>1. 1 \in 1 .. Len(buffer)
          BY <1>1, <2>2
        <5> QED BY <3>1, <5>1 DEF Numbered
      <4> QED BY <2>3, <3>1, <4>1, <4>2 DEF Numbered
    <3>3. ASSUME NEW i \in 1 .. Len(buffer') PROVE buffer'[i] = Len(read') + i
      <4>1. i + 1 \in 1 .. Len(buffer) /\ i \in Nat
        BY <1>1, <2>2
      <4>2. buffer'[i] = buffer[i + 1] /\ buffer[i + 1] = Len(read) + (i + 1)
        BY <2>2, <3>1, <4>1 DEF Numbered
      <4> QED BY <1>1, <2>3, <4>1, <4>2
    <3>4. ASSUME NEW i \in 1 .. Len(queue') PROVE queue'[i] = Len(read') + Len(buffer') + i
      <4>1. queue[i] = Len(read) + Len(buffer) + i /\ i \in Nat
        BY <1>1, <2>1, <3>1 DEF Numbered
      <4> QED BY <1>1, <2>1, <2>2, <2>3, <4>1
    <3>5. sent' = Len(read') + Len(buffer') + Len(queue')
      BY <1>1, <2>1, <2>2, <2>3, <3>1 DEF Numbered
    <3> QED BY <3>2, <3>3, <3>4, <3>5 DEF Numbered
  <2> QED BY <2>5, <2>6, <2>7 DEF LineInv
<1>5. CASE InputEnds
  <2>1. /\ closed' = TRUE /\ drainDue' = (drainDue /\ ~owned)
        /\ UNCHANGED <<owned, sent, queue, draining, buffer, read>>
        /\ stream' = (IF owned THEN "ended" ELSE stream)
    BY <1>5 DEF InputEnds, Close
  <2>2. drainDue' \in BOOLEAN
    BY <2>1
  <2>3. stream = "open" => stream' \in {"open", "ended"}
    BY <2>1
  <2>4. stream # "destroyed" /\ stream = "open"
    BY <1>1, <1>5 DEF InputEnds, Waiting
  <2>5. LineTypeOK'
    BY <1>1, <2>1, <2>2, <2>3, <2>4 DEF LineTypeOK
  <2>6. Waiting'
    BY <1>1, <2>1 DEF Waiting
  <2>7. Numbered'
    BY <2>1, <2>4 DEF LineInv, Numbered
  <2> QED BY <2>5, <2>6, <2>7 DEF LineInv
<1>6. CASE Destroyed
  <2>1. /\ closed' = TRUE /\ stream' = "destroyed" /\ buffer' = <<>> /\ drainDue' = FALSE
        /\ UNCHANGED <<owned, sent, queue, draining, read>>
    BY <1>6 DEF Destroyed
  <2>2. buffer' \in Seq(Nat)
    BY <2>1
  <2>3. LineTypeOK'
    BY <1>1, <2>1, <2>2 DEF LineTypeOK
  <2> QED BY <1>1, <2>1, <2>3 DEF LineInv, Waiting
<1>7. CASE UNCHANGED lineVars
  BY <1>1, <1>7 DEF lineVars, LineInv, LineTypeOK, Waiting, Numbered
<1> QED BY <1>2, <1>3, <1>4, <1>5, <1>6, <1>7 DEF LineNext

LEMMA LineInvInit == LineInit => LineInv
<1> SUFFICES ASSUME LineInit PROVE LineInv
  OBVIOUS
<1>1. LineTypeOK
  <2>1. <<>> \in Seq(Nat)
    OBVIOUS
  <2> QED BY <2>1 DEF LineInit, LineTypeOK
<1>2. Numbered
  BY DEF LineInit, Numbered
<1> QED BY <1>1, <1>2 DEF LineInit, LineInv, Waiting

LEMMA LineInvAlways == LineSpec => []LineInv
  BY LineInvInit, LineInvStep, PTL DEF LineSpec

(* The reader of a connection gets the lines in the order in which they    *)
(* were sent, none lost or doubled (send and "drain" of                    *)
(* makeLineConnection), unless its socket is destroyed.                    *)
THEOREM LinesKeepTheirOrder == LineSpec => []LinesInOrder
<1>1. ASSUME LineInv PROVE LinesInOrder
  <2> SUFFICES ASSUME stream # "destroyed"
               PROVE  read \o buffer \o queue = [i \in 1 .. sent |-> i]
    BY DEF LinesInOrder
  <2>1. /\ Numbered
        /\ queue \in Seq(Nat) /\ buffer \in Seq(Nat) /\ read \in Seq(Nat)
        /\ Len(queue) \in Nat /\ Len(buffer) \in Nat /\ Len(read) \in Nat
    BY <1>1 DEF LineInv, LineTypeOK
  <2> DEFINE taken == read \o buffer
             all == taken \o queue
             iota == [i \in 1 .. sent |-> i]
  <2>2. /\ taken \in Seq(Nat) /\ Len(taken) = Len(read) + Len(buffer)
        /\ \A i \in 1 .. Len(read) + Len(buffer) :
             taken[i] = IF i <= Len(read) THEN read[i] ELSE buffer[i - Len(read)]
    BY <2>1, ConcatProperties
  <2> HIDE DEF taken
  <2>3. /\ all \in Seq(Nat) /\ Len(all) = Len(taken) + Len(queue)
        /\ \A i \in 1 .. Len(taken) + Len(queue) :
             all[i] = IF i <= Len(taken) THEN taken[i] ELSE queue[i - Len(taken)]
    <3>1. taken \in Seq(Nat) /\ queue \in Seq(Nat)
      BY <2>1, <2>2
    <3> QED BY <3>1, ConcatProperties
  <2>4. Len(all) = sent /\ sent \in Nat
    BY <2>1, <2>2, <2>3 DEF Numbered
  <2> HIDE DEF all
  <2>5. ASSUME NEW i \in 1 .. sent PROVE all[i] = i
    <3>1. CASE i <= Len(read)
      <4>1. i \in 1 .. Len(read) /\ i \in 1 .. Len(taken) /\ i <= Len(taken) /\ i \in 1 .. Len(taken) + Len(queue)
        BY <2>1, <2>2, <3>1
      <4>2. all[i] = taken[i] /\ taken[i] = read[i]
        BY <2>2, <2>3, <3>1, <4>1
      <4> QED BY <2>1, <4>1, <4>2 DEF Numbered
    <3>2. CASE ~(i <= Len(read)) /\ i <= Len(taken)
      <4>1. /\ i - Len(read) \in 1 .. Len(buffer) /\ Len(read) + (i - Len(read)) = i
            /\ i \in 1 .. Len(read) + Len(buffer) /\ i \in 1 .. Len(taken) + Len(queue)
        BY <2>1, <2>2, <3>2
      <4>2. all[i] = taken[i] /\ taken[i] = buffer[i - Len(read)]
        BY <2>2, <2>3, <3>2, <4>1
      <4>3. buffer[i - Len(read)] = Len(read) + (i - Len(read))
        BY <2>1, <4>1 DEF Numbered
      <4> QED BY <4>1, <4>2, <4>3
    <3>3. CASE ~(i <= Len(taken))
      <4>1. i - Len(taken) \in 1 .. Len(queue) /\ Len(read) + Len(buffer) + (i - Len(taken)) = i
        BY <2>1, <2>2, <2>3, <2>4, <3>3
      <4>2. all[i] = queue[i - Len(taken)]
        BY <2>3, <2>4, <3>3
      <4>3. queue[i - Len(taken)] = Len(read) + Len(buffer) + (i - Len(taken))
        BY <2>1, <4>1 DEF Numbered
      <4> QED BY <4>1, <4>2, <4>3
    <3> QED BY <2>1, <2>2, <3>1, <3>2, <3>3
  <2>6. iota \in Seq(Nat) /\ Len(iota) = sent /\ \A i \in 1 .. sent : iota[i] = i
    BY <2>4
  <2> HIDE DEF iota
  <2>7. all = iota
    BY <2>3, <2>4, <2>5, <2>6, SeqEqual
  <2> QED BY <2>7 DEF all, taken, iota
<1> QED BY <1>1, LineInvAlways, PTL

(* What is in the queue of a connection is on its way to the reader: as    *)
(* long as the stream is open there is a "drain" to come.                  *)
THEOREM QueuedLinesDrain == LineSpec => []QueueWillDrain
<1>1. LineInv => QueueWillDrain
  BY DEF LineInv, Waiting, QueueWillDrain
<1> QED BY <1>1, LineInvAlways, PTL

-----------------------------------------------------------------------------
(***************************************************************************)
(* The client of the socket.                                               *)
(***************************************************************************)

(* subscribe() was called once at most. *)
OneSubscription == \A a, b \in Subscriptions : ask[a] # "unmade" /\ ask[b] # "unmade" => a = b

(* A subscription that is made, or being made, is seen by the check for    *)
(* idleness; what the client has closed for idleness it writes nothing to. *)
ClientInv ==
  /\ ClientTypeOK
  /\ OneSubscription => \A a \in Subscriptions : ask[a] \in {"pending", "answered"} => subscribed
  /\ \A a \in written : ask[a] # "unmade"
  /\ OneSubscription => IdleSparesUsers

LEMMA FinishTypes ==
  ASSUME ClientTypeOK, NEW asks \in SUBSET Asks, NEW o \in {"answered", "refused", "failed"}, Finish(asks, o)
  PROVE  /\ ref' \in BOOLEAN /\ subscribed' \in BOOLEAN /\ idle' \in BOOLEAN
         /\ ask' \in [Asks -> {"unmade", "pending", "answered", "refused", "failed"}]
<1>1. ref' \in BOOLEAN /\ idle' \in BOOLEAN
  BY DEF Finish, ScheduleIdleClose, ClientTypeOK
<1>2. subscribed' \in BOOLEAN
  BY DEF Finish, ClientTypeOK
<1>3. ask' \in [Asks -> {"unmade", "pending", "answered", "refused", "failed"}]
  BY DEF Finish, ClientTypeOK
<1> QED BY <1>1, <1>2, <1>3

LEMMA ClientTypes ==
  ASSUME ClientTypeOK, [ClientNext]_clientVars
  PROVE  ClientTypeOK'
<1>1. ASSUME NEW a \in Asks, Request(a) PROVE ClientTypeOK'
  <2>1. CASE fatal
    <3>1. Finish({a}, "failed") /\ UNCHANGED <<sock, fatal, written>>
      BY <1>1, <2>1 DEF Request
    <3> QED BY <3>1, FinishTypes DEF ClientTypeOK
  <2>2. CASE ~fatal
    <3>1. /\ ask' = [ask EXCEPT ![a] = "pending"] /\ subscribed' = (subscribed \/ a \in Subscriptions)
          /\ ref' = TRUE /\ idle' = FALSE /\ UNCHANGED <<sock, fatal>>
          /\ written' \in {written, written \cup {a}}
      BY <1>1, <2>2 DEF Request
    <3>2. subscribed' \in BOOLEAN
      BY <3>1
    <3> QED BY <3>1, <3>2 DEF ClientTypeOK
  <2> QED BY <2>1, <2>2
<1>2. ASSUME NEW a \in Asks, NEW o \in {"answered", "refused"}, AnswerArrives(a, o) PROVE ClientTypeOK'
  BY <1>2, FinishTypes DEF AnswerArrives, ClientTypeOK
<1>3. ASSUME NEW a \in Asks, AskTimesOut(a) PROVE ClientTypeOK'
  BY <1>3, FinishTypes DEF AskTimesOut, ClientTypeOK
<1>4. CASE SocketError
  BY <1>4, FinishTypes DEF SocketError, ClientTypeOK, Pending
<1>5. CASE SocketEnds \/ IdleCloses \/ UserCloses \/ UNCHANGED clientVars
  BY <1>5 DEF SocketEnds, IdleCloses, UserCloses, clientVars, ClientTypeOK
<1> QED BY <1>1, <1>2, <1>3, <1>4, <1>5 DEF ClientNext

(* How requests end does not hide a subscription from the check. *)
LEMMA FinishSpares ==
  ASSUME ClientInv, OneSubscription',
         NEW asks \in SUBSET Asks, NEW o \in {"answered", "refused", "failed"},
         o = "failed" \/ asks \subseteq Pending, Finish(asks, o)
  PROVE  /\ OneSubscription
         /\ \A a \in Subscriptions : ask'[a] \in {"pending", "answered"} => subscribed'
<1>1. ClientTypeOK /\ Subscriptions \subseteq Asks
  BY AskAssumption DEF ClientInv
<1>2. \A a \in Asks : ask'[a] = IF a \in asks THEN o ELSE ask[a]
  BY DEF Finish
<1>3. OneSubscription
  BY <1>1, <1>2 DEF OneSubscription
<1>4. \A a \in Subscriptions : ask[a] \in {"pending", "answered"} => subscribed
  BY <1>3 DEF ClientInv
<1>5. ASSUME NEW a \in Subscriptions, ask'[a] \in {"pending", "answered"}
      PROVE  subscribed'
  <2>1. ask[a] \in {"pending", "answered"}
    BY <1>1, <1>2, <1>5 DEF Pending
  <2>2. CASE o = "failed" /\ asks \cap Subscriptions # {}
    <3>1. PICK b \in asks \cap Subscriptions : TRUE
      BY <2>2
    <3>2. ask'[b] = "failed" /\ ask'[a] # "unmade" /\ a # b
      BY <1>1, <1>2, <1>5, <2>2, <3>1
    <3> QED BY <1>5, <3>1, <3>2 DEF OneSubscription
  <2>3. CASE ~(o = "failed" /\ asks \cap Subscriptions # {})
    BY <1>4, <1>5, <2>1, <2>3 DEF Finish
  <2> QED BY <2>2, <2>3
<1> QED BY <1>3, <1>5

(* Nor does it give the connection anybody to spare. *)
LEMMA FinishKeeps ==
  ASSUME ClientInv, ClientTypeOK',
         NEW asks \in SUBSET Asks, NEW o \in {"answered", "refused", "failed"},
         o = "failed" \/ asks \subseteq Pending, Finish(asks, o), UNCHANGED written,
         sock' = "idled" => sock = "idled" /\ o = "failed"
  PROVE  ClientInv'
<1>1. ClientTypeOK /\ Subscriptions \subseteq Asks
  BY AskAssumption DEF ClientInv
<1>2. \A a \in Asks : ask'[a] = IF a \in asks THEN o ELSE ask[a]
  BY DEF Finish
<1>3. \A a \in written' : ask'[a] # "unmade"
  BY <1>1, <1>2 DEF ClientInv, ClientTypeOK
<1>4. ASSUME OneSubscription' PROVE IdleSparesUsers'
  <2> SUFFICES ASSUME sock' = "idled" PROVE (Pending \cap written = {} /\ Subscribed = {})'
    BY DEF IdleSparesUsers
  <2>1. Pending \cap written = {} /\ Subscribed = {}
    BY <1>4, FinishSpares DEF ClientInv, IdleSparesUsers
  <2> QED BY <1>1, <1>2, <2>1 DEF Pending, Subscribed
<1> QED BY <1>3, <1>4, FinishSpares DEF ClientInv

LEMMA ClientInvStep ==
  ASSUME ClientInv, [ClientNext]_clientVars
  PROVE  ClientInv'
<1>1. ClientTypeOK /\ ClientTypeOK' /\ Subscriptions \subseteq Asks
  BY ClientTypes, AskAssumption DEF ClientInv
<1>2. ASSUME NEW a \in Asks, Request(a) PROVE ClientInv'
  <2>1. CASE fatal
    <3>1. Finish({a}, "failed") /\ UNCHANGED <<sock, written>>
      BY <1>2, <2>1 DEF Request
    <3> QED BY <1>1, <3>1, FinishKeeps
  <2>2. CASE ~fatal
    <3>1. /\ ask[a] = "unmade" /\ UNCHANGED sock
          /\ ask' = [ask EXCEPT ![a] = "pending"]
          /\ subscribed' = (subscribed \/ a \in Subscriptions)
          /\ written' = IF sock = "open" THEN written \cup {a} ELSE written
      BY <1>2, <2>2 DEF Request
    <3>2. \A b \in Asks : ask'[b] = IF b = a THEN "pending" ELSE ask[b]
      BY <1>1, <3>1 DEF ClientTypeOK
    <3>3. OneSubscription' => OneSubscription
      BY <1>1, <3>1, <3>2 DEF OneSubscription
    <3>4. OneSubscription' => \A b \in Subscriptions : ask'[b] \in {"pending", "answered"} => subscribed'
      BY <1>1, <3>1, <3>2, <3>3 DEF ClientInv
    <3>5. \A b \in written' : ask'[b] # "unmade"
      BY <1>1, <3>1, <3>2 DEF ClientInv, ClientTypeOK
    <3>6. ASSUME OneSubscription', sock' = "idled" PROVE (Pending \cap written = {} /\ Subscribed = {})'
      <4>1. Pending \cap written = {} /\ Subscribed = {} /\ written' = written /\ a \notin written
        BY <3>1, <3>3, <3>6 DEF ClientInv, IdleSparesUsers
      <4> QED BY <1>1, <3>2, <4>1 DEF Pending, Subscribed
    <3> QED BY <1>1, <3>4, <3>5, <3>6 DEF ClientInv, IdleSparesUsers
  <2> QED BY <2>1, <2>2
<1>3. ASSUME NEW a \in Asks, NEW o \in {"answered", "refused"}, AnswerArrives(a, o) PROVE ClientInv'
  <2>1. {a} \subseteq Pending /\ Finish({a}, o) /\ UNCHANGED <<sock, written>> /\ sock = "open"
    BY <1>3 DEF AnswerArrives
  <2> QED BY <1>1, <2>1, FinishKeeps
<1>4. ASSUME NEW a \in Asks, AskTimesOut(a) PROVE ClientInv'
  <2>1. Finish({a}, "failed") /\ UNCHANGED <<sock, written>>
    BY <1>4 DEF AskTimesOut
  <2> QED BY <1>1, <2>1, FinishKeeps
<1>5. CASE SocketError
  <2>1. Finish(Pending, "failed") /\ sock' = "lost" /\ UNCHANGED written /\ Pending \in SUBSET Asks
    BY <1>5 DEF SocketError, Pending
  <2> QED BY <1>1, <2>1, FinishKeeps
<1>6. CASE IdleCloses
  <2>1. /\ UNCHANGED <<ask, written, subscribed>>
        /\ sock' = IF Idle THEN "idled" ELSE sock
    BY <1>6 DEF IdleCloses
  <2>2. OneSubscription' = OneSubscription
    BY <2>1 DEF OneSubscription
  <2>3. ASSUME OneSubscription, Idle PROVE Pending = {} /\ Subscribed = {}
    BY <2>3 DEF ClientInv, Idle, Subscribed
  <2> QED BY <1>1, <2>1, <2>2, <2>3 DEF ClientInv, IdleSparesUsers, Pending, Subscribed
<1>7. CASE SocketEnds \/ UserCloses \/ UNCHANGED clientVars
  <2>1. UNCHANGED <<ask, written, subscribed>> /\ sock' \in {"lost", "closed", sock}
    BY <1>7 DEF SocketEnds, UserCloses, clientVars
  <2> QED BY <1>1, <2>1 DEF ClientInv, OneSubscription, IdleSparesUsers, Pending, Subscribed
<1> QED BY <1>2, <1>3, <1>4, <1>5, <1>6, <1>7 DEF ClientNext

LEMMA ClientInvInit == ClientInit => ClientInv
<1> SUFFICES ASSUME ClientInit PROVE ClientInv
  OBVIOUS
<1>1. ClientTypeOK
  BY DEF ClientInit, ClientTypeOK
<1> QED BY <1>1, AskAssumption DEF ClientInit, ClientInv, IdleSparesUsers

(* The client's state stays of its type.                                   *)
THEOREM ClientTypeCorrect == ClientSpec => []ClientTypeOK
<1>1. ClientInit => ClientTypeOK
  BY ClientInvInit DEF ClientInv
<1> QED BY <1>1, ClientTypes, PTL DEF ClientSpec

(* A program that subscribes once never loses the subscription, nor a      *)
(* request that was written, to the client's own check for idleness        *)
(* (StreamTransport._scheduleIdleClose).                                   *)
THEOREM IdleCloseSparesUsers == ClientSpec => [](OneSubscription => IdleSparesUsers)
<1>1. ClientInv => (OneSubscription => IdleSparesUsers)
  BY DEF ClientInv
<1> QED BY <1>1, ClientInvInit, ClientInvStep, PTL DEF ClientSpec

-----------------------------------------------------------------------------
(***************************************************************************)
(* The login dialogue.                                                     *)
(***************************************************************************)

(* What the devices that are named leave over. *)
LEMMA Images ==
  ASSUME NEW S, IsFiniteSet(S), NEW f
  PROVE  IsFiniteSet({f[x] : x \in S}) /\ Cardinality({f[x] : x \in S}) <= Cardinality(S)
<1> DEFINE T == {f[x] : x \in S}
           g == [x \in S |-> f[x]]
<1>1. g \in Surjection(S, T)
  BY DEF Surjection
<1> HIDE DEF g
<1> QED BY <1>1, FS_Surjection

LEMMA SpareDevice ==
  ASSUME LoginTypeOK
  PROVE  NewDevice \in Devices /\ ~DeviceNamed(NewDevice)
<1> DEFINE dev == [r \in Daemons |-> snap[r].device]
           H == {held[p] : p \in Procs}
           D == {dev[r] : r \in Daemons}
           named == H \cup D \cup {file.device}
<1>1. /\ IsFiniteSet(H) /\ Cardinality(H) <= Cardinality(Procs)
      /\ Cardinality(H) \in Nat /\ Cardinality(Procs) \in Nat
  BY Images, FS_CardinalityType, LoginAssumption
<1>2. /\ IsFiniteSet(D) /\ Cardinality(D) <= Cardinality(Daemons)
      /\ Cardinality(D) \in Nat /\ Cardinality(Daemons) \in Nat
  <2> HIDE DEF dev
  <2> QED BY Images, FS_CardinalityType, LoginAssumption
<1>3. \A d \in Devices : DeviceNamed(d) => d \in named
  BY DEF DeviceNamed
<1> HIDE DEF H, D
<1>4. /\ IsFiniteSet(H \cup D) /\ Cardinality(H \cup D) \in Nat
      /\ Cardinality(H \cup D) <= Cardinality(Procs) + Cardinality(Daemons)
  <2>1. /\ IsFiniteSet(H \cup D) /\ IsFiniteSet(H \cap D)
        /\ Cardinality(H \cup D) = Cardinality(H) + Cardinality(D) - Cardinality(H \cap D)
    BY <1>1, <1>2, FS_Union, FS_Subset
  <2>2. Cardinality(H \cup D) \in Nat /\ Cardinality(H \cap D) \in Nat
    BY <2>1, FS_CardinalityType
  <2> QED BY <1>1, <1>2, <2>1, <2>2
<1>5. /\ IsFiniteSet(named) /\ Cardinality(named) \in Nat
      /\ Cardinality(named) <= Cardinality(Procs) + Cardinality(Daemons) + 1
  <2>1. /\ IsFiniteSet(named)
        /\ Cardinality(named) \in {Cardinality(H \cup D), Cardinality(H \cup D) + 1}
    BY <1>4, FS_AddElement
  <2> QED BY <1>1, <1>2, <1>4, <2>1, FS_CardinalityType
<1> HIDE DEF named
<1>6. \E d \in Devices : d \notin named
  <2> SUFFICES ASSUME Devices \in SUBSET named PROVE FALSE
    OBVIOUS
  <2>1. Cardinality(Devices) <= Cardinality(named)
    BY <1>5, FS_Subset
  <2>2. Cardinality(Devices) \in Nat
    BY LoginAssumption, FS_CardinalityType
  <2> QED BY <1>1, <1>2, <1>5, <2>1, <2>2, LoginAssumption
<1>7. \E d \in Devices : ~DeviceNamed(d)
  BY <1>3, <1>6
<1> QED BY <1>7 DEF NewDevice

LEMMA SpareSession ==
  ASSUME LoginTypeOK
  PROVE  NewSession \in Sessions /\ ~SessionNamed(NewSession)
<1> DEFINE ses == [p \in Procs |-> run[p].session]
           R == {ses[p] : p \in Procs}
           named == R \cup {pend.session}
<1>1. /\ IsFiniteSet(R) /\ Cardinality(R) <= Cardinality(Procs)
      /\ Cardinality(R) \in Nat /\ Cardinality(Procs) \in Nat
  <2> HIDE DEF ses
  <2> QED BY Images, FS_CardinalityType, LoginAssumption
<1>2. \A s \in Sessions : SessionNamed(s) => s \in named
  BY DEF SessionNamed
<1> HIDE DEF R
<1>3. /\ IsFiniteSet(named) /\ Cardinality(named) \in Nat
      /\ Cardinality(named) <= Cardinality(Procs) + 1
  <2>1. IsFiniteSet(named) /\ Cardinality(named) \in {Cardinality(R), Cardinality(R) + 1}
    BY <1>1, FS_AddElement
  <2> QED BY <1>1, <2>1, FS_CardinalityType
<1> HIDE DEF named
<1>4. \E s \in Sessions : s \notin named
  <2> SUFFICES ASSUME Sessions \in SUBSET named PROVE FALSE
    OBVIOUS
  <2>1. Cardinality(Sessions) <= Cardinality(named)
    BY <1>3, FS_Subset
  <2>2. Cardinality(Sessions) \in Nat
    BY LoginAssumption, FS_CardinalityType
  <2> QED BY <1>1, <1>3, <2>1, <2>2, LoginAssumption
<1>5. \E s \in Sessions : ~SessionNamed(s)
  BY <1>2, <1>4
<1> QED BY <1>5 DEF NewSession

Logins == [user : Users, session : Sessions \cup {Nothing}]

(* Tokens on which a refresh works, after what Cognito has been told. *)
Serves(t, standings, owners) ==
  t # Nothing /\ t.device # Nothing =>
    standings[t.device] \in {"confirmed", "forgotten"} /\ owners[t.device] = t.user

(* The device a process confirms is its user's own. *)
Confirms(p, owners) ==
  at[p] = "confirming" => held[p] \in Devices /\ owners[held[p]] = run[p].user

(* A refresh stores what it was loaded with, and a login its device.       *)
LoginInv ==
  /\ LoginTypeOK
  /\ Serves(file, standing, owner)
  /\ \A r \in Daemons : Serves(snap[r], standing, owner)
  /\ \A p \in Procs : (at[p] # "idle" => run[p] \in Logins) /\ Confirms(p, owner)

Standings == [Devices -> {"given", "confirmed", "forgotten"}]
Owners == [Devices -> Users \cup {Nothing}]
Challenges == [Sessions -> {"code", "device", "spent"}]

(* The types of what a step leaves to Cognito. *)
FileTypes ==
  /\ file \in Stored \cup {Nothing}
  /\ pend \in [user : Users, session : Sessions] \cup {Nothing}
  /\ at \in [Procs -> {"idle", "initiating", "answering", "proving", "confirming"}]
  /\ run \in [Procs -> Logins \cup {Nothing}]
  /\ held \in [Procs -> Devices \cup {Nothing}]
  /\ snap \in [Daemons -> Stored \cup {Nothing}]

(* Cognito keeps what it is told of a device that somebody names. *)
LEMMA CognitoKeeps ==
  ASSUME NEW challenges \in Challenges, NEW standings \in Standings, NEW owners \in Owners,
         Cognito(challenges, standings, owners), FileTypes',
         Serves(file', standings, owners),
         \A r \in Daemons : Serves(snap'[r], standings, owners),
         \A p \in Procs : /\ at'[p] # "idle" => run'[p] \in Logins
                          /\ at'[p] = "confirming" =>
                               held'[p] \in Devices /\ owners[held'[p]] = run'[p].user
  PROVE  LoginInv'
<1>1. LoginTypeOK'
  BY DEF Cognito, Challenges, Standings, Owners, FileTypes, Logins, LoginTypeOK
<1>2. \A d \in Devices : DeviceNamed(d)' => standing'[d] = standings[d] /\ owner'[d] = owners[d]
  BY DEF Cognito
<1>3. ASSUME NEW t \in Stored \cup {Nothing}, Serves(t, standings, owners),
             t # Nothing /\ t.device # Nothing => DeviceNamed(t.device)'
      PROVE  Serves(t, standing', owner')
  <2> SUFFICES ASSUME t # Nothing, t.device # Nothing
               PROVE  standing'[t.device] \in {"confirmed", "forgotten"} /\ owner'[t.device] = t.user
    BY DEF Serves
  <2>1. t.device \in Devices
    BY DEF Stored
  <2> QED BY <1>2, <1>3, <2>1 DEF Serves
<1>4. Serves(file', standing', owner')
  <2>1. file' # Nothing => DeviceNamed(file.device)'
    BY DEF DeviceNamed
  <2>2. file' \in Stored \cup {Nothing}
    BY DEF FileTypes
  <2> QED BY <1>3, <2>1, <2>2
<1>5. ASSUME NEW r \in Daemons PROVE Serves(snap'[r], standing', owner')
  <2>1. snap'[r] # Nothing => DeviceNamed(snap[r].device)'
    BY DEF DeviceNamed
  <2>2. snap'[r] \in Stored \cup {Nothing}
    BY DEF FileTypes
  <2> QED BY <1>3, <2>1, <2>2
<1>6. ASSUME NEW p \in Procs PROVE Confirms(p, owner)'
  <2> SUFFICES ASSUME at'[p] = "confirming"
               PROVE  held'[p] \in Devices /\ owner'[held'[p]] = run'[p].user
    BY DEF Confirms
  <2>1. DeviceNamed(held[p])'
    BY DEF DeviceNamed
  <2> QED BY <1>2, <2>1
<1> QED BY <1>1, <1>4, <1>5, <1>6 DEF LoginInv

(* A process that is done, or fails, leaves the others as they are. *)
LEMMA ReturnsLeaves ==
  ASSUME LoginInv, NEW p \in Procs, Returns(p)
  PROVE  /\ at' \in [Procs -> {"idle", "initiating", "answering", "proving", "confirming"}]
         /\ run' \in [Procs -> Logins \cup {Nothing}]
         /\ held' \in [Procs -> Devices \cup {Nothing}]
         /\ \A q \in Procs : /\ at'[q] # "idle" => run'[q] \in Logins
                             /\ at'[q] = "confirming" =>
                                  held'[q] \in Devices /\ owner[held'[q]] = run'[q].user
<1>1. /\ at \in [Procs -> {"idle", "initiating", "answering", "proving", "confirming"}]
      /\ run \in [Procs -> Logins \cup {Nothing}]
      /\ held \in [Procs -> Devices \cup {Nothing}]
  BY DEF LoginInv, LoginTypeOK, Logins
<1>2. \A q \in Procs : /\ at[q] # "idle" => run[q] \in Logins
                       /\ at[q] = "confirming" =>
                            held[q] \in Devices /\ owner[held[q]] = run[q].user
  BY DEF LoginInv, Confirms
<1>3. /\ at' = [at EXCEPT ![p] = "idle"] /\ run' = [run EXCEPT ![p] = Nothing]
      /\ held' = [held EXCEPT ![p] = Nothing]
  BY DEF Returns
<1>4. \A q \in Procs : q # p => at'[q] = at[q] /\ run'[q] = run[q] /\ held'[q] = held[q]
  BY <1>1, <1>3
<1>5. at'[p] = "idle"
  BY <1>1, <1>3
<1> QED BY <1>1, <1>2, <1>3, <1>4, <1>5

(* So does one that goes on without a device to confirm. *)
LEMMA GoesOnLeaves ==
  ASSUME LoginInv, NEW p \in Procs,
         NEW s \in {"initiating", "answering", "proving"},
         NEW l \in Logins,
         NEW d \in Devices \cup {Nothing},
         at' = [at EXCEPT ![p] = s], run' = [run EXCEPT ![p] = l],
         held' = [held EXCEPT ![p] = d]
  PROVE  /\ at' \in [Procs -> {"idle", "initiating", "answering", "proving", "confirming"}]
         /\ run' \in [Procs -> Logins \cup {Nothing}]
         /\ held' \in [Procs -> Devices \cup {Nothing}]
         /\ \A q \in Procs : /\ at'[q] # "idle" => run'[q] \in Logins
                             /\ at'[q] = "confirming" =>
                                  held'[q] \in Devices /\ owner[held'[q]] = run'[q].user
<1>1. /\ at \in [Procs -> {"idle", "initiating", "answering", "proving", "confirming"}]
      /\ run \in [Procs -> Logins \cup {Nothing}]
      /\ held \in [Procs -> Devices \cup {Nothing}]
  BY DEF LoginInv, LoginTypeOK, Logins
<1>2. \A q \in Procs : /\ at[q] # "idle" => run[q] \in Logins
                       /\ at[q] = "confirming" =>
                            held[q] \in Devices /\ owner[held[q]] = run[q].user
  BY DEF LoginInv, Confirms
<1>3. \A q \in Procs : q # p => at'[q] = at[q] /\ run'[q] = run[q] /\ held'[q] = held[q]
  BY <1>1
<1>4. at'[p] = s /\ run'[p] = l
  BY <1>1
<1> QED BY <1>1, <1>2, <1>3, <1>4

LEMMA LoginInvStep ==
  ASSUME LoginInv, [LoginNext]_loginVars
  PROVE  LoginInv'
<1>1. /\ FileTypes /\ LoginTypeOK
      /\ challenge \in Challenges /\ standing \in Standings /\ owner \in Owners
  BY DEF LoginInv, LoginTypeOK, FileTypes, Logins, Challenges, Standings, Owners
<1>2. /\ Serves(file, standing, owner) /\ \A r \in Daemons : Serves(snap[r], standing, owner)
      /\ \A p \in Procs : /\ at[p] # "idle" => run[p] \in Logins
                          /\ at[p] = "confirming" =>
                               held[p] \in Devices /\ owner[held[p]] = run[p].user
  BY DEF LoginInv, Confirms
<1>3. ASSUME NEW p \in Procs, NEW u \in Users, LoginInitiate(p, u) PROVE LoginInv'
  <2> DEFINE l == [user |-> u, session |-> Nothing]
  <2>1. /\ at' = [at EXCEPT ![p] = "initiating"] /\ run' = [run EXCEPT ![p] = l]
        /\ UNCHANGED <<file, pend, held, snap>> /\ Cognito(challenge, standing, owner)
    BY <1>3 DEF LoginInitiate
  <2>2. l \in Logins /\ held[p] \in Devices \cup {Nothing} /\ held' = [held EXCEPT ![p] = held[p]]
    BY <1>1, <2>1 DEF FileTypes, Logins
  <2> HIDE DEF l
  <2>3. FileTypes'
    BY <1>1, <2>1, <2>2, GoesOnLeaves DEF FileTypes
  <2> QED BY <1>1, <1>2, <2>1, <2>2, <2>3, GoesOnLeaves, CognitoKeeps
<1>4. ASSUME NEW p \in Procs, SavePending(p) PROVE LoginInv'
  <2>1. /\ pend' = [user |-> run[p].user, session |-> NewSession] /\ at[p] = "initiating"
        /\ UNCHANGED <<file, snap>> /\ Returns(p)
        /\ Cognito([challenge EXCEPT ![NewSession] = "code"], standing, owner)
    BY <1>4 DEF SavePending
  <2>2. pend' \in [user : Users, session : Sessions]
    BY <1>1, <1>2, <2>1, SpareSession DEF Logins
  <2>3. FileTypes'
    BY <1>1, <2>1, <2>2, ReturnsLeaves DEF FileTypes
  <2>4. [challenge EXCEPT ![NewSession] = "code"] \in Challenges
    BY <1>1 DEF Challenges
  <2> QED BY <1>1, <1>2, <2>1, <2>3, <2>4, ReturnsLeaves, CognitoKeeps
<1>5. ASSUME NEW p \in Procs, LoginVerify(p) PROVE LoginInv'
  <2> DEFINE d == IF file # Nothing /\ file.user = pend.user THEN file.device ELSE Nothing
  <2>1. /\ at' = [at EXCEPT ![p] = "answering"] /\ run' = [run EXCEPT ![p] = pend]
        /\ held' = [held EXCEPT ![p] = d] /\ pend # Nothing
        /\ UNCHANGED <<file, pend, snap>> /\ Cognito(challenge, standing, owner)
    BY <1>5 DEF LoginVerify
  <2>2. pend \in Logins /\ d \in Devices \cup {Nothing}
    BY <1>1, <2>1 DEF FileTypes, Logins, Stored
  <2> HIDE DEF d
  <2>3. FileTypes'
    BY <1>1, <2>1, <2>2, GoesOnLeaves DEF FileTypes
  <2> QED BY <1>1, <1>2, <2>1, <2>2, <2>3, GoesOnLeaves, CognitoKeeps
<1>6. ASSUME NEW p \in Procs, WrongCode(p) PROVE LoginInv'
  <2>1. /\ pend' = [run[p] EXCEPT !.session = NewSession] /\ at[p] = "answering"
        /\ UNCHANGED <<file, snap>> /\ Returns(p)
        /\ Cognito([challenge EXCEPT ![NewSession] = "code"], standing, owner)
    BY <1>6 DEF WrongCode, Awaits
  <2>2. pend' \in [user : Users, session : Sessions]
    BY <1>1, <1>2, <2>1, SpareSession DEF Logins
  <2>3. FileTypes'
    BY <1>1, <2>1, <2>2, ReturnsLeaves DEF FileTypes
  <2>4. [challenge EXCEPT ![NewSession] = "code"] \in Challenges
    BY <1>1 DEF Challenges
  <2> QED BY <1>1, <1>2, <2>1, <2>3, <2>4, ReturnsLeaves, CognitoKeeps
<1>7. ASSUME NEW p \in Procs, NoMoreTries(p) PROVE LoginInv'
  <2>1. /\ UNCHANGED <<file, pend, snap>> /\ Returns(p)
        /\ Cognito([challenge EXCEPT ![run[p].session] = "spent"], standing, owner)
    BY <1>7 DEF NoMoreTries
  <2>2. FileTypes'
    BY <1>1, <2>1, ReturnsLeaves DEF FileTypes
  <2>3. [challenge EXCEPT ![run[p].session] = "spent"] \in Challenges
    BY <1>1 DEF Challenges
  <2> QED BY <1>1, <1>2, <2>1, <2>2, <2>3, ReturnsLeaves, CognitoKeeps
<1>8. ASSUME NEW p \in Procs, NewDeviceMetadata(p) PROVE LoginInv'
  <2> DEFINE given == [standing EXCEPT ![NewDevice] = "given"]
             owners == [owner EXCEPT ![NewDevice] = run[p].user]
  <2>1. /\ held' = [held EXCEPT ![p] = NewDevice] /\ at' = [at EXCEPT ![p] = "confirming"]
        /\ at[p] = "answering" /\ UNCHANGED <<file, pend, run, snap>>
        /\ Cognito([challenge EXCEPT ![run[p].session] = "spent"], given, owners)
    BY <1>8 DEF NewDeviceMetadata, Awaits
  <2>2. NewDevice \in Devices /\ ~DeviceNamed(NewDevice) /\ run[p] \in Logins
    BY <1>1, <1>2, <2>1, SpareDevice
  <2>3. /\ [challenge EXCEPT ![run[p].session] = "spent"] \in Challenges
        /\ given \in Standings /\ owners \in Owners
    BY <1>1, <2>2 DEF Challenges, Standings, Owners, Logins
  <2>4. /\ \A d \in Devices : DeviceNamed(d) => given[d] = standing[d] /\ owners[d] = owner[d]
        /\ owners[NewDevice] = run[p].user
    BY <1>1, <2>2 DEF Standings, Owners
  <2> HIDE DEF given, owners
  <2>5. FileTypes'
    BY <1>1, <2>1, <2>2 DEF FileTypes
  <2>6. Serves(file', given, owners)
    <3>1. file # Nothing => DeviceNamed(file.device)
      BY DEF DeviceNamed
    <3> QED BY <1>1, <1>2, <2>1, <2>4, <3>1 DEF Serves, FileTypes, Stored
  <2>7. ASSUME NEW r \in Daemons PROVE Serves(snap'[r], given, owners)
    <3>1. snap[r] # Nothing => DeviceNamed(snap[r].device)
      BY DEF DeviceNamed
    <3>2. snap[r] \in Stored \cup {Nothing}
      BY <1>1 DEF FileTypes
    <3> QED BY <1>2, <2>1, <2>4, <3>1, <3>2 DEF Serves, Stored
  <2>8. ASSUME NEW q \in Procs
        PROVE  /\ at'[q] # "idle" => run'[q] \in Logins
               /\ at'[q] = "confirming" => held'[q] \in Devices /\ owners[held'[q]] = run'[q].user
    <3>1. CASE q = p
      BY <1>1, <2>1, <2>2, <2>4, <3>1 DEF FileTypes
    <3>2. CASE q # p
      <4>1. at'[q] = at[q] /\ held'[q] = held[q] /\ run'[q] = run[q]
        BY <1>1, <2>1, <3>2 DEF FileTypes
      <4>2. DeviceNamed(held[q])
        BY DEF DeviceNamed
      <4> QED BY <1>2, <2>4, <4>1, <4>2
    <3> QED BY <3>1, <3>2
  <2> QED BY <2>1, <2>3, <2>5, <2>6, <2>7, <2>8, CognitoKeeps
<1>9. ASSUME NEW p \in Procs, DeviceSrpAuth(p) PROVE LoginInv'
  <2>1. /\ at[p] = "answering" /\ UNCHANGED <<file, pend, snap>>
        /\ Cognito([challenge EXCEPT ![run[p].session] = "device"], standing, owner)
    BY <1>9 DEF DeviceSrpAuth, Awaits
  <2>2. [challenge EXCEPT ![run[p].session] = "device"] \in Challenges
    BY <1>1 DEF Challenges
  <2>3. CASE file = Nothing \/ file.device = Nothing
    <3>1. Returns(p)
      BY <1>9, <2>3 DEF DeviceSrpAuth
    <3>2. FileTypes'
      BY <1>1, <2>1, <3>1, ReturnsLeaves DEF FileTypes
    <3> QED BY <1>1, <1>2, <2>1, <2>2, <3>1, <3>2, ReturnsLeaves, CognitoKeeps
  <2>4. CASE ~(file = Nothing \/ file.device = Nothing)
    <3>1. /\ at' = [at EXCEPT ![p] = "proving"] /\ held' = [held EXCEPT ![p] = file.device]
          /\ run' = run /\ run[p] \in Logins
      BY <1>2, <1>9, <2>1, <2>4 DEF DeviceSrpAuth
    <3>2. file.device \in Devices \cup {Nothing} /\ run' = [run EXCEPT ![p] = run[p]]
      BY <1>1, <2>4, <3>1 DEF FileTypes, Stored
    <3>3. FileTypes'
      BY <1>1, <2>1, <3>1, <3>2, GoesOnLeaves DEF FileTypes
    <3> QED BY <1>1, <1>2, <2>1, <2>2, <3>1, <3>2, <3>3, GoesOnLeaves, CognitoKeeps
  <2> QED BY <2>3, <2>4
<1>10. ASSUME NEW p \in Procs, NEW d \in Devices \cup {Nothing}, SignedIn(p, d),
              UNCHANGED snap, run[p] \in Logins
       PROVE  FileTypes'
  <2>1. /\ file' = [user |-> run[p].user, device |-> d, tokens |-> TRUE]
        /\ pend' = Nothing /\ Returns(p)
    BY <1>10 DEF SignedIn
  <2>2. file' \in Stored
    BY <1>1, <1>10, <2>1 DEF FileTypes, Logins, Stored
  <2> QED BY <1>1, <1>10, <2>1, <2>2, ReturnsLeaves DEF FileTypes
<1>11. ASSUME NEW p \in Procs, ConfirmDevice(p) PROVE LoginInv'
  <2> DEFINE confirmed == [standing EXCEPT ![held[p]] = "confirmed"]
  <2>1. /\ at[p] = "confirming" /\ SignedIn(p, held[p]) /\ Returns(p) /\ UNCHANGED snap
        /\ file' = [user |-> run[p].user, device |-> held[p], tokens |-> TRUE]
        /\ Cognito(challenge, confirmed, owner)
        /\ held[p] \in Devices /\ owner[held[p]] = run[p].user /\ run[p] \in Logins
    BY <1>2, <1>11 DEF ConfirmDevice, SignedIn
  <2>2. /\ confirmed \in Standings /\ confirmed[held[p]] = "confirmed"
        /\ \A d \in Devices : confirmed[d] \in {standing[d], "confirmed"}
    BY <1>1, <2>1 DEF Standings
  <2> HIDE DEF confirmed
  <2>3. Serves(file', confirmed, owner)
    BY <2>1, <2>2 DEF Serves
  <2>4. ASSUME NEW r \in Daemons PROVE Serves(snap'[r], confirmed, owner)
    BY <1>1, <1>2, <2>1, <2>2 DEF Serves, FileTypes, Stored
  <2>5. FileTypes'
    BY <1>1, <1>10, <2>1 DEF FileTypes
  <2> QED BY <1>1, <2>1, <2>2, <2>3, <2>4, <2>5, ReturnsLeaves, CognitoKeeps
<1>12. ASSUME NEW p \in Procs, DeviceProved(p) PROVE LoginInv'
  <2>1. /\ at[p] = "proving" /\ SignedIn(p, held[p]) /\ Returns(p) /\ UNCHANGED snap
        /\ file' = [user |-> run[p].user, device |-> held[p], tokens |-> TRUE]
        /\ Cognito([challenge EXCEPT ![run[p].session] = "spent"], standing, owner)
        /\ standing[held[p]] = "confirmed" /\ owner[held[p]] = run[p].user /\ run[p] \in Logins
    BY <1>2, <1>12 DEF DeviceProved, SignedIn, Proves
  <2>2. [challenge EXCEPT ![run[p].session] = "spent"] \in Challenges
    BY <1>1 DEF Challenges
  <2>3. Serves(file', standing, owner)
    BY <2>1 DEF Serves
  <2>4. FileTypes'
    BY <1>1, <1>10, <2>1 DEF FileTypes
  <2> QED BY <1>1, <1>2, <2>1, <2>2, <2>3, <2>4, ReturnsLeaves, CognitoKeeps
<1>24. ASSUME NEW p \in Procs, NoDeviceMetadata(p) PROVE LoginInv'
  <2>1. /\ at[p] = "answering" /\ SignedIn(p, Nothing) /\ Returns(p) /\ UNCHANGED snap
        /\ file' = [user |-> run[p].user, device |-> Nothing, tokens |-> TRUE]
        /\ Cognito([challenge EXCEPT ![run[p].session] = "spent"], standing, owner)
    BY <1>24 DEF NoDeviceMetadata, Awaits, SignedIn
  <2>2. [challenge EXCEPT ![run[p].session] = "spent"] \in Challenges
    BY <1>1 DEF Challenges
  <2>3. Serves(file', standing, owner)
    BY <2>1 DEF Serves
  <2>4. FileTypes'
    BY <1>2, <1>10, <2>1
  <2> QED BY <1>1, <1>2, <2>1, <2>2, <2>3, <2>4, ReturnsLeaves, CognitoKeeps
<1>13. ASSUME NEW p \in Procs, StaleDevice(p) PROVE LoginInv'
  <2>1. /\ file' = (IF file = Nothing THEN Nothing ELSE [file EXCEPT !.device = Nothing])
        /\ at' = [at EXCEPT ![p] = "initiating"] /\ at[p] = "proving"
        /\ run' = [run EXCEPT ![p].session = Nothing] /\ held' = [held EXCEPT ![p] = Nothing]
        /\ UNCHANGED <<pend, snap>> /\ Cognito(challenge, standing, owner)
    BY <1>13 DEF StaleDevice
  <2>2. file' \in Stored \cup {Nothing} /\ Serves(file', standing, owner)
    BY <1>1, <2>1 DEF FileTypes, Stored, Serves
  <2>3. PICK l \in Logins : run' = [run EXCEPT ![p] = l]
    BY <1>1, <1>2, <2>1 DEF Logins
  <2>4. FileTypes'
    BY <1>1, <2>1, <2>2, <2>3, GoesOnLeaves DEF FileTypes
  <2> QED BY <1>1, <1>2, <2>1, <2>2, <2>3, <2>4, GoesOnLeaves, CognitoKeeps
<1>14. ASSUME NEW p \in Procs, CallFails(p) PROVE LoginInv'
  <2>1. UNCHANGED <<file, pend, snap>> /\ Returns(p)
    BY <1>14 DEF CallFails
  <2>2. PICK challenges \in {challenge} \cup {[challenge EXCEPT ![s] = "spent"] :
                                                s \in {run[p].session} \ {Nothing}} :
          Cognito(challenges, standing, owner)
    BY <1>14 DEF CallFails
  <2>3. challenges \in Challenges
    BY <1>1, <2>2 DEF Challenges
  <2>4. FileTypes'
    BY <1>1, <2>1, ReturnsLeaves DEF FileTypes
  <2> QED BY <1>1, <1>2, <2>1, <2>2, <2>3, <2>4, ReturnsLeaves, CognitoKeeps
<1>15. ASSUME UNCHANGED <<at, run, held>>, pend' \in {pend, Nothing}, NEW standings \in Standings,
              \A d \in Devices : standings[d] \in {standing[d], "forgotten"},
              Cognito(challenge, standings, owner),
              file' \in Stored \cup {Nothing}, Serves(file', standings, owner),
              snap' \in [Daemons -> Stored \cup {Nothing}],
              \A r \in Daemons : snap'[r] \in {snap[r], file, Nothing}
       PROVE  LoginInv'
  <2>1. FileTypes'
    BY <1>1, <1>15 DEF FileTypes
  <2>2. ASSUME NEW t \in Stored \cup {Nothing}, Serves(t, standing, owner)
        PROVE  Serves(t, standings, owner)
    BY <1>15, <2>2 DEF Serves, Stored
  <2>3. ASSUME NEW r \in Daemons PROVE Serves(snap'[r], standings, owner)
    <3>1. Serves(Nothing, standings, owner)
      BY DEF Serves
    <3>2. Serves(snap[r], standings, owner) /\ Serves(file, standings, owner)
      BY <1>1, <1>2, <2>2 DEF FileTypes
    <3> QED BY <1>15, <3>1, <3>2
  <2> QED BY <1>1, <1>2, <1>15, <2>1, <2>3, CognitoKeeps
<1>16. \A d \in Devices : standing[d] \in {standing[d], "forgotten"}
  OBVIOUS
<1>17. ASSUME NEW r \in Daemons, Refresh(r) PROVE LoginInv'
  <2>1. /\ snap' = [snap EXCEPT ![r] = file] /\ UNCHANGED <<file, pend, at, run, held>>
        /\ Cognito(challenge, standing, owner)
    BY <1>17 DEF Refresh, cliVars
  <2>2. /\ file' \in Stored \cup {Nothing} /\ snap' \in [Daemons -> Stored \cup {Nothing}]
        /\ \A q \in Daemons : snap'[q] \in {snap[q], file, Nothing}
    BY <1>1, <2>1 DEF FileTypes
  <2> QED BY <1>1, <1>2, <1>15, <1>16, <2>1, <2>2
<1>18. ASSUME NEW r \in Daemons, RefreshSaves(r) PROVE LoginInv'
  <2>1. /\ snap' = [snap EXCEPT ![r] = Nothing] /\ UNCHANGED <<pend, at, run, held>>
        /\ Cognito(challenge, standing, owner) /\ snap[r] # Nothing
    BY <1>18 DEF RefreshSaves, cliVars
  <2>2. PICK granted \in BOOLEAN : file' = [snap[r] EXCEPT !.tokens = granted]
    BY <1>18 DEF RefreshSaves
  <2>3. snap[r] \in Stored
    BY <1>1, <2>1 DEF FileTypes
  <2>4. file' \in Stored /\ file'.device = snap[r].device /\ file'.user = snap[r].user
    BY <2>2, <2>3 DEF Stored
  <2>5. Serves(file', standing, owner)
    BY <1>2, <2>1, <2>4 DEF Serves
  <2>6. /\ snap' \in [Daemons -> Stored \cup {Nothing}]
        /\ \A q \in Daemons : snap'[q] \in {snap[q], file, Nothing}
    BY <1>1, <2>1 DEF FileTypes
  <2> QED BY <1>1, <1>15, <1>16, <2>1, <2>4, <2>5, <2>6
<1>19. ASSUME NEW r \in Daemons, RefreshFails(r) PROVE LoginInv'
  <2>1. /\ snap' = [snap EXCEPT ![r] = Nothing] /\ UNCHANGED <<file, pend, at, run, held>>
        /\ Cognito(challenge, standing, owner)
    BY <1>19 DEF RefreshFails, cliVars
  <2>2. /\ file' \in Stored \cup {Nothing} /\ snap' \in [Daemons -> Stored \cup {Nothing}]
        /\ \A q \in Daemons : snap'[q] \in {snap[q], file, Nothing}
    BY <1>1, <2>1 DEF FileTypes
  <2> QED BY <1>1, <1>2, <1>15, <1>16, <2>1, <2>2
<1>20. ASSUME Logout PROVE LoginInv'
  <2>1. /\ file' = Nothing /\ pend' = Nothing /\ UNCHANGED <<at, run, held>> /\ UNCHANGED snap
        /\ Cognito(challenge, standing, owner)
    BY <1>20 DEF Logout
  <2>2. /\ Serves(file', standing, owner) /\ snap' \in [Daemons -> Stored \cup {Nothing}]
        /\ \A q \in Daemons : snap'[q] \in {snap[q], file, Nothing}
    BY <1>1, <2>1 DEF Serves, FileTypes
  <2> QED BY <1>1, <1>15, <1>16, <2>1, <2>2
<1>21. ASSUME NEW d \in Devices, ForgetDevice(d) PROVE LoginInv'
  <2> DEFINE standings == [standing EXCEPT ![d] = "forgotten"]
  <2>1. /\ UNCHANGED <<file, pend, at, run, held>> /\ UNCHANGED snap
        /\ Cognito(challenge, standings, owner)
    BY <1>21 DEF ForgetDevice, cliVars
  <2>2. /\ standings \in Standings
        /\ \A e \in Devices : standings[e] \in {standing[e], "forgotten"}
    BY <1>1 DEF Standings
  <2> HIDE DEF standings
  <2>3. /\ file' \in Stored \cup {Nothing} /\ snap' \in [Daemons -> Stored \cup {Nothing}]
        /\ \A q \in Daemons : snap'[q] \in {snap[q], file, Nothing}
    BY <1>1, <2>1 DEF FileTypes
  <2>4. Serves(file', standings, owner)
    BY <1>1, <1>2, <2>1, <2>2 DEF Serves, FileTypes, Stored
  <2> QED BY <1>15, <2>1, <2>2, <2>3, <2>4
<1>22. CASE UNCHANGED loginVars
  <2>1. UNCHANGED <<file, pend, at, run, held, snap, challenge, standing, owner>>
    BY <1>22 DEF loginVars, cliVars, poolVars
  <2> QED BY <2>1 DEF LoginInv, LoginTypeOK, Serves, Confirms
<1> QED
  BY <1>3, <1>4, <1>5, <1>6, <1>7, <1>8, <1>9, <1>11, <1>12, <1>13, <1>14, <1>24,
     <1>17, <1>18, <1>19, <1>20, <1>21, <1>22 DEF LoginNext, Verifies

LEMMA LoginInvInit == LoginInit => LoginInv
<1> SUFFICES ASSUME LoginInit PROVE LoginInv
  OBVIOUS
<1>1. /\ file \in {Nothing} \cup [user : Users, device : Devices, tokens : {TRUE}]
      /\ pend = Nothing /\ at = [p \in Procs |-> "idle"] /\ run = [p \in Procs |-> Nothing]
      /\ held = [p \in Procs |-> Nothing] /\ snap = [r \in Daemons |-> Nothing]
      /\ challenge = [s \in Sessions |-> "spent"]
      /\ standing = [d \in Devices |-> IF DeviceNamed(d) THEN "confirmed" ELSE "forgotten"]
      /\ owner = [d \in Devices |-> IF DeviceNamed(d) THEN file.user ELSE Nothing]
  BY DEF LoginInit
<1>2. file \in Stored \cup {Nothing}
  BY <1>1 DEF Stored
<1>3. \A d \in Devices : owner[d] \in Users \cup {Nothing}
  <2> SUFFICES ASSUME NEW d \in Devices, DeviceNamed(d) PROVE file.user \in Users
    BY <1>1
  <2>1. file # Nothing
    BY <1>1, LoginAssumption DEF DeviceNamed
  <2> QED BY <1>2, <2>1 DEF Stored
<1>4. LoginTypeOK
  BY <1>1, <1>2, <1>3 DEF LoginTypeOK
<1>5. Serves(file, standing, owner)
  <2> SUFFICES ASSUME file # Nothing, file.device # Nothing
               PROVE  standing[file.device] = "confirmed" /\ owner[file.device] = file.user
    BY DEF Serves
  <2>1. file.device \in Devices /\ DeviceNamed(file.device)
    BY <1>2 DEF Stored, DeviceNamed
  <2> QED BY <1>1, <2>1
<1> QED BY <1>1, <1>4, <1>5 DEF LoginInv, Serves, Confirms

(* The dialogue's state stays of its type.                                 *)
THEOREM LoginTypeCorrect == LoginSpec => []LoginTypeOK
<1>1. LoginInv => LoginTypeOK
  BY DEF LoginInv
<1> QED BY <1>1, LoginInvInit, LoginInvStep, PTL DEF LoginSpec

(* Any number of people who sign in, refresh and log out leave a device in *)
(* tokens.json that was confirmed and is the stored user's (loginVerify,   *)
(* confirmDevice and the saves of AwsCognitoTokens).                       *)
THEOREM StoredDevicesServe == LoginSpec => []StoredDeviceServes
<1>1. LoginInv => StoredDeviceServes
  BY DEF LoginInv, Serves, StoredDeviceServes
<1> QED BY <1>1, LoginInvInit, LoginInvStep, PTL DEF LoginSpec
=============================================================================
