----------------------------- MODULE Hub3Proofs -----------------------------
(***************************************************************************)
(* What a client asks of the cloud: the WebSocket transport (Hub3Ws), the  *)
(* learning of infrared codes (Learn) and the acknowledged triggers        *)
(* (Trigger), for any number of calls, requests and connections. The three *)
(* share no state.  Of the statements that are not true of the transport   *)
(* or of learning it is proved under which conditions they are.            *)
(***************************************************************************)
EXTENDS Hub3Ws, Learn, Trigger, SequenceFacts

-----------------------------------------------------------------------------
(* Type correctness.                                                       *)

(* What the steps that the handlers share leave behind.                    *)
LEMMA InitWebSocketTypes ==
  ASSUME TypeOK, NEW s \in Sockets, NEW tracked \in BOOLEAN, InitWebSocket(s, tracked)
  PROVE  /\ ws' \in Sockets \cup {None} /\ status' \in {"disconnected", "connecting", "open"}
         /\ sock' \in [Sockets -> {"free", "connecting", "open", "half", "closing"}]
         /\ wire' \in [Sockets -> Seq(Frames)]
         /\ connectTimer' \in BOOLEAN /\ orphanTimers' \in Nat
<1>1. sock' \in [Sockets -> {"free", "connecting", "open", "half", "closing"}]
  BY DEF TypeOK, InitWebSocket
<1>2. <<>> \in Seq(Frames)
  OBVIOUS
<1>3. wire' \in [Sockets -> Seq(Frames)]
  <2>1. \A x \in Sockets : (IF x = ws THEN <<>> ELSE wire[x]) \in Seq(Frames)
    BY <1>2 DEF TypeOK
  <2> QED BY <2>1 DEF InitWebSocket
<1> QED BY <1>1, <1>3 DEF TypeOK, InitWebSocket

LEMMA SettleTypes ==
  ASSUME TypeOK, NEW outcome \in {"ok", "failed"}, SettleInitial(outcome)
  PROVE  /\ call' \in [Callers -> {"idle", "waiting", "resolved", "rejected", "ok", "failed"}]
         /\ initial' \in Callers \cup {None}
BY DEF TypeOK, SettleInitial, Settle

LEMMA RejectTypes ==
  ASSUME TypeOK, RejectAllPending
  PROVE  /\ frame' \in [Frames -> {"idle", "waiting", "ok", "failed", "sent"}]
         /\ pending' \in [Keys -> Seq(Frames)]
<1>1. <<>> \in Seq(Frames)
  OBVIOUS
<1> QED BY <1>1 DEF TypeOK, RejectAllPending

LEMMA ResolveTypes ==
  ASSUME TypeOK, NEW k \in Keys, NEW f \in Frames, ResolveHead(k, f)
  PROVE  /\ frame' \in [Frames -> {"idle", "waiting", "ok", "failed", "sent"}]
         /\ pending' \in [Keys -> Seq(Frames)]
         /\ answer' \in [Frames -> Frames \cup {None}]
<1>1. CASE pending[k] = <<>>
  BY <1>1 DEF TypeOK, ResolveHead
<1>2. CASE pending[k] # <<>>
  <2>1. pending[k] \in Seq(Frames)
    BY DEF TypeOK
  <2>2. Tail(pending[k]) \in Seq(Frames) /\ Head(pending[k]) \in Frames
    BY <1>2, <2>1, TailFacts
  <2> QED BY <1>2, <2>2 DEF TypeOK, ResolveHead
<1> QED BY <1>1, <1>2

LEMMA SendTypes ==
  ASSUME TypeOK, NEW f \in Frames, SendOrQueue(f)
  PROVE  queue' \in Seq(Frames) /\ wire' \in [Sockets -> Seq(Frames)]
<1>1. Append(queue, f) \in Seq(Frames)
  <2>1. queue \in Seq(Frames)
    BY DEF TypeOK
  <2> QED BY <2>1, AppendFacts
<1>2. ASSUME ws # None PROVE Append(wire[ws], f) \in Seq(Frames)
  <2>1. wire[ws] \in Seq(Frames)
    BY <1>2 DEF TypeOK
  <2> QED BY <2>1, AppendFacts
<1> QED BY <1>1, <1>2 DEF TypeOK, SendOrQueue

LEMMA ReconnectTypes ==
  ASSUME TypeOK, NEW pong \in BOOLEAN, ActiveReconnect(pong)
  PROVE  TypeOK'
<1>1. CASE closedByUser
  BY <1>1 DEF TypeOK, ActiveReconnect, connVars, modeVars, dialVars, callVars
<1>2. CASE ~closedByUser
  <2>1. PICK s \in Sockets : InitWebSocket(s, FALSE)
    BY <1>2 DEF ActiveReconnect
  <2>2. /\ ws' \in Sockets \cup {None} /\ status' \in {"disconnected", "connecting", "open"}
        /\ sock' \in [Sockets -> {"free", "connecting", "open", "half", "closing"}]
        /\ wire' \in [Sockets -> Seq(Frames)]
        /\ connectTimer' \in BOOLEAN /\ orphanTimers' \in Nat
    BY <2>1, InitWebSocketTypes
  <2>3. /\ keepaliveTimer' = FALSE /\ pongTimer' = FALSE /\ reconnectTimer' = FALSE
        /\ retryCount' = 0 /\ refreshed' = FALSE
        /\ UNCHANGED <<modeVars, refreshing, sleepTimer, callVars,
                       pending, queue, stale, frame, answer>>
    BY <1>2 DEF ActiveReconnect
  <2> QED BY <2>2, <2>3 DEF TypeOK, modeVars, callVars
<1> QED BY <1>1, <1>2

LEMMA ApiTypes == ASSUME TypeOK, Api PROVE TypeOK'
<1> USE DEF connVars, modeVars, retryVars, aliveVars, dialVars, callVars, dataVars
<1>1. ASSUME NEW c \in Callers, ConnectReturns(c) PROVE TypeOK'
  BY <1>1 DEF TypeOK, ConnectReturns
<1>2. ASSUME NEW c \in Callers, ConnectJoins(c) PROVE TypeOK'
  BY <1>2 DEF TypeOK, ConnectJoins
<1>3. ASSUME NEW c \in Callers, ConnectStarts(c) PROVE TypeOK'
  <2>1. PICK s \in Sockets : InitWebSocket(s, connectTimer)
    BY <1>3 DEF ConnectStarts
  <2>2. connectTimer \in BOOLEAN
    BY DEF TypeOK
  <2> QED BY <1>3, <2>1, <2>2, InitWebSocketTypes DEF TypeOK, ConnectStarts
<1>4. ASSUME NEW c \in Callers, ConnectFinally(c) PROVE TypeOK'
  BY <1>4 DEF TypeOK, ConnectFinally
<1>5. ASSUME Close PROVE TypeOK'
  <2>1. <<>> \in Seq(Frames)
    OBVIOUS
  <2>2. /\ sock' \in [Sockets -> {"free", "connecting", "open", "half", "closing"}]
        /\ wire' \in [Sockets -> Seq(Frames)]
    <3>1. \A s \in Sockets : (IF s = ws /\ sock[s] # "open" THEN <<>> ELSE wire[s]) \in Seq(Frames)
      BY <2>1 DEF TypeOK
    <3> QED BY <1>5, <3>1 DEF TypeOK, Close, DropSocket
  <2>3. RejectAllPending /\ SettleInitial("failed")
    BY <1>5 DEF Close
  <2> QED BY <1>5, <2>1, <2>2, <2>3, RejectTypes, SettleTypes
          DEF TypeOK, Close, DropSocket, ClearAllTimers
<1>6. ASSUME NEW f \in Frames, Request(f) PROVE TypeOK'
  <2>1. SendOrQueue(f) /\ KeyOf[f] \in Keys
    BY <1>6, FramesAssumption DEF Request
  <2>2. Append(pending[KeyOf[f]], f) \in Seq(Frames)
    <3>1. pending[KeyOf[f]] \in Seq(Frames)
      BY <2>1 DEF TypeOK
    <3> QED BY <3>1, AppendFacts
  <2>3. pending' \in [Keys -> Seq(Frames)]
    BY <1>6, <2>1, <2>2 DEF TypeOK, Request
  <2> QED BY <1>6, <2>1, <2>3, SendTypes DEF TypeOK, Request
<1>7. ASSUME NEW f \in Frames, Send(f) PROVE TypeOK'
  <2>1. SendOrQueue(f)
    BY <1>7 DEF Send
  <2> QED BY <1>7, <2>1, SendTypes DEF TypeOK, Send
<1>8. ASSUME NEW f \in Frames, RequestTimeout(f) PROVE TypeOK'
  <2>1. KeyOf[f] \in Keys
    BY FramesAssumption
  <2>2. pending[KeyOf[f]] \in Seq(Frames)
    BY <2>1 DEF TypeOK
  <2>3. \A i \in 1 .. Len(pending[KeyOf[f]]) : RemoveAt(pending[KeyOf[f]], i) \in Seq(Frames)
    BY <2>2, RemoveAtFacts
  <2>4. pending' \in [Keys -> Seq(Frames)]
    BY <1>8, <2>1, <2>3 DEF TypeOK, RequestTimeout, UnregisterPending
  <2> QED BY <1>8, <2>4 DEF TypeOK, RequestTimeout
<1> QED BY <1>1, <1>2, <1>3, <1>4, <1>5, <1>6, <1>7, <1>8 DEF Api

LEMMA EventTypes == ASSUME TypeOK, Events PROVE TypeOK'
<1> USE DEF connVars, modeVars, retryVars, aliveVars, dialVars, callVars, dataVars
<1>1. <<>> \in Seq(Frames)
  OBVIOUS
<1>2. ASSUME OnOpen PROVE TypeOK'
  <2>1. SettleInitial("ok") /\ ws \in Sockets
    BY <1>2 DEF TypeOK, OnOpen
  <2>2. wire[ws] \o SubSeq(queue, stale + 1, Len(queue)) \in Seq(Frames)
    <3>1. queue \in Seq(Frames) /\ wire[ws] \in Seq(Frames) /\ stale + 1 \in Int /\ 1 <= stale + 1
      BY <2>1 DEF TypeOK
    <3>2. SubSeq(queue, stale + 1, Len(queue)) \in Seq(Frames)
      <4>1. Len(queue) \in Int /\ Len(queue) <= Len(queue)
        BY <3>1
      <4> QED BY <3>1, <4>1, PartFacts
    <3> QED BY <3>1, <3>2
  <2>3. wire' \in [Sockets -> Seq(Frames)]
    BY <1>2, <2>1, <2>2 DEF TypeOK, OnOpen
  <2> QED BY <1>1, <1>2, <2>1, <2>3, SettleTypes DEF TypeOK, OnOpen, StartKeepalive
<1>3. ASSUME OnClose PROVE TypeOK'
  <2>1. wire' \in [Sockets -> Seq(Frames)]
    BY <1>1, <1>3 DEF TypeOK, OnClose
  <2>2. RejectAllPending /\ AfterClose(status = "open")
    BY <1>3 DEF OnClose
  <2>3. /\ closedByUser' \in BOOLEAN /\ reconnectTimer' \in BOOLEAN
        /\ queue' \in Seq(Frames) /\ stale' \in Nat
        /\ call' \in [Callers -> {"idle", "waiting", "resolved", "rejected", "ok", "failed"}]
        /\ initial' \in Callers \cup {None}
    <3>1. CASE SettleInitial("failed") /\ queue' = <<>> /\ stale' = 0 /\ closedByUser' = TRUE
               /\ UNCHANGED reconnectTimer
      BY <1>1, <3>1, SettleTypes DEF TypeOK
    <3>2. CASE /\ closedByUser' = closedByUser
               /\ UNCHANGED <<queue, stale, initial, call>>
               /\ \/ UNCHANGED reconnectTimer
                  \/ reconnectTimer' = (reconnectTimer \/ AutoReconnect)
      BY <3>2, AutoAssumption DEF TypeOK
    <3> QED BY <2>2, <3>1, <3>2 DEF AfterClose
  <2> QED BY <1>3, <2>1, <2>2, <2>3, RejectTypes DEF TypeOK, OnClose
<1>4. ASSUME OnHeartbeatAck PROVE TypeOK'
  <2> DEFINE others == <<connVars, modeVars, retryVars, keepaliveTimer, reconnectTimer,
                        sleepTimer, dialVars, callVars, queue, stale, wire>>
  <2>3. pongTimer' = FALSE /\ UNCHANGED others
    BY <1>4 DEF OnHeartbeatAck
  <2>4. pongTimer' \in BOOLEAN
    BY <2>3
  <2>1. CASE pending[KeepaliveKey] = <<>>
    <3>1. UNCHANGED <<pending, frame, answer>>
      BY <1>4, <2>1 DEF OnHeartbeatAck
    <3> QED BY <2>3, <2>4, <3>1 DEF TypeOK
  <2>2. CASE pending[KeepaliveKey] # <<>>
    <3>1. pending[KeepaliveKey] \in Seq(Frames) /\ KeepaliveKey \in Keys
      BY FramesAssumption DEF TypeOK
    <3>2. Head(pending[KeepaliveKey]) \in Frames
      BY <2>2, <3>1, TailFacts
    <3>3. ResolveHead(KeepaliveKey, Head(pending[KeepaliveKey]))
      BY <1>4, <2>2 DEF OnHeartbeatAck
    <3>4. /\ frame' \in [Frames -> {"idle", "waiting", "ok", "failed", "sent"}]
          /\ pending' \in [Keys -> Seq(Frames)]
          /\ answer' \in [Frames -> Frames \cup {None}]
      BY <3>1, <3>2, <3>3, ResolveTypes
    <3> QED BY <2>3, <2>4, <3>4 DEF TypeOK
  <2> QED BY <2>1, <2>2
<1>5. ASSUME HalfOpen PROVE TypeOK'
  BY <1>1, <1>5 DEF TypeOK, HalfOpen
<1>6. ASSUME NEW s \in Sockets, wire[s] # <<>>
      PROVE  Tail(wire[s]) \in Seq(Frames) /\ Head(wire[s]) \in Frames
  <2>1. wire[s] \in Seq(Frames)
    BY DEF TypeOK
  <2> QED BY <1>6, <2>1, TailFacts
<1>7. ASSUME NEW s \in Sockets, OnReply(s) PROVE TypeOK'
  <2>1. /\ Tail(wire[s]) \in Seq(Frames) /\ Head(wire[s]) \in Frames
        /\ KeyOf[Head(wire[s])] \in Keys /\ ResolveHead(KeyOf[Head(wire[s])], Head(wire[s]))
    BY <1>6, <1>7, FramesAssumption DEF OnReply
  <2>2. /\ frame' \in [Frames -> {"idle", "waiting", "ok", "failed", "sent"}]
        /\ pending' \in [Keys -> Seq(Frames)]
        /\ answer' \in [Frames -> Frames \cup {None}]
    BY <2>1, ResolveTypes
  <2> QED BY <1>7, <2>1, <2>2 DEF TypeOK, OnReply
<1>8. ASSUME NEW s \in Sockets, NeverAnswered(s) PROVE TypeOK'
  BY <1>6, <1>8 DEF TypeOK, NeverAnswered
<1>9. ASSUME NEW s \in Sockets, DetachedEnds(s) PROVE TypeOK'
  BY <1>1, <1>9 DEF TypeOK, DetachedEnds
<1> QED BY <1>2, <1>3, <1>4, <1>5, <1>7, <1>8, <1>9 DEF Events

LEMMA TimerTypes == ASSUME TypeOK, Timers PROVE TypeOK'
<1> USE DEF connVars, modeVars, retryVars, aliveVars, dialVars, callVars, dataVars
<1>1. connectTimer \in BOOLEAN /\ pongTimer \in BOOLEAN
  BY DEF TypeOK
<1>2. ASSUME ReconnectTimerRefreshes PROVE TypeOK'
  <2>1. /\ reconnectTimer' = FALSE /\ retryCount' = retryCount + 1 /\ refreshed' = TRUE
        /\ refreshing' = refreshing + 1
        /\ UNCHANGED <<connVars, modeVars, aliveVars, sleepTimer, dialVars, callVars, dataVars>>
    BY <1>2 DEF ReconnectTimerRefreshes
  <2>2. reconnectTimer' \in BOOLEAN /\ refreshed' \in BOOLEAN
    BY <2>1
  <2>3. retryCount' \in Nat /\ refreshing' \in Nat
    BY <2>1 DEF TypeOK
  <2> QED BY <2>1, <2>2, <2>3 DEF TypeOK
<1>3. ASSUME ReconnectTimerDials PROVE TypeOK'
  <2>1. PICK s \in Sockets : InitWebSocket(s, connectTimer)
    BY <1>3 DEF ReconnectTimerDials
  <2>2. /\ ws' \in Sockets \cup {None} /\ status' \in {"disconnected", "connecting", "open"}
        /\ sock' \in [Sockets -> {"free", "connecting", "open", "half", "closing"}]
        /\ wire' \in [Sockets -> Seq(Frames)]
        /\ connectTimer' \in BOOLEAN /\ orphanTimers' \in Nat
    BY <1>1, <2>1, InitWebSocketTypes
  <2>3. /\ reconnectTimer' = FALSE /\ retryCount' \in {retryCount, retryCount + 1}
        /\ UNCHANGED <<modeVars, refreshed, refreshing, aliveVars, sleepTimer, callVars,
                       pending, queue, stale, frame, answer>>
    BY <1>3 DEF ReconnectTimerDials
  <2>4. reconnectTimer' \in BOOLEAN
    BY <2>3
  <2>5. retryCount' \in Nat
    BY <2>3 DEF TypeOK
  <2> QED BY <2>2, <2>3, <2>4, <2>5 DEF TypeOK
<1>4. ASSUME TokenRefreshReturns PROVE TypeOK'
  <2>1. PICK s \in Sockets : InitWebSocket(s, connectTimer)
    BY <1>4 DEF TokenRefreshReturns
  <2> QED BY <1>1, <1>4, <2>1, InitWebSocketTypes DEF TypeOK, TokenRefreshReturns
<1>5. ASSUME ConnectTimeout PROVE TypeOK'
  <2>1. sock' \in [Sockets -> {"free", "connecting", "open", "half", "closing"}]
    BY <1>5 DEF TypeOK, ConnectTimeout, CutHandshake
  <2>2. orphanTimers' \in Nat
    BY <1>5 DEF TypeOK, ConnectTimeout
  <2>4. connectTimer' \in BOOLEAN
    BY <1>5 DEF ConnectTimeout
  <2>3. UNCHANGED <<status, ws, modeVars, retryVars, aliveVars, reconnectTimer, sleepTimer,
                    callVars, dataVars>>
    BY <1>5 DEF ConnectTimeout
  <2> QED BY <2>1, <2>2, <2>3, <2>4 DEF TypeOK
<1>6. ASSUME KeepaliveTickIdle PROVE TypeOK'
  BY <1>1, <1>6, ReconnectTypes DEF KeepaliveTickIdle
<1>7. ASSUME KeepaliveTick PROVE TypeOK'
  BY <1>7 DEF TypeOK, KeepaliveTick, SendHeartbeat
<1>8. ASSUME PongTimeout PROVE TypeOK'
  BY <1>8, ReconnectTypes DEF PongTimeout
<1>9. ASSUME WakeUpReconnects PROVE TypeOK'
  BY <1>1, <1>9, ReconnectTypes DEF WakeUpReconnects
<1>10. ASSUME WakeUpHeartbeat PROVE TypeOK'
  BY <1>10 DEF TypeOK, WakeUpHeartbeat, SendHeartbeat
<1>11. ASSUME QueueAges PROVE TypeOK'
  BY <1>11 DEF TypeOK, QueueAges
<1> QED BY <1>2, <1>3, <1>4, <1>5, <1>6, <1>7, <1>8, <1>9, <1>10, <1>11 DEF Timers

(* Type correctness of the transport. *)
THEOREM TransportTypeCorrect == Spec => []TypeOK
<1>1. Init => TypeOK
  <2>1. <<>> \in Seq(Frames)
    OBVIOUS
  <2>2. Init => /\ pending \in [Keys -> Seq(Frames)] /\ queue \in Seq(Frames)
                /\ wire \in [Sockets -> Seq(Frames)]
    BY <2>1 DEF Init
  <2>3. Init => /\ closedByUser \in BOOLEAN /\ everConnected \in BOOLEAN
                /\ keepaliveTimer \in BOOLEAN /\ pongTimer \in BOOLEAN
                /\ reconnectTimer \in BOOLEAN /\ sleepTimer \in BOOLEAN
                /\ connectTimer \in BOOLEAN /\ refreshed \in BOOLEAN
    BY DEF Init
  <2>4. Init => /\ sock \in [Sockets -> {"free", "connecting", "open", "half", "closing"}]
                /\ call \in [Callers -> {"idle", "waiting", "resolved", "rejected", "ok", "failed"}]
                /\ awaits \in [Callers -> Callers \cup {None}]
                /\ frame \in [Frames -> {"idle", "waiting", "ok", "failed", "sent"}]
                /\ answer \in [Frames -> Frames \cup {None}]
    BY DEF Init
  <2>5. Init => /\ status \in {"disconnected", "connecting", "open"}
                /\ ws \in Sockets \cup {None}
                /\ promise \in Callers \cup {None} /\ initial \in Callers \cup {None}
                /\ retryCount \in Nat /\ refreshing \in Nat /\ orphanTimers \in Nat /\ stale \in Nat
    BY DEF Init
  <2> QED BY <2>2, <2>3, <2>4, <2>5 DEF TypeOK
<1>2. TypeOK /\ [Next]_vars => TypeOK'
  <2>1. CASE UNCHANGED vars
    BY <2>1 DEF TypeOK, vars, connVars, modeVars, retryVars, aliveVars, dialVars, callVars, dataVars
  <2> QED BY <2>1, ApiTypes, EventTypes, TimerTypes DEF Next
<1> QED BY <1>1, <1>2, PTL DEF Spec

-----------------------------------------------------------------------------
(* The connection: no socket is lost and no state is a dead end.  Both     *)
(* invariants are inductive on top of the types.                           *)
ConnInv == NoLeakedSocket /\ NeverStranded

(* A new socket takes the place of the old one, under its own timer.       *)
LEMMA InitWebSocketKeepsConn ==
  ASSUME TypeOK, ConnInv, NEW s \in Sockets, NEW tracked \in BOOLEAN, InitWebSocket(s, tracked)
  PROVE  ConnInv'
<1>1. ws' # None /\ status' = "connecting" /\ connectTimer' = TRUE
  BY SocketsAssumption DEF InitWebSocket
<1>2. NoLeakedSocket'
  BY DEF ConnInv, NoLeakedSocket, TypeOK, InitWebSocket
<1>3. NeverStranded'
  BY <1>1 DEF NeverStranded, TriesAgain, HandshakeBounded, OpenIsWatched
<1> QED BY <1>2, <1>3 DEF ConnInv

LEMMA ReconnectKeepsConn ==
  ASSUME TypeOK, ConnInv, NEW pong \in BOOLEAN, ActiveReconnect(pong)
  PROVE  ConnInv'
<1>1. CASE closedByUser
  <2>1. UNCHANGED <<status, ws, sock, closedByUser, keepaliveTimer, reconnectTimer,
                    connectTimer, orphanTimers, refreshing, sleepTimer>>
    BY <1>1 DEF ActiveReconnect, connVars, modeVars, dialVars
  <2> QED BY <2>1 DEF ConnInv, NoLeakedSocket, NeverStranded, TriesAgain, HandshakeBounded,
                      OpenIsWatched
<1>2. CASE ~closedByUser
  <2>1. PICK s \in Sockets : InitWebSocket(s, FALSE)
    BY <1>2 DEF ActiveReconnect
  <2> QED BY <2>1, InitWebSocketKeepsConn
<1> QED BY <1>1, <1>2

(* What no step but these changes leaves the connection as it is.          *)
LEMMA SameConn ==
  ASSUME ConnInv,
         UNCHANGED <<status, ws, sock, closedByUser, keepaliveTimer, reconnectTimer,
                     connectTimer, orphanTimers, refreshing, sleepTimer>>
  PROVE  ConnInv'
BY DEF ConnInv, NoLeakedSocket, NeverStranded, TriesAgain, HandshakeBounded, OpenIsWatched

LEMMA ApiKeepsConn == ASSUME TypeOK, ConnInv, Api PROVE ConnInv'
<1> USE DEF connVars, modeVars, retryVars, aliveVars, dialVars, callVars, dataVars
<1>1. ASSUME NEW c \in Callers, ConnectStarts(c) PROVE ConnInv'
  <2>1. PICK s \in Sockets : InitWebSocket(s, connectTimer)
    BY <1>1 DEF ConnectStarts
  <2>2. connectTimer \in BOOLEAN
    BY DEF TypeOK
  <2> QED BY <2>1, <2>2, InitWebSocketKeepsConn
<1>2. ASSUME Close PROVE ConnInv'
  <2>1. status' = "disconnected" /\ closedByUser' = TRUE
    BY <1>2 DEF Close, DropSocket
  <2>2. NoLeakedSocket'
    BY <1>2 DEF ConnInv, NoLeakedSocket, TypeOK, Close, DropSocket
  <2> QED BY <2>1, <2>2 DEF ConnInv, NeverStranded, TriesAgain, HandshakeBounded, OpenIsWatched
<1>3. ASSUME NEW c \in Callers, ConnectReturns(c) \/ ConnectJoins(c) \/ ConnectFinally(c)
      PROVE  ConnInv'
  BY <1>3, SameConn DEF ConnectReturns, ConnectJoins, ConnectFinally
<1>4. ASSUME NEW f \in Frames, Request(f) \/ Send(f) \/ RequestTimeout(f) PROVE ConnInv'
  BY <1>4, SameConn DEF Request, Send, RequestTimeout
<1> QED BY <1>1, <1>2, <1>3, <1>4 DEF Api

LEMMA EventsKeepConn == ASSUME TypeOK, ConnInv, Events PROVE ConnInv'
<1> USE DEF connVars, modeVars, retryVars, aliveVars, dialVars, callVars, dataVars
<1>1. ASSUME OnOpen PROVE ConnInv'
  <2>1. /\ status' = "open" /\ ws' = ws /\ ws # None /\ ws \in Sockets
        /\ sock' = [sock EXCEPT ![ws] = "open"] /\ keepaliveTimer' = TRUE
    BY <1>1 DEF OnOpen, StartKeepalive, TypeOK
  <2>2. sock'[ws] = "open" /\ \A s \in Sockets : s # ws => sock'[s] = sock[s]
    BY <2>1 DEF TypeOK
  <2> QED BY <2>1, <2>2 DEF ConnInv, NoLeakedSocket, NeverStranded, TriesAgain, HandshakeBounded,
                            OpenIsWatched
<1>2. ASSUME OnClose PROVE ConnInv'
  <2>1. status' = "disconnected" /\ sock' = [sock EXCEPT ![ws] = "free"]
    BY <1>2 DEF OnClose
  <2>2. NoLeakedSocket'
    BY <2>1 DEF ConnInv, NoLeakedSocket, TypeOK
  <2>3. TriesAgain'
    <3>1. closedByUser' \/ reconnectTimer' \/ ~AutoReconnect
      <4>1. AfterClose(status = "open")
        BY <1>2 DEF OnClose
      <4>2. CASE closedByUser' = TRUE
        BY <4>2
      <4>3. CASE closedByUser /\ UNCHANGED closedByUser
        BY <4>3
      <4>4. CASE reconnectTimer' = (reconnectTimer \/ AutoReconnect)
        BY <4>4
      <4> QED BY <4>1, <4>2, <4>3, <4>4 DEF AfterClose
    <3> QED BY <3>1 DEF TriesAgain
  <2> QED BY <2>1, <2>2, <2>3 DEF ConnInv, NeverStranded, HandshakeBounded, OpenIsWatched
<1>3. ASSUME HalfOpen PROVE ConnInv'
  <2>1. /\ ws # None /\ ws \in Sockets /\ sock[ws] = "open" /\ sock' = [sock EXCEPT ![ws] = "half"]
        /\ UNCHANGED <<status, ws, closedByUser, keepaliveTimer, reconnectTimer,
                       connectTimer, orphanTimers, refreshing, sleepTimer>>
    BY <1>3 DEF HalfOpen, TypeOK
  <2>2. sock'[ws] = "half" /\ \A s \in Sockets : s # ws => sock'[s] = sock[s]
    BY <2>1 DEF TypeOK
  <2> QED BY <2>1, <2>2 DEF ConnInv, NoLeakedSocket, NeverStranded, TriesAgain, HandshakeBounded,
                            OpenIsWatched
<1>4. ASSUME NEW s \in Sockets, DetachedEnds(s) PROVE ConnInv'
  <2>1. /\ s # ws /\ sock' = [sock EXCEPT ![s] = "free"]
        /\ UNCHANGED <<status, ws, closedByUser, keepaliveTimer, reconnectTimer,
                       connectTimer, orphanTimers, refreshing, sleepTimer>>
    BY <1>4 DEF DetachedEnds
  <2>2. sock'[s] = "free" /\ \A x \in Sockets : x # s => sock'[x] = sock[x]
    BY <2>1 DEF TypeOK
  <2>3. ws \in Sockets \/ ws = None
    BY DEF TypeOK
  <2> QED BY <2>1, <2>2, <2>3 DEF ConnInv, NoLeakedSocket, NeverStranded, TriesAgain,
                                  HandshakeBounded, OpenIsWatched
<1>5. ASSUME OnHeartbeatAck PROVE ConnInv'
  BY <1>5, SameConn DEF OnHeartbeatAck
<1>6. ASSUME NEW s \in Sockets, OnReply(s) \/ NeverAnswered(s) PROVE ConnInv'
  BY <1>6, SameConn DEF OnReply, NeverAnswered
<1> QED BY <1>1, <1>2, <1>3, <1>4, <1>5, <1>6 DEF Events

LEMMA TimersKeepConn == ASSUME TypeOK, ConnInv, Timers PROVE ConnInv'
<1> USE DEF connVars, modeVars, retryVars, aliveVars, dialVars, callVars, dataVars
<1>1. connectTimer \in BOOLEAN /\ pongTimer \in BOOLEAN
  BY DEF TypeOK
<1>2. ASSUME ReconnectTimerRefreshes PROVE ConnInv'
  <2>1. /\ refreshing' > 0
        /\ UNCHANGED <<status, ws, sock, closedByUser, keepaliveTimer,
                       connectTimer, orphanTimers, sleepTimer>>
    BY <1>2 DEF ReconnectTimerRefreshes, TypeOK
  <2> QED BY <2>1 DEF ConnInv, NoLeakedSocket, NeverStranded, TriesAgain, HandshakeBounded,
                      OpenIsWatched
<1>3. ASSUME ReconnectTimerDials \/ TokenRefreshReturns PROVE ConnInv'
  <2>1. PICK s \in Sockets : InitWebSocket(s, connectTimer)
    BY <1>3 DEF ReconnectTimerDials, TokenRefreshReturns
  <2> QED BY <1>1, <2>1, InitWebSocketKeepsConn
<1>4. ASSUME ConnectTimeout PROVE ConnInv'
  <2>1. UNCHANGED <<status, ws, closedByUser, keepaliveTimer, reconnectTimer, refreshing, sleepTimer>>
    BY <1>4 DEF ConnectTimeout
  <2>2. CASE ws # None /\ status # "open"
    <3>1. ws \in Sockets /\ sock' = [sock EXCEPT ![ws] = "closing"]
      BY <1>4, <2>2 DEF TypeOK, ConnectTimeout, CutHandshake
    <3>2. sock'[ws] = "closing" /\ \A s \in Sockets : s # ws => sock'[s] = sock[s]
      BY <3>1 DEF TypeOK
    <3> QED BY <2>1, <2>2, <3>2 DEF ConnInv, NoLeakedSocket, NeverStranded, TriesAgain,
                                    HandshakeBounded, OpenIsWatched
  <2>3. CASE ~(ws # None /\ status # "open")
    <3>1. sock' = sock
      BY <1>4, <2>3 DEF ConnectTimeout, CutHandshake
    <3> QED BY <2>1, <2>3, <3>1 DEF ConnInv, NoLeakedSocket, NeverStranded, TriesAgain,
                                    HandshakeBounded, OpenIsWatched
  <2> QED BY <2>2, <2>3
<1>5. ASSUME KeepaliveTickIdle \/ PongTimeout \/ WakeUpReconnects PROVE ConnInv'
  BY <1>1, <1>5, ReconnectKeepsConn DEF KeepaliveTickIdle, PongTimeout, WakeUpReconnects
<1>6. ASSUME KeepaliveTick \/ WakeUpHeartbeat PROVE ConnInv'
  BY <1>6, SameConn DEF KeepaliveTick, WakeUpHeartbeat, SendHeartbeat
<1>7. ASSUME QueueAges PROVE ConnInv'
  BY <1>7, SameConn DEF QueueAges
<1> QED BY <1>2, <1>3, <1>4, <1>5, <1>6, <1>7 DEF Timers

LEMMA ConnAlways == Spec => []ConnInv
<1>1. Init => ConnInv
  BY DEF Init, ConnInv, NoLeakedSocket, NeverStranded, TriesAgain, HandshakeBounded, OpenIsWatched
<1>2. TypeOK /\ ConnInv /\ [Next]_vars => ConnInv'
  <2>1. ASSUME ConnInv, UNCHANGED vars PROVE ConnInv'
    BY <2>1, SameConn DEF vars, connVars, modeVars, retryVars, aliveVars, dialVars
  <2> QED BY <2>1, ApiKeepsConn, EventsKeepConn, TimersKeepConn DEF Next
<1> QED BY <1>1, <1>2, TransportTypeCorrect, PTL DEF Spec

(* However connects, closes, reconnects and losses follow one another, the *)
(* only socket in use is the one that the transport can close.             *)
THEOREM NoSocketLeaks == Spec => []NoLeakedSocket
<1>1. ConnInv => NoLeakedSocket
  BY DEF ConnInv
<1> QED BY <1>1, ConnAlways, PTL

(* A transport that is wanted always has something armed that takes it out *)
(* of the state it is in.                                                  *)
THEOREM NeverLeftStranded == Spec => []NeverStranded
<1>1. ConnInv => NeverStranded
  BY DEF ConnInv
<1> QED BY <1>1, ConnAlways, PTL

(* After close() a socket is opened only by a token refresh or a back-off  *)
(* timer that was already on its way.                                      *)
THEOREM DialsAfterCloseAreLeftovers == Spec => DialAfterCloseIsLeftover
<1> DEFINE Dials == closedByUser /\ closedByUser' /\ ws' \notin {ws, None}
           Leftover == refreshing' < refreshing \/ (reconnectTimer /\ ~reconnectTimer')
<1>1. TypeOK /\ [Next]_vars => (Dials => Leftover)
  <2> SUFFICES ASSUME TypeOK, [Next]_vars, Dials PROVE Leftover
    OBVIOUS
  <2> USE DEF connVars, modeVars, retryVars, aliveVars, dialVars, callVars, dataVars
  <2>1. ASSUME TokenRefreshReturns PROVE Leftover
    BY <2>1 DEF TypeOK, TokenRefreshReturns
  <2>2. ASSUME ReconnectTimerDials PROVE Leftover
    BY <2>2 DEF ReconnectTimerDials
  <2>3. ASSUME NEW c \in Callers, ConnectStarts(c) PROVE FALSE
    BY <2>3 DEF ConnectStarts
  <2>4. ASSUME KeepaliveTickIdle \/ PongTimeout \/ WakeUpReconnects PROVE FALSE
    BY <2>4 DEF KeepaliveTickIdle, PongTimeout, WakeUpReconnects, ActiveReconnect
  <2>5. ASSUME Close \/ OnClose PROVE FALSE
    BY <2>5 DEF Close, DropSocket, OnClose
  <2>6. ASSUME ws' = ws PROVE FALSE
    BY <2>6
  <2>7. ASSUME NEW c \in Callers, ConnectReturns(c) \/ ConnectJoins(c) \/ ConnectFinally(c)
        PROVE ws' = ws
    BY <2>7 DEF ConnectReturns, ConnectJoins, ConnectFinally
  <2>8. ASSUME NEW f \in Frames, Request(f) \/ Send(f) \/ RequestTimeout(f) PROVE ws' = ws
    BY <2>8 DEF Request, Send, RequestTimeout
  <2>9. ASSUME NEW s \in Sockets, OnReply(s) \/ NeverAnswered(s) \/ DetachedEnds(s)
        PROVE  ws' = ws
    BY <2>9 DEF OnReply, NeverAnswered, DetachedEnds
  <2>10. ASSUME OnOpen \/ OnHeartbeatAck \/ HalfOpen PROVE ws' = ws
    BY <2>10 DEF OnOpen, OnHeartbeatAck, HalfOpen
  <2>11. ASSUME \/ ReconnectTimerRefreshes \/ ConnectTimeout \/ KeepaliveTick
                \/ WakeUpHeartbeat \/ QueueAges
         PROVE ws' = ws
    BY <2>11 DEF ReconnectTimerRefreshes, ConnectTimeout, KeepaliveTick, WakeUpHeartbeat,
                 SendHeartbeat, QueueAges
  <2>12. CASE UNCHANGED vars
    BY <2>6, <2>12 DEF vars
  <2> QED BY <2>1, <2>2, <2>3, <2>4, <2>5, <2>6, <2>7, <2>8, <2>9, <2>10, <2>11, <2>12
          DEF Next, Api, Events, Timers
<1> QED BY <1>1, TransportTypeCorrect, PTL DEF Spec, DialAfterCloseIsLeftover

(* ClosedStaysClosed is not true of Spec either, for just these leftovers: *)
(* it is true of a transport that has neither on its way while it is       *)
(* closed.                                                                 *)
NothingLeft == closedByUser => refreshing = 0 /\ ~reconnectTimer

LEMMA ClosingDropsTheSocket ==
  ASSUME TypeOK, [Next]_vars, ~closedByUser, closedByUser'
  PROVE  ws' = None
<1> USE DEF connVars, modeVars, retryVars, aliveVars, dialVars, callVars, dataVars
<1>1. CASE Close
  BY <1>1 DEF Close, DropSocket
<1>2. CASE OnClose
  BY <1>2 DEF OnClose
<1>3. ASSUME NEW c \in Callers,
             ConnectReturns(c) \/ ConnectJoins(c) \/ ConnectStarts(c) \/ ConnectFinally(c)
      PROVE  FALSE
  BY <1>3 DEF ConnectReturns, ConnectJoins, ConnectStarts, ConnectFinally
<1>4. ASSUME NEW f \in Frames, Request(f) \/ Send(f) \/ RequestTimeout(f) PROVE FALSE
  BY <1>4 DEF Request, Send, RequestTimeout
<1>5. ASSUME NEW s \in Sockets, OnReply(s) \/ NeverAnswered(s) \/ DetachedEnds(s) PROVE FALSE
  BY <1>5 DEF OnReply, NeverAnswered, DetachedEnds
<1>6. ASSUME OnOpen \/ OnHeartbeatAck \/ HalfOpen PROVE FALSE
  BY <1>6 DEF OnOpen, OnHeartbeatAck, HalfOpen
<1>7. ASSUME Timers PROVE FALSE
  BY <1>7 DEF Timers, ReconnectTimerRefreshes, ReconnectTimerDials, TokenRefreshReturns,
              ConnectTimeout, KeepaliveTickIdle, KeepaliveTick, PongTimeout, WakeUpReconnects,
              WakeUpHeartbeat, QueueAges, ActiveReconnect, SendHeartbeat
<1>8. CASE UNCHANGED vars
  BY <1>8 DEF vars
<1> QED BY <1>1, <1>2, <1>3, <1>4, <1>5, <1>6, <1>7, <1>8 DEF Next, Api, Events

(* A closed transport is not open again before the next connect(), if no   *)
(* token refresh and no back-off timer is left on its way while it is      *)
(* closed (transport.js:469, 481).                                         *)
THEOREM WithoutLeftoversClosedStays == Spec /\ []NothingLeft => []ClosedStaysClosed
<1> DEFINE Dropped == closedByUser => ws = None
           Dials == closedByUser /\ closedByUser' /\ ws' \notin {ws, None}
           Leftover == refreshing' < refreshing \/ (reconnectTimer /\ ~reconnectTimer')
<1>1. Init => Dropped
  BY DEF Init
<1>2. ASSUME TypeOK, TypeOK', NothingLeft, Dropped, [Next]_vars, [Dials => Leftover]_vars
      PROVE  Dropped'
  <2>1. CASE UNCHANGED vars
    BY <1>2, <2>1 DEF vars, connVars, modeVars
  <2>2. CASE ~closedByUser
    BY <1>2, <2>2, ClosingDropsTheSocket
  <2>3. CASE closedByUser /\ (Dials => Leftover)
    <3>1. refreshing = 0 /\ ~reconnectTimer /\ refreshing' \in Nat
      BY <1>2, <2>3 DEF NothingLeft, TypeOK
    <3>2. ~Leftover
      BY <3>1
    <3> QED BY <1>2, <2>3, <3>2
  <2> QED BY <1>2, <2>1, <2>2, <2>3
<1>3. Dropped /\ ConnInv => ClosedStaysClosed
  BY DEF ConnInv, NeverStranded, OpenIsWatched, ClosedStaysClosed
<1>4. Spec => [][Dials => Leftover]_vars
  BY DialsAfterCloseAreLeftovers DEF DialAfterCloseIsLeftover
<1> QED BY <1>1, <1>2, <1>3, <1>4, TransportTypeCorrect, ConnAlways, PTL DEF Spec

-----------------------------------------------------------------------------
(* The calls of connect().  ConnectCallsSettle is not true of Spec: the    *)
(* finally block of a call that close() has settled forgets the promise of *)
(* a connect() made in the same turn.  It is true of a client that lets    *)
(* the turn of its close() end before it connects again.                   *)
Unhurried == \A c \in Callers : ConnectStarts(c) => MicrotasksDone

(* One handshake is under way at a time, of the call whose promise the     *)
(* later ones join, and no finally block is due before it settles.         *)
CallsInv ==
  /\ ConnectCallsSettle
  /\ initial # None => promise = initial /\ call[initial] = "waiting" /\ MicrotasksDone

(* Whoever settles the handshake settles every call that waits.            *)
LEMMA SettlingKeepsCalls ==
  ASSUME TypeOK, CallsInv, NEW outcome \in {"ok", "failed"}, SettleInitial(outcome),
         awaits' = awaits
  PROVE  CallsInv'
<1>1. initial' = None
  BY DEF SettleInitial
<1>2. ASSUME NEW c \in Callers PROVE call'[c] # "waiting"
  <2>1. CASE initial = None
    BY <2>1 DEF SettleInitial, CallsInv, ConnectCallsSettle
  <2>2. CASE initial # None
    <3>1. call'[c] = IF c = initial THEN IF outcome = "ok" THEN "resolved" ELSE "rejected"
                     ELSE IF call[c] = "waiting" /\ awaits[c] = initial THEN outcome
                     ELSE call[c]
      BY <2>2 DEF SettleInitial, Settle
    <3>2. call[c] = "waiting" => awaits[c] = initial
      BY DEF CallsInv, ConnectCallsSettle
    <3> QED BY <3>1, <3>2
  <2> QED BY <2>1, <2>2
<1> QED BY <1>1, <1>2 DEF CallsInv, ConnectCallsSettle

LEMMA SameCalls == ASSUME CallsInv, UNCHANGED callVars PROVE CallsInv'
BY DEF callVars, CallsInv, ConnectCallsSettle, MicrotasksDone

LEMMA ApiKeepsCalls == ASSUME TypeOK, CallsInv, Unhurried, Api PROVE CallsInv'
<1>1. ASSUME NEW c \in Callers, ConnectReturns(c) PROVE CallsInv'
  <2>1. call' = [call EXCEPT ![c] = "ok"] /\ call[c] = "idle" /\ UNCHANGED <<promise, initial, awaits>>
    BY <1>1 DEF ConnectReturns
  <2>2. call'[c] = "ok" /\ \A d \in Callers : d # c => call'[d] = call[d]
    BY <2>1 DEF TypeOK
  <2>3. initial # None => initial \in Callers
    BY DEF TypeOK
  <2> QED BY <2>1, <2>2, <2>3 DEF CallsInv, ConnectCallsSettle, MicrotasksDone
<1>2. ASSUME NEW c \in Callers, ConnectJoins(c) PROVE CallsInv'
  <2>1. /\ call[c] = "idle" /\ promise # None
        /\ awaits' = [awaits EXCEPT ![c] = promise]
        /\ UNCHANGED <<promise, initial>>
    BY <1>2 DEF ConnectJoins
  <2>2. /\ awaits'[c] = promise
        /\ \A d \in Callers : d # c => awaits'[d] = awaits[d]
    BY <2>1 DEF TypeOK
  <2>3. promise \in Callers /\ (initial # None => initial \in Callers)
    BY <2>1 DEF TypeOK
  <2>4. CASE call[promise] = "waiting" /\ call' = [call EXCEPT ![c] = "waiting"]
    <3>1. call'[c] = "waiting" /\ \A d \in Callers : d # c => call'[d] = call[d]
      BY <2>4 DEF TypeOK
    <3>2. initial # None
      BY <2>3, <2>4 DEF CallsInv, ConnectCallsSettle
    <3> QED BY <2>1, <2>2, <2>3, <3>1, <3>2 DEF CallsInv, ConnectCallsSettle, MicrotasksDone
  <2>5. ASSUME NEW outcome \in {"ok", "failed"}, call' = [call EXCEPT ![c] = outcome]
        PROVE  CallsInv'
    <3>1. call'[c] = outcome /\ \A d \in Callers : d # c => call'[d] = call[d]
      BY <2>5 DEF TypeOK
    <3> QED BY <2>1, <2>2, <2>3, <3>1 DEF CallsInv, ConnectCallsSettle, MicrotasksDone
  <2> QED BY <1>2, <2>4, <2>5 DEF ConnectJoins
<1>3. ASSUME NEW c \in Callers, ConnectStarts(c) PROVE CallsInv'
  <2>1. /\ promise = None /\ promise' = c /\ initial' = c
        /\ call' = [call EXCEPT ![c] = "waiting"] /\ awaits' = [awaits EXCEPT ![c] = c]
    BY <1>3 DEF ConnectStarts
  <2>2. /\ call'[c] = "waiting" /\ awaits'[c] = c
        /\ \A d \in Callers : d # c => call'[d] = call[d]
    BY <2>1 DEF TypeOK
  <2>3. \A d \in Callers : call[d] # "waiting"
    BY <2>1, CallersAssumption DEF CallsInv, ConnectCallsSettle, TypeOK
  <2>4. MicrotasksDone
    BY <1>3 DEF Unhurried
  <2>5. c # None
    BY CallersAssumption
  <2> QED BY <2>1, <2>2, <2>3, <2>4, <2>5 DEF CallsInv, ConnectCallsSettle, MicrotasksDone
<1>4. ASSUME NEW c \in Callers, ConnectFinally(c) PROVE CallsInv'
  <2>1. /\ call[c] \in {"resolved", "rejected"} /\ UNCHANGED initial
        /\ call' = [call EXCEPT ![c] = IF @ = "resolved" THEN "ok" ELSE "failed"]
    BY <1>4 DEF ConnectFinally
  <2>2. initial = None
    BY <2>1 DEF CallsInv, MicrotasksDone
  <2>3. call'[c] # "waiting" /\ \A d \in Callers : d # c => call'[d] = call[d]
    BY <2>1 DEF TypeOK
  <2> QED BY <2>1, <2>2, <2>3 DEF CallsInv, ConnectCallsSettle
<1>5. ASSUME Close PROVE CallsInv'
  BY <1>5, SettlingKeepsCalls DEF Close
<1>6. ASSUME NEW f \in Frames, Request(f) \/ Send(f) \/ RequestTimeout(f) PROVE CallsInv'
  BY <1>6, SameCalls DEF Request, Send, RequestTimeout
<1> QED BY <1>1, <1>2, <1>3, <1>4, <1>5, <1>6 DEF Api

LEMMA EventsKeepCalls == ASSUME TypeOK, CallsInv, Events PROVE CallsInv'
<1>1. ASSUME OnOpen PROVE CallsInv'
  BY <1>1, SettlingKeepsCalls DEF OnOpen
<1>2. ASSUME OnClose PROVE CallsInv'
  <2>1. UNCHANGED <<promise, awaits>>
    BY <1>2 DEF OnClose
  <2>2. SettleInitial("failed") \/ UNCHANGED <<initial, call>>
    BY <1>2 DEF OnClose, AfterClose
  <2>3. CASE UNCHANGED <<initial, call>>
    BY <2>1, <2>3, SameCalls DEF callVars
  <2> QED BY <2>1, <2>2, <2>3, SettlingKeepsCalls
<1>3. ASSUME OnHeartbeatAck \/ HalfOpen PROVE CallsInv'
  BY <1>3, SameCalls DEF OnHeartbeatAck, HalfOpen
<1>4. ASSUME NEW s \in Sockets, OnReply(s) \/ NeverAnswered(s) \/ DetachedEnds(s)
      PROVE  CallsInv'
  BY <1>4, SameCalls DEF OnReply, NeverAnswered, DetachedEnds
<1> QED BY <1>1, <1>2, <1>3, <1>4 DEF Events

LEMMA TimersKeepCalls == ASSUME CallsInv, Timers PROVE CallsInv'
<1>1. UNCHANGED callVars
  BY DEF Timers, ReconnectTimerRefreshes, ReconnectTimerDials, TokenRefreshReturns,
         ConnectTimeout, KeepaliveTickIdle, KeepaliveTick, PongTimeout, WakeUpReconnects,
         WakeUpHeartbeat, QueueAges, ActiveReconnect, SendHeartbeat, callVars
<1> QED BY <1>1, SameCalls

(* Whatever the network does and whoever calls close(): every connect()    *)
(* that waits will be settled by the resolvers the transport holds, if no  *)
(* call starts connecting in the turn in which an earlier one was settled, *)
(* before the finally block of that one (transport.js:221) has run.        *)
THEOREM UnhurriedCallsSettle == Spec /\ [][Unhurried]_vars => []ConnectCallsSettle
<1>1. Init => CallsInv
  BY DEF Init, CallsInv, ConnectCallsSettle
<1>2. ASSUME TypeOK, CallsInv, [Next]_vars, [Unhurried]_vars PROVE CallsInv'
  <2>1. CASE UNCHANGED vars
    BY <1>2, <2>1, SameCalls DEF vars, callVars
  <2>2. CASE Next /\ Unhurried
    BY <1>2, <2>2, ApiKeepsCalls, EventsKeepCalls, TimersKeepCalls DEF Next
  <2> QED BY <1>2, <2>1, <2>2
<1>3. CallsInv => ConnectCallsSettle
  BY DEF CallsInv
<1> QED BY <1>1, <1>2, <1>3, TransportTypeCorrect, PTL DEF Spec

-----------------------------------------------------------------------------
(* The requests.  Replies are matched with requests by their order, so the *)
(* invariant says what the order of the resolvers has to do with that of   *)
(* the frames under way.                                                   *)

(* Frames are on their way on an open socket, or on one left to finish its *)
(* closing; what is queued goes out when the socket opens.                 *)
WireHolds ==
  /\ \A s \in Sockets : wire[s] # <<>> => sock[s] \in {"open", "closing"}
  /\ ws # None /\ status # "open" => wire[ws] = <<>>
  /\ status = "open" => queue = <<>>

IdleUnsent ==
  \A f \in Frames : frame[f] = "idle" =>
    ~Contains(queue, f) /\ \A s \in Sockets : ~Contains(wire[s], f)

(* No request waits for a frame on a socket that was left behind. *)
LeftBehind ==
  \A s \in Sockets, f \in Frames : s # ws /\ Contains(wire[s], f) => frame[f] # "waiting"

(* Two requests of a key never have their frames in the other order. *)
SameOrder ==
  \A k \in Keys, a, b \in Frames : Precedes(pending[k], a, b) =>
    ~Precedes(queue, b, a) /\ \A s \in Sockets : ~Precedes(wire[s], b, a)

ReqInv == WaitingIffPending /\ WireHolds /\ IdleUnsent /\ LeftBehind /\ SameOrder

(* A step by which the sequences only get shorter, and no payload becomes  *)
(* idle or waiting, keeps what is said of their order.                     *)
LEMMA ShrinkingKeeps ==
  ASSUME IdleUnsent, LeftBehind, SameOrder,
         \A k \in Keys : PartOf(pending'[k], pending[k]),
         PartOf(queue', queue),
         \A s \in Sockets : PartOf(wire'[s], wire[s]),
         \A f \in Frames : frame'[f] \in {"idle", "waiting"} => frame'[f] = frame[f],
         \A s \in Sockets, f \in Frames :
            s = ws /\ s # ws' /\ Contains(wire'[s], f) => frame'[f] # "waiting"
  PROVE  IdleUnsent' /\ LeftBehind' /\ SameOrder'
<1>1. IdleUnsent'
  BY DEF IdleUnsent, PartOf
<1>2. LeftBehind'
  <2> SUFFICES ASSUME NEW s \in Sockets, NEW f \in Frames, s # ws', Contains(wire'[s], f)
               PROVE  frame'[f] # "waiting"
    BY DEF LeftBehind
  <2>1. Contains(wire[s], f)
    BY DEF PartOf
  <2> QED BY <2>1 DEF LeftBehind
<1>3. SameOrder'
  <2> SUFFICES ASSUME NEW k \in Keys, NEW a \in Frames, NEW b \in Frames,
                      Precedes(pending'[k], a, b)
               PROVE  /\ ~Precedes(queue', b, a)
                      /\ \A s \in Sockets : ~Precedes(wire'[s], b, a)
    BY DEF SameOrder
  <2>1. Precedes(pending[k], a, b)
    BY DEF PartOf
  <2>2. ~Precedes(queue, b, a) /\ \A s \in Sockets : ~Precedes(wire[s], b, a)
    BY <2>1 DEF SameOrder
  <2> QED BY <2>2 DEF PartOf
<1> QED BY <1>1, <1>2, <1>3

(* Nothing of the requests changes. *)
LEMMA SameRequests ==
  ASSUME TypeOK, ReqInv, UNCHANGED <<ws, pending, queue, frame, wire>>,
         WireHolds'
  PROVE  ReqInv'
BY DEF ReqInv, WaitingIffPending, IdleUnsent, LeftBehind, SameOrder

(* A new socket starts without frames, and the old one's are dropped.      *)
LEMMA InitWebSocketKeepsRequests ==
  ASSUME TypeOK, ReqInv, NEW s \in Sockets, NEW tracked \in BOOLEAN, InitWebSocket(s, tracked),
         UNCHANGED <<pending, queue, frame>>
  PROVE  ReqInv'
<1>1. /\ ws' = s /\ status' = "connecting" /\ sock[s] = "free"
      /\ sock' = [x \in Sockets |-> IF x = s THEN "connecting"
                                    ELSE IF x = ws THEN "free" ELSE sock[x]]
      /\ wire' = [x \in Sockets |-> IF x = ws THEN <<>> ELSE wire[x]]
  BY DEF InitWebSocket
<1>2. WireHolds'
  <2>1. wire[s] = <<>>
    BY <1>1 DEF ReqInv, WireHolds
  <2>2. \A x \in Sockets : wire'[x] # <<>> => x # ws /\ wire'[x] = wire[x] /\ x # s
    BY <1>1, <2>1
  <2>3. \A x \in Sockets : wire'[x] # <<>> => sock'[x] \in {"open", "closing"}
    BY <1>1, <2>2 DEF ReqInv, WireHolds
  <2> QED BY <1>1, <2>2, <2>3 DEF WireHolds
<1>3. \A x \in Sockets : PartOf(wire'[x], wire[x]) /\ (x = ws => wire'[x] = <<>>)
  <2>1. \A x \in Sockets : wire[x] \in Seq(Frames)
    BY DEF TypeOK
  <2> QED BY <1>1, <2>1, Parts
<1>4. \A f : ~Contains(<<>>, f)
  BY DEF Contains
<1>5. PartOf(queue, queue) /\ \A k \in Keys : PartOf(pending[k], pending[k])
  BY DEF PartOf
<1>6. IdleUnsent' /\ LeftBehind' /\ SameOrder'
  BY <1>3, <1>4, <1>5, ShrinkingKeeps DEF ReqInv
<1> QED BY <1>2, <1>6 DEF ReqInv, WaitingIffPending

(* Rejecting all resolvers leaves no request waiting. *)
LEMMA RejectSettlesAll ==
  ASSUME TypeOK, WaitingIffPending, RejectAllPending
  PROVE  /\ WaitingIffPending'
         /\ \A f \in Frames : frame'[f] # "waiting" /\ (frame'[f] = "idle" => frame[f] = "idle")
         /\ \A k \in Keys : PartOf(pending'[k], pending[k])
<1>1. \A f \in Frames : frame'[f] # "waiting" /\ (frame'[f] = "idle" => frame[f] = "idle")
  <2> SUFFICES ASSUME NEW f \in Frames
               PROVE  frame'[f] # "waiting" /\ (frame'[f] = "idle" => frame[f] = "idle")
    OBVIOUS
  <2>1. KeyOf[f] \in Keys
    BY FramesAssumption
  <2>2. frame[f] = "waiting" => Contains(pending[KeyOf[f]], f)
    BY <2>1 DEF WaitingIffPending
  <2> QED BY <2>1, <2>2 DEF RejectAllPending
<1>2. \A k \in Keys : pending'[k] = <<>>
  BY DEF RejectAllPending
<1>3. IsInjective(<<>>) /\ \A f : ~Contains(<<>>, f)
  BY DEF IsInjective, Contains
<1>4. WaitingIffPending'
  BY <1>1, <1>2, <1>3 DEF WaitingIffPending
<1>5. \A k \in Keys : PartOf(pending'[k], pending[k])
  <2>1. \A k \in Keys : pending[k] \in Seq(Frames)
    BY DEF TypeOK
  <2> QED BY <1>2, <2>1, Parts
<1> QED BY <1>1, <1>4, <1>5

(* The request at the head of its FIFO is the only one that is settled.    *)
LEMMA ResolveSettlesHead ==
  ASSUME TypeOK, WaitingIffPending, NEW k \in Keys, NEW f \in Frames, ResolveHead(k, f)
  PROVE  /\ WaitingIffPending'
         /\ \A g \in Frames : frame'[g] \in {"idle", "waiting"} => frame'[g] = frame[g]
         /\ \A n \in Keys : PartOf(pending'[n], pending[n])
<1>1. \A n \in Keys : pending[n] \in Seq(Frames) /\ PartOf(pending[n], pending[n])
  BY DEF TypeOK, PartOf
<1>2. CASE pending[k] = <<>>
  <2>1. UNCHANGED <<pending, frame>>
    BY <1>2 DEF ResolveHead
  <2> QED BY <1>1, <2>1 DEF WaitingIffPending
<1>3. CASE pending[k] # <<>>
  <2> DEFINE h == Head(pending[k])
             rest == Tail(pending[k])
  <2>1. /\ rest \in Seq(Frames) /\ h \in Frames /\ PartOf(rest, pending[k])
        /\ \A x : Contains(pending[k], x) <=> Contains(rest, x) \/ x = h
        /\ IsInjective(rest) /\ ~Contains(rest, h)
    BY <1>1, <1>3, TailFacts, Parts DEF WaitingIffPending
  <2>2. /\ pending' = [pending EXCEPT ![k] = rest]
        /\ frame' = [frame EXCEPT ![h] = "ok"]
    BY <1>3 DEF ResolveHead
  <2>3. /\ pending'[k] = rest /\ \A n \in Keys : n # k => pending'[n] = pending[n]
        /\ frame'[h] = "ok" /\ \A g \in Frames : g # h => frame'[g] = frame[g]
    BY <2>1, <2>2 DEF TypeOK
  <2> HIDE DEF h, rest
  <2>4. frame[h] = "waiting" /\ KeyOf[h] = k
    BY <2>1 DEF WaitingIffPending
  <2>5. \A n \in Keys : IsInjective(pending'[n])
    BY <2>1, <2>3 DEF WaitingIffPending
  <2>6. ASSUME NEW g \in Frames, NEW n \in Keys
        PROVE  Contains(pending'[n], g) <=> frame'[g] = "waiting" /\ n = KeyOf[g]
    <3>1. Contains(pending[n], g) <=> frame[g] = "waiting" /\ n = KeyOf[g]
      BY DEF WaitingIffPending
    <3>2. CASE n = k
      BY <2>1, <2>3, <3>1, <3>2
    <3>3. CASE n # k
      BY <2>3, <2>4, <3>1, <3>3
    <3> QED BY <3>2, <3>3
  <2>7. WaitingIffPending'
    BY <2>5, <2>6 DEF WaitingIffPending
  <2>8. \A n \in Keys : PartOf(pending'[n], pending[n])
    BY <1>1, <2>1, <2>3
  <2> QED BY <2>3, <2>7, <2>8
<1> QED BY <1>2, <1>3

(* What is left of the sequences after a step that takes nothing from them.*)
LEMMA AllParts ==
  ASSUME TypeOK
  PROVE  /\ PartOf(queue, queue) /\ PartOf(<<>>, queue)
         /\ \A k \in Keys : PartOf(pending[k], pending[k])
         /\ \A s \in Sockets : PartOf(wire[s], wire[s]) /\ PartOf(<<>>, wire[s])
                               /\ (wire[s] # <<>> => PartOf(Tail(wire[s]), wire[s]))
         /\ \A x : ~Contains(<<>>, x)
<1>1. PartOf(queue, queue) /\ PartOf(<<>>, queue)
  <2>1. queue \in Seq(Frames)
    BY DEF TypeOK
  <2> QED BY <2>1, Parts
<1>2. \A k \in Keys : PartOf(pending[k], pending[k])
  BY DEF PartOf
<1>3. ASSUME NEW s \in Sockets
      PROVE  PartOf(wire[s], wire[s]) /\ PartOf(<<>>, wire[s])
             /\ (wire[s] # <<>> => PartOf(Tail(wire[s]), wire[s]))
  <2>1. wire[s] \in Seq(Frames)
    BY DEF TypeOK
  <2> QED BY <2>1, Parts
<1>4. \A x : ~Contains(<<>>, x)
  BY DEF Contains
<1> QED BY <1>1, <1>2, <1>3, <1>4

(* What request() and send() note of a payload. *)
Noted(f) ==
  \/ /\ frame' = [frame EXCEPT ![f] = "waiting"]
     /\ pending' = [pending EXCEPT ![KeyOf[f]] = Append(@, f)]
  \/ frame' = [frame EXCEPT ![f] = "sent"] /\ UNCHANGED pending

LEMMA SendKeepsRequests ==
  ASSUME TypeOK, ConnInv, ReqInv, NEW f \in Frames, frame[f] = "idle", SendOrQueue(f),
         UNCHANGED <<status, ws, sock>>, Noted(f)
  PROVE  ReqInv'
<1>1. /\ queue \in Seq(Frames) /\ KeyOf[f] \in Keys
      /\ \A s \in Sockets : wire[s] \in Seq(Frames)
      /\ \A k \in Keys : pending[k] \in Seq(Frames)
  BY FramesAssumption DEF TypeOK
<1>2. /\ ~Contains(queue, f) /\ \A s \in Sockets : ~Contains(wire[s], f)
      /\ \A k \in Keys : ~Contains(pending[k], f)
  BY DEF ReqInv, IdleUnsent, WaitingIffPending
<1>3. /\ frame'[f] # "idle" /\ \A g \in Frames : g # f => frame'[g] = frame[g]
  BY DEF TypeOK, Noted
<1>4. \/ queue' = Append(queue, f) /\ wire' = wire /\ ~(ws # None /\ status = "open")
      \/ /\ queue' = queue /\ ws \in Sockets /\ status = "open" /\ sock[ws] = "open"
         /\ wire'[ws] = Append(wire[ws], f) /\ \A s \in Sockets : s # ws => wire'[s] = wire[s]
      \/ queue' = queue /\ wire' = wire
  BY DEF SendOrQueue, TypeOK
(* What f is added to, it is added to at the end. *)
<1>5. /\ \A x, y : Precedes(queue', x, y) => Precedes(queue, x, y) \/ y = f
      /\ \A x : Contains(queue', x) => Contains(queue, x) \/ x = f
  <2>1. CASE queue' = queue
    BY <2>1
  <2>2. CASE queue' = Append(queue, f)
    BY <1>1, <2>2, AppendFacts
  <2> QED BY <1>4, <2>1, <2>2
<1>6. ASSUME NEW s \in Sockets
      PROVE  /\ \A x, y : Precedes(wire'[s], x, y) => Precedes(wire[s], x, y) \/ y = f
             /\ \A x : Contains(wire'[s], x) => Contains(wire[s], x) \/ (x = f /\ s = ws)
  <2>1. CASE wire'[s] = wire[s]
    BY <2>1
  <2>2. CASE wire'[s] = Append(wire[s], f) /\ s = ws
    BY <1>1, <2>2, AppendFacts
  <2> QED BY <1>4, <2>1, <2>2
<1>7. ASSUME NEW s \in Seq(Frames), ~Contains(s, f) PROVE \A x : ~Precedes(s, f, x) /\ ~Precedes(s, x, f)
  BY <1>7 DEF Precedes, Contains
<1>8. WaitingIffPending'
  <2>1. CASE frame' = [frame EXCEPT ![f] = "sent"] /\ UNCHANGED pending
    <3>1. frame'[f] = "sent"
      BY <2>1 DEF TypeOK
    <3> QED BY <1>2, <1>3, <2>1, <3>1 DEF ReqInv, WaitingIffPending
  <2>2. CASE frame' = [frame EXCEPT ![f] = "waiting"]
             /\ pending' = [pending EXCEPT ![KeyOf[f]] = Append(@, f)]
    <3>1. /\ frame'[f] = "waiting" /\ pending'[KeyOf[f]] = Append(pending[KeyOf[f]], f)
          /\ \A k \in Keys : k # KeyOf[f] => pending'[k] = pending[k]
      BY <1>1, <2>2 DEF TypeOK
    <3> DEFINE longer == Append(pending[KeyOf[f]], f)
    <3>5. /\ ~Contains(pending[KeyOf[f]], f) /\ IsInjective(pending[KeyOf[f]])
          /\ pending[KeyOf[f]] \in Seq(Frames)
      BY <1>1, <1>2 DEF ReqInv, WaitingIffPending
    <3>6. /\ IsInjective(longer)
          /\ \A x : Contains(longer, x) <=> Contains(pending[KeyOf[f]], x) \/ x = f
      BY <3>5, AppendFacts
    <3> HIDE DEF longer
    <3>2. \A k \in Keys : IsInjective(pending'[k])
      BY <3>1, <3>6 DEF ReqInv, WaitingIffPending, longer
    <3>3. \A k \in Keys, g \in Frames :
            Contains(pending'[k], g) <=> Contains(pending[k], g) \/ (g = f /\ k = KeyOf[f])
      BY <3>1, <3>6 DEF longer
    <3>4. ASSUME NEW k \in Keys, NEW g \in Frames
          PROVE  Contains(pending'[k], g) <=> frame'[g] = "waiting" /\ k = KeyOf[g]
      <4>1. Contains(pending[k], g) <=> frame[g] = "waiting" /\ k = KeyOf[g]
        BY DEF ReqInv, WaitingIffPending
      <4> QED BY <1>3, <3>1, <3>3, <4>1
    <3> QED BY <3>2, <3>4 DEF WaitingIffPending
  <2> QED BY <2>1, <2>2 DEF Noted
<1>9. WireHolds'
  <2>1. \A s \in Sockets : wire'[s] = wire[s] \/ (s = ws /\ sock[ws] = "open" /\ status = "open")
    BY <1>4
  <2>2. status = "open" => queue' = queue
    BY <1>4 DEF ConnInv, NeverStranded, OpenIsWatched
  <2> QED BY <1>4, <2>1, <2>2 DEF ReqInv, WireHolds
<1>10. IdleUnsent'
  BY <1>3, <1>5, <1>6 DEF ReqInv, IdleUnsent
<1>11. LeftBehind'
  <2> SUFFICES ASSUME NEW s \in Sockets, NEW g \in Frames, s # ws, Contains(wire'[s], g)
               PROVE  frame'[g] # "waiting"
    BY DEF LeftBehind
  <2>1. Contains(wire[s], g) /\ g # f
    BY <1>2, <1>6
  <2> QED BY <1>3, <2>1 DEF ReqInv, LeftBehind
<1>12. SameOrder'
  <2> SUFFICES ASSUME NEW k \in Keys, NEW a \in Frames, NEW b \in Frames,
                      Precedes(pending'[k], a, b)
               PROVE  /\ ~Precedes(queue', b, a)
                      /\ \A s \in Sockets : ~Precedes(wire'[s], b, a)
    BY DEF SameOrder
  <2>1. Precedes(pending[k], a, b) \/ (b = f /\ a # f)
    <3>1. CASE pending'[k] = pending[k]
      BY <3>1
    <3>2. CASE pending'[k] = Append(pending[k], f)
      <4>1. Precedes(pending[k], a, b) \/ (Contains(pending[k], a) /\ b = f)
        BY <1>1, <3>2, AppendFacts
      <4> QED BY <1>2, <4>1
    <3>3. pending'[k] = pending[k] \/ pending'[k] = Append(pending[k], f)
      BY <1>1 DEF TypeOK, Noted
    <3> QED BY <3>1, <3>2, <3>3
  <2>2. CASE b = f /\ a # f
    <3>1. ~Precedes(queue, b, a) /\ \A s \in Sockets : ~Precedes(wire[s], b, a)
      BY <1>1, <1>2, <1>7, <2>2
    <3> QED BY <1>5, <1>6, <2>2, <3>1
  <2>3. CASE Precedes(pending[k], a, b) /\ b # f
    <3>1. a # f
      BY <1>1, <1>2, <1>7, <2>3
    <3>2. ~Precedes(queue, b, a) /\ \A s \in Sockets : ~Precedes(wire[s], b, a)
      BY <2>3 DEF ReqInv, SameOrder
    <3> QED BY <1>5, <1>6, <3>1, <3>2
  <2>4. Precedes(pending[k], a, b) => a # f /\ b # f
    BY <1>1, <1>2, <1>7
  <2> QED BY <2>1, <2>2, <2>3, <2>4
<1> QED BY <1>8, <1>9, <1>10, <1>11, <1>12 DEF ReqInv

LEMMA ApiKeepsRequests == ASSUME TypeOK, ConnInv, ReqInv, Api PROVE ReqInv'
<1> USE DEF connVars, modeVars, retryVars, aliveVars, dialVars, callVars, dataVars
<1>1. ASSUME NEW c \in Callers, ConnectStarts(c) PROVE ReqInv'
  <2>1. PICK s \in Sockets : InitWebSocket(s, connectTimer)
    BY <1>1 DEF ConnectStarts
  <2>2. connectTimer \in BOOLEAN /\ UNCHANGED <<pending, queue, frame>>
    BY <1>1 DEF TypeOK, ConnectStarts
  <2> QED BY <2>1, <2>2, InitWebSocketKeepsRequests
<1>2. ASSUME NEW c \in Callers, ConnectReturns(c) \/ ConnectJoins(c) \/ ConnectFinally(c)
      PROVE  ReqInv'
  <2>1. UNCHANGED <<status, ws, sock, pending, queue, frame, wire>>
    BY <1>2 DEF ConnectReturns, ConnectJoins, ConnectFinally
  <2>2. WireHolds'
    BY <2>1 DEF ReqInv, WireHolds
  <2> QED BY <2>1, <2>2, SameRequests
<1>3. ASSUME Close PROVE ReqInv'
  <2>1. /\ RejectAllPending /\ queue' = <<>> /\ ws' = None /\ status' = "disconnected"
        /\ sock' = [s \in Sockets |-> IF s # ws THEN sock[s]
                                      ELSE IF sock[s] = "open" THEN "closing" ELSE "free"]
        /\ wire' = [s \in Sockets |-> IF s = ws /\ sock[s] # "open" THEN <<>> ELSE wire[s]]
    BY <1>3 DEF Close, DropSocket
  <2>2. \A s \in Sockets : PartOf(wire'[s], wire[s])
    BY <2>1, AllParts
  <2>3. /\ WaitingIffPending'
        /\ \A f \in Frames : frame'[f] # "waiting" /\ (frame'[f] = "idle" => frame[f] = "idle")
        /\ \A k \in Keys : PartOf(pending'[k], pending[k])
    BY <2>1, RejectSettlesAll DEF ReqInv
  <2>4. IdleUnsent' /\ LeftBehind' /\ SameOrder'
    BY <2>1, <2>2, <2>3, AllParts, ShrinkingKeeps DEF ReqInv
  <2>5. WireHolds'
    BY <2>1 DEF ReqInv, WireHolds
  <2> QED BY <2>3, <2>4, <2>5 DEF ReqInv
<1>4. ASSUME NEW f \in Frames, Request(f) \/ Send(f) PROVE ReqInv'
  <2>1. /\ frame[f] = "idle" /\ SendOrQueue(f) /\ UNCHANGED <<status, ws, sock>>
        /\ Noted(f)
    BY <1>4 DEF Request, Send, Noted
  <2> QED BY <2>1, SendKeepsRequests
<1>5. ASSUME NEW f \in Frames, RequestTimeout(f) PROVE ReqInv'
  <2>1. /\ frame[f] = "waiting" /\ frame' = [frame EXCEPT ![f] = "failed"]
        /\ UnregisterPending(f) /\ UNCHANGED <<status, ws, sock, queue, wire>>
    BY <1>5 DEF RequestTimeout
  <2>2. /\ KeyOf[f] \in Keys /\ \A k \in Keys : pending[k] \in Seq(Frames)
        /\ frame'[f] = "failed" /\ \A g \in Frames : g # f => frame'[g] = frame[g]
    BY <2>1, FramesAssumption DEF TypeOK
  <2>3. Contains(pending[KeyOf[f]], f)
    BY <2>1, <2>2 DEF ReqInv, WaitingIffPending
  <2>4. PICK i \in 1 .. Len(pending[KeyOf[f]]) :
          /\ pending[KeyOf[f]][i] = f
          /\ pending' = [pending EXCEPT ![KeyOf[f]] = RemoveAt(@, i)]
    BY <2>1, <2>3 DEF UnregisterPending
  <2> DEFINE rest == RemoveAt(pending[KeyOf[f]], i)
  <2>5. /\ pending'[KeyOf[f]] = rest
        /\ \A k \in Keys : k # KeyOf[f] => pending'[k] = pending[k]
    BY <2>2, <2>4 DEF TypeOK
  <2>6. /\ PartOf(rest, pending[KeyOf[f]]) /\ ~Contains(rest, f) /\ IsInjective(rest)
        /\ \A x : x # f => (Contains(rest, x) <=> Contains(pending[KeyOf[f]], x))
    BY <2>2, <2>4, Parts, RemoveAtFacts DEF ReqInv, WaitingIffPending
  <2> HIDE DEF rest
  <2>7. WaitingIffPending'
    <3>1. \A k \in Keys : IsInjective(pending'[k])
      BY <2>5, <2>6 DEF ReqInv, WaitingIffPending
    <3>2. ASSUME NEW k \in Keys, NEW g \in Frames
          PROVE  Contains(pending'[k], g) <=> frame'[g] = "waiting" /\ k = KeyOf[g]
      <4>1. Contains(pending[k], g) <=> frame[g] = "waiting" /\ k = KeyOf[g]
        BY DEF ReqInv, WaitingIffPending
      <4>2. CASE k = KeyOf[f]
        BY <2>2, <2>5, <2>6, <4>1, <4>2
      <4>3. CASE k # KeyOf[f]
        BY <2>2, <2>5, <4>1, <4>3
      <4> QED BY <4>2, <4>3
    <3> QED BY <3>1, <3>2 DEF WaitingIffPending
  <2>8. \A k \in Keys : PartOf(pending'[k], pending[k])
    BY <2>5, <2>6, AllParts
  <2>9. WireHolds'
    BY <2>1 DEF ReqInv, WireHolds
  <2>10. IdleUnsent' /\ LeftBehind' /\ SameOrder'
    BY <2>1, <2>2, <2>8, AllParts, ShrinkingKeeps DEF ReqInv
  <2> QED BY <2>7, <2>9, <2>10 DEF ReqInv
<1> QED BY <1>1, <1>2, <1>3, <1>4, <1>5 DEF Api

LEMMA EventsKeepRequests == ASSUME TypeOK, ConnInv, ReqInv, Events PROVE ReqInv'
<1> USE DEF connVars, modeVars, retryVars, aliveVars, dialVars, callVars, dataVars
<1>1. ASSUME OnOpen PROVE ReqInv'
  <2>1. /\ ws \in Sockets /\ sock[ws] = "connecting" /\ ws' = ws /\ status' = "open"
        /\ sock' = [sock EXCEPT ![ws] = "open"] /\ queue' = <<>>
        /\ wire' = [wire EXCEPT ![ws] = @ \o SubSeq(queue, stale + 1, Len(queue))]
        /\ UNCHANGED <<pending, frame>>
    BY <1>1 DEF OnOpen, TypeOK
  <2> DEFINE fresh == SubSeq(queue, stale + 1, Len(queue))
  <2>2. fresh \in Seq(Frames) /\ PartOf(fresh, queue)
    <3>1. queue \in Seq(Frames) /\ stale + 1 \in Int /\ 1 <= stale + 1 /\ Len(queue) \in Int
      BY DEF TypeOK
    <3> QED BY <3>1, PartFacts DEF PartOf
  <2>3. wire[ws] = <<>>
    BY <2>1 DEF ReqInv, WireHolds
  <2>4. wire'[ws] = fresh /\ \A s \in Sockets : s # ws => wire'[s] = wire[s]
    <3>1. <<>> \o fresh = fresh
      BY <2>2
    <3> HIDE DEF fresh
    <3>2. wire'[ws] = wire[ws] \o fresh /\ \A s \in Sockets : s # ws => wire'[s] = wire[s]
      BY <2>1 DEF TypeOK, fresh
    <3> QED BY <2>3, <3>1, <3>2
  <2> HIDE DEF fresh
  <2>5. WireHolds'
    BY <2>1, <2>4 DEF ReqInv, WireHolds, TypeOK
  <2>6. WaitingIffPending'
    BY <2>1 DEF ReqInv, WaitingIffPending
  <2>7. IdleUnsent'
    BY <2>1, <2>2, <2>4, AllParts DEF ReqInv, IdleUnsent, PartOf
  <2>8. LeftBehind'
    BY <2>1, <2>4 DEF ReqInv, LeftBehind
  <2>9. SameOrder'
    <3> SUFFICES ASSUME NEW k \in Keys, NEW a \in Frames, NEW b \in Frames,
                        Precedes(pending'[k], a, b)
                 PROVE  /\ ~Precedes(queue', b, a)
                        /\ \A s \in Sockets : ~Precedes(wire'[s], b, a)
      BY DEF SameOrder
    <3>1. ~Precedes(queue, b, a) /\ \A s \in Sockets : ~Precedes(wire[s], b, a)
      BY <2>1 DEF ReqInv, SameOrder
    <3>2. ~Precedes(queue', b, a)
      BY <2>1, <3>1, AllParts DEF PartOf
    <3>3. ~Precedes(fresh, b, a)
      BY <2>2, <3>1 DEF PartOf
    <3> QED BY <2>4, <3>1, <3>2, <3>3
  <2> QED BY <2>5, <2>6, <2>7, <2>8, <2>9 DEF ReqInv
<1>2. ASSUME OnClose PROVE ReqInv'
  <2>1. /\ ws \in Sockets /\ RejectAllPending /\ ws' = None /\ status' = "disconnected"
        /\ sock' = [sock EXCEPT ![ws] = "free"]
        /\ wire' = [wire EXCEPT ![ws] = <<>>]
    BY <1>2 DEF OnClose, TypeOK
  <2>2. queue' = queue \/ queue' = <<>>
    BY <1>2 DEF OnClose, AfterClose
  <2>3. /\ wire'[ws] = <<>> /\ \A s \in Sockets : s # ws => wire'[s] = wire[s] /\ sock'[s] = sock[s]
    BY <2>1 DEF TypeOK
  <2>4. \A s \in Sockets : PartOf(wire'[s], wire[s])
    BY <2>1, <2>3, AllParts
  <2>5. PartOf(queue', queue)
    BY <2>2, AllParts
  <2>6. /\ WaitingIffPending'
        /\ \A f \in Frames : frame'[f] # "waiting" /\ (frame'[f] = "idle" => frame[f] = "idle")
        /\ \A k \in Keys : PartOf(pending'[k], pending[k])
    BY <2>1, RejectSettlesAll DEF ReqInv
  <2>7. IdleUnsent' /\ LeftBehind' /\ SameOrder'
    BY <2>4, <2>5, <2>6, ShrinkingKeeps DEF ReqInv
  <2>8. WireHolds'
    BY <2>1, <2>3 DEF ReqInv, WireHolds
  <2> QED BY <2>6, <2>7, <2>8 DEF ReqInv
<1>3. ASSUME HalfOpen PROVE ReqInv'
  <2>1. /\ ws \in Sockets /\ UNCHANGED <<ws, status, pending, queue, frame>>
        /\ sock' = [sock EXCEPT ![ws] = "half"] /\ wire' = [wire EXCEPT ![ws] = <<>>]
    BY <1>3 DEF HalfOpen, TypeOK
  <2>2. wire'[ws] = <<>> /\ \A s \in Sockets : s # ws => wire'[s] = wire[s] /\ sock'[s] = sock[s]
    BY <2>1 DEF TypeOK
  <2>3. \A s \in Sockets : PartOf(wire'[s], wire[s])
    BY <2>1, <2>2, AllParts
  <2>4. IdleUnsent' /\ LeftBehind' /\ SameOrder'
    BY <2>1, <2>3, AllParts, ShrinkingKeeps DEF ReqInv
  <2>5. WireHolds'
    BY <2>1, <2>2 DEF ReqInv, WireHolds
  <2> QED BY <2>1, <2>4, <2>5 DEF ReqInv, WaitingIffPending
<1>4. ASSUME NEW s \in Sockets, DetachedEnds(s) PROVE ReqInv'
  <2>1. /\ s # ws /\ UNCHANGED <<ws, status, pending, queue, frame>>
        /\ sock' = [sock EXCEPT ![s] = "free"] /\ wire' = [wire EXCEPT ![s] = <<>>]
    BY <1>4 DEF DetachedEnds
  <2>2. wire'[s] = <<>> /\ \A x \in Sockets : x # s => wire'[x] = wire[x] /\ sock'[x] = sock[x]
    BY <2>1 DEF TypeOK
  <2>3. \A x \in Sockets : PartOf(wire'[x], wire[x])
    BY <2>2, AllParts
  <2>4. IdleUnsent' /\ LeftBehind' /\ SameOrder'
    BY <2>1, <2>3, AllParts, ShrinkingKeeps DEF ReqInv
  <2>5. WireHolds'
    <3>1. ws = None \/ ws \in Sockets
      BY DEF TypeOK
    <3> QED BY <2>1, <2>2, <3>1 DEF ReqInv, WireHolds
  <2> QED BY <2>1, <2>4, <2>5 DEF ReqInv, WaitingIffPending
<1>5. ASSUME NEW s \in Sockets, OnReply(s) \/ NeverAnswered(s) PROVE ReqInv'
  <2>1. /\ wire[s] # <<>> /\ wire' = [wire EXCEPT ![s] = Tail(@)]
        /\ UNCHANGED <<ws, status, sock, queue>>
    BY <1>5 DEF OnReply, NeverAnswered
  <2>2. wire'[s] = Tail(wire[s]) /\ \A x \in Sockets : x # s => wire'[x] = wire[x]
    BY <2>1 DEF TypeOK
  <2>3. \A x \in Sockets : PartOf(wire'[x], wire[x])
    BY <2>1, <2>2, AllParts
  <2>4. /\ WaitingIffPending'
        /\ \A g \in Frames : frame'[g] \in {"idle", "waiting"} => frame'[g] = frame[g]
        /\ \A n \in Keys : PartOf(pending'[n], pending[n])
    <3>1. CASE OnReply(s)
      <4>1. Head(wire[s]) \in Frames
        BY <2>1, TailFacts DEF TypeOK
      <4>2. ResolveHead(KeyOf[Head(wire[s])], Head(wire[s])) /\ KeyOf[Head(wire[s])] \in Keys
        BY <3>1, <4>1, FramesAssumption DEF OnReply
      <4> QED BY <4>1, <4>2, ResolveSettlesHead DEF ReqInv
    <3>2. CASE NeverAnswered(s)
      <4>1. UNCHANGED <<pending, frame>>
        BY <3>2 DEF NeverAnswered
      <4> QED BY <4>1, AllParts DEF ReqInv, WaitingIffPending
    <3> QED BY <1>5, <3>1, <3>2
  <2>5. IdleUnsent' /\ LeftBehind' /\ SameOrder'
    BY <2>1, <2>3, <2>4, AllParts, ShrinkingKeeps DEF ReqInv
  <2>6. WireHolds'
    <3>1. \A x \in Sockets : wire'[x] # <<>> => wire[x] # <<>>
      BY <2>1, <2>2
    <3>2. ws = None \/ ws \in Sockets
      BY DEF TypeOK
    <3> QED BY <2>1, <3>1, <3>2 DEF ReqInv, WireHolds
  <2> QED BY <2>4, <2>5, <2>6 DEF ReqInv
<1>6. ASSUME OnHeartbeatAck PROVE ReqInv'
  <2>1. UNCHANGED <<ws, status, sock, queue, wire>>
    BY <1>6 DEF OnHeartbeatAck
  <2>2. /\ WaitingIffPending'
        /\ \A g \in Frames : frame'[g] \in {"idle", "waiting"} => frame'[g] = frame[g]
        /\ \A n \in Keys : PartOf(pending'[n], pending[n])
    <3>1. CASE pending[KeepaliveKey] = <<>>
      <4>1. UNCHANGED <<pending, frame>>
        BY <1>6, <3>1 DEF OnHeartbeatAck
      <4> QED BY <4>1, AllParts DEF ReqInv, WaitingIffPending
    <3>2. CASE pending[KeepaliveKey] # <<>>
      <4>1. KeepaliveKey \in Keys /\ Head(pending[KeepaliveKey]) \in Frames
        BY <3>2, FramesAssumption, TailFacts DEF TypeOK
      <4>2. ResolveHead(KeepaliveKey, Head(pending[KeepaliveKey]))
        BY <1>6, <3>2 DEF OnHeartbeatAck
      <4> QED BY <4>1, <4>2, ResolveSettlesHead DEF ReqInv
    <3> QED BY <3>1, <3>2
  <2>3. IdleUnsent' /\ LeftBehind' /\ SameOrder'
    BY <2>1, <2>2, AllParts, ShrinkingKeeps DEF ReqInv
  <2>4. WireHolds'
    BY <2>1 DEF ReqInv, WireHolds
  <2> QED BY <2>2, <2>3, <2>4 DEF ReqInv
<1> QED BY <1>1, <1>2, <1>3, <1>4, <1>5, <1>6 DEF Events

LEMMA TimersKeepRequests == ASSUME TypeOK, ConnInv, ReqInv, Timers PROVE ReqInv'
<1> USE DEF connVars, modeVars, retryVars, aliveVars, dialVars, callVars, dataVars
<1>1. ASSUME NEW s \in Sockets, NEW tracked \in BOOLEAN, InitWebSocket(s, tracked),
             UNCHANGED <<pending, queue, frame>>
      PROVE  ReqInv'
  BY <1>1, InitWebSocketKeepsRequests
<1>2. ASSUME UNCHANGED <<status, ws, sock, pending, queue, frame, wire>> PROVE ReqInv'
  <2>1. WireHolds'
    BY <1>2 DEF ReqInv, WireHolds
  <2> QED BY <1>2, <2>1, SameRequests
<1>3. ASSUME ReconnectTimerDials \/ TokenRefreshReturns PROVE ReqInv'
  <2>1. PICK s \in Sockets : InitWebSocket(s, connectTimer)
    BY <1>3 DEF ReconnectTimerDials, TokenRefreshReturns
  <2>2. connectTimer \in BOOLEAN /\ UNCHANGED <<pending, queue, frame>>
    BY <1>3 DEF TypeOK, ReconnectTimerDials, TokenRefreshReturns
  <2> QED BY <1>1, <2>1, <2>2
<1>4. ASSUME NEW pong \in BOOLEAN, ActiveReconnect(pong) PROVE ReqInv'
  <2>1. CASE closedByUser
    <3>1. UNCHANGED <<status, ws, sock, pending, queue, frame, wire>>
      BY <1>4, <2>1 DEF ActiveReconnect
    <3> QED BY <1>2, <3>1
  <2>2. CASE ~closedByUser
    <3>1. PICK s \in Sockets : InitWebSocket(s, FALSE)
      BY <1>4, <2>2 DEF ActiveReconnect
    <3>2. UNCHANGED <<pending, queue, frame>>
      BY <1>4 DEF ActiveReconnect
    <3> QED BY <1>1, <3>1, <3>2
  <2> QED BY <2>1, <2>2
<1>5. ASSUME KeepaliveTickIdle \/ PongTimeout \/ WakeUpReconnects PROVE ReqInv'
  <2>1. pongTimer \in BOOLEAN
    BY DEF TypeOK
  <2> QED BY <1>4, <1>5, <2>1 DEF KeepaliveTickIdle, PongTimeout, WakeUpReconnects
<1>6. ASSUME ConnectTimeout PROVE ReqInv'
  <2>1. /\ UNCHANGED <<status, ws, pending, queue, frame, wire>>
        /\ sock' = sock \/ (ws \in Sockets /\ sock' = [sock EXCEPT ![ws] = "closing"])
    BY <1>6 DEF ConnectTimeout, CutHandshake, TypeOK
  <2>2. \A s \in Sockets : sock'[s] = sock[s] \/ sock'[s] = "closing"
    BY <2>1 DEF TypeOK
  <2>3. WireHolds'
    BY <2>1, <2>2 DEF ReqInv, WireHolds
  <2> QED BY <2>1, <2>3, SameRequests
<1>7. ASSUME ReconnectTimerRefreshes \/ KeepaliveTick \/ WakeUpHeartbeat \/ QueueAges PROVE ReqInv'
  <2>1. UNCHANGED <<status, ws, sock, pending, queue, frame, wire>>
    BY <1>7 DEF ReconnectTimerRefreshes, KeepaliveTick, WakeUpHeartbeat, SendHeartbeat, QueueAges
  <2> QED BY <1>2, <2>1
<1> QED BY <1>3, <1>5, <1>6, <1>7 DEF Timers

LEMMA RequestsAlways == Spec => []ReqInv
<1>1. Init => ReqInv
  <2> SUFFICES ASSUME Init PROVE ReqInv
    OBVIOUS
  <2>1. /\ \A k \in Keys : pending[k] = <<>>
        /\ \A s \in Sockets : wire[s] = <<>>
        /\ \A f \in Frames : frame[f] = "idle"
        /\ queue = <<>> /\ ws = None
    BY DEF Init
  <2>2. /\ IsInjective(<<>>) /\ \A x : ~Contains(<<>>, x)
        /\ \A a, b : ~Precedes(<<>>, a, b)
    BY DEF IsInjective, Contains, Precedes
  <2>3. WaitingIffPending /\ WireHolds
    BY <2>1, <2>2 DEF WaitingIffPending, WireHolds
  <2>4. IdleUnsent /\ LeftBehind /\ SameOrder
    BY <2>1, <2>2 DEF IdleUnsent, LeftBehind, SameOrder
  <2> QED BY <2>3, <2>4 DEF ReqInv
<1>2. TypeOK /\ ConnInv /\ ReqInv /\ [Next]_vars => ReqInv'
  <2>1. ASSUME TypeOK, ReqInv, UNCHANGED vars PROVE ReqInv'
    <3>1. UNCHANGED <<status, ws, sock, pending, queue, frame, wire>>
      BY <2>1 DEF vars, connVars, dataVars
    <3>2. WireHolds'
      BY <2>1, <3>1 DEF ReqInv, WireHolds
    <3> QED BY <2>1, <3>1, <3>2, SameRequests
  <2> QED BY <2>1, ApiKeepsRequests, EventsKeepRequests, TimersKeepRequests DEF Next
<1> QED BY <1>1, <1>2, TransportTypeCorrect, ConnAlways, PTL DEF Spec

(* Every request that waits has exactly one resolver, and every resolver   *)
(* belongs to a request that waits.                                        *)
THEOREM NoRequestForgotten == Spec => []WaitingIffPending
<1>1. ReqInv => WaitingIffPending
  BY DEF ReqInv
<1> QED BY <1>1, RequestsAlways, PTL

(* The step that answers a request with another's reply has found a        *)
(* leftover in its FIFO.                                                   *)
LEMMA CrossingNeedsLeftover ==
  ASSUME TypeOK, ConnInv, ReqInv, NEW s \in Sockets, OnReply(s), NEW f \in Frames,
         answer'[f] \notin {answer[f], f}
  PROVE  \E g \in Frames : KeyOf[g] = KeyOf[f] /\ ~((frame[g] = "waiting") <=> InFlight(g))
<1> SUFFICES ASSUME \A g \in Frames : KeyOf[g] = KeyOf[f] =>
                      ((frame[g] = "waiting") <=> InFlight(g))
             PROVE  FALSE
  OBVIOUS
<1> DEFINE h == Head(wire[s])
           k == KeyOf[h]
<1>1. wire[s] \in Seq(Frames) /\ wire[s] # <<>> /\ ResolveHead(k, h)
  BY DEF OnReply, TypeOK
<1>2. /\ h \in Frames /\ Contains(wire[s], h)
      /\ \A x \in Frames \ {h} : Contains(wire[s], x) => Precedes(wire[s], h, x)
  BY <1>1, TailFacts
<1>3. k \in Keys /\ pending[k] \in Seq(Frames)
  BY <1>2, FramesAssumption DEF TypeOK
<1> HIDE DEF h, k
<1>4. pending[k] # <<>> /\ f = Head(pending[k]) /\ f # h
  <2>1. pending[k] # <<>>
    BY <1>1 DEF ResolveHead
  <2>2. answer' = [answer EXCEPT ![Head(pending[k])] = h]
    BY <1>1, <2>1 DEF ResolveHead
  <2> QED BY <2>1, <2>2 DEF TypeOK
<1>5. /\ Contains(pending[k], f)
      /\ \A x \in Frames \ {f} : Contains(pending[k], x) => Precedes(pending[k], f, x)
  BY <1>3, <1>4, TailFacts
<1>6. frame[f] = "waiting" /\ KeyOf[f] = k
  BY <1>3, <1>5 DEF ReqInv, WaitingIffPending
(* The reply is to a request that waits, behind f. *)
<1>7. frame[h] = "waiting" /\ Precedes(pending[k], f, h)
  <2>1. InFlight(h)
    BY <1>2 DEF InFlight
  <2>2. frame[h] = "waiting"
    BY <1>2, <1>6, <2>1 DEF k
  <2>3. Contains(pending[k], h)
    BY <1>2, <1>3, <2>2 DEF ReqInv, WaitingIffPending, k
  <2> QED BY <1>2, <1>4, <1>5, <2>2, <2>3
<1>8. s = ws /\ ws # None /\ queue = <<>>
  <2>1. s = ws
    BY <1>2, <1>7 DEF ReqInv, LeftBehind
  <2> QED BY <1>1, <2>1, SocketsAssumption DEF ReqInv, WireHolds
(* The frame of f is under way too, and can only be behind that of h.      *)
<1>9. Contains(wire[s], f)
  <2>1. InFlight(f) /\ ~Contains(queue, f)
    BY <1>6, <1>8, AllParts
  <2>2. PICK x \in Sockets : Contains(wire[x], f)
    BY <2>1 DEF InFlight
  <2> QED BY <1>6, <1>8, <2>2 DEF ReqInv, LeftBehind
<1>10. Precedes(wire[s], h, f)
  BY <1>2, <1>4, <1>9
<1> QED BY <1>2, <1>3, <1>7, <1>10 DEF ReqInv, SameOrder

(* A request is answered with the reply to another one only if its FIFO    *)
(* holds leftovers.                                                        *)
THEOREM OnlyLeftoversCross == Spec => CrossedOnlyByLeftovers
<1> DEFINE Crossed(f) == answer'[f] \notin {answer[f], f}
           Leftover(f) == \E g \in Frames : KeyOf[g] = KeyOf[f]
                                              /\ ~((frame[g] = "waiting") <=> InFlight(g))
<1>1. TypeOK /\ ConnInv /\ ReqInv /\ [Next]_vars => \A f \in Frames : Crossed(f) => Leftover(f)
  <2> SUFFICES ASSUME TypeOK, ConnInv, ReqInv, [Next]_vars, NEW f \in Frames, Crossed(f)
               PROVE  Leftover(f)
    OBVIOUS
  <2> USE DEF connVars, modeVars, retryVars, aliveVars, dialVars, callVars, dataVars
  <2>1. ASSUME NEW s \in Sockets, OnReply(s) PROVE Leftover(f)
    BY <2>1, CrossingNeedsLeftover
  <2>2. ASSUME OnHeartbeatAck PROVE FALSE
    <3>1. \/ answer' = answer
          \/ answer' = [answer EXCEPT ![Head(pending[KeepaliveKey])] = Head(pending[KeepaliveKey])]
      BY <2>2 DEF OnHeartbeatAck, ResolveHead
    <3> QED BY <3>1 DEF TypeOK
  <2>3. ASSUME answer' = answer PROVE FALSE
    BY <2>3
  <2>4. ASSUME NEW c \in Callers,
               ConnectReturns(c) \/ ConnectJoins(c) \/ ConnectStarts(c) \/ ConnectFinally(c)
        PROVE  answer' = answer
    BY <2>4 DEF ConnectReturns, ConnectJoins, ConnectStarts, ConnectFinally
  <2>5. ASSUME NEW g \in Frames, Request(g) \/ Send(g) \/ RequestTimeout(g)
        PROVE  answer' = answer
    BY <2>5 DEF Request, Send, RequestTimeout
  <2>6. ASSUME NEW s \in Sockets, NeverAnswered(s) \/ DetachedEnds(s) PROVE answer' = answer
    BY <2>6 DEF NeverAnswered, DetachedEnds
  <2>7. ASSUME Close \/ OnOpen \/ OnClose \/ HalfOpen PROVE answer' = answer
    BY <2>7 DEF Close, OnOpen, OnClose, HalfOpen
  <2>8. ASSUME Timers PROVE answer' = answer
    BY <2>8 DEF Timers, ReconnectTimerRefreshes, ReconnectTimerDials, TokenRefreshReturns,
                ConnectTimeout, KeepaliveTickIdle, KeepaliveTick, PongTimeout, WakeUpReconnects,
                WakeUpHeartbeat, QueueAges, ActiveReconnect, SendHeartbeat
  <2>9. CASE UNCHANGED vars
    BY <2>3, <2>9 DEF vars
  <2> QED BY <2>1, <2>2, <2>3, <2>4, <2>5, <2>6, <2>7, <2>8, <2>9 DEF Next, Api, Events
<1> QED BY <1>1, TransportTypeCorrect, ConnAlways, RequestsAlways, PTL
        DEF Spec, CrossedOnlyByLeftovers

(* So RepliesMatch, which is not true of Spec, is true as long as nothing  *)
(* is left over: every frame that is queued or under way belongs to a      *)
(* request that waits, and every request that waits has its frame there.   *)
NothingOver == \A g \in Frames : (frame[g] = "waiting") <=> InFlight(g)

(* Without leftovers a request is only resolved with its own reply         *)
(* (transport.js:17).                                                      *)
THEOREM WithoutLeftoversRepliesMatch == Spec /\ []NothingOver => []RepliesMatch
<1> DEFINE Own == \A f \in Frames : answer[f] \in {None, f}
           ByLeftovers == \A f \in Frames : answer'[f] \notin {answer[f], f}
             => \E g \in Frames : KeyOf[g] = KeyOf[f] /\ ~((frame[g] = "waiting") <=> InFlight(g))
<1>1. Init => Own
  BY DEF Init
<1>2. ASSUME NothingOver, Own, [ByLeftovers]_vars PROVE Own'
  <2>1. CASE UNCHANGED vars
    BY <1>2, <2>1 DEF vars, dataVars
  <2>2. CASE ByLeftovers
    <3>1. \A f \in Frames : answer'[f] \in {answer[f], f}
      BY <1>2, <2>2 DEF NothingOver
    <3> QED BY <1>2, <3>1
  <2> QED BY <1>2, <2>1, <2>2
<1>3. Own => RepliesMatch
  BY FramesAssumption DEF RepliesMatch
<1>4. Spec => [][ByLeftovers]_vars
  BY OnlyLeftoversCross DEF CrossedOnlyByLeftovers
<1> QED BY <1>1, <1>2, <1>3, <1>4, PTL DEF Spec

-----------------------------------------------------------------------------
(* The commands to locks. *)

TriggerTypeOK ==
  /\ trigger \in [Triggers -> {"idle", "waiting", "done", "failed"}]
  /\ settledBy \in [Triggers -> Triggers \cup {"none", "push", "error"}]
  /\ fifo \in Seq(Triggers) /\ unacked \in Seq(Triggers)
  /\ adrift \in BOOLEAN

(* As long as nothing is adrift the transport waits for exactly the        *)
(* acknowledgements that the cloud owes, and in their order.               *)
TriggerInv == TriggerTypeOK /\ (~adrift => fifo = unacked)

(* What settles a command, if that is an acknowledgement, is its own one.  *)
SettlesOwn ==
  ~adrift => \A t \in Triggers : settledBy'[t] \in Triggers => settledBy'[t] \in {settledBy[t], t}

(* A call is settled once, by what is given.                               *)
LEMMA SettledKeeps ==
  ASSUME TriggerTypeOK, NEW t \in Triggers, NEW outcome \in {"done", "failed"},
         NEW by \in Triggers \cup {"push", "error"}, Settled(t, outcome, by)
  PROVE  /\ trigger' \in [Triggers -> {"idle", "waiting", "done", "failed"}]
         /\ settledBy' \in [Triggers -> Triggers \cup {"none", "push", "error"}]
         /\ settledBy'[t] \in {settledBy[t], by}
         /\ \A u \in Triggers : u # t => settledBy'[u] = settledBy[u]
<1>1. CASE trigger[t] = "waiting"
  BY <1>1 DEF Settled, TriggerTypeOK
<1>2. CASE trigger[t] # "waiting"
  BY <1>2 DEF Settled, TriggerTypeOK
<1> QED BY <1>1, <1>2

LEMMA TriggerStep == ASSUME TriggerInv, TriggerNext PROVE TriggerInv' /\ SettlesOwn
<1> USE DEF triggerVars
<1>0. TriggerTypeOK /\ (~adrift => fifo = unacked) /\ <<>> \in Seq(Triggers)
  BY DEF TriggerInv
<1>1. ASSUME NEW t \in Triggers, SendTrigger(t) PROVE TriggerInv' /\ SettlesOwn
  <2>1. Append(fifo, t) \in Seq(Triggers) /\ Append(unacked, t) \in Seq(Triggers)
    BY <1>0, AppendFacts DEF TriggerTypeOK
  <2>2. UNCHANGED <<settledBy, adrift>>
    BY <1>1 DEF SendTrigger
  <2>3. \/ fifo' = Append(fifo, t) /\ unacked' = Append(unacked, t)
        \/ fifo' = fifo /\ unacked' = unacked
    BY <1>1 DEF SendTrigger
  <2>4. trigger' \in [Triggers -> {"idle", "waiting", "done", "failed"}]
    BY <1>0, <1>1 DEF SendTrigger, TriggerTypeOK
  <2> QED BY <1>0, <2>1, <2>2, <2>3, <2>4 DEF TriggerInv, TriggerTypeOK, SettlesOwn
<1>2. ASSUME NEW t \in Triggers, TimesOut(t) PROVE TriggerInv' /\ SettlesOwn
  <2>1. PICK i \in 1 .. Len(fifo) : fifo' = RemoveAt(fifo, i)
    BY <1>2 DEF TimesOut
  <2>2. fifo' \in Seq(Triggers)
    BY <1>0, <2>1, RemoveAtFacts DEF TriggerTypeOK
  <2>3. Settled(t, "failed", "error") /\ adrift' = TRUE /\ unacked' = unacked
    BY <1>2 DEF TimesOut
  <2>4. /\ trigger' \in [Triggers -> {"idle", "waiting", "done", "failed"}]
        /\ settledBy' \in [Triggers -> Triggers \cup {"none", "push", "error"}]
        /\ \A u \in Triggers : settledBy'[u] \in {settledBy[u], "error"}
    BY <1>0, <2>3, SettledKeeps
  <2> QED BY <1>0, <2>2, <2>3, <2>4, TriggersAssumption DEF TriggerInv, TriggerTypeOK, SettlesOwn
<1>3. ASSUME Acked PROVE TriggerInv' /\ SettlesOwn
  <2>1. unacked # <<>> /\ unacked' = Tail(unacked) /\ adrift' = adrift
    BY <1>3 DEF Acked
  <2>2. Tail(unacked) \in Seq(Triggers) /\ Head(unacked) \in Triggers
    BY <1>0, <2>1, TailFacts DEF TriggerTypeOK
  <2>3. CASE fifo = <<>>
    <3>1. UNCHANGED <<trigger, settledBy, fifo>> /\ adrift
      BY <1>0, <1>3, <2>1, <2>3 DEF Acked, TriggerTypeOK
    <3> QED BY <1>0, <2>1, <2>2, <3>1 DEF TriggerInv, TriggerTypeOK, SettlesOwn
  <2>4. CASE fifo # <<>>
    <3>1. fifo' = Tail(fifo)
      BY <1>3, <2>4 DEF Acked
    <3>2. Tail(fifo) \in Seq(Triggers) /\ Head(fifo) \in Triggers
      BY <1>0, <2>4, TailFacts DEF TriggerTypeOK
    <3>3. PICK outcome \in {"done", "failed"} : Settled(Head(fifo), outcome, Head(unacked))
      BY <1>3, <2>4 DEF Acked
    <3>4. /\ trigger' \in [Triggers -> {"idle", "waiting", "done", "failed"}]
          /\ settledBy' \in [Triggers -> Triggers \cup {"none", "push", "error"}]
          /\ settledBy'[Head(fifo)] \in {settledBy[Head(fifo)], Head(unacked)}
          /\ \A u \in Triggers : u # Head(fifo) => settledBy'[u] = settledBy[u]
      BY <1>0, <2>2, <3>2, <3>3, SettledKeeps
    <3>5. SettlesOwn
      BY <1>0, <3>4 DEF SettlesOwn
    <3> QED BY <1>0, <2>1, <2>2, <3>1, <3>2, <3>4, <3>5 DEF TriggerInv, TriggerTypeOK
  <2> QED BY <2>3, <2>4
<1>4. ASSUME ConnectionLost PROVE TriggerInv' /\ SettlesOwn
  <2>1. /\ fifo' = <<>> /\ unacked' = <<>> /\ adrift' = FALSE
        /\ trigger' = [t \in Triggers |-> IF trigger[t] = "waiting" THEN "failed" ELSE trigger[t]]
        /\ settledBy' = [t \in Triggers |-> IF trigger[t] = "waiting" THEN "error" ELSE settledBy[t]]
    BY <1>4 DEF ConnectionLost
  <2>2. trigger' \in [Triggers -> {"idle", "waiting", "done", "failed"}]
    BY <1>0, <2>1 DEF TriggerTypeOK
  <2>3. settledBy' \in [Triggers -> Triggers \cup {"none", "push", "error"}]
    BY <1>0, <2>1 DEF TriggerTypeOK
  <2>4. SettlesOwn
    BY <2>1, TriggersAssumption DEF SettlesOwn
  <2> QED BY <1>0, <2>1, <2>2, <2>3, <2>4 DEF TriggerInv, TriggerTypeOK
<1>5. ASSUME ConnectionReplaced PROVE TriggerInv' /\ SettlesOwn
  BY <1>0, <1>5 DEF ConnectionReplaced, TriggerInv, TriggerTypeOK, SettlesOwn
<1>6. ASSUME ConnectionBack PROVE TriggerInv' /\ SettlesOwn
  BY <1>0, <1>6 DEF ConnectionBack, TriggerInv, TriggerTypeOK, SettlesOwn
<1>7. ASSUME NEW ds, Pushed(ds) PROVE TriggerInv' /\ SettlesOwn
  <2> DEFINE ts == {t \in Triggers : trigger[t] = "waiting" /\ target[t] \in ds}
  <2>1. /\ UNCHANGED <<fifo, unacked, adrift>>
        /\ trigger' = [t \in Triggers |-> IF t \in ts THEN "done" ELSE trigger[t]]
        /\ settledBy' = [t \in Triggers |-> IF t \in ts THEN "push" ELSE settledBy[t]]
    BY <1>7 DEF Pushed, ResolveOnly, Resolved
  <2> HIDE DEF ts
  <2>2. trigger' \in [Triggers -> {"idle", "waiting", "done", "failed"}]
    BY <1>0, <2>1 DEF TriggerTypeOK
  <2>3. settledBy' \in [Triggers -> Triggers \cup {"none", "push", "error"}]
    BY <1>0, <2>1 DEF TriggerTypeOK
  <2>4. SettlesOwn
    BY <2>1, TriggersAssumption DEF SettlesOwn
  <2> QED BY <1>0, <2>1, <2>2, <2>3, <2>4 DEF TriggerInv, TriggerTypeOK
<1> QED BY <1>1, <1>2, <1>3, <1>4, <1>5, <1>6, <1>7 DEF TriggerNext

(* However pushes overtake acknowledgements, however often the connection  *)
(* is lost or replaced, and however many commands are under way: an        *)
(* acknowledgement settles its own command, unless a request has timed out *)
(* or was left waiting by a replacement since all was last settled.        *)
THEOREM AcknowledgedByItsOwn == TriggerSpec => AckIsOwn
<1>1. TriggerInit => TriggerInv
  <2> SUFFICES ASSUME TriggerInit PROVE TriggerInv
    OBVIOUS
  <2>1. <<>> \in Seq(Triggers)
    OBVIOUS
  <2> QED BY <2>1 DEF TriggerInit, TriggerInv, TriggerTypeOK
<1>2. TriggerInv /\ [TriggerNext]_triggerVars => TriggerInv'
  <2>1. CASE UNCHANGED triggerVars
    BY <2>1 DEF triggerVars, TriggerInv, TriggerTypeOK
  <2> QED BY <2>1, TriggerStep
<1>3. TriggerInv /\ [TriggerNext]_triggerVars =>
        [~adrift => \A t \in Triggers :
           settledBy'[t] \in Triggers => settledBy'[t] \in {settledBy[t], t}]_triggerVars
  BY TriggerStep DEF SettlesOwn
<1> QED BY <1>1, <1>2, <1>3, PTL DEF TriggerSpec, AckIsOwn

-----------------------------------------------------------------------------
(* Infrared learning. *)

Steps == {"idle", "entering", "subscribing", "listening", "leaving", "saving", "done", "failed"}
Inside == {"entering", "subscribing", "listening"}
LearnFrames == {[op |-> "setIRMode", to |-> "REGISTER"], [op |-> "setIRMode", to |-> "CONTROL"],
                [op |-> "subscribeIRData"], [op |-> "unsubscribeIRData"], [op |-> "addIRCode"]}

SetsMode(f) == f.op = "setIRMode"

(* The mode is v once the frames of s have been taken, if it is m now.     *)
EndsIn(s, m, v) ==
  \/ \E i \in 1 .. Len(s) : /\ SetsMode(s[i]) /\ s[i].to = v
                            /\ \A j \in 1 .. Len(s) : j > i => ~SetsMode(s[j])
  \/ m = v /\ \A i \in 1 .. Len(s) : ~SetsMode(s[i])

LearnTypeOK ==
  /\ step \in [Users -> Steps]
  /\ sent \in Seq(LearnFrames)
  /\ waiting \in [Ops -> Seq(Users)]
  /\ mode \in {"CONTROL", "REGISTER"}

(* A call waits for at most one reply, to the request of its step. *)
WaitsForItsStep ==
  \A op \in Ops : /\ IsInjective(waiting[op])
                  /\ \A c \in Users : Contains(waiting[op], c) => op \in OpOf(step[c])

(* Unless something lapsed: the Hub3 is on its way to learning only if a   *)
(* call that will take it back is inside, and close() came after them all. *)
LearnInv ==
  /\ LearnTypeOK
  /\ WaitsForItsStep
  /\ hub = "closed" /\ lapsed = {} => \A c \in Users : step[c] \in Ended
  /\ lapsed = {} /\ EndsIn(sent, mode, "REGISTER") => \E c \in Users : step[c] \in Inside

LEMMA FramesOfSteps ==
  /\ FramesOf("entering") = <<[op |-> "setIRMode", to |-> "REGISTER"]>>
  /\ FramesOf("subscribing") = <<[op |-> "subscribeIRData"]>>
  /\ FramesOf("leaving") = <<[op |-> "unsubscribeIRData"], [op |-> "setIRMode", to |-> "CONTROL"]>>
  /\ FramesOf("saving") = <<[op |-> "addIRCode"]>>
  /\ \A s \in {"idle", "listening", "done", "failed"} : FramesOf(s) = <<>>
BY DEF FramesOf

LEMMA OpsOfSteps ==
  /\ OpOf("entering") = {"setIRMode"} /\ OpOf("leaving") = {"setIRMode"}
  /\ OpOf("subscribing") = {"subscribeIRData"} /\ OpOf("saving") = {"addIRCode"}
  /\ \A s \in {"idle", "listening", "done", "failed"} : OpOf(s) = {}
BY DEF OpOf

LEMMA FramesAreFrames ==
  ASSUME NEW s \in Steps
  PROVE  /\ FramesOf(s) \in Seq(LearnFrames)
         /\ s \notin {"entering", "leaving"} =>
              \A i \in 1 .. Len(FramesOf(s)) : ~SetsMode(FramesOf(s)[i])
<1>6. ASSUME NEW f \in LearnFrames, NEW g \in LearnFrames
      PROVE  /\ <<f>> \in Seq(LearnFrames) /\ Len(<<f>>) = 1 /\ <<f>>[1] = f
             /\ <<f, g>> \in Seq(LearnFrames)
  OBVIOUS
<1> DEFINE rest == {[op |-> "subscribeIRData"], [op |-> "addIRCode"]}
<1>7. rest \subseteq LearnFrames /\ \A f \in rest : ~SetsMode(f)
  <2>1. ASSUME NEW f \in rest PROVE f.op # "setIRMode"
    OBVIOUS
  <2> QED BY <2>1 DEF LearnFrames, SetsMode
<1>1. CASE s = "entering"
  <2>1. [op |-> "setIRMode", to |-> "REGISTER"] \in LearnFrames
    BY DEF LearnFrames
  <2> QED BY <1>1, <1>6, <2>1, FramesOfSteps
<1>2. CASE s = "leaving"
  <2>1. /\ [op |-> "unsubscribeIRData"] \in LearnFrames
        /\ [op |-> "setIRMode", to |-> "CONTROL"] \in LearnFrames
    BY DEF LearnFrames
  <2> QED BY <1>2, <1>6, <2>1, FramesOfSteps
<1>3. CASE s \in {"subscribing", "saving"}
  <2>1. PICK f \in rest : FramesOf(s) = <<f>>
    BY <1>3, FramesOfSteps
  <2>2. f \in LearnFrames /\ ~SetsMode(f)
    BY <1>7
  <2> HIDE DEF rest
  <2>3. <<f>> \in Seq(LearnFrames) /\ Len(<<f>>) = 1 /\ <<f>>[1] = f
    BY <1>6, <2>2
  <2> QED BY <2>1, <2>2, <2>3
<1>5. CASE s \in {"idle", "listening", "done", "failed"}
  <2>1. FramesOf(s) = <<>> /\ <<>> \in Seq(LearnFrames) /\ Len(<<>>) = 0
    BY <1>5, FramesOfSteps
  <2> QED BY <2>1
<1> QED BY <1>1, <1>2, <1>3, <1>5 DEF Steps

(* Frames that set no mode change nothing of where it ends. *)
LEMMA QuietFrames ==
  ASSUME NEW s \in Seq(LearnFrames), NEW t \in Seq(LearnFrames), NEW m, NEW v,
         \A i \in 1 .. Len(t) : ~SetsMode(t[i]), EndsIn(s \o t, m, v)
  PROVE  EndsIn(s, m, v)
<1>1. /\ Len(s) \in Nat /\ Len(t) \in Nat /\ Len(s \o t) = Len(s) + Len(t)
      /\ \A i \in 1 .. Len(s) : (s \o t)[i] = s[i]
      /\ \A i \in 1 .. Len(t) : (s \o t)[Len(s) + i] = t[i]
  OBVIOUS
<1>2. CASE v = m /\ \A i \in 1 .. Len(s \o t) : ~SetsMode((s \o t)[i])
  <2>1. \A i \in 1 .. Len(s) : i \in 1 .. Len(s \o t)
    BY <1>1
  <2> QED BY <1>1, <1>2, <2>1 DEF EndsIn
<1>3. ASSUME NEW i \in 1 .. Len(s \o t), SetsMode((s \o t)[i]), (s \o t)[i].to = v,
             \A j \in 1 .. Len(s \o t) : j > i => ~SetsMode((s \o t)[j])
      PROVE  EndsIn(s, m, v)
  <2>1. i \in 1 .. Len(s)
    <3> SUFFICES ASSUME i \notin 1 .. Len(s) PROVE FALSE
      OBVIOUS
    <3>1. i - Len(s) \in 1 .. Len(t) /\ Len(s) + (i - Len(s)) = i
      BY <1>1
    <3>2. (s \o t)[Len(s) + (i - Len(s))] = t[i - Len(s)]
      BY <1>1, <3>1
    <3> QED BY <1>3, <3>1, <3>2
  <2>2. \A j \in 1 .. Len(s) : j > i => ~SetsMode(s[j])
    <3>1. \A j \in 1 .. Len(s) : j \in 1 .. Len(s \o t)
      BY <1>1
    <3> QED BY <1>1, <1>3, <3>1
  <2> QED BY <1>1, <1>3, <2>1, <2>2 DEF EndsIn
<1> QED BY <1>2, <1>3 DEF EndsIn

(* Whoever leaves has the last word on the mode. *)
LEMMA LeavingEndsInControl ==
  ASSUME NEW s \in Seq(LearnFrames), NEW m, NEW v, EndsIn(s \o FramesOf("leaving"), m, v)
  PROVE  v = "CONTROL"
<1> DEFINE t == FramesOf("leaving")
           r == s \o t
<1>1. /\ t \in Seq(LearnFrames) /\ Len(t) = 2
      /\ t[2] = [op |-> "setIRMode", to |-> "CONTROL"]
  BY FramesOfSteps, FramesAreFrames DEF Steps
<1> HIDE DEF t
<1>2. Len(r) = Len(s) + 2 /\ Len(s) \in Nat /\ r[Len(s) + 2] = t[2]
  <2>1. /\ Len(r) = Len(s) + Len(t)
        /\ \A i \in 1 .. Len(s) + Len(t) : r[i] = IF i <= Len(s) THEN s[i] ELSE t[i - Len(s)]
    BY <1>1, ConcatProperties
  <2>2. Len(s) + 2 \in 1 .. Len(s) + Len(t) /\ ~(Len(s) + 2 <= Len(s)) /\ Len(s) + 2 - Len(s) = 2
    BY <1>1
  <2> HIDE DEF r
  <2> QED BY <1>1, <2>1, <2>2
<1>3. SetsMode(r[Len(r)]) /\ r[Len(r)].to = "CONTROL" /\ Len(r) \in 1 .. Len(r)
  BY <1>1, <1>2 DEF SetsMode
<1> HIDE DEF r
<1>4. EndsIn(r, m, v)
  BY DEF r, t
<1>5. PICK i \in 1 .. Len(r) : r[i].to = v /\ \A j \in 1 .. Len(r) : j > i => ~SetsMode(r[j])
  BY <1>3, <1>4 DEF EndsIn
<1>6. ~(Len(r) > i)
  BY <1>3, <1>5
<1>7. i = Len(r)
  BY <1>2, <1>6
<1> QED BY <1>3, <1>5, <1>7

(* Taking the first frame changes nothing of where the mode ends. *)
LEMMA TakingFrames ==
  ASSUME NEW s \in Seq(LearnFrames), s # <<>>, NEW m, NEW n, NEW v,
         n = (IF SetsMode(Head(s)) THEN Head(s).to ELSE m), EndsIn(Tail(s), n, v)
  PROVE  EndsIn(s, m, v)
<1>1. /\ Head(s) = s[1] /\ Len(s) \in Nat \ {0} /\ Len(Tail(s)) = Len(s) - 1
      /\ \A i \in 1 .. Len(Tail(s)) : Tail(s)[i] = s[i + 1]
  BY HeadTailProperties
<1>2. \A i \in 1 .. Len(s) : i = 1 \/ (i - 1 \in 1 .. Len(Tail(s)) /\ Tail(s)[i - 1] = s[i])
  BY <1>1
<1>3. ASSUME NEW i \in 1 .. Len(Tail(s)), SetsMode(Tail(s)[i]), Tail(s)[i].to = v,
             \A j \in 1 .. Len(Tail(s)) : j > i => ~SetsMode(Tail(s)[j])
      PROVE  EndsIn(s, m, v)
  <2>1. i + 1 \in 1 .. Len(s) /\ SetsMode(s[i + 1]) /\ s[i + 1].to = v
    BY <1>1, <1>3
  <2>2. ASSUME NEW j \in 1 .. Len(s), j > i + 1 PROVE ~SetsMode(s[j])
    <3>1. j # 1 /\ j - 1 > i
      BY <1>1, <2>2
    <3> QED BY <1>2, <1>3, <3>1
  <2> QED BY <2>1, <2>2 DEF EndsIn
<1>4. CASE n = v /\ \A i \in 1 .. Len(Tail(s)) : ~SetsMode(Tail(s)[i])
  <2>1. \A j \in 1 .. Len(s) : j > 1 => ~SetsMode(s[j])
    BY <1>1, <1>2, <1>4
  <2>2. 1 \in 1 .. Len(s)
    BY <1>1
  <2>3. CASE SetsMode(Head(s))
    BY <1>1, <1>4, <2>1, <2>2, <2>3 DEF EndsIn
  <2>4. CASE ~SetsMode(Head(s))
    <3>1. \A j \in 1 .. Len(s) : ~SetsMode(s[j])
      BY <1>1, <2>1, <2>4
    <3> QED BY <1>4, <2>4, <3>1 DEF EndsIn
  <2> QED BY <2>3, <2>4
<1> QED BY <1>3, <1>4 DEF EndsIn

LEMMA WithoutFacts ==
  ASSUME NEW S, NEW s \in Seq(S), NEW c, IsInjective(s)
  PROVE  /\ Without(s, c) \in Seq(S) /\ IsInjective(Without(s, c)) /\ ~Contains(Without(s, c), c)
         /\ \A x : Contains(Without(s, c), x) => Contains(s, x)
<1>1. CASE ~Contains(s, c)
  BY <1>1 DEF Without
<1>2. CASE Contains(s, c)
  <2> DEFINE p == CHOOSE i \in 1 .. Len(s) : s[i] = c
  <2>1. p \in 1 .. Len(s) /\ s[p] = c
    BY <1>2 DEF Contains
  <2>2. Without(s, c) = RemoveAt(s, p)
    BY <1>2 DEF Without
  <2> HIDE DEF p
  <2> QED BY <2>1, <2>2, RemoveAtFacts
<1> QED BY <1>1, <1>2

(* What a call's going to its next step leaves behind. *)
LEMMA MovesFacts ==
  ASSUME LearnTypeOK, WaitsForItsStep, NEW c \in Users, NEW s \in Steps,
         NEW rest \in Seq(LearnFrames), Moves(c, s, rest)
  PROVE  /\ step' \in [Users -> Steps] /\ step'[c] = s
         /\ \A d \in Users : d # c => step'[d] = step[d]
         /\ sent' \in Seq(LearnFrames)
         /\ sent' = IF hub = "closed" THEN rest ELSE rest \o FramesOf(s)
         /\ waiting' \in [Ops -> Seq(Users)]
         /\ WaitsForItsStep'
<1>1. /\ step' \in [Users -> Steps] /\ step'[c] = s
      /\ \A d \in Users : d # c => step'[d] = step[d]
  BY DEF LearnTypeOK, Moves
<1>2. FramesOf(s) \in Seq(LearnFrames)
  BY FramesAreFrames
<1>3. sent' = IF hub = "closed" THEN rest ELSE rest \o FramesOf(s)
  BY DEF Moves
<1>4. sent' \in Seq(LearnFrames)
  <2>1. rest \o FramesOf(s) \in Seq(LearnFrames)
    BY <1>2
  <2> QED BY <1>3, <2>1
<1>5. ASSUME NEW op \in Ops
      PROVE  /\ waiting'[op] \in Seq(Users) /\ IsInjective(waiting'[op])
             /\ \A d \in Users : Contains(waiting'[op], d) => op \in OpOf(step'[d])
  <2> DEFINE w == Without(waiting[op], c)
  <2>1. /\ w \in Seq(Users) /\ IsInjective(w) /\ ~Contains(w, c)
        /\ \A x : Contains(w, x) => Contains(waiting[op], x)
    <3>1. waiting[op] \in Seq(Users) /\ IsInjective(waiting[op])
      BY DEF LearnTypeOK, WaitsForItsStep
    <3> QED BY <3>1, WithoutFacts
  <2>2. \A d \in Users : Contains(w, d) => op \in OpOf(step'[d])
    BY <1>1, <2>1 DEF WaitsForItsStep
  <2>3. waiting'[op] = IF op \in OpOf(s) THEN Append(w, c) ELSE w
    BY DEF Moves
  <2> HIDE DEF w
  <2>4. CASE op \in OpOf(s)
    <3>1. /\ Append(w, c) \in Seq(Users) /\ IsInjective(Append(w, c))
          /\ \A x : Contains(Append(w, c), x) <=> Contains(w, x) \/ x = c
      BY <2>1, AppendFacts
    <3> QED BY <1>1, <2>2, <2>3, <2>4, <3>1
  <2>5. CASE op \notin OpOf(s)
    BY <2>1, <2>2, <2>3, <2>5
  <2> QED BY <2>4, <2>5
<1>6. waiting' \in [Ops -> Seq(Users)]
  <2>1. waiting' = [op \in Ops |-> waiting'[op]]
    BY DEF Moves
  <2> QED BY <1>5, <2>1
<1>7. WaitsForItsStep'
  BY <1>5 DEF WaitsForItsStep
<1> QED BY <1>1, <1>3, <1>4, <1>6, <1>7

LEMMA LearnInitInv == LearnInit => LearnInv
<1> SUFFICES ASSUME LearnInit PROVE LearnInv
  OBVIOUS
<1>1. LearnTypeOK
  BY DEF LearnInit, LearnTypeOK, Steps
<1>2. WaitsForItsStep
  BY DEF LearnInit, WaitsForItsStep, IsInjective, Contains
<1>3. ~EndsIn(sent, mode, "REGISTER")
  <2>1. sent = <<>> /\ Len(sent) = 0 /\ mode # "REGISTER"
    BY DEF LearnInit
  <2> QED BY <2>1 DEF EndsIn
<1> QED BY <1>1, <1>2, <1>3 DEF LearnInit, LearnInv

LEMMA BeginInv ==
  ASSUME LearnInv, NEW c \in Users, Begin(c)
  PROVE  LearnInv'
<1>1. Moves(c, "entering", sent) /\ hub' = hub /\ hub # "closed" /\ mode' = mode
  BY DEF Begin
<1>2. /\ step' \in [Users -> Steps] /\ step'[c] = "entering"
      /\ sent' \in Seq(LearnFrames) /\ waiting' \in [Ops -> Seq(Users)] /\ WaitsForItsStep'
  BY <1>1, MovesFacts DEF LearnInv, LearnTypeOK, Steps
<1>3. LearnTypeOK'
  BY <1>1, <1>2 DEF LearnInv, LearnTypeOK
<1>4. step'[c] \in Inside
  BY <1>2 DEF Inside
<1> QED BY <1>1, <1>2, <1>3, <1>4 DEF LearnInv

(* The reply to a request takes its call on, and an accepted one keeps it  *)
(* inside.                                                                 *)
LEMMA AfterReplyFacts ==
  ASSUME LearnTypeOK, NEW c \in Users, OpOf(step[c]) # {}, NEW ok \in BOOLEAN
  PROVE  /\ AfterReply(c, ok) \in Steps \ {"entering", "leaving"}
         /\ ok /\ step[c] \in Inside => AfterReply(c, ok) \in Inside
<1>1. step[c] \in {"entering", "subscribing", "leaving", "saving"}
  BY OpsOfSteps DEF LearnTypeOK, Steps
<1> QED BY <1>1 DEF AfterReply, Steps, Inside

LEMMA RequestFailsInv ==
  ASSUME LearnInv, NEW c \in Users, RequestFails(c)
  PROVE  LearnInv'
<1>1. Moves(c, AfterReply(c, FALSE), sent) /\ mode' = mode /\ lapsed' # {}
  BY DEF RequestFails
<1>2. AfterReply(c, FALSE) \in Steps
  BY AfterReplyFacts DEF RequestFails, LearnInv
<1>3. /\ step' \in [Users -> Steps] /\ sent' \in Seq(LearnFrames)
      /\ waiting' \in [Ops -> Seq(Users)] /\ WaitsForItsStep'
  BY <1>1, <1>2, MovesFacts DEF LearnInv, LearnTypeOK
<1>4. LearnTypeOK'
  BY <1>1, <1>3 DEF LearnInv, LearnTypeOK
<1> QED BY <1>1, <1>3, <1>4 DEF LearnInv

LEMMA LeaveInv ==
  ASSUME LearnInv, NEW c \in Users, step[c] = "listening", Leave(c),
         UNCHANGED <<mode, hub, lapsed>>
  PROVE  LearnInv'
<1>1. Moves(c, "leaving", sent)
  BY DEF Leave
<1>2. /\ step' \in [Users -> Steps]
      /\ sent' \in Seq(LearnFrames) /\ waiting' \in [Ops -> Seq(Users)] /\ WaitsForItsStep'
      /\ sent' = IF hub = "closed" THEN sent ELSE sent \o FramesOf("leaving")
  BY <1>1, MovesFacts DEF LearnInv, LearnTypeOK, Steps
<1>3. LearnTypeOK'
  BY <1>2 DEF LearnInv, LearnTypeOK
<1>4. ~(hub = "closed" /\ lapsed = {})
  <2>1. step[c] \notin Ended
    BY DEF Ended
  <2> QED BY <2>1 DEF LearnInv
<1>5. ~(lapsed = {} /\ EndsIn(sent', mode', "REGISTER"))
  <2> SUFFICES ASSUME lapsed = {}, EndsIn(sent', mode', "REGISTER") PROVE FALSE
    OBVIOUS
  <2>1. EndsIn(sent \o FramesOf("leaving"), mode, "REGISTER")
    BY <1>2, <1>4
  <2> QED BY <2>1, LeavingEndsInControl DEF LearnInv, LearnTypeOK
<1> QED BY <1>2, <1>3, <1>4, <1>5 DEF LearnInv

LEMMA ClosedInv ==
  ASSUME LearnInv, Closed, UNCHANGED <<step, waveform, sent, waiting, mode>>
  PROVE  LearnInv'
<1>1. lapsed' = {} => lapsed = {} /\ \A c \in Users : step[c] \in Ended
  BY DEF Closed
<1>2. LearnTypeOK' /\ WaitsForItsStep'
  BY DEF LearnInv, LearnTypeOK, WaitsForItsStep
<1>3. EndsIn(sent, mode, "REGISTER")' => EndsIn(sent, mode, "REGISTER")
  BY DEF EndsIn
<1> QED BY <1>1, <1>2, <1>3 DEF LearnInv

LEMMA ServeInv ==
  ASSUME LearnInv, Serve
  PROVE  LearnInv'
<1>1. PICK ok \in BOOLEAN, replied \in BOOLEAN :
        LET f == Head(sent)
            asked == IF f.op \in Ops THEN waiting[f.op] ELSE <<>>
        IN /\ mode' = IF ok /\ f.op = "setIRMode" THEN f.to ELSE mode
           /\ IF replied /\ asked # <<>> /\ hub # "closed"
              THEN Moves(Head(asked), AfterReply(Head(asked), ok), Tail(sent))
              ELSE sent' = Tail(sent) /\ UNCHANGED <<step, waiting>>
           /\ lapsed' = lapsed \cup {x \in {"request"} : ~ok \/ (~replied /\ hub # "closed")}
  BY DEF Serve
<1> DEFINE f == Head(sent)
           asked == IF f.op \in Ops THEN waiting[f.op] ELSE <<>>
<1>2. sent \in Seq(LearnFrames) /\ sent # <<>> /\ f \in LearnFrames /\ Tail(sent) \in Seq(LearnFrames)
  BY HeadTailProperties DEF LearnInv, LearnTypeOK, Serve
<1>3. hub' = hub
  BY DEF Serve
<1>4. mode' \in {"CONTROL", "REGISTER"}
  <2>1. mode' = IF ok /\ f.op = "setIRMode" THEN f.to ELSE mode
    BY <1>1
  <2>2. f.op = "setIRMode" => f.to \in {"CONTROL", "REGISTER"}
    <3> HIDE DEF f
    <3> QED BY <1>2 DEF LearnFrames
  <2>3. mode \in {"CONTROL", "REGISTER"}
    BY DEF LearnInv, LearnTypeOK
  <2> HIDE DEF f
  <2> QED BY <2>1, <2>2, <2>3
<1>5. lapsed' = {} => lapsed = {} /\ ok
  BY <1>1
<1>6. ASSUME lapsed' = {}, EndsIn(Tail(sent), mode', "REGISTER")
      PROVE  \E c \in Users : step[c] \in Inside
  <2>1. mode' = (IF SetsMode(Head(sent)) THEN Head(sent).to ELSE mode)
    BY <1>1, <1>5, <1>6 DEF SetsMode
  <2>2. EndsIn(sent, mode, "REGISTER")
    BY <1>2, <1>6, <2>1, TakingFrames
  <2> QED BY <1>5, <1>6, <2>2 DEF LearnInv
<1>7. CASE replied /\ asked # <<>> /\ hub # "closed"
  <2> DEFINE c == Head(asked)
             s == AfterReply(c, ok)
  <2>1. Moves(c, s, Tail(sent))
    BY <1>1, <1>7
  <2>2. f.op \in Ops /\ c \in Users /\ f.op \in OpOf(step[c])
    <3>1. f.op \in Ops /\ asked = waiting[f.op] /\ waiting[f.op] \in Seq(Users)
      BY <1>7 DEF LearnInv, LearnTypeOK
    <3> HIDE DEF asked
    <3>2. c \in Users /\ 1 \in 1 .. Len(asked) /\ asked[1] = c
      BY <1>7, <3>1, HeadTailProperties
    <3>3. Contains(waiting[f.op], c)
      BY <3>1, <3>2 DEF Contains
    <3> QED BY <3>1, <3>2, <3>3 DEF LearnInv, WaitsForItsStep
  <2>3. s \in Steps \ {"entering", "leaving"} /\ (ok /\ step[c] \in Inside => s \in Inside)
    BY <2>2, AfterReplyFacts DEF LearnInv
  <2> HIDE DEF c, s, f, asked
  <2>4. /\ step' \in [Users -> Steps] /\ step'[c] = s
        /\ \A d \in Users : d # c => step'[d] = step[d]
        /\ sent' \in Seq(LearnFrames) /\ waiting' \in [Ops -> Seq(Users)] /\ WaitsForItsStep'
        /\ sent' = IF hub = "closed" THEN Tail(sent) ELSE Tail(sent) \o FramesOf(s)
    BY <1>2, <2>1, <2>2, <2>3, MovesFacts DEF LearnInv
  <2>5. LearnTypeOK'
    BY <1>4, <2>4 DEF LearnTypeOK
  <2>6. ASSUME lapsed' = {}, EndsIn(sent', mode', "REGISTER")
        PROVE  \E d \in Users : step'[d] \in Inside
    <3>1. EndsIn(Tail(sent) \o FramesOf(s), mode', "REGISTER")
      BY <1>7, <2>4, <2>6
    <3>2. /\ FramesOf(s) \in Seq(LearnFrames)
          /\ \A i \in 1 .. Len(FramesOf(s)) : ~SetsMode(FramesOf(s)[i])
      BY <2>3, FramesAreFrames
    <3>3. EndsIn(Tail(sent), mode', "REGISTER")
      BY <1>2, <3>1, <3>2, QuietFrames
    <3>4. PICK d \in Users : step[d] \in Inside
      BY <1>6, <2>6, <3>3
    <3> QED BY <1>5, <2>2, <2>3, <2>4, <2>6, <3>4
  <2>7. ~(hub' = "closed")
    BY <1>3, <1>7
  <2> QED BY <2>4, <2>5, <2>6, <2>7 DEF LearnInv
<1>8. CASE ~(replied /\ asked # <<>> /\ hub # "closed")
  <2>1. sent' = Tail(sent) /\ step' = step /\ waiting' = waiting
    BY <1>1, <1>8
  <2>2. LearnTypeOK'
    BY <1>2, <1>4, <2>1 DEF LearnInv, LearnTypeOK
  <2>3. WaitsForItsStep'
    BY <2>1 DEF LearnInv, WaitsForItsStep
  <2>4. lapsed' = {} /\ EndsIn(sent', mode', "REGISTER") => \E c \in Users : step'[c] \in Inside
    BY <1>6, <2>1
  <2>5. hub' = "closed" /\ lapsed' = {} => \A c \in Users : step'[c] \in Ended
    BY <1>3, <1>5, <2>1 DEF LearnInv
  <2> QED BY <2>2, <2>3, <2>4, <2>5 DEF LearnInv
<1> QED BY <1>7, <1>8

LEMMA LearnStepInv == LearnInv /\ [LearnNext]_learnVars => LearnInv'
<1> SUFFICES ASSUME LearnInv, [LearnNext]_learnVars PROVE LearnInv'
  OBVIOUS
<1>1. ASSUME NEW c \in Users, Begin(c) PROVE LearnInv'
  BY <1>1, BeginInv
<1>2. ASSUME NEW c \in Users, RequestFails(c) PROVE LearnInv'
  BY <1>2, RequestFailsInv
<1>3. ASSUME NEW c \in Users, Captures(c) \/ LearnTimesOut(c) \/ CleansUp(c) PROVE LearnInv'
  <2>1. step[c] = "listening" /\ Leave(c) /\ UNCHANGED <<mode, hub, lapsed>>
    BY <1>3 DEF Captures, LearnTimesOut, CleansUp
  <2> QED BY <2>1, LeaveInv
<1>4. CASE Serve
  BY <1>4, ServeInv
<1>5. ASSUME UNCHANGED <<step, sent, waiting, mode, lapsed>>, hub' # "closed" \/ hub' = hub
      PROVE  LearnInv'
  <2>1. LearnTypeOK' /\ WaitsForItsStep'
    BY <1>5 DEF LearnInv, LearnTypeOK, WaitsForItsStep
  <2>2. EndsIn(sent, mode, "REGISTER")' => EndsIn(sent, mode, "REGISTER")
    BY <1>5 DEF EndsIn
  <2> QED BY <1>5, <2>1, <2>2 DEF LearnInv
<1>6. CASE CloseHub
  <2>1. CASE awaited' = {}
    BY <1>6, <2>1, ClosedInv DEF CloseHub
  <2>2. CASE awaited' # {}
    BY <1>5, <1>6, <2>2 DEF CloseHub
  <2> QED BY <2>1, <2>2
<1>7. CASE CloseEnds
  BY <1>7, ClosedInv DEF CloseEnds
<1>8. CASE UNCHANGED learnVars
  BY <1>5, <1>8 DEF learnVars
<1> QED BY <1>1, <1>2, <1>3, <1>4, <1>6, <1>7, <1>8 DEF LearnNext

(* However calls of learnIRKey (ir.js) and onIRLearned (client.js)         *)
(* overlap, and whatever their users press: once all have ended and the    *)
(* cloud has taken their frames, the Hub3 sends codes again, unless a      *)
(* request failed or close() came amid.                                    *)
THEOREM LearningRestoresTheMode == LearnSpec => []ModeRestored
<1>1. LearnInv => ModeRestored
  <2> SUFFICES ASSUME LearnInv, Quiet, lapsed = {}, mode # "CONTROL" PROVE FALSE
    BY DEF ModeRestored
  <2>1. EndsIn(sent, mode, "REGISTER")
    <3>1. mode = "REGISTER" /\ sent = <<>> /\ Len(sent) = 0
      BY DEF LearnInv, LearnTypeOK, Quiet
    <3> QED BY <3>1 DEF EndsIn
  <2>2. PICK c \in Users : step[c] \in Inside
    BY <2>1 DEF LearnInv
  <2> QED BY <2>2 DEF Quiet, Inside, Ended
<1> QED BY <1>1, LearnInitInv, LearnStepInv, PTL DEF LearnSpec

-----------------------------------------------------------------------------
(* Learners and listeners that overlap take the mode, or the subscription, *)
(* from each other.  One at a time does hear its Hub3.                     *)
OneLearns == \A c, d \in Users : step[c] \notin Ended /\ step[d] \notin Ended => c = d

ToMode(m) == [op |-> "setIRMode", to |-> m]
Op(op) == [op |-> op]

(* What the cloud has yet to take, and how the Hub3 is, at each step.      *)
AtStep(s) ==
  /\ s = "entering" => sent = <<ToMode("REGISTER")>>
  /\ s = "subscribing" => sent = <<Op("subscribeIRData")>> /\ mode = "REGISTER"
  /\ s = "listening" => sent = <<>> /\ mode = "REGISTER" /\ subscribed
  /\ s = "leaving" => sent \in {<<Op("unsubscribeIRData"), ToMode("CONTROL")>>, <<ToMode("CONTROL")>>}
  /\ s = "saving" => sent = <<Op("addIRCode")>>

Follows ==
  lapsed = {} =>
    /\ \A c \in Users : /\ AtStep(step[c])
                        /\ \A op \in OpOf(step[c]) : Contains(waiting[op], c)
    /\ (\A c \in Users : step[c] \in Ended) => sent = <<>>

(* The one call goes to step s. *)
LEMMA FollowsMove ==
  ASSUME LearnInv, OneLearns, OneLearns', NEW c \in Users, NEW s \in Steps,
         NEW rest \in Seq(LearnFrames), Moves(c, s, rest), AtStep(s)',
         step[c] \in Ended => s \notin Ended,
         s \in Ended => sent' = <<>>
  PROVE  Follows'
<1>1. step'[c] = s /\ \A d \in Users : d # c => step'[d] = step[d]
  BY MovesFacts DEF LearnInv
<1>2. \A op \in OpOf(s) : op \in Ops /\ Contains(waiting'[op], c)
  <2> SUFFICES ASSUME NEW op \in OpOf(s) PROVE op \in Ops /\ Contains(waiting'[op], c)
    OBVIOUS
  <2>1. op \in Ops
    BY DEF OpOf, Ops
  <2>2. Without(waiting[op], c) \in Seq(Users) /\ IsInjective(Without(waiting[op], c))
    BY <2>1, WithoutFacts DEF LearnInv, LearnTypeOK, WaitsForItsStep
  <2>3. waiting'[op] = Append(Without(waiting[op], c), c)
    BY <2>1 DEF Moves
  <2>4. Contains(waiting'[op], c)
    BY <2>2, <2>3, AppendProperties DEF Contains
  <2> QED BY <2>1, <2>4
<1>3. \A d \in Users : d # c => step'[d] \in Ended
  <2> SUFFICES ASSUME NEW d \in Users, d # c, step'[d] \notin Ended PROVE FALSE
    OBVIOUS
  <2>1. step[d] \notin Ended
    BY <1>1
  <2>2. step[c] \in Ended
    BY <2>1 DEF OneLearns
  <2>3. step'[c] \notin Ended
    BY <1>1, <2>2
  <2> QED BY <2>3 DEF OneLearns
<1>4. \A t \in Ended : AtStep(t)' /\ OpOf(t) = {}
  BY OpsOfSteps DEF AtStep, Ended
<1>5. \A d \in Users : AtStep(step[d])'
  <2> SUFFICES ASSUME NEW d \in Users PROVE AtStep(step[d])'
    OBVIOUS
  <2>1. CASE d = c
    BY <1>1, <2>1 DEF AtStep
  <2>2. CASE d # c
    BY <1>3, <2>2 DEF AtStep, Ended
  <2> QED BY <2>1, <2>2
<1>6. \A d \in Users : \A op \in OpOf(step'[d]) : Contains(waiting'[op], d)
  BY <1>1, <1>2, <1>3, <1>4
<1> QED BY <1>1, <1>5, <1>6 DEF Follows

LEMMA FollowsServe ==
  ASSUME LearnInv, OneLearns, OneLearns', Follows, Serve
  PROVE  Follows'
<1> SUFFICES ASSUME lapsed' = {} PROVE Follows'
  BY DEF Follows
<1>1. lapsed = {} /\ sent # <<>>
  BY DEF Serve
<1>2. PICK c \in Users : step[c] \notin Ended
  BY <1>1 DEF Follows
<1>3. hub # "closed"
  BY <1>1, <1>2 DEF LearnInv
<1> DEFINE f == Head(sent)
           asked == IF f.op \in Ops THEN waiting[f.op] ELSE <<>>
<1>4. /\ mode' = IF f.op = "setIRMode" THEN f.to ELSE mode
      /\ subscribed' = (f.op = "subscribeIRData" \/ (subscribed /\ f.op # "unsubscribeIRData"))
      /\ IF asked # <<>> THEN Moves(Head(asked), AfterReply(Head(asked), TRUE), Tail(sent))
                         ELSE sent' = Tail(sent) /\ UNCHANGED <<step, waiting>>
  BY <1>1, <1>3 DEF Serve
<1>5. Tail(sent) \in Seq(LearnFrames)
  BY <1>1 DEF LearnInv, LearnTypeOK
<1>6. ASSUME NEW op \in OpOf(step[c]) PROVE waiting[op] # <<>> /\ Head(waiting[op]) = c
  <2>1. op \in Ops
    BY DEF OpOf, Ops
  <2>2. Contains(waiting[op], c) /\ waiting[op] \in Seq(Users)
    BY <1>1, <2>1 DEF Follows, LearnInv, LearnTypeOK
  <2>3. 1 \in 1 .. Len(waiting[op]) /\ waiting[op] # <<>> /\ Head(waiting[op]) = waiting[op][1]
    BY <2>2 DEF Contains
  <2>4. Head(waiting[op]) \in Users /\ Contains(waiting[op], Head(waiting[op]))
    BY <2>2, <2>3 DEF Contains
  <2>5. op \in OpOf(step[Head(waiting[op])])
    BY <2>1, <2>4 DEF LearnInv, WaitsForItsStep
  <2>6. step[Head(waiting[op])] \notin Ended
    BY <2>5, OpsOfSteps DEF Ended
  <2> QED BY <1>2, <2>3, <2>4, <2>6 DEF OneLearns
<1>7. step[c] \in Steps /\ AtStep(step[c])
  BY <1>1 DEF Follows, LearnInv, LearnTypeOK
<1>8. CASE step[c] = "entering"
  <2>0. sent = <<ToMode("REGISTER")>>
    BY <1>7, <1>8 DEF AtStep
  <2>1. f.op = "setIRMode" /\ f.to = "REGISTER" /\ Tail(sent) = <<>>
    BY <2>0 DEF ToMode
  <2>2. "setIRMode" \in OpOf(step[c]) /\ "setIRMode" \in Ops
    BY <1>8, OpsOfSteps DEF Ops
  <2>3. Moves(c, "subscribing", <<>>) /\ mode' = "REGISTER"
    BY <1>4, <1>6, <1>8, <2>1, <2>2 DEF AfterReply
  <2>4. sent' = <<Op("subscribeIRData")>>
    BY <1>3, <2>3, FramesOfSteps DEF Moves, Op
  <2>5. AtStep("subscribing")'
    BY <2>3, <2>4 DEF AtStep
  <2> QED BY <1>2, <1>5, <2>1, <2>3, <2>5, FollowsMove DEF Steps, Ended
<1>9. CASE step[c] = "subscribing"
  <2>0. sent = <<Op("subscribeIRData")>> /\ mode = "REGISTER"
    BY <1>7, <1>9 DEF AtStep
  <2>1. f.op = "subscribeIRData" /\ Tail(sent) = <<>> /\ mode = "REGISTER"
    BY <2>0 DEF Op
  <2>2. "subscribeIRData" \in OpOf(step[c]) /\ "subscribeIRData" \in Ops
    BY <1>9, OpsOfSteps DEF Ops
  <2>3. Moves(c, "listening", <<>>) /\ mode' = "REGISTER" /\ subscribed'
    BY <1>4, <1>6, <1>9, <2>1, <2>2 DEF AfterReply
  <2>4. sent' = <<>>
    BY <1>3, <2>3, FramesOfSteps DEF Moves
  <2>5. AtStep("listening")'
    BY <2>3, <2>4 DEF AtStep
  <2> QED BY <1>2, <1>5, <2>1, <2>3, <2>5, FollowsMove DEF Steps, Ended
<1>10. CASE step[c] = "leaving"
  <2>1. CASE sent = <<Op("unsubscribeIRData"), ToMode("CONTROL")>>
    <3>1. f.op = "unsubscribeIRData" /\ f.op \notin Ops /\ Tail(sent) = <<ToMode("CONTROL")>>
      BY <2>1 DEF Op, Ops
    <3>2. sent' = <<ToMode("CONTROL")>> /\ UNCHANGED <<step, waiting>>
      BY <1>4, <3>1
    <3>3. \A d \in Users : d # c => step[d] \in Ended
      BY <1>2 DEF OneLearns
    <3>4. \A d \in Users : AtStep(step[d])'
      BY <1>10, <3>2, <3>3 DEF AtStep, Ended
    <3> QED BY <1>1, <1>2, <3>2, <3>4 DEF Follows
  <2>2. CASE sent = <<ToMode("CONTROL")>>
    <3>1. f.op = "setIRMode" /\ Tail(sent) = <<>>
      BY <2>2 DEF ToMode
    <3>2. "setIRMode" \in OpOf(step[c]) /\ "setIRMode" \in Ops
      BY <1>10, OpsOfSteps DEF Ops
    <3>3. PICK s \in {"done", "saving", "failed"} : Moves(c, s, <<>>)
      BY <1>4, <1>6, <1>10, <3>1, <3>2 DEF AfterReply
    <3>4. sent' = IF s = "saving" THEN <<Op("addIRCode")>> ELSE <<>>
      BY <1>3, <3>3, FramesOfSteps DEF Moves, Op
    <3>5. AtStep(s)' /\ (s \in Ended => sent' = <<>>)
      BY <3>4 DEF AtStep, Ended
    <3> QED BY <1>2, <1>5, <3>1, <3>3, <3>5, FollowsMove DEF Steps
  <2> QED BY <1>7, <1>10, <2>1, <2>2 DEF AtStep
<1>11. CASE step[c] = "saving"
  <2>0. sent = <<Op("addIRCode")>>
    BY <1>7, <1>11 DEF AtStep
  <2>1. f.op = "addIRCode" /\ Tail(sent) = <<>>
    BY <2>0 DEF Op
  <2>2. "addIRCode" \in OpOf(step[c]) /\ "addIRCode" \in Ops
    BY <1>11, OpsOfSteps DEF Ops
  <2>3. Moves(c, "done", <<>>)
    BY <1>4, <1>6, <1>11, <2>1, <2>2 DEF AfterReply
  <2>4. sent' = <<>>
    BY <1>3, <2>3, FramesOfSteps DEF Moves
  <2>5. AtStep("done")'
    BY DEF AtStep
  <2> QED BY <1>2, <1>5, <2>1, <2>3, <2>4, <2>5, FollowsMove DEF Steps
<1>12. CASE step[c] = "listening"
  BY <1>1, <1>7, <1>12 DEF AtStep
<1> QED BY <1>2, <1>7, <1>8, <1>9, <1>10, <1>11, <1>12 DEF Steps, Ended

LEMMA FollowsStep ==
  LearnInv /\ OneLearns /\ OneLearns' /\ Follows /\ [LearnNext]_learnVars => Follows'
<1> SUFFICES ASSUME LearnInv, OneLearns, OneLearns', Follows, [LearnNext]_learnVars, lapsed' = {}
             PROVE  Follows'
  BY DEF Follows
<1>1. ASSUME NEW c \in Users, Begin(c) PROVE Follows'
  <2>1. step[c] = "idle" /\ hub # "closed" /\ Moves(c, "entering", sent) /\ lapsed = {}
    BY <1>1 DEF Begin
  <2>2. step'[c] = "entering" /\ \A d \in Users : d # c => step'[d] = step[d]
    BY <2>1, MovesFacts DEF LearnInv, LearnTypeOK, Steps
  <2>3. \A d \in Users : step[d] \in Ended
    BY <2>1, <2>2 DEF OneLearns, Ended
  <2>4. sent = <<>>
    BY <2>1, <2>3 DEF Follows
  <2>5. sent' = <<ToMode("REGISTER")>>
    BY <2>1, <2>4, FramesOfSteps DEF Moves, ToMode
  <2>6. AtStep("entering")'
    BY <2>5 DEF AtStep
  <2> QED BY <2>1, <2>6, FollowsMove DEF LearnInv, LearnTypeOK, Steps, Ended
<1>2. ASSUME NEW c \in Users, RequestFails(c) PROVE Follows'
  BY <1>2 DEF RequestFails
<1>3. ASSUME NEW c \in Users, Captures(c) \/ LearnTimesOut(c) \/ CleansUp(c) PROVE Follows'
  <2>1. step[c] = "listening" /\ Moves(c, "leaving", sent) /\ lapsed = {}
    BY <1>3 DEF Captures, LearnTimesOut, CleansUp, Leave
  <2>2. sent = <<>> /\ hub # "closed"
    BY <2>1 DEF Follows, AtStep, LearnInv, Ended
  <2>3. sent' = <<Op("unsubscribeIRData"), ToMode("CONTROL")>>
    BY <2>1, <2>2, FramesOfSteps DEF Moves, Op, ToMode
  <2>4. AtStep("leaving")'
    BY <2>3 DEF AtStep
  <2> QED BY <2>1, <2>4, FollowsMove DEF LearnInv, LearnTypeOK, Steps, Ended
<1>4. CASE Serve
  BY <1>4, FollowsServe
<1>5. ASSUME UNCHANGED <<step, sent, waiting, mode>>, lapsed = {},
             subscribed' = subscribed \/ \A c \in Users : step[c] \in Ended
      PROVE  Follows'
  BY <1>5 DEF Follows, AtStep, Ended
<1>6. CASE Closed /\ UNCHANGED <<step, sent, waiting, mode>>
  <2>1. lapsed = {} /\ \A c \in Users : step[c] \in Ended
    BY <1>6 DEF Closed
  <2> QED BY <1>5, <1>6, <2>1
<1>7. CASE CloseHub \/ CloseEnds \/ UNCHANGED learnVars
  BY <1>5, <1>6, <1>7 DEF CloseHub, CloseEnds, learnVars
<1> QED BY <1>1, <1>2, <1>3, <1>4, <1>7 DEF LearnNext

(* If calls of learnIRKey and onIRLearned follow one another: while one    *)
(* waits for a button, the Hub3 is learning and its waveforms are passed   *)
(* on, unless a request failed.                                            *)
THEOREM OneListenerIsHeard == LearnSpec /\ []OneLearns => []ListeningIsHeard
<1>1. LearnInit => Follows
  BY OpsOfSteps DEF LearnInit, Follows, AtStep
<1>2. Follows => ListeningIsHeard
  BY DEF Follows, AtStep, ListeningIsHeard
<1> QED BY <1>1, <1>2, FollowsStep, LearnInitInv, LearnStepInv, PTL DEF LearnSpec
=============================================================================
