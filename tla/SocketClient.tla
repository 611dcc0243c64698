----------------------------- MODULE SocketClient -----------------------------
(***************************************************************************)
(* A program that talks to the serve daemon over its Unix socket with      *)
(* StreamTransport of packages/kit/clients/js/sesame-client.mjs, which     *)
(* closes an idle connection of its own accord so that a program that      *)
(* forgets close() can end.                                                *)
(*                                                                         *)
(* An action is a callback with the continuations it runs; the program may *)
(* make a request in any of them or later.  A connection under way is an   *)
(* open one, as lines written to it are kept.  Lines arrive in order       *)
(* (LineConn), and events are left out.                                    *)
(***************************************************************************)

CONSTANTS
  Asks,          \* requests, made once each
  Subscriptions  \* those that are made by subscribe()

ASSUME AskAssumption == Subscriptions \subseteq Asks

VARIABLES
  sock,        \* "open", "lost", or destroyed: "closed" by the user, "idled" by the client
  ref,         \* whether the socket keeps the process alive
  fatal,       \* _fatal
  subscribed,  \* _subscribed
  idle,        \* _idleClose: whether the check for idleness is due
  ask,         \* what became of each request
  written      \* the requests that were written on an open connection

clientVars == <<sock, ref, fatal, subscribed, idle, ask, written>>

Pending == {a \in Asks : ask[a] = "pending"}

ClientTypeOK ==
  /\ sock \in {"open", "lost", "closed", "idled"}
  /\ ref \in BOOLEAN /\ fatal \in BOOLEAN /\ subscribed \in BOOLEAN /\ idle \in BOOLEAN
  /\ ask \in [Asks -> {"unmade", "pending", "answered", "refused", "failed"}]
  /\ written \subseteq Asks

ClientInit ==
  /\ sock = "open" /\ ref = TRUE /\ idle = TRUE
  /\ fatal = FALSE /\ subscribed = FALSE
  /\ ask = [a \in Asks |-> "unmade"]
  /\ written = {}

(* Nobody uses the connection. *)
UnsubscribedIsIdle == sock \notin {"closed", "idled"} /\ ~subscribed  \* faulty
Idle == sock \notin {"closed", "idled"} /\ ~subscribed /\ Pending = {}

ScheduleIdleClose ==
  IF Idle' THEN ref' = FALSE /\ idle' = TRUE ELSE UNCHANGED <<ref, idle>>

(* Requests end; a subscription among them that fails is no subscription.  *)
Finish(asks, outcome) ==
  /\ ask' = [a \in Asks |-> IF a \in asks THEN outcome ELSE ask[a]]
  /\ subscribed' = (subscribed /\ ~(outcome = "failed" /\ asks \cap Subscriptions # {}))
  /\ ScheduleIdleClose

-----------------------------------------------------------------------------
(* request() and subscribe(). *)
Request(a) ==
  /\ ask[a] = "unmade"
  /\ UNCHANGED <<sock, fatal>>
  /\ IF fatal
     THEN /\ Finish({a}, "failed")
          /\ UNCHANGED written
     ELSE /\ ask' = [ask EXCEPT ![a] = "pending"]
          /\ subscribed' = (subscribed \/ a \in Subscriptions)
          /\ ref' = TRUE /\ idle' = FALSE
          /\ written' = IF sock = "open" THEN written \cup {a} ELSE written

(* routeMessage.  An error is an answer too, for which call() throws. *)
AnswerArrives(a, outcome) ==
  /\ a \in Pending \cap written /\ sock = "open"
  /\ UNCHANGED <<sock, fatal, written>>
  /\ Finish({a}, outcome)

TimesOutUnscheduled(a) ==  \* faulty: only an answer makes the client look for idleness
  /\ a \in Pending
  /\ ask' = [ask EXCEPT ![a] = "failed"]
  /\ subscribed' = (subscribed /\ a \notin Subscriptions)
  /\ UNCHANGED <<sock, ref, fatal, idle, written>>

AskTimesOut(a) ==
  /\ a \in Pending
  /\ UNCHANGED <<sock, fatal, written>>
  /\ Finish({a}, "failed")

(* The socket's "error" fails what is pending; its end goes unnoticed. *)
SocketError ==
  /\ sock = "open"
  /\ sock' = "lost" /\ fatal' = TRUE
  /\ Finish(Pending, "failed")
  /\ UNCHANGED written

SocketEnds ==
  /\ sock = "open" /\ sock' = "lost"
  /\ UNCHANGED <<ref, fatal, subscribed, idle, ask, written>>

IdleCloses ==
  /\ idle /\ idle' = FALSE
  /\ sock' = IF Idle THEN "idled" ELSE sock
  /\ UNCHANGED <<ref, fatal, subscribed, ask, written>>

UserCloses ==
  /\ sock' = "closed" /\ idle' = FALSE
  /\ UNCHANGED <<ref, fatal, subscribed, ask, written>>

ClientNext ==
  \/ \E a \in Asks : \/ Request(a) \/ AskTimesOut(a)
                     \/ \E outcome \in {"answered", "refused"} : AnswerArrives(a, outcome)
  \/ SocketError \/ SocketEnds \/ IdleCloses \/ UserCloses

(* Node.js runs what was given to setImmediate and setTimeout. *)
ClientFairness == WF_clientVars(IdleCloses) /\ \A a \in Asks : WF_clientVars(AskTimesOut(a))

ClientSpec == ClientInit /\ [][ClientNext]_clientVars /\ ClientFairness

-----------------------------------------------------------------------------
Subscribed == {a \in Subscriptions : ask[a] = "answered"}

(* The process cannot end: for the socket, or the timer of a request.      *)
HeldUp == (sock = "open" /\ ref) \/ Pending # {}

(* Of a client that makes at most one subscription: closing for idleness   *)
(* takes the connection neither from a request that was written to it nor  *)
(* from the subscription, whichever ends meanwhile.  With two it is not    *)
(* true: one that fails clears _subscribed, and the client closes under    *)
(* the other.                                                              *)
IdleSparesUsers == sock = "idled" => Pending \cap written = {} /\ Subscribed = {}

(* A program that asks for nothing more, and is not subscribed, is not     *)
(* kept from ending by a client it forgot to close().                      *)
IdleLetsGo == <>[]~subscribed => <>[]~HeldUp

(* Hoped for: that whoever has no subscription ends, also when subscribe() *)
(* was refused.                                                            *)
RefusalLetsGo == <>[](Subscribed = {}) => <>[]~HeldUp

(* Hoped for: that only close() makes a client useless.                    *)
IdleClientServes == sock = "idled" => Pending = {}

(* Hoped for: that who waits for an answer has somebody to give it.        *)
LossIsReported == sock = "lost" => Pending = {}
=============================================================================
