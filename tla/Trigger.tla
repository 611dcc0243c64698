------------------------------- MODULE Trigger -------------------------------
(***************************************************************************)
(* The commands to locks over the cloud: dispatchTrigger of                *)
(* packages/core/src/lock.js, by which lock, unlock, toggle, click and     *)
(* every other item command is sent.                                       *)
(*                                                                         *)
(* All of them wait under one key of the transport, in the order they were *)
(* sent; the cloud acknowledges in that order, and an acknowledgement says *)
(* nothing of what it acknowledges.  A push of a changed state tells of    *)
(* one lock, or does not say of which.                                     *)
(***************************************************************************)
EXTENDS Naturals, Sequences, SequencesExt

CONSTANTS
  Triggers,   \* calls of dispatchTrigger
  Targets     \* the locks

ASSUME TriggersAssumption == Triggers \cap {"none", "push", "error"} = {}

VARIABLES
  trigger,   \* what became of each call: "idle", "waiting", "done" or "failed"
  target,    \* the lock it is for
  fifo,      \* the calls whose request waits in the transport, oldest first
  unacked,   \* the calls that the cloud has not acknowledged, oldest first
  settledBy, \* what settled it: a call whose acknowledgement it was, or "none", "push" or "error"
  online,    \* getStatus() is "open"
  adrift     \* whether the requests that wait may be others than those to be acknowledged

triggerVars == <<trigger, target, fifo, unacked, settledBy, online, adrift>>

TriggerInit ==
  /\ trigger = [t \in Triggers |-> "idle"] /\ target \in [Triggers -> Targets]
  /\ fifo = <<>> /\ unacked = <<>>
  /\ settledBy = [t \in Triggers |-> "none"]
  /\ online = TRUE /\ adrift = FALSE

(* succeed() and fail(): the first of them counts. *)
Settled(t, outcome, by) ==
  IF trigger[t] = "waiting"
  THEN /\ trigger' = [trigger EXCEPT ![t] = outcome]
       /\ settledBy' = [settledBy EXCEPT ![t] = by]
  ELSE UNCHANGED <<trigger, settledBy>>

SendTrigger(t) ==
  /\ trigger[t] = "idle"
  /\ IF online
     THEN /\ trigger' = [trigger EXCEPT ![t] = "waiting"]
          /\ fifo' = Append(fifo, t) /\ unacked' = Append(unacked, t)
     ELSE trigger' = [trigger EXCEPT ![t] = "failed"] /\ UNCHANGED <<fifo, unacked>>
  /\ UNCHANGED <<target, settledBy, online, adrift>>

(* An acknowledgement, of success or not, resolves the oldest request.     *)
Acked ==
  /\ unacked # <<>> /\ online
  /\ unacked' = Tail(unacked)
  /\ IF fifo = <<>> THEN UNCHANGED <<trigger, settledBy, fifo>>
     ELSE /\ fifo' = Tail(fifo)
          /\ \E outcome \in {"done", "failed"} : Settled(Head(fifo), outcome, Head(unacked))
  /\ UNCHANGED <<target, online, adrift>>

(* A push of lock d, or of one it does not name, resolves every call for   *)
(* it.  Their requests go on waiting, each for its acknowledgement.        *)
Resolved(ts) ==
  /\ trigger' = [t \in Triggers |-> IF t \in ts THEN "done" ELSE trigger[t]]
  /\ settledBy' = [t \in Triggers |-> IF t \in ts THEN "push" ELSE settledBy[t]]

ResolveAndForget(ts) ==  \* faulty: what a push resolved waits no longer
  Resolved(ts) /\ fifo' = SelectSeq(fifo, LAMBDA t : t \notin ts)

ResolveOnly(ts) == Resolved(ts) /\ UNCHANGED fifo

Pushed(ds) ==
  /\ online
  /\ ResolveOnly({t \in Triggers : trigger[t] = "waiting" /\ target[t] \in ds})
  /\ UNCHANGED <<target, unacked, online, adrift>>

TimesOut(t) ==
  /\ \E i \in 1 .. Len(fifo) : fifo[i] = t /\ fifo' = RemoveAt(fifo, i)
  /\ Settled(t, "failed", "error")
  /\ adrift' = TRUE
  /\ UNCHANGED <<target, unacked, online>>

(* The socket reports its end, or the client is closed: all that waits     *)
(* fails.                                                                  *)
ConnectionLost ==
  /\ online' = FALSE /\ unacked' = <<>> /\ fifo' = <<>>
  /\ trigger' = [t \in Triggers |-> IF trigger[t] = "waiting" THEN "failed" ELSE trigger[t]]
  /\ settledBy' = [t \in Triggers |-> IF trigger[t] = "waiting" THEN "error" ELSE settledBy[t]]
  /\ adrift' = FALSE
  /\ UNCHANGED target

(* The transport gives the socket up itself (idle, pong time-out, wake-up):*)
(* nobody hears it any more, and what waited on it goes on waiting.        *)
ConnectionReplaced ==
  /\ online
  /\ online' = FALSE /\ unacked' = <<>>
  /\ adrift' = (fifo # <<>>)
  /\ UNCHANGED <<trigger, target, fifo, settledBy>>

ConnectionBack == ~online /\ online' = TRUE /\ UNCHANGED <<trigger, target, fifo, unacked, settledBy, adrift>>

TriggerNext ==
  \/ \E t \in Triggers : SendTrigger(t) \/ TimesOut(t)
  \/ Acked \/ ConnectionLost \/ ConnectionReplaced \/ ConnectionBack
  \/ Pushed(Targets) \/ \E d \in Targets : Pushed({d})

TriggerSpec == TriggerInit /\ [][TriggerNext]_triggerVars

-----------------------------------------------------------------------------
(* A command is reported done or refused by its own acknowledgement, or    *)
(* done by a push, in whatever order pushes overtake acknowledgements      *)
(* (lock.js:45).  An acknowledgement goes to another command only if,      *)
(* since all that waited was last settled, a request has timed out, or was *)
(* left waiting when the transport replaced its socket.                    *)
AckIsOwn ==
  [][~adrift => \A t \in Triggers :
       settledBy'[t] \in Triggers => settledBy'[t] \in {settledBy[t], t}]_triggerVars

(* So what the comment at lock.js:45 promises without that condition, a    *)
(* command answered by its own acknowledgement, is not true of the code.   *)
AcksMatchTriggers == \A t \in Triggers : settledBy[t] \in Triggers => settledBy[t] = t
=============================================================================
