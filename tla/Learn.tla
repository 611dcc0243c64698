-------------------------------- MODULE Learn --------------------------------
(***************************************************************************)
(* The learning mode of one Hub3, which calls of learnIRKey                *)
(* (packages/core/src/ir.js) and of onIRLearned                            *)
(* (packages/core/src/client.js) of one client enter and leave, each with  *)
(* requests that the cloud takes in the order they are sent.               *)
(*                                                                         *)
(* The reply to a request resolves the oldest that waits for one of its op *)
(* (Hub3Ws); a request that timed out waits no longer, and may still be    *)
(* served.  The subscription is one of the connection and the Hub3.        *)
(***************************************************************************)
EXTENDS Naturals, Sequences, SequencesExt

CONSTANTS
  Learners,   \* calls of learnIRKey
  Listeners   \* calls of onIRLearned

Users == Learners \cup Listeners

VARIABLES
  step,        \* where each call is
  waveform,    \* the learners that have captured one
  sent,        \* the frames that the cloud has not taken
  waiting,     \* the calls that wait for the reply to each op, oldest first
  mode,        \* the mode of the Hub3
  subscribed,  \* whether the cloud passes waveforms on to this connection
  hub,         \* the client: "open", "closing" or "closed"
  awaited,     \* the listeners whose cleanup close() awaits
  lapsed       \* "request" if one failed, "close" if it cut a call short

learnVars == <<step, waveform, sent, waiting, mode, subscribed, hub, awaited, lapsed>>

Ops == {"setIRMode", "subscribeIRData", "addIRCode"}
Ended == {"idle", "done", "failed"}

LearnInit ==
  /\ step = [c \in Users |-> "idle"] /\ waveform = {}
  /\ sent = <<>> /\ waiting = [op \in Ops |-> <<>>]
  /\ mode = "CONTROL" /\ subscribed = FALSE /\ hub = "open" /\ awaited = {} /\ lapsed = {}

-----------------------------------------------------------------------------
(* The frames that a call sends on its way to a step; all but the          *)
(* unsubscription wait for a reply.                                        *)
FramesOf(s) ==
  CASE s = "entering"    -> <<[op |-> "setIRMode", to |-> "REGISTER"]>>
    [] s = "subscribing" -> <<[op |-> "subscribeIRData"]>>
    [] s = "leaving"     -> <<[op |-> "unsubscribeIRData"], [op |-> "setIRMode", to |-> "CONTROL"]>>
    [] s = "saving"      -> <<[op |-> "addIRCode"]>>
    [] OTHER             -> <<>>

OpOf(s) ==
  CASE s \in {"entering", "leaving"} -> {"setIRMode"}
    [] s = "subscribing" -> {"subscribeIRData"}
    [] s = "saving" -> {"addIRCode"}
    [] OTHER -> {}

(* The calls that wait when c waits no longer. *)
Without(s, c) ==
  IF Contains(s, c) THEN RemoveAt(s, CHOOSE i \in 1 .. Len(s) : s[i] = c) ELSE s

(* Call c goes to step s, when the frames rest are still to be taken.      *)
(* After close() a frame stays in a queue that nothing empties.            *)
Moves(c, s, rest) ==
  /\ step' = [step EXCEPT ![c] = s]
  /\ sent' = IF hub = "closed" THEN rest ELSE rest \o FramesOf(s)
  /\ waiting' = [op \in Ops |->
       IF op \in OpOf(s) THEN Append(Without(waiting[op], c), c) ELSE Without(waiting[op], c)]

Begin(c) ==
  /\ step[c] = "idle" /\ hub # "closed"
  /\ Moves(c, "entering", sent)
  /\ UNCHANGED <<waveform, mode, subscribed, hub, awaited, lapsed>>

(* Where a call goes after the reply to its request.  How the setIRMode on *)
(* leaving went is ignored.                                                *)
AfterReply(c, ok) ==
  CASE step[c] = "entering"    -> IF ok THEN "subscribing" ELSE "failed"
    [] step[c] = "subscribing" -> IF ok THEN "listening" ELSE "failed"
    [] step[c] = "leaving"     -> IF c \in Listeners THEN "done"
                                  ELSE IF c \in waveform THEN "saving" ELSE "failed"
    [] step[c] = "saving"      -> IF ok THEN "done" ELSE "failed"

(* The cloud takes a frame, does what it says or refuses, and its reply    *)
(* arrives, or does not.                                                   *)
Serve ==
  /\ sent # <<>>
  /\ \E ok, replied \in BOOLEAN :
       LET f == Head(sent)
           asked == IF f.op \in Ops THEN waiting[f.op] ELSE <<>>
       IN
       /\ mode' = IF ok /\ f.op = "setIRMode" THEN f.to ELSE mode
       /\ subscribed' = IF ~ok THEN subscribed
                        ELSE f.op = "subscribeIRData" \/ (subscribed /\ f.op # "unsubscribeIRData")
       /\ IF replied /\ asked # <<>> /\ hub # "closed"
          THEN Moves(Head(asked), AfterReply(Head(asked), ok), Tail(sent))
          ELSE sent' = Tail(sent) /\ UNCHANGED <<step, waiting>>
       /\ lapsed' = lapsed \cup {x \in {"request"} : ~ok \/ (~replied /\ hub # "closed")}
  /\ UNCHANGED <<waveform, hub, awaited>>

(* A request times out, or is rejected when the connection is closed.      *)
RequestFails(c) ==
  /\ OpOf(step[c]) # {}
  /\ Moves(c, AfterReply(c, FALSE), sent)
  /\ lapsed' = lapsed \cup {"request"}
  /\ UNCHANGED <<waveform, mode, subscribed, hub, awaited>>

-----------------------------------------------------------------------------
(* The finally block of learnIRKey, and the cleanup of onIRLearned.        *)
LeaveIfCaptured(c) ==  \* faulty: the mode is restored on success only
  Moves(c, IF c \in Listeners \cup waveform' THEN "leaving" ELSE "failed", sent)

Leave(c) == Moves(c, "leaving", sent)

(* A button is pressed, and a learner gets the waveform: it is noise, which *)
(* is ignored; or it is learnt; or it is an error or empty, which fails.   *)
Captures(c) ==
  /\ step[c] = "listening" /\ c \in Learners
  /\ mode = "REGISTER" /\ subscribed /\ hub # "closed"
  /\ waveform' \in {waveform, waveform \cup {c}}
  /\ Leave(c)
  /\ UNCHANGED <<mode, subscribed, hub, awaited, lapsed>>

LearnTimesOut(c) ==
  /\ step[c] = "listening" /\ c \in Learners
  /\ UNCHANGED waveform
  /\ Leave(c)
  /\ UNCHANGED <<mode, subscribed, hub, awaited, lapsed>>

(* Of a listener: by its caller, or by close(). *)
CleansUp(c) ==
  /\ step[c] = "listening" /\ c \in Listeners
  /\ UNCHANGED waveform
  /\ Leave(c)
  /\ UNCHANGED <<mode, subscribed, hub, awaited, lapsed>>

(* close() runs the cleanups there are and awaits them, or closes the      *)
(* connection at once if there is none.                                    *)
Closed ==
  /\ hub' = "closed" /\ subscribed' = FALSE
  /\ lapsed' = lapsed \cup {x \in {"close"} : \E c \in Users : step[c] \notin Ended}

CloseHub ==
  /\ hub = "open"
  /\ awaited' = {c \in Listeners : step[c] = "listening"}
  /\ IF awaited' = {} THEN Closed ELSE hub' = "closing" /\ UNCHANGED <<subscribed, lapsed>>
  /\ UNCHANGED <<step, waveform, sent, waiting, mode>>

CloseEnds ==
  /\ hub = "closing"
  /\ \A c \in awaited : step[c] \in Ended
  /\ Closed
  /\ UNCHANGED <<step, waveform, sent, waiting, mode, awaited>>

LearnNext ==
  \/ \E c \in Users :
       Begin(c) \/ RequestFails(c) \/ Captures(c) \/ LearnTimesOut(c) \/ CleansUp(c)
  \/ Serve \/ CloseHub \/ CloseEnds

LearnSpec == LearnInit /\ [][LearnNext]_learnVars

-----------------------------------------------------------------------------
Quiet == sent = <<>> /\ \A c \in Users : step[c] \in Ended

(* However learners and listeners overlap, and whether a button is learnt, *)
(* refused or never pressed: once all have ended, the Hub3 is in the mode  *)
(* in which it sends codes, unless a request failed or close() came amid.  *)
ModeRestored == Quiet /\ lapsed = {} => mode = "CONTROL"

(* What the comment of _pendingCleanups hopes for: close() surely takes a  *)
(* Hub3 back that onIRLearned has put in the mode of learning.             *)
CloseRestores == hub = "closed" /\ sent = <<>> /\ "request" \notin lapsed => mode = "CONTROL"

(* What the steps of learnIRKey hope for: while it waits for a button, the *)
(* Hub3 learns, and the cloud passes on what it has learnt.                *)
ListeningIsHeard ==
  \A c \in Users : step[c] = "listening" /\ sent = <<>> /\ lapsed = {} => mode = "REGISTER" /\ subscribed
=============================================================================
