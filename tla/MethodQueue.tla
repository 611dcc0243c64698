----------------------------- MODULE MethodQueue -----------------------------
(***************************************************************************)
(* What the serve daemon promises about calls of its methods: the calls of *)
(* one method run one at a time, in the order in which they were made; the *)
(* calls of different methods do not wait for each other.                  *)
(***************************************************************************)
EXTENDS Sequences

CONSTANTS Methods, Calls

VARIABLES
  line,    \* for each method, the calls that have not ended, the oldest first
  active   \* the calls that run

Waiting == [m \in Methods |-> {line[m][i] : i \in DOMAIN line[m]}]

QueueInit == line = [m \in Methods |-> <<>>] /\ active = {}

Enqueue(m, c) ==
  /\ \A n \in Methods : c \notin Waiting[n]
  /\ line' = [line EXCEPT ![m] = Append(@, c)]
  /\ UNCHANGED active

Begin(m) ==
  /\ line[m] # <<>> /\ Waiting[m] \cap active = {}
  /\ active' = active \cup {Head(line[m])}
  /\ UNCHANGED line

End(m) ==
  /\ line[m] # <<>> /\ Head(line[m]) \in active
  /\ line' = [line EXCEPT ![m] = Tail(@)]
  /\ active' = active \ {Head(line[m])}

QueueNext == \E m \in Methods : Begin(m) \/ End(m) \/ \E c \in Calls : Enqueue(m, c)

QueueSpec == QueueInit /\ [][QueueNext]_<<line, active>>
=============================================================================
