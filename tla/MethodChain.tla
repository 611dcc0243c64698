----------------------------- MODULE MethodChain -----------------------------
(***************************************************************************)
(* How the serve daemon runs the calls of a method one after the other     *)
(* (invoke and _serialize of packages/kit/src/serve/daemon.js): each call  *)
(* waits for the promise of the one before it, and the map _locks has the  *)
(* last promise of each method until it has settled.                       *)
(*                                                                         *)
(* A call stands for the promise that its run returns and for tail, which  *)
(* the next call waits for.  When tail has settled, its first reaction is  *)
(* the one that _serialize has put there itself, which clears the map;     *)
(* after it comes the run of the next call.  That a run has failed makes   *)
(* no difference.                                                          *)
(***************************************************************************)
EXTENDS Sequences

CONSTANTS
  Methods,
  Calls,   \* calls that may be unfinished at a time; bound of the model
  NoCall

ASSUME CallAssumption == NoCall \notin Calls

VARIABLES
  locks,   \* _locks: the last call of each method, or NoCall
  prev,    \* the call whose promise a call waits for, NoCall once it has settled
  stage,   \* how far a call is
  method,  \* the method it calls
  line     \* history: the calls of each method in the order they were made

chainVars == <<locks, prev, stage, method, line>>

ChainTypeOK ==
  /\ locks \in [Methods -> Calls \cup {NoCall}]
  /\ prev \in [Calls -> Calls \cup {NoCall}]
  /\ stage \in [Calls -> {"idle", "queued", "running", "settled"}]
  /\ method \in [Calls -> Methods]
  /\ line \in [Methods -> Seq(Calls)]

ChainInit ==
  /\ locks = [m \in Methods |-> NoCall]
  /\ prev = [c \in Calls |-> NoCall]
  /\ stage = [c \in Calls |-> "idle"]
  /\ method \in [Calls -> Methods]
  /\ line = [m \in Methods |-> <<>>]

(* _serialize: the call is linked to the last one and becomes the last.    *)
Invoke(c, m) ==
  /\ stage[c] = "idle"
  /\ stage' = [stage EXCEPT ![c] = "queued"]
  /\ method' = [method EXCEPT ![c] = m]
  /\ prev' = [prev EXCEPT ![c] = locks[m]]
  /\ locks' = [locks EXCEPT ![m] = c]
  /\ line' = [line EXCEPT ![m] = Append(@, c)]

(* prev.then(run, run) *)
Run(c) ==
  /\ stage[c] = "queued" /\ prev[c] = NoCall
  /\ stage' = [stage EXCEPT ![c] = "running"]
  /\ UNCHANGED <<locks, prev, method, line>>

(* The handler returns or throws. *)
Settle(c) ==
  /\ stage[c] = "running"
  /\ stage' = [stage EXCEPT ![c] = "settled"]
  /\ UNCHANGED <<locks, prev, method, line>>

(* The map forgets the call if it is still the last. *)
ClearAlways(c) ==  \* faulty: the map forgets the method whoever came after
  locks' = [locks EXCEPT ![method[c]] = NoCall]

ClearIfLast(c) ==
  locks' = IF locks[method[c]] = c THEN [locks EXCEPT ![method[c]] = NoCall] ELSE locks

(* The reactions to tail. *)
Sweep(c) ==
  /\ stage[c] = "settled"
  /\ stage' = [stage EXCEPT ![c] = "idle"]
  /\ ClearIfLast(c)
  /\ prev' = [d \in Calls |-> IF prev[d] = c THEN NoCall ELSE prev[d]]
  /\ line' = [line EXCEPT ![method[c]] = Tail(@)]
  /\ UNCHANGED method

ChainNext ==
  \E c \in Calls : Run(c) \/ Settle(c) \/ Sweep(c) \/ \E m \in Methods : Invoke(c, m)

ChainSpec == ChainInit /\ [][ChainNext]_chainVars

-----------------------------------------------------------------------------
Queue == INSTANCE MethodQueue
           WITH active <- {c \in Calls : stage[c] \in {"running", "settled"}}

(* Whatever the order in which calls are made, settle and are cleared from *)
(* the map, the calls of a method run one at a time and in turn.           *)
OneAtATime == Queue!QueueSpec

(* The map does not grow: it has an entry only for a method with a call    *)
(* that has not ended, and that call is the last.                          *)
MapIsTight ==
  \A m \in Methods : IF line[m] = <<>> THEN locks[m] = NoCall
                                       ELSE locks[m] = line[m][Len(line[m])]
=============================================================================
