----------------------------- MODULE MCHub3Calls -----------------------------
(***************************************************************************)
(* Small instances of what is asked of the cloud: the requests of the      *)
(* transport (Hub3Ws), infrared learning (Learn) and the commands to locks *)
(* (Trigger).  They share no state; a behaviour is one of the part it      *)
(* chooses, the others do not move.                                        *)
(***************************************************************************)
EXTENDS Hub3Ws, Learn, Trigger, TLC

CONSTANTS s1, s2, c1, f1, f2, f3, kCmd, kPing, a1, a2, b1, t1, t2, t3, d1, d2

MCKeyOf == [f \in Frames |-> IF f = f3 THEN kPing ELSE kCmd]

VARIABLE part

CallsVars == <<part, vars, learnVars, triggerVars>>

CallsInit ==
  /\ part \in {"requests", "learn", "trigger"}
  /\ Init /\ LearnInit /\ TriggerInit
  /\ part # "trigger" => \A t \in Triggers : target[t] = d1

CallsNext ==
  \/ part = "requests" /\ Next /\ UNCHANGED <<part, learnVars, triggerVars>>
  \/ part = "learn" /\ LearnNext /\ UNCHANGED <<part, vars, triggerVars>>
  \/ part = "trigger" /\ TriggerNext /\ UNCHANGED <<part, vars, learnVars>>

CallsSpec == CallsInit /\ [][CallsNext]_CallsVars

Symmetry == Permutations(Sockets) \cup Permutations(Triggers) \cup Permutations(Learners)
=============================================================================
