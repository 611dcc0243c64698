------------------------------ MODULE MCStores ------------------------------
(***************************************************************************)
(* Small instances of what a process keeps from one run to the next:       *)
(* TokenStore, ConfigStore and AwsCredentials.  They share no state; a     *)
(* behaviour is one of the part it chooses, the others do not move.        *)
(***************************************************************************)
EXTENDS TokenStore, ConfigStore, AwsCredentials, TLC

CONSTANTS p1, p2, a, b, n1, n2, k1, l1, h1, r1, q1, q2

VARIABLE part

Init ==
  /\ part \in {"tokens", "config", "aws"}
  /\ TokenInit /\ ConfigInit /\ AwsInit
  /\ part # "config" => stored = EmptyConfig

Next ==
  \/ part = "tokens" /\ TokenNext /\ UNCHANGED <<part, configVars, awsVars>>
  \/ part = "config" /\ ConfigNext /\ UNCHANGED <<part, tokenVars, awsVars>>
  \/ part = "aws" /\ AwsNext /\ UNCHANGED <<part, tokenVars, configVars>>

Spec == Init /\ [][Next]_<<part, tokenVars, configVars, awsVars>>

Symmetry == Permutations(Procs) \cup Permutations(Names)
=============================================================================
