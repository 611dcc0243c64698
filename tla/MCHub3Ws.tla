------------------------------ MODULE MCHub3Ws ------------------------------
(* Small instances of Hub3Ws: which frames there are and their keys.       *)
EXTENDS Hub3Ws, TLC

CONSTANTS s1, s2, s3, c1, c2, c3, f1, f2, f3, kCmd, kPing

MCKeyOf == [f \in Frames |-> IF f = f3 THEN kPing ELSE kCmd]
Symmetry == Permutations(Sockets)
=============================================================================
