------------------------- MODULE MCTokenStoreLocked -------------------------
(* Small instances of TokenStoreLocked. *)
EXTENDS TokenStoreLocked, TLC

CONSTANTS p1, p2, p3, i1, i2, i3, i4

Symmetry == Permutations(Procs \ Crashed) \cup Permutations(Inodes)
=============================================================================
