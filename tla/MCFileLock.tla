----------------------------- MODULE MCFileLock -----------------------------
(* Small instances of FileLock. *)
EXTENDS FileLock, TLC

CONSTANTS p1, p2, p3, p4, i1, i2, i3, i4

Symmetry == Permutations(Procs \ Crashed) \cup Permutations(Inodes)
=============================================================================
