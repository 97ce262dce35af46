----------------------------- MODULE MCDataRoot -----------------------------
(* Two processes and two files, which are interchangeable, and three roots. *)
EXTENDS DataRoot, TLC

Symmetry == Permutations(Procs) \cup Permutations(Files)
=============================================================================
