------------------------------- MODULE MCSync -------------------------------
(* Small instances of Sync.                                                 *)
EXTENDS Sync, TLC

Symmetry == Permutations(Requests) \cup Permutations(Values) \cup Permutations(Keys)
=============================================================================
