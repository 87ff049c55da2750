----------------------------- MODULE MCMultipart -----------------------------
(* Small instances of Multipart: every upload is for the same object.       *)
EXTENDS Multipart

CONSTANTS k1

MCTarget == [u \in Uploads |-> k1]
Symmetry == Permutations(Tasks) \cup Permutations(Values) \cup Permutations(Uploads)
=============================================================================
