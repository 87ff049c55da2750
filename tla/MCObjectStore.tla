---------------------------- MODULE MCObjectStore ----------------------------
(* Small instances of ObjectStore: two keys of one directory or of nested   *)
(* ones, k2 possibly named like the metadata file of k1.                    *)
EXTENDS ObjectStore, TLC

CONSTANTS b1, k1, k2, d1, d2

MCParent == [p \in {k1, k2, d1} |-> IF p = d1 THEN ROOT ELSE d1]
MCAbove == [p \in {k1, k2, d1} |-> IF p = d1 THEN {} ELSE {d1}]
MCNestedParent == [p \in {k1, k2, d1, d2} |->
                     CASE p = d1 -> ROOT [] p \in {d2, k1} -> d1 [] OTHER -> d2]
MCNestedAbove == [p \in {k1, k2, d1, d2} |->
                    CASE p = d1 -> {} [] p \in {d2, k1} -> {d1} [] OTHER -> {d1, d2}]
MCPlainNames == [k \in {k1, k2} |-> k]
MCMetaSuffix == [k \in {k1, k2} |-> k1]   \* k2 is k1 with ".meta" appended

RequestSymmetry == Permutations(Requests)
ValueSymmetry == Permutations(Requests) \cup Permutations(Values)
=============================================================================
