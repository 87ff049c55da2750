------------------------------ MODULE MCListing ------------------------------
(* Six keys in order: the prefix asked for leaves out the first, and the   *)
(* delimiter rolls up two neighbours, the keys of one directory, whose      *)
(* first has a name that starts with a dot.  They come before a full page,  *)
(* in the middle of it or after it as the keys around them are there or     *)
(* not.  The other read of objects, GET with a range, is a function: TLC    *)
(* evaluates it for every header and size of a small word.                  *)
EXTENDS Listing, Ranges

MCKeys == 1..6
MCMatching == 2..6
MCHidden == {4}
MCFolders == {{4, 5}}
MCGroup == [k \in MCKeys |-> IF k \in {4, 5} THEN "a/" ELSE NONE]

ASSUME RangesOfSmallWords == RangesExact /\ EmptyPanics
=============================================================================
