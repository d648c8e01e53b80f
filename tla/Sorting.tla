--------------------------------- MODULE Sorting ---------------------------------
(***************************************************************************)
(* Sets of numbers listed in ascending order, defined by what such a list  *)
(* is: the provers cannot look into the SortSeq of module TLC.             *)
(***************************************************************************)
EXTENDS Integers, FiniteSets

\* s lists the members of S in ascending order
Ascends(s, S) ==
  /\ DOMAIN s = 1..Cardinality(S)
  /\ {s[i] : i \in DOMAIN s} = S
  /\ \A i, j \in DOMAIN s : i < j => s[i] < s[j]

Ascending(S) == CHOOSE s \in [1..Cardinality(S) -> S] : Ascends(s, S)
=============================================================================
