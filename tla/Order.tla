-------------------------------- MODULE Order --------------------------------
(***************************************************************************)
(* Numbers used as places: a C loop that scans an array from index 0 and   *)
(* stops at the first entry that fits finds the least of the entries that  *)
(* fit.                                                                    *)
(***************************************************************************)
EXTENDS Integers, FiniteSets

Least(S) == CHOOSE x \in S : \A y \in S : x <= y

\* The n lowest elements of S: what a scan that stops after n hits collects.
Lowest(S, n) == {x \in S : Cardinality({y \in S : y < x}) < n}
=============================================================================
