------------------------------ MODULE MCResFrm ------------------------------
(***************************************************************************)
(* Small words for TLC: 4 symbols, the first one the CN's, and a 2-bit int *)
(* so that a length of 2 runs into the truncated mask.                     *)
(***************************************************************************)
EXTENDS ResFrm, TLC

CONSTANTS r1, r2

MCRes == {r1, r2}
MCFreqs == {1, 3, 4, 8}
MCLens == {1, 2}
MCOne == {1}
MCSymmetry == Permutations(MCRes)
=============================================================================
