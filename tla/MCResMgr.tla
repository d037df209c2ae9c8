------------------------------ MODULE MCResMgr ------------------------------
(***************************************************************************)
(* Three addresses for two slots, so that the table fills up; arrays of    *)
(* two, and ids enough to fill one of them.                                *)
(***************************************************************************)
EXTENDS ResMgr, TLC

CONSTANTS m1, m2, m3

MCMacs == {m1, m2, m3}
MCSymmetry == Permutations(MCMacs)
=============================================================================
