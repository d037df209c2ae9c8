------------------------------- MODULE MCOta -------------------------------
(***************************************************************************)
(* The CN and one TN, an image of a few blocks.                            *)
(***************************************************************************)
EXTENDS Ota

MCTNs == {1}
=============================================================================
