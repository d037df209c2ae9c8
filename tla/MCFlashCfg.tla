---------------------------- MODULE MCFlashCfg ----------------------------
(***************************************************************************)
(* A frame that mode 3 cuts at 4, lengths of three bits, and one resource  *)
(* with two lengths, of which the longer reaches over the cut.             *)
(***************************************************************************)
EXTENDS FlashCfg

MCDevs      == {"d1", "d2"}
MCResources == {[pos |-> 2, len |-> 3], [pos |-> 2, len |-> 1]}
=============================================================================
