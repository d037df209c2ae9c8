------------------------------ MODULE MCSysMgr ------------------------------
(***************************************************************************)
(* Two commands beside the start, so that one can get the late answer of   *)
(* the other; one report or message without a callback; one fault.         *)
(***************************************************************************)
EXTENDS SysMgr
=============================================================================
