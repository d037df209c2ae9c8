------------------------------ MODULE MCATimer ------------------------------
(***************************************************************************)
(* Three timers and a short clock: a timer is inserted before, between and *)
(* after others, and several of them are late.                             *)
(***************************************************************************)
EXTENDS ATimer

CONSTANTS t1, t2, t3

MCTimers == {t1, t2, t3}
MCItvs   == {1, 2}
MCIrts   == {0, 1}
=============================================================================
