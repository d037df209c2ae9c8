------------------------------- MODULE MCRpc --------------------------------
(***************************************************************************)
(* Two threads of the CN make calls: sysm three of a service that the node *)
(* has, the first to a node that is gone, resm one of a service that the   *)
(* node has not.                                                           *)
(***************************************************************************)
EXTENDS Rpc

CONSTANTS b, c, d, e, data, res, none

MCNodes   == {0, 1}
MCServes  == [n \in MCNodes |-> {data}]
MCReqs    == {b, c, d, e}
MCPatient == {c}
MCRetry   == [r \in MCReqs |-> IF r = c THEN 1 ELSE 0]
MCFrom    == [r \in MCReqs |-> 0]
MCTo      == [r \in MCReqs |-> IF r = b THEN {} ELSE {1}]
MCThread  == [r \in MCReqs |-> IF r = d THEN "resm" ELSE "sysm"]
MCEarlier == [r \in MCReqs |-> CASE r = e -> {b} [] r = c -> {b, e} [] OTHER -> {}]
MCSrv     == [r \in MCReqs |-> IF r = d THEN res ELSE data]
=============================================================================
