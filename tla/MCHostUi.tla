------------------------------ MODULE MCHostUi ------------------------------
(***************************************************************************)
(* A host at the CN, one at each of two TNs.  A resource configuration     *)
(* takes four packets (resmgr_config_t), everything else one.              *)
(***************************************************************************)
EXTENDS HostUi

CONSTANTS l1, a1, a2, b1, b2, none

MCTNs == {1, 2}
MCMsgs == {l1, a1, a2, b1, b2}
MCHost == [m \in MCMsgs |-> CASE m = l1 -> 0 [] m \in {a1, a2} -> 1 [] OTHER -> 2]
MCKind == [m \in MCMsgs |-> CASE m \in {l1, a2} -> "setdev" [] m \in {a1, b1} -> "direct"
                              [] OTHER -> "getdev"]
MCNode == [m \in MCMsgs |-> CASE m = l1 -> All [] m = b2 -> 1 [] m = a2 -> 2 [] OTHER -> 0]
MCPackets == [m \in MCMsgs |-> IF Kind[m] = "direct" THEN 4 ELSE 1]
MCScript == [h \in MCTNs \cup {0} |-> CASE h = 0 -> <<l1>> [] h = 1 -> <<a1, a2>> [] OTHER -> <<b1, b2>>]
=============================================================================
