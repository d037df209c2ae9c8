------------------------------ MODULE ResTable ------------------------------
(***************************************************************************)
(* The configuration tables of src/apps/sysm/resmgr.c as operators on      *)
(* values: which resources are configured (res_cfg_tbl) and, for every     *)
(* node slot (node_cfg_tbl), which resources the node with that address    *)
(* sends and receives.                                                     *)
(*                                                                         *)
(* A slot whose cfg_state is CONFIG_UNVALID_E is NoNode: the code never    *)
(* reads the rest of such a slot before it has cleared it.  Of a resource  *)
(* only cfg_state and send2all are kept; channel, frequency, length and    *)
(* position do not steer any of these functions.                           *)
(***************************************************************************)
EXTENDS Order

CONSTANTS NumRes,    \* resource ids with an entry of their own (253)
          NumSlots,  \* MAX_CONFIG_NODE_CNT (64)
          MaxTrs,    \* MAX_TRS_RES_CNT (8)
          MaxRcv,    \* MAX_RCV_RES_CNT (16)
          Macs,      \* node addresses
          NoMac      \* the address of a slot that is not in use

ASSUME ResTableAssumption ==
  /\ NumRes \in Nat
  /\ NumSlots \in Nat
  /\ MaxTrs \in Nat \ {0}
  /\ MaxRcv \in Nat \ {0}
  /\ NoMac \notin Macs

ResId     == 1..NumRes
Unused    == 0                   \* UNUSED_RES_ID
Broadcast == NumRes + 2          \* BROADCAST_RES_ID
Slots     == 0..(NumSlots - 1)
TrsArrays == [1..MaxTrs -> ResId \cup {Unused}]
RcvArrays == [1..MaxRcv -> ResId \cup {Unused}]

\* node_config_t.
NodeConfigs ==
  [mac : Macs \cup {NoMac}, rcvall : BOOLEAN, trs : TrsArrays, rcv : RcvArrays]

NoNode == [mac |-> NoMac, rcvall |-> FALSE,
           trs |-> [j \in 1..MaxTrs |-> Unused], rcv |-> [j \in 1..MaxRcv |-> Unused]]

-----------------------------------------------------------------------------
\* Arrays of resource ids.

Entries(ids) == {ids[j] : j \in DOMAIN ids} \ {Unused}
Room(ids)    == {j \in DOMAIN ids : ids[j] = Unused}
PlacesOf(ids, resid) == {j \in DOMAIN ids : ids[j] = resid}

Without(ids, gone) == [j \in DOMAIN ids |-> IF ids[j] \in gone THEN Unused ELSE ids[j]]

\* The first free place takes the id; a full array stays as it is.
With(ids, resid) ==
  IF Room(ids) = {} THEN ids ELSE [ids EXCEPT ![Least(Room(ids))] = resid]

\* The first place that holds the id is cleared.
Drop(ids, resid) == [ids EXCEPT ![Least(PlacesOf(ids, resid))] = Unused]

-----------------------------------------------------------------------------
\* Slots.

SlotsOf(node, mac) == {s \in Slots : node[s].mac = mac}
FreeSlots(node)    == SlotsOf(node, NoMac)
SlotOf(node, mac)  == Least(SlotsOf(node, mac))
Known(node, mac)   == SlotsOf(node, mac) # {}

\* "Node configuration does not exist, add a new one", if a slot is free.
NewNode(node, new) ==
  IF FreeSlots(node) = {} THEN node
  ELSE [node EXCEPT ![Least(FreeSlots(node))] = new]

(***************************************************************************)
(* clear_node_config is to drop the nodes that neither send nor receive,   *)
(* but walks through a pointer it never sets.  A compiler may drop the     *)
(* body (the shipped objects have an empty function) or happen to use the  *)
(* table: both outcomes are possible.                                      *)
(***************************************************************************)
IsEmpty(k) == ~k.rcvall /\ Entries(k.trs) = {} /\ Entries(k.rcv) = {}

ClearNodeConfig(node) ==
  {node, [s \in Slots |-> IF IsEmpty(node[s]) THEN NoNode ELSE node[s]]}

-----------------------------------------------------------------------------
\* The functions that change the tables: what is left in node_cfg_tbl.

\* Only the senders are looked at.
UnlistSenders(node, gone) ==
  [s \in Slots |-> [node[s] EXCEPT !.trs = Without(@, gone)]]

\* del_res_config, of every id of a set (del_node_config calls it in a loop).
Unlist(node, gone) ==
  [s \in Slots |-> [node[s] EXCEPT !.trs = Without(@, gone), !.rcv = Without(@, gone)]]

\* What a node sends it does not receive; the other one forgets the reception.
SendsToo(k, resid) == [k EXCEPT !.trs = With(@, resid)]

Sends(k, resid) == [k EXCEPT !.rcv = Without(@, {resid}), !.trs = With(@, resid)]

\* add_trs_res: first no node sends resid any more, then the node does.
AddTrsKeepSenders(node, resid, mac) ==
  IF Known(node, mac)
  THEN [node EXCEPT ![SlotOf(node, mac)] = Sends(@, resid)]
  ELSE NewNode(node, Sends([NoNode EXCEPT !.mac = mac], resid))

AddTrsRes(node, resid, mac) == AddTrsKeepSenders(UnlistSenders(node, {resid}), resid, mac)

(***************************************************************************)
(* add_rcv_res: the id of the broadcast asks to receive everything; a node *)
(* does not receive what it sends, nor the same resource twice.            *)
(***************************************************************************)
Receives(k, resid) ==
  IF resid = Broadcast THEN [k EXCEPT !.rcvall = TRUE]
  ELSE IF resid \in Entries(k.trs) \cup Entries(k.rcv) THEN k
  ELSE [k EXCEPT !.rcv = With(@, resid)]

AddRcvRes(node, resid, mac) ==
  IF Known(node, mac)
  THEN [node EXCEPT ![SlotOf(node, mac)] = Receives(@, resid)]
  ELSE NewNode(node, Receives([NoNode EXCEPT !.mac = mac], resid))

\* del_trs_res and del_rcv_res, in the slot of the node.
SendsNot(k, resid)    == [k EXCEPT !.trs = Drop(@, resid)]
ReceivesNot(k, resid) == [k EXCEPT !.rcv = Drop(@, resid)]

-----------------------------------------------------------------------------
\* The functions that read the tables.

\* get_trs_res_config: the enabled resources that the node sends.
TrsResConfig(node, cfg, mac) ==
  IF Known(node, mac) THEN Entries(node[SlotOf(node, mac)].trs) \cap cfg ELSE {}

(***************************************************************************)
(* get_rcv_res_config, given the active resources: the subscriptions of    *)
(* the node that are active, then the active resources sent to all; for a  *)
(* node that receives everything, all that is active.  The second list     *)
(* stops when the answer holds MaxRcv entries, subscriptions included.     *)
(***************************************************************************)
Subscribed(node, active, mac) ==
  IF Known(node, mac) /\ ~node[SlotOf(node, mac)].rcvall
  THEN Entries(node[SlotOf(node, mac)].rcv) \cap active ELSE {}

\* The second list with a bound of its own.
ToAllBoundedAlone(node, send2all, active, mac) ==
  IF Known(node, mac) /\ node[SlotOf(node, mac)].rcvall
  THEN Lowest(active, MaxRcv)
  ELSE Lowest(active \cap send2all, MaxRcv)

ToAll(node, send2all, active, mac) ==
  IF Known(node, mac) /\ node[SlotOf(node, mac)].rcvall
  THEN Lowest(active, MaxRcv)
  ELSE Lowest(active \cap send2all, MaxRcv - Cardinality(Subscribed(node, active, mac)))
=============================================================================
