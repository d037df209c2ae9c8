------------------------------- MODULE ResMgr -------------------------------
(***************************************************************************)
(* The configuration of resources and nodes as the operator edits it: the  *)
(* commands addres, delres, addtrs, addrcv, deltrs, delrcv, delcfg and     *)
(* resclr (sysres.c:515-967, resmgr.c:943) on the tables of ResTable.  A   *)
(* command runs to its end in the terminal's thread.                       *)
(*                                                                         *)
(* Ids run over 1..253.  resmgr.h:83 allows 254, but the table has 254     *)
(* entries counted from 0, so that id lies beyond it.                      *)
(***************************************************************************)
EXTENDS ResTable

VARIABLES node,      \* node_cfg_tbl
          cfg,       \* the resources that are CONFIG_ENABLE_E
          send2all   \* the resources flagged for every node

vars == <<node, cfg, send2all>>

Init ==
  /\ node = [s \in Slots |-> NoNode]
  /\ cfg = {}
  /\ send2all = {}

\* add_res_config.
AddRes(resid) ==
  /\ cfg' = cfg \cup {resid}
  /\ send2all' = send2all \ {resid}
  /\ UNCHANGED node

\* del_res_config: the flag of the entry stays.
DelRes(resid) ==
  /\ cfg' = cfg \ {resid}
  /\ node' \in ClearNodeConfig(Unlist(node, {resid}))
  /\ UNCHANGED send2all

\* add_trs_res, for a resource that is enabled.
AddTrs(resid, mac, all) ==
  /\ resid \in cfg
  /\ send2all' = IF all THEN send2all \cup {resid} ELSE send2all \ {resid}
  /\ node' = AddTrsRes(node, resid, mac)
  /\ UNCHANGED cfg

\* add_rcv_res, for a resource that is enabled or for the broadcast.
AddRcv(resid, mac) ==
  /\ resid \in cfg \cup {Broadcast}
  /\ node' = AddRcvRes(node, resid, mac)
  /\ UNCHANGED <<cfg, send2all>>

\* del_trs_res.
DelTrs(resid, mac) ==
  /\ Known(node, mac)
  /\ LET s == SlotOf(node, mac)
     IN  /\ resid \in Entries(node[s].trs)
         /\ node' \in ClearNodeConfig([node EXCEPT ![s] = SendsNot(@, resid)])
  /\ UNCHANGED <<cfg, send2all>>

\* del_rcv_res.
DelRcv(resid, mac) ==
  /\ Known(node, mac)
  /\ LET s == SlotOf(node, mac)
     IN  /\ resid \in Entries(node[s].rcv)
         /\ node' \in ClearNodeConfig([node EXCEPT ![s] = ReceivesNot(@, resid)])
  /\ UNCHANGED <<cfg, send2all>>

\* del_node_config: the slot first, then every resource that it sent.
DelNode(mac) ==
  /\ Known(node, mac)
  /\ LET s     == SlotOf(node, mac)
         gone  == Entries(node[s].trs)
         after == [node EXCEPT ![s] = NoNode]
     IN  /\ cfg' = cfg \ gone
         /\ IF gone = {} THEN node' = after
            ELSE node' \in ClearNodeConfig(Unlist(after, gone))
  /\ UNCHANGED send2all

\* debug_cmd_res_config_clear.
ResClr ==
  /\ node' = [s \in Slots |-> NoNode]
  /\ cfg' = {}
  /\ send2all' = {}

Next ==
  \/ \E resid \in ResId : AddRes(resid) \/ DelRes(resid)
  \/ \E resid \in ResId, mac \in Macs :
       \/ \E all \in BOOLEAN : AddTrs(resid, mac, all)
       \/ DelTrs(resid, mac)
       \/ DelRcv(resid, mac)
  \/ \E resid \in ResId \cup {Broadcast}, mac \in Macs : AddRcv(resid, mac)
  \/ \E mac \in Macs : DelNode(mac)
  \/ ResClr

Spec == Init /\ [][Next]_vars

-----------------------------------------------------------------------------

\* The slots hold node configurations and the ids have entries of their own.
TypeOK ==
  /\ node \in [Slots -> NodeConfigs]
  /\ cfg \subseteq ResId
  /\ send2all \subseteq ResId

\* No node has two slots: every lookup stops at the first one.
OneSlotPerMac ==
  \A s, t \in Slots : node[s].mac = node[t].mac /\ node[s].mac # NoMac => s = t

(***************************************************************************)
(* No resource is sent twice, whatever was moved between the nodes: not    *)
(* from two slots and not from two places of one ("avoid two nodes adding  *)
(* the same resource", resmgr.c:590).                                      *)
(***************************************************************************)
OneSender ==
  \A s, t \in Slots : \A i, j \in 1..MaxTrs :
    node[s].trs[i] = node[t].trs[j] /\ node[s].trs[i] # Unused => s = t /\ i = j

\* No node both sends and receives a resource (resmgr.c:614).
NoSelfReceive ==
  \A s \in Slots : Entries(node[s].trs) \cap Entries(node[s].rcv) = {}

\* No subscription is listed twice (resmgr.c:712).
RcvDistinct ==
  \A s \in Slots : \A i, j \in 1..MaxRcv :
    node[s].rcv[i] = node[s].rcv[j] /\ node[s].rcv[i] # Unused => i = j

(***************************************************************************)
(* Whatever a node sends or receives is configured: an id that was deleted *)
(* and given anew means the new resource to nobody who listed the old one. *)
(***************************************************************************)
ListedConfigured ==
  \A s \in Slots : Entries(node[s].trs) \cup Entries(node[s].rcv) \subseteq cfg

(***************************************************************************)
(* What get_trs_res_config and get_rcv_res_config make of the tables: no   *)
(* two nodes are told to send the same resource, and what a node is told   *)
(* to receive fits the answer's MaxRcv entries, a resource that is both    *)
(* subscribed and sent to all counted twice, whatever is active.           *)
(***************************************************************************)
TrsListsDisjoint ==
  \A m, n \in Macs : m # n => TrsResConfig(node, cfg, m) \cap TrsResConfig(node, cfg, n) = {}

RcvListFits ==
  \A mac \in Macs : \A active \in SUBSET ResId :
    Cardinality(Subscribed(node, active, mac))
      + Cardinality(ToAll(node, send2all, active, mac)) <= MaxRcv
=============================================================================
