------------------------------- MODULE SysRes -------------------------------
(***************************************************************************)
(* How nodes get and lose their resources (src/apps/sysm/sysres.c).  On    *)
(* the CN two threads share the list ncn of nodes, its acknowledgement     *)
(* flags and a message queue:                                              *)
(*   sysm  takes the reports of the modem (a node joined, a node is lost), *)
(*         the messages of resm and the answers and timeouts of remote     *)
(*         calls; each is handled to its end;                              *)
(*   resm  serves one node at a time: tells it its ids (0x12), what to     *)
(*         receive (0x14), broadcasts what it sends (0x13), and when it is *)
(*         lost broadcasts that its resources are gone (0x15).             *)
(* Every other node runs the services of those four calls.  A call and its *)
(* answer may be lost and a call is repeated when its time is up; the call *)
(* layer is the one of sysrpc.c, including what it answers to a repeated   *)
(* call that its service had ignored.                                      *)
(*                                                                         *)
(* Node 0 is the CN.  A node keeps its number for good, the configuration  *)
(* does not change, and a resource occupies one place, which stands for    *)
(* the symbols that resfrm_alloc grants (ResFrame, ResFrm).                *)
(***************************************************************************)
EXTENDS Order, Sequences

CONSTANTS Nodes,     \* numbers of the TNs
          Res,       \* resources
          Trs,       \* what every node sends, as a list
          Rcv,       \* what every node receives: its list, send2all, rcvall
          Places,    \* where a resource can be granted
          Retry,     \* how often a call is repeated (3)
          MaxJoin,   \* bound: how often a node joins
          Hasty,     \* whether a node may be back before the CN is done with its loss
          MaxFault   \* bound: how many copies and answers are lost or overtaken

ASSUME SysResAssumption ==
  /\ Nodes \subseteq Nat \ {0} /\ IsFiniteSet(Nodes)
  /\ Trs \in [Nodes \cup {0} -> Seq(Res)]
  /\ \A n \in Nodes \cup {0} : \A i, j \in 1..Len(Trs[n]) : Trs[n][i] = Trs[n][j] => i = j
  /\ \A m, n \in Nodes \cup {0} : \A i \in 1..Len(Trs[m]), j \in 1..Len(Trs[n]) :
       Trs[m][i] = Trs[n][j] => m = n
  /\ Rcv \in [Nodes \cup {0} -> SUBSET Res]
  /\ Places \subseteq Nat \ {0} /\ IsFiniteSet(Places)
  /\ Retry \in Nat /\ MaxJoin \in Nat /\ MaxFault \in Nat
  /\ Hasty \in BOOLEAN

VARIABLES
  \* the CN
  rpt,       \* reports of the modem that sysm has not read
  ncn,       \* the list of nodes, as numbers, in the order they were added
  pnd,       \* their state, online and offline
  ack_flag,  \* nodes whose acknowledgement is awaited
  state,     \* resm: what it is doing ...
  cur,       \* ... with which node ...
  scan,      \* ... and where it is in ncn while it sets ack_flag
  pushflg,   \* a commit is due
  place,     \* res_state: where an active resource is, 0 when inactive
  cnrcv,     \* <<resource, place>> in the CN's own table of receptions
  resmsg,    \* messages from resm to sysm
  req_list,  \* calls that await an answer
  \* the nodes and the bus
  tn,        \* state, last call and tables of every TN
  calls,     \* copies of calls on their way to each node, in order
  answers,   \* answers on their way
  joins,     \* how often a node has joined
  faults     \* how much was lost, or came after the time was up

cnvars == <<rpt, ncn, pnd, ack_flag, state, cur, scan, pushflg, place, cnrcv,
            resmsg, req_list>>
bounds == <<joins, faults>>
vars == <<cnvars, tn, calls, answers, bounds>>

Kinds == {"id", "rcv", "trs", "del"}     \* 0x12, 0x14, 0x13, 0x15

NodeStates == {"INIT", "DOWNLOAD_RES_ID", "ADD_RCV_RES", "ADD_TRS_RES", "WAIT_ACK",
               "ADD_FINISH", "DEL_RES", "DEL_FINISH", "FAIL"}

NoNode == [state |-> "INIT", online |-> FALSE, offline |-> FALSE]
Off    == [state |-> "OFF", sessn |-> 0, tlen |-> 0, trs |-> {}, rcv |-> {}]
NoScan == [i |-> 0, hit |-> FALSE, cells |-> {}]

Listed == {ncn[i] : i \in 1..Len(ncn)}
Active == {r \in Res : place[r] # 0}
Sends(n) == {Trs[n][i] : i \in 1..Len(Trs[n])}
Cells(rs, where) == {<<r, where[r]>> : r \in rs}

Init ==
  /\ rpt = <<>> /\ ncn = <<>>
  /\ pnd = [n \in Nodes |-> NoNode]
  /\ ack_flag = {}
  /\ state = "BOOT" /\ cur = 0 /\ scan = NoScan /\ pushflg = FALSE
  /\ place = [r \in Res |-> 0]
  /\ cnrcv = {}
  /\ resmsg = <<>> /\ req_list = {}
  /\ tn = [n \in Nodes |-> Off]
  /\ calls = [n \in Nodes |-> <<>>] /\ answers = {}
  /\ joins = [n \in Nodes |-> 0]
  /\ faults = 0

-----------------------------------------------------------------------------
\* The modem and the nodes that come and go.

\* The CN has dealt with the last loss of the node.
DoneWith(n) ==
  /\ ~pnd[n].offline /\ cur # n
  /\ \A i \in 1..Len(rpt) : rpt[i].nodeid # n

\* A node joins: it knows its number, and a report goes to the CN.
Join(n) ==
  /\ tn[n].state = "OFF"
  /\ joins[n] < MaxJoin
  /\ Hasty \/ DoneWith(n)
  /\ joins' = [joins EXCEPT ![n] = @ + 1]
  /\ tn' = [tn EXCEPT ![n] = [Off EXCEPT !.state = "ONLINE"]]
  /\ rpt' = Append(rpt, [type |-> "NWNODE", nodeid |-> n])
  /\ UNCHANGED <<ncn, pnd, ack_flag, state, cur, scan, pushflg, place, cnrcv,
                 resmsg, req_list, calls, answers, faults>>

\* A node loses the bus: it restarts (HCB_MSG_RPT_OFFLINE), the CN is told.
Leave(n) ==
  /\ tn[n].state # "OFF"
  /\ tn' = [tn EXCEPT ![n] = Off]
  /\ calls' = [calls EXCEPT ![n] = <<>>]
  /\ rpt' = Append(rpt, [type |-> "LSNODE", nodeid |-> n])
  /\ UNCHANGED <<ncn, pnd, ack_flag, state, cur, scan, pushflg, place, cnrcv,
                 resmsg, req_list, answers, bounds>>

-----------------------------------------------------------------------------
\* sysm on the CN: the reports.

\* res_new_tn.
NewTn ==
  /\ rpt # <<>> /\ Head(rpt).type = "NWNODE"
  /\ LET n == Head(rpt).nodeid
     IN  /\ ncn' = IF n \in Listed THEN ncn ELSE Append(ncn, n)
         /\ pnd' = [pnd EXCEPT ![n].online = TRUE,
                               ![n].state = IF @ = "DEL_FINISH" THEN "INIT" ELSE @]
  /\ rpt' = Tail(rpt)
  /\ UNCHANGED <<ack_flag, state, cur, scan, pushflg, place, cnrcv, resmsg, req_list,
                 tn, calls, answers, bounds>>

\* res_delete_tn.
DeleteTn ==
  /\ rpt # <<>> /\ Head(rpt).type = "LSNODE"
  /\ LET n == Head(rpt).nodeid
     IN  /\ pnd' = [pnd EXCEPT ![n].offline = TRUE]
         /\ ack_flag' = ack_flag \ {n}
  /\ rpt' = Tail(rpt)
  /\ UNCHANGED <<ncn, state, cur, scan, pushflg, place, cnrcv, resmsg, req_list,
                 tn, calls, answers, bounds>>

-----------------------------------------------------------------------------
\* sysm on the CN: remote calls.

\* A call goes to its node, a broadcast to all; some copies are lost.
Targets(q) == {n \in Nodes : /\ tn[n].state # "OFF"
                             /\ q.kind \in {"id", "rcv"} => n = q.node}

Transmit(q, late) ==
  \E lost \in SUBSET Targets(q) :
    /\ calls' = [n \in Nodes |-> IF n \in Targets(q) \ lost THEN Append(calls[n], q)
                                ELSE calls[n]]
    /\ faults' = faults + late + Cardinality(lost)
    /\ faults' <= MaxFault

\* resmsg_proc: a call ("r"), a change of the CN's own tables or a commit ("c").
ResmsgProc ==
  /\ resmsg # <<>>
  /\ resmsg' = Tail(resmsg)
  /\ LET m == Head(resmsg)
     IN  \/ /\ m.type = "r"
            /\ req_list' = req_list \cup {[req |-> m.req, retry |-> Retry]}
            /\ Transmit(m.req, 0)
            /\ UNCHANGED cnrcv
         \/ /\ m.type = "ADD_RCV_FIXS"
            /\ cnrcv' = cnrcv \cup {m.cell}
            /\ UNCHANGED <<req_list, calls, faults>>
         \/ /\ m.type = "DEL_RCV_FIXS"
            /\ cnrcv' = cnrcv \ {m.cell}
            /\ UNCHANGED <<req_list, calls, faults>>
         \/ /\ m.type = "COMMIT_FIXS"
            /\ UNCHANGED <<cnrcv, req_list, calls, faults>>
  /\ UNCHANGED <<rpt, ncn, pnd, ack_flag, state, cur, scan, pushflg, place, tn, answers,
                 joins>>

(***************************************************************************)
(* The four callbacks, given the acknowledgements still awaited: what they *)
(* make of the state of the node and whether they are done (return 0).     *)
(***************************************************************************)
\* The callback of the other broadcast, copied.
FinishAdded(kind) == "ADD_FINISH"

Finish(kind) == IF kind = "trs" THEN "ADD_FINISH" ELSE "DEL_FINISH"

\* Finished with the first answer, and with every answer.
StateAfterFirst(kind, acks, failed, old) ==
  IF kind \in {"trs", "del"} THEN IF failed THEN "FAIL" ELSE Finish(kind)
  ELSE IF failed THEN "FAIL" ELSE IF kind = "id" THEN "ADD_RCV_RES" ELSE "ADD_TRS_RES"

DoneAtOnce(kind, acks, failed) == TRUE

StateAfter(kind, acks, failed, old) ==
  IF kind \in {"trs", "del"}
  THEN IF acks = {} THEN Finish(kind) ELSE IF failed THEN "FAIL" ELSE old
  ELSE IF failed THEN "FAIL" ELSE IF kind = "id" THEN "ADD_RCV_RES" ELSE "ADD_TRS_RES"

Done(kind, acks, failed) == IF kind \in {"trs", "del"} THEN acks = {} ELSE ~failed

(***************************************************************************)
(* An answer without a body names nobody: res_add_trs_rpc_cbk takes it for *)
(* a failure; res_del_res_rpc_cbk reads a byte beyond it, any node's       *)
(* number or none; the other two look no further.                          *)
(***************************************************************************)
Acks(a) ==
  IF a.tlen > 0 THEN {ack_flag \ {a.from}}
  ELSE IF a.kind = "del" THEN {ack_flag \ {m} : m \in Nodes \cup {0}}
  ELSE {ack_flag}

(***************************************************************************)
(* rpc_proc_input: an answer.  One to a call that is gone is dropped when  *)
(* it arrives; here it leaves the bus with the call.                       *)
(***************************************************************************)
Awaiting(answ, reqs) == {a \in answ : \E e \in reqs : e.req.sessn = a.sessn}

Answer(e, a) ==
  /\ e \in req_list
  /\ a \in Awaiting(answers, {e})
  /\ LET failed == a.kind = "trs" /\ a.tlen = 0
     IN  /\ ack_flag' \in IF a.kind \in {"trs", "del"} THEN Acks(a) ELSE {ack_flag}
         /\ pnd' = [pnd EXCEPT ![e.req.node].state =
                                   StateAfter(a.kind, ack_flag', failed, @)]
         /\ req_list' = IF Done(a.kind, ack_flag', failed)
                        THEN req_list \ {e} ELSE req_list
  /\ answers' = Awaiting(answers \ {a}, req_list')
  /\ UNCHANGED <<rpt, ncn, state, cur, scan, pushflg, place, cnrcv, resmsg, tn, calls,
                 bounds>>

(***************************************************************************)
(* rqc_request_tout: the call is repeated, or given up with a last         *)
(* callback.  The time may be up while copies or answers are on their way. *)
(***************************************************************************)
GivenUp(e) == e.retry = 0

OnTheBus(q) ==
  \/ \E n \in Nodes : \E i \in 1..Len(calls[n]) : calls[n][i] = q
  \/ \E a \in answers : a.sessn = q.sessn

Timeout(e) ==
  /\ e \in req_list
  /\ LET late == IF OnTheBus(e.req) THEN 1 ELSE 0
     IN  \/ /\ ~GivenUp(e)
            /\ req_list' = (req_list \ {e}) \cup {[e EXCEPT !.retry = @ - 1]}
            /\ Transmit(e.req, late)
            /\ UNCHANGED pnd
         \/ /\ GivenUp(e)
            /\ faults + late <= MaxFault
            /\ faults' = faults + late
            /\ req_list' = req_list \ {e}
            /\ pnd' = [pnd EXCEPT ![e.req.node].state =
                                     StateAfter(e.req.kind, ack_flag, TRUE, @)]
            /\ UNCHANGED calls
  /\ answers' = Awaiting(answers, req_list')
  /\ UNCHANGED <<rpt, ncn, ack_flag, state, cur, scan, pushflg, place, cnrcv, resmsg, tn,
                 joins>>

-----------------------------------------------------------------------------
\* resm.

(***************************************************************************)
(* A number for a call that nobody remembers: req_sessn counts up to 2^32, *)
(* here the least number that no call, answer or node holds any more.      *)
(***************************************************************************)
SessnInUse ==
  {e.req.sessn : e \in req_list}
    \cup (UNION {{calls[n][i].sessn : i \in 1..Len(calls[n])} : n \in Nodes})
    \cup {a.sessn : a \in answers} \cup {tn[n].sessn : n \in Nodes}
    \cup {resmsg[i].req.sessn : i \in {j \in 1..Len(resmsg) : resmsg[j].type = "r"}}

Fresh == Least({k \in 1..(Cardinality(SessnInUse) + 1) : k \notin SessnInUse})

Request(kind, n, cells) ==
  [type |-> "r",
   req  |-> [sessn |-> Fresh, kind |-> kind, node |-> n, cells |-> cells]]

\* A list of the elements of a set; in which order is not modelled.
InSomeOrder(S) ==
  CHOOSE list \in [1..Cardinality(S) -> S] :
    \A i, j \in 1..Cardinality(S) : list[i] = list[j] => i = j

\* Changes of the CN's own table of receptions, one message for each cell.
Local(type, cells) ==
  [i \in 1..Cardinality(cells) |-> [type |-> type, cell |-> InSomeOrder(cells)[i]]]

NodeState(n, s) == pnd' = [pnd EXCEPT ![n].state = s]

(***************************************************************************)
(* resfrm_alloc for the resources of a node, one after the other until one *)
(* fails: each gets another free place.                                    *)
(***************************************************************************)
FreePlaces == Places \ {place[r] : r \in Res}
Placed(n)  == {i \in 1..Len(Trs[n]) : i <= Cardinality(FreePlaces)}

Grant(n) ==
  [r \in Res |->
     IF \E i \in Placed(n) : Trs[n][i] = r
     THEN InSomeOrder(FreePlaces)[CHOOSE i \in Placed(n) : Trs[n][i] = r]
     ELSE place[r]]

\* The CN is served first (res_new_cn, res_add_cn); nothing else is active yet.
AddCn ==
  /\ state = "BOOT"
  /\ state' = "IDLE"
  /\ place' = Grant(0)
  /\ UNCHANGED <<rpt, ncn, pnd, ack_flag, cur, scan, pushflg, cnrcv, resmsg, req_list,
                 tn, calls, answers, bounds>>

(***************************************************************************)
(* CFG_IDLE: the first node of the list that came online and is not        *)
(* configured, or was lost and is.  sysm may change a node while the loop  *)
(* runs past it, so that any node of the list may be the one it stops at.  *)
(***************************************************************************)
\* The flag that says the node was lost left out.
GoesAnyway(n) == pnd[n].state \notin {"INIT", "DEL_FINISH"}

Comes(n) == pnd[n].state \in {"INIT", "DEL_FINISH"} /\ pnd[n].online
Goes(n)  == pnd[n].state \notin {"INIT", "DEL_FINISH"} /\ pnd[n].offline

PickOnline(n) ==
  /\ state = "IDLE"
  /\ n \in Listed /\ Comes(n)
  /\ pnd' = [pnd EXCEPT ![n].online = FALSE, ![n].state = "DOWNLOAD_RES_ID"]
  /\ state' = "ONLINE" /\ cur' = n
  /\ UNCHANGED <<rpt, ncn, ack_flag, scan, pushflg, place, cnrcv, resmsg, req_list,
                 tn, calls, answers, bounds>>

PickOffline(n) ==
  /\ state = "IDLE"
  /\ n \in Listed /\ Goes(n)
  /\ pnd' = [pnd EXCEPT ![n].offline = FALSE, ![n].state = "DEL_RES"]
  /\ state' = "OFFLINE" /\ cur' = n
  /\ UNCHANGED <<rpt, ncn, ack_flag, scan, pushflg, place, cnrcv, resmsg, req_list,
                 tn, calls, answers, bounds>>

\* Nothing to serve and a commit is due: res_push_commit.
PushCommit ==
  /\ state = "IDLE" /\ pushflg
  /\ \A n \in Listed : ~Comes(n) /\ ~Goes(n)
  /\ pushflg' = FALSE
  /\ resmsg' = Append(resmsg, [type |-> "COMMIT_FIXS"])
  /\ UNCHANGED <<rpt, ncn, pnd, ack_flag, state, cur, scan, place, cnrcv, req_list,
                 tn, calls, answers, bounds>>

Serving(mode, s) == state = mode /\ scan = NoScan /\ pnd[cur].state = s

\* res_download_res_id.
DownloadResId ==
  /\ Serving("ONLINE", "DOWNLOAD_RES_ID")
  /\ NodeState(cur, "WAIT_ACK")
  /\ resmsg' = Append(resmsg, Request("id", cur, {}))
  /\ UNCHANGED <<rpt, ncn, ack_flag, state, cur, scan, pushflg, place, cnrcv, req_list,
                 tn, calls, answers, bounds>>

\* res_add_rcv_res, for the resources that are active now.
AddRcvRes ==
  /\ Serving("ONLINE", "ADD_RCV_RES")
  /\ LET rs == Rcv[cur] \cap Active
     IN  IF rs = {}
         THEN NodeState(cur, "ADD_TRS_RES") /\ UNCHANGED resmsg
         ELSE /\ NodeState(cur, "WAIT_ACK")
              /\ resmsg' = Append(resmsg, Request("rcv", cur, Cells(rs, place)))
  /\ UNCHANGED <<rpt, ncn, ack_flag, state, cur, scan, pushflg, place, cnrcv, req_list,
                 tn, calls, answers, bounds>>

(***************************************************************************)
(* res_add_trs_res up to the scan of the list: the resources are placed    *)
(* and made active, and the CN receives those it asked for.  A node that   *)
(* sends nothing is finished, and so is one whose resources do not all fit *)
(* (those that did stay active).                                           *)
(***************************************************************************)
AddTrsRes ==
  /\ Serving("ONLINE", "ADD_TRS_RES")
  /\ place' = Grant(cur)
  /\ IF Trs[cur] = <<>> \/ Placed(cur) # DOMAIN Trs[cur]
     THEN NodeState(cur, "ADD_FINISH") /\ UNCHANGED <<ack_flag, scan, resmsg>>
     ELSE /\ NodeState(cur, "WAIT_ACK")
          /\ resmsg' = resmsg \o Local("ADD_RCV_FIXS", Cells(Sends(cur) \cap Rcv[0], place'))
          /\ ack_flag' = {}
          /\ scan' = [i |-> 1, hit |-> FALSE, cells |-> Cells(Sends(cur), place')]
  /\ UNCHANGED <<rpt, ncn, state, cur, pushflg, cnrcv, req_list, tn, calls, answers, bounds>>

\* res_delete_node that leaves the resources active, or the CN's receptions.
DeleteNodeActive ==
  /\ Serving("OFFLINE", "DEL_RES")
  /\ NodeState(cur, "DEL_FINISH")
  /\ UNCHANGED <<rpt, ncn, ack_flag, state, cur, scan, pushflg, place, cnrcv, resmsg,
                 req_list, tn, calls, answers, bounds>>

DeleteNodeHeard ==
  /\ Serving("OFFLINE", "DEL_RES")
  /\ place' = [r \in Res |-> IF r \in Sends(cur) THEN 0 ELSE place[r]]
  /\ NodeState(cur, "DEL_FINISH")
  /\ UNCHANGED <<rpt, ncn, ack_flag, state, cur, scan, pushflg, cnrcv, resmsg, req_list,
                 tn, calls, answers, bounds>>

\* res_delete_node up to the scan: the resources are freed, the CN forgets them.
DeleteNode ==
  /\ Serving("OFFLINE", "DEL_RES")
  /\ LET gone == Sends(cur) \cap Active
     IN  IF gone = {}
         THEN NodeState(cur, "DEL_FINISH") /\ UNCHANGED <<place, ack_flag, scan, resmsg>>
         ELSE /\ NodeState(cur, "WAIT_ACK")
              /\ place' = [r \in Res |-> IF r \in Sends(cur) THEN 0 ELSE place[r]]
              /\ resmsg' = resmsg \o Local("DEL_RCV_FIXS", Cells(gone \cap Rcv[0], place))
              /\ ack_flag' = {}
              /\ scan' = [i |-> 1, hit |-> FALSE, cells |-> Cells(gone, place)]
  /\ UNCHANGED <<rpt, ncn, state, cur, pushflg, cnrcv, req_list, tn, calls, answers, bounds>>

(***************************************************************************)
(* The scan of ncn that sets ack_flag: a node is looked at, then its bit   *)
(* is set, and sysm may run in between.                                    *)
(***************************************************************************)
InformedOf(m) == pnd[m].state = "ADD_FINISH" /\ ~pnd[m].offline

ScanTest ==
  /\ scan.i \in 1..Len(ncn) /\ ~scan.hit
  /\ scan' = IF InformedOf(ncn[scan.i]) THEN [scan EXCEPT !.hit = TRUE]
             ELSE [scan EXCEPT !.i = @ + 1]
  /\ UNCHANGED <<rpt, ncn, pnd, ack_flag, state, cur, pushflg, place, cnrcv, resmsg,
                 req_list, tn, calls, answers, bounds>>

ScanSet ==
  /\ scan.hit
  /\ ack_flag' = ack_flag \cup {ncn[scan.i]}
  /\ scan' = [scan EXCEPT !.i = @ + 1, !.hit = FALSE]
  /\ UNCHANGED <<rpt, ncn, pnd, state, cur, pushflg, place, cnrcv, resmsg, req_list,
                 tn, calls, answers, bounds>>

\* The broadcast; what is gone need not be told when there is nobody to tell.
ScanEnd ==
  /\ scan.i > Len(ncn)
  /\ scan' = NoScan
  /\ IF state = "OFFLINE" /\ ack_flag = {}
     THEN NodeState(cur, "DEL_FINISH") /\ UNCHANGED resmsg
     ELSE /\ resmsg' = Append(resmsg, Request(IF state = "ONLINE" THEN "trs" ELSE "del",
                                              cur, scan.cells))
          /\ UNCHANGED pnd
  /\ UNCHANGED <<rpt, ncn, ack_flag, state, cur, pushflg, place, cnrcv, req_list, tn,
                 calls, answers, bounds>>

\* The node is served, well or not; only a success asks for a commit.
EndServe ==
  /\ \/ Serving("ONLINE", "ADD_FINISH") \/ Serving("OFFLINE", "DEL_FINISH")
     \/ Serving("ONLINE", "FAIL") \/ Serving("OFFLINE", "FAIL")
  /\ pushflg' = (pushflg \/ pnd[cur].state # "FAIL")
  /\ state' = "IDLE" /\ cur' = 0
  /\ UNCHANGED <<rpt, ncn, pnd, ack_flag, scan, place, cnrcv, resmsg, req_list, tn, calls,
                 answers, bounds>>

\* resm has LOW_PRIORITY (tmux.c:1642) and runs only while sysm has nothing to read.
Resm ==
  /\ rpt = <<>> /\ resmsg = <<>>
  /\ \/ AddCn \/ \E n \in Nodes : PickOnline(n) \/ PickOffline(n)
     \/ PushCommit \/ DownloadResId \/ AddRcvRes \/ AddTrsRes \/ DeleteNode
     \/ ScanTest \/ ScanSet \/ ScanEnd \/ EndServe

-----------------------------------------------------------------------------
\* The services of a TN (sysres_srv_add_res_id, _add_rcv_res, _add_trs_res, _del_res).

Mine(n, cells)  == {c \in cells : c[1] \in Sends(n)}
Heard(n, cells) == {c \in cells : c[1] \in Rcv[n]}
At(cells)       == {c[2] : c \in cells}

\* The tables after a call; a reception is deleted by its place alone.
Configured(n, q) ==
  LET t == [tn[n] EXCEPT !.state = "CFG", !.sessn = q.sessn, !.tlen = 1]
      own == q.node = n
  IN  IF q.kind = "id" THEN t
      ELSE IF q.kind = "rcv" THEN [t EXCEPT !.rcv = @ \cup q.cells]
      ELSE IF q.kind = "trs"
      THEN IF own THEN [t EXCEPT !.trs = @ \cup Mine(n, q.cells)]
           ELSE [t EXCEPT !.rcv = @ \cup Heard(n, q.cells)]
      ELSE IF own THEN [t EXCEPT !.trs = @ \ Mine(n, q.cells)]
           ELSE [t EXCEPT !.rcv = {c \in @ : c[2] \notin At(Heard(n, q.cells))}]

\* An answer leaves the node, or is lost.
Reply(n, q, tlen) ==
  LET a == [sessn |-> q.sessn, kind |-> q.kind, from |-> n, tlen |-> tlen]
  IN  \/ answers' = Awaiting(answers \cup {a}, req_list) /\ UNCHANGED faults
      \/ faults < MaxFault /\ faults' = faults + 1 /\ UNCHANGED answers

(***************************************************************************)
(* rpc_proc_input on a TN.  A call it has seen last is answered again, with *)
(* the body of the first answer: none at all if the service had ignored    *)
(* the call because the node has no ids yet.                               *)
(***************************************************************************)
Serve(n) ==
  /\ calls[n] # <<>>
  /\ calls' = [calls EXCEPT ![n] = Tail(@)]
  /\ LET q == Head(calls[n])
         again   == tn[n].sessn = q.sessn
         ignored == q.kind # "id" /\ tn[n].state # "CFG"
     IN  \/ /\ again
            /\ UNCHANGED tn
            /\ Reply(n, q, tn[n].tlen)
         \/ /\ ~again /\ ignored
            /\ tn' = [tn EXCEPT ![n].sessn = q.sessn, ![n].tlen = 0]
            /\ UNCHANGED <<answers, faults>>
         \/ /\ ~again /\ ~ignored
            /\ tn' = [tn EXCEPT ![n] = Configured(n, q)]
            /\ Reply(n, q, 1)
  /\ UNCHANGED <<cnvars, joins>>

-----------------------------------------------------------------------------

Sysm ==
  \/ NewTn \/ DeleteTn \/ ResmsgProc
  \/ \E e \in req_list : Timeout(e) \/ \E a \in answers : Answer(e, a)

Next ==
  \/ \E n \in Nodes : Join(n) \/ Leave(n)
  \/ Sysm \/ Resm
  \/ \E n \in Nodes : Serve(n)

Spec == Init /\ [][Next]_vars

(***************************************************************************)
(* Threads keep running, the nodes answer what reaches them, and a timer   *)
(* that was started expires.  Nothing makes a node join or leave.          *)
(***************************************************************************)
Fairness == WF_vars(Resm) /\ WF_vars(Sysm) /\ \A n \in Nodes : WF_vars(Serve(n))

FairSpec == Spec /\ Fairness

-----------------------------------------------------------------------------

Requests ==
  [sessn : Nat \ {0}, kind : Kinds, node : Nodes, cells : SUBSET (Res \X Places)]

Reports == [type : {"NWNODE", "LSNODE"}, nodeid : Nodes]

Messages ==
  [type : {"r"}, req : Requests]
    \cup [type : {"ADD_RCV_FIXS", "DEL_RCV_FIXS"}, cell : Res \X Places]
    \cup [type : {"COMMIT_FIXS"}]

Answers == [sessn : Nat \ {0}, kind : Kinds, from : Nodes, tlen : {0, 1}]

Entries == [state : NodeStates, online : BOOLEAN, offline : BOOLEAN]
Scans   == [i : Nat, hit : BOOLEAN, cells : SUBSET (Res \X Places)]
Tables  == [state : {"OFF", "ONLINE", "CFG"}, sessn : Nat, tlen : {0, 1},
            trs : SUBSET (Res \X Places), rcv : SUBSET (Res \X Places)]

\* Everything has its type, the messages between the threads included.
TypeOK ==
  /\ rpt \in Seq(Reports) /\ ncn \in Seq(Nodes)
  /\ pnd \in [Nodes -> Entries]
  /\ ack_flag \subseteq Nodes
  /\ state \in {"BOOT", "IDLE", "ONLINE", "OFFLINE"}
  /\ cur \in Nodes \cup {0} /\ (cur = 0 <=> state \in {"BOOT", "IDLE"})
  /\ scan \in Scans
  /\ pushflg \in BOOLEAN
  /\ place \in [Res -> Places \cup {0}]
  /\ cnrcv \subseteq Res \X Places
  /\ resmsg \in Seq(Messages)
  /\ req_list \subseteq [req : Requests, retry : 0..Retry] /\ IsFiniteSet(req_list)
  /\ tn \in [Nodes -> Tables]
  /\ calls \in [Nodes -> Seq(Requests)]
  /\ answers \subseteq Answers
  /\ IsFiniteSet(answers)
  /\ joins \in [Nodes -> Nat] /\ faults \in Nat

(***************************************************************************)
(* No two nodes send in the same place, whatever was lost, repeated or     *)
(* answered late: the tables of senders of the nodes on the bus are apart. *)
(***************************************************************************)
SendersApart ==
  \A m, n \in Nodes : m # n => At(tn[m].trs) \cap At(tn[n].trs) = {}

(***************************************************************************)
(* "Receptions are added first, transmissions later; its own resources are *)
(* not active yet" (resmgr.c:262): when a node is told what to receive, or *)
(* its resources are placed, none of them is active.                       *)
(***************************************************************************)
OwnInactive ==
  \A n \in Nodes :
    pnd[n].state \in {"DOWNLOAD_RES_ID", "ADD_RCV_RES", "ADD_TRS_RES"} =>
      Sends(n) \cap Active = {}

(***************************************************************************)
(* Once resm's messages are read, what the CN receives is active, and in   *)
(* the place where its sender was granted it.                              *)
(***************************************************************************)
CnReceivesActive == resmsg = <<>> => cnrcv \subseteq Cells(Active, place)

(***************************************************************************)
(* A node whose acknowledgement counts as given has what it asked for: all *)
(* configured nodes on the bus receive from one another, in the right      *)
(* place, once resm is idle and no report is pending ("has every node      *)
(* answered?", sysres.c:1038).  A node not all of whose resources fit is   *)
(* finished as well and receives, but its own are never announced.         *)
(***************************************************************************)
Settled(n)   == pnd[n].state = "ADD_FINISH" /\ ~pnd[n].offline /\ ~pnd[n].online
Announced(n) == Settled(n) /\ Sends(n) \subseteq Active

ReceiversInformed ==
  state = "IDLE" /\ rpt = <<>> =>
    \A m, n \in Nodes : m # n /\ Announced(m) /\ Settled(n) =>
      Cells(Sends(m) \cap Rcv[n], place) \subseteq tn[n].rcv

(***************************************************************************)
(* resm never waits for nobody: while it waits for a callback, a call for  *)
(* its node is in the queue or awaits an answer or its timeout.            *)
(***************************************************************************)
Awaited(n) ==
  \/ \E e \in req_list : e.req.node = n
  \/ \E i \in 1..Len(resmsg) : resmsg[i].type = "r" /\ resmsg[i].req.node = n

WaitIsCovered ==
  cur # 0 /\ scan = NoScan /\ pnd[cur].state = "WAIT_ACK" => Awaited(cur)

\* resm always comes back to look for the next node.
ResmReturns == state # "IDLE" ~> state = "IDLE"

\* The places of a node that is lost, and stays so, become free.
LostReleased ==
  \A n \in Nodes :
    tn[n].state = "OFF" /\ Sends(n) \cap Active # {}
      ~> tn[n].state # "OFF" \/ Sends(n) \cap Active = {}

(***************************************************************************)
(* "After a node is online, the first remote call: the node stores the     *)
(* list of ids that the CN sends" (sysres.c:2807): a node that came online *)
(* is served.                                                              *)
(***************************************************************************)
OnlineIsServed == \A n \in Nodes : pnd[n].online ~> ~pnd[n].online
=============================================================================
