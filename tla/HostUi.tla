------------------------------- MODULE HostUi -------------------------------
(***************************************************************************)
(* The host interface of the CN (atbui.c, sysm/sysent.c, sysm/sysres.c).   *)
(* A host program is connected to the CN itself, whose UI thread (tty_mux) *)
(* takes its frames, or to a TN, which forwards each frame in a remote     *)
(* call that sysm serves.  Both threads put packets together in one        *)
(* buffer, take commands to other nodes into one slot, and reply through   *)
(* one address; sysm looks into the slot every 50 ms.                      *)
(*                                                                         *)
(* A step of the UI thread ends where sysm may come between; a step of     *)
(* sysm is one event of its loop, the tick is two.  The data of a message  *)
(* are the message.                                                        *)
(***************************************************************************)
EXTENDS Naturals, Sequences, FiniteSets

CONSTANTS
  TNs,        \* the TNs; the CN is 0
  Msgs,       \* what the hosts send
  Host,       \* the node at which the sender of a message is connected
  Kind, Node, \* the command and the node it is about
  Packets,    \* into how many packets it is split
  Script,     \* the messages of each host, in order
  MaxFault,   \* bound: calls of a TN that are repeated or lost
  MaxReport,  \* bound: alarms of TNs
  None

\* The commands that go through the slot, and where their target is kept.
Field == [getsig |-> "atb_sig_nodeid", getbps |-> "dbgget_nodeid", getdbg |-> "dbgget_nodeid",
          setdbg |-> "dbgset_nodeid", getdev |-> "devget_nodeid", setdev |-> "devset_nodeid"]
SlotKinds == DOMAIN Field
Fields == {Field[k] : k \in SlotKinds}

MaxPackets == 4   \* BUF_SIZE / 1024
All == 255        \* the number for every node, of devset_nodeid

ASSUME HostUiAssumption ==
  /\ 0 \notin TNs /\ All \notin TNs
  /\ \A m \in Msgs : /\ Host[m] \in TNs \cup {0}
                     /\ Kind[m] \in SlotKinds \cup {"direct", "txgain"}
                     /\ Packets[m] \in 1..MaxPackets
                     /\ Node[m] \in TNs \cup {0, All}
  /\ Script \in [TNs \cup {0} -> Seq(Msgs)]
  /\ MaxFault \in Nat /\ MaxReport \in Nat

VARIABLES
  script,     \* what each host still has to send
  wire,       \* the packets of each host on their way
  rbuf,       \* the packets in the buffer, up to ridx
  ui,         \* what the UI thread is in the middle of
  atbui_cmd, target, ui_dat_buf, dev_set_buf, uiforward_nodeid,
  ticking,    \* sysm is between the switch of the tick and its end
  calls,      \* calls of the CN that are not answered yet
  faults, reports,
  heard,      \* history: the nodes from which something came
  wrong,      \* history: what went wrong, and two circumstances, "query" (a device was asked)
              \* and "raced" (a TN called while the UI thread was in the middle of a message)
  accepted, performed   \* history: commands put into the slot, and carried out

bufs == <<ui_dat_buf, dev_set_buf>>
slot == <<atbui_cmd, target, bufs>>
counts == <<faults, reports>>
vars == <<script, wire, rbuf, ui, slot, uiforward_nodeid, ticking, calls, counts, heard, wrong, accepted, performed>>

Hosts == TNs \cup {0}

Init ==
  /\ script = Script
  /\ wire = [h \in Hosts |-> <<>>]
  /\ rbuf = <<>>
  /\ ui = {}
  /\ atbui_cmd = "boot"   \* 0, which is not E_UI_CMD_NONE: nothing is taken before the first tick
  /\ target = [f \in Fields |-> 0]
  /\ ui_dat_buf = None /\ dev_set_buf = None
  /\ uiforward_nodeid = 0
  /\ ticking = FALSE
  /\ calls = {}
  /\ faults = 0 /\ reports = 0
  /\ heard = {} /\ wrong = {}
  /\ accepted = 0 /\ performed = 0

Note(names) == wrong' = wrong \cup names
If(condition, name) == IF condition THEN {name} ELSE {}
Raced == If(ui # {}, "raced")

-----------------------------------------------------------------------------
(* Packets *)

PacketsOf(m) == {<<m, i>> : i \in 1..Packets[m]}
InOrder(m) == [i \in 1..Packets[m] |-> <<m, i>>]
IsFirst(p) == p[2] = 1 /\ Packets[p[1]] > 1
IsLast(p) == p[2] = Packets[p[1]]

\* A host sends its next message, whether or not it has a reply to the one before.
HostSends(h) ==
  /\ script[h] # <<>>
  /\ wire' = [wire EXCEPT ![h] = @ \o InOrder(Head(script[h]))]
  /\ script' = [script EXCEPT ![h] = Tail(@)]
  /\ UNCHANGED <<rbuf, ui, slot, uiforward_nodeid, ticking, calls, counts, heard, wrong, accepted, performed>>

\* eth_recv: the buffer after a packet.  The limit is checked before the type, only the
\* first of several packets starts the buffer anew.
EthRecv(b, p) ==
  IF Len(b) + 1 > MaxPackets THEN <<>>
  ELSE IF IsFirst(p) THEN <<p>>
  ELSE Append(b, p)

\* Mutant: the length is compared, not the sum.
CrcOfLength(b, p) == Len(b) = Packets[p[1]]

\* The sum of all bytes tells a message from another one, not the order of its packets.
CrcFits(b, p) == Len(b) = Packets[p[1]] /\ {b[i] : i \in 1..Len(b)} = PacketsOf(p[1])

Finished(b, p) == IsLast(p) /\ EthRecv(b, p) # <<>> /\ CrcFits(EthRecv(b, p), p)

\* Mutant: a message that is complete stays in the buffer.
KeptFull(b, p) == EthRecv(b, p)

\* The buffer is also emptied when the sum does not fit.
Kept(b, p) == IF IsLast(p) THEN <<>> ELSE EthRecv(b, p)

\* The packets of a message, or three of it in their order.
Intact(b, m) ==
  /\ Len(b) = Packets[m] /\ {b[i] : i \in 1..Len(b)} = PacketsOf(m)
  /\ Packets[m] <= 3 => b = InOrder(m)

-----------------------------------------------------------------------------
(* Commands (atb_ui_parse) *)

ForSlot(m) == Kind[m] \in SlotKinds
Takes(m) == atbui_cmd = "none" /\ Kind[m] # "direct"

TakeSlot(m) ==
  /\ atbui_cmd' = Kind[m]
  /\ accepted' = accepted + (IF ForSlot(m) THEN 1 ELSE 0)

\* The node that the data at the start of the buffer names.
SetTarget(m, at) == target' = IF ForSlot(m) THEN [target EXCEPT ![Field[Kind[m]]] = Node[at]] ELSE target

\* Mutant: SET_DEVICE copies its data to the buffer it shares with SET_DEBUG only.
CopyBlockShared(m, at, took) ==
  /\ dev_set_buf' = IF took /\ Kind[m] = "getdev" THEN at ELSE dev_set_buf
  /\ ui_dat_buf' = IF Kind[m] = "setdbg" \/ (took /\ Kind[m] = "setdev") THEN at ELSE ui_dat_buf

\* SET_DEBUG copies its data even if the slot is taken.
CopyBlock(m, at, took) ==
  /\ dev_set_buf' = IF took /\ Kind[m] \in {"getdev", "setdev"} THEN at ELSE dev_set_buf
  /\ ui_dat_buf' = IF Kind[m] = "setdbg" \/ (took /\ Kind[m] = "setdev") THEN at ELSE ui_dat_buf

\* ui_eth_send: each packet of a reply goes to the TN that the address names, or to the CN's
\* own host if it names none; then the address is cleared.
UiEthSend(address, asker, more) ==
  /\ Note(If(address # asker, "astray") \cup more)
  /\ uiforward_nodeid' = 0

\* A frame of a TN's host in sysm: the service notes the TN, and a message that is complete
\* is dealt with and answered.  Data at the start of the buffer are overwritten.
SrvUiData(h) ==
  LET p == Head(wire[h])
      m == p[1]
      b == EthRecv(rbuf, p)
  IN /\ ~ticking
     /\ heard' = heard \cup {h}
     /\ IF Finished(rbuf, p)
        THEN /\ IF Takes(m) THEN TakeSlot(m) /\ SetTarget(m, m)
                            ELSE UNCHANGED <<atbui_cmd, accepted, target>>
             /\ CopyBlock(m, m, Takes(m))
             /\ UiEthSend(h, h, If(~Intact(b, m), "garbled") \cup Raced)
        ELSE /\ Note(If(IsLast(p), "rejected") \cup Raced)
             /\ uiforward_nodeid' = h
             /\ UNCHANGED <<slot, accepted>>
     /\ rbuf' = Kept(rbuf, p)
     /\ ui' = IF IsFirst(p) \/ rbuf = <<>> THEN {[u EXCEPT !.at = m] : u \in ui} ELSE ui
     /\ UNCHANGED <<script, ticking, calls, reports, performed>>

Fault == faults < MaxFault /\ faults' = faults + 1

\* Each frame is a call of its own: it arrives, arrives and is repeated later, or arrives
\* only when it is repeated.
TnFrame(h) ==
  /\ wire[h] # <<>>
  /\ \/ /\ SrvUiData(h)
        /\ \/ wire' = [wire EXCEPT ![h] = Tail(@)] /\ UNCHANGED faults
           \/ wire' = [wire EXCEPT ![h] = Tail(@) \o <<Head(@)>>] /\ Fault
     \/ /\ Fault
        /\ Len(wire[h]) > 1
        /\ wire' = [wire EXCEPT ![h] = Tail(@) \o <<Head(@)>>]
        /\ UNCHANGED <<script, rbuf, ui, slot, uiforward_nodeid, ticking, calls, reports, heard, wrong, accepted, performed>>

\* Mutant: the address of the last TN that called is not reset.
AtbUiProcessForward ==
  /\ wire[0] # <<>> /\ ui = {}
  /\ heard' = heard \cup {0}
  /\ wire' = [wire EXCEPT ![0] = Tail(@)]
  /\ LET p == Head(wire[0])
         b == EthRecv(rbuf, p)
     IN IF Finished(rbuf, p)
        THEN /\ ui' = {[msg |-> p[1], at |-> p[1], took |-> Takes(p[1]), taken |-> FALSE]}
             /\ rbuf' = b
             /\ Note(If(~Intact(b, p[1]), "garbled"))
        ELSE /\ rbuf' = Kept(rbuf, p)
             /\ Note(If(IsLast(p), "rejected"))
             /\ UNCHANGED ui
  /\ UNCHANGED <<script, slot, uiforward_nodeid, ticking, calls, counts, accepted, performed>>

\* A frame of the CN's own host: up to the look at the slot ...
AtbUiProcess ==
  /\ wire[0] # <<>> /\ ui = {}
  /\ heard' = heard \cup {0}
  /\ uiforward_nodeid' = 0
  /\ wire' = [wire EXCEPT ![0] = Tail(@)]
  /\ LET p == Head(wire[0])
         b == EthRecv(rbuf, p)
     IN IF Finished(rbuf, p)
        THEN /\ ui' = {[msg |-> p[1], at |-> p[1], took |-> Takes(p[1]), taken |-> FALSE]}
             /\ rbuf' = b
             /\ Note(If(~Intact(b, p[1]), "garbled"))
        ELSE /\ rbuf' = Kept(rbuf, p)
             /\ Note(If(IsLast(p), "rejected"))
             /\ UNCHANGED ui
  /\ UNCHANGED <<script, slot, ticking, calls, counts, accepted, performed>>

\* ... the slot is taken; SET_DEVICE alone has named the node by then ...
AtbUiTake ==
  /\ \E u \in ui :
       /\ u.took /\ ~u.taken
       /\ TakeSlot(u.msg)
       /\ IF Kind[u.msg] = "setdev" THEN SetTarget(u.msg, u.at) ELSE UNCHANGED target
       /\ ui' = {[u EXCEPT !.taken = TRUE]}
  /\ UNCHANGED <<script, wire, rbuf, bufs, uiforward_nodeid, ticking, calls, counts, heard, wrong, performed>>

\* ... and the rest: the node, the data, the reply to the TN that the address names, if any,
\* and an empty buffer.
AtbUiFinish ==
  /\ \E u \in ui :
       /\ u.took => u.taken
       /\ IF u.took /\ Kind[u.msg] # "setdev" THEN SetTarget(u.msg, u.at) ELSE UNCHANGED target
       /\ CopyBlock(u.msg, u.at, u.took)
  /\ UiEthSend(uiforward_nodeid, 0, {})
  /\ ui' = {}
  /\ rbuf' = <<>>
  /\ UNCHANGED <<script, wire, atbui_cmd, ticking, calls, counts, heard, accepted, performed>>

-----------------------------------------------------------------------------
(* sysm *)

\* sysres_srv_tn_info: an alarm of a TN leaves its address behind, too.
SrvTnInfo(n) ==
  /\ ~ticking
  /\ reports < MaxReport
  /\ reports' = reports + 1
  /\ uiforward_nodeid' = n
  /\ heard' = heard \cup {n}
  /\ Note(Raced)
  /\ UNCHANGED <<script, wire, rbuf, ui, slot, ticking, calls, faults, accepted, performed>>

\* What a query leaves in a buffer: the data of one node, of one kind.
Answer(k, n) == [kind |-> k, node |-> n]
\* A command that waits for an answer.
Asks(k) == k \in {"getsig", "getbps", "getdbg", "getdev"}

\* A command about the CN itself (sysres_srv_*): the answer to a query fills the buffer at
\* once, and what was set does not stay there as it came.
LocalAnswer(k) ==
  LET left == IF Asks(k) THEN Answer(k, 0) ELSE None
      device == k \in {"getdev", "setdev"}
  IN /\ dev_set_buf' = IF device THEN left ELSE dev_set_buf
     /\ ui_dat_buf' = IF device THEN ui_dat_buf ELSE left
     /\ UNCHANGED calls

\* A query or setting for a TN is a call (rpc_get_*, rpc_set_*), without repetition.
RemoteCall(k, n) ==
  /\ calls' = IF Asks(k) THEN calls \cup {Answer(k, n)} ELSE calls
  /\ UNCHANGED bufs

\* SET_DEVICE sends what the buffer holds.
IsBlockFor(b, n) == b \in Msgs /\ Kind[b] = "setdev" /\ Node[b] = n

\* sys_timer_tick: the switch over the slot; a setting for all is also one of the CN ...
TickSwitch ==
  /\ ~ticking
  /\ ticking' = TRUE
  /\ IF atbui_cmd \in SlotKinds
     THEN LET k == atbui_cmd
              n == target[Field[k]]
          IN /\ performed' = performed + 1
             /\ Note(If(k = "setdev" /\ ~IsBlockFor(dev_set_buf, n), "mixed") \cup If(k = "getdev", "query"))
             /\ IF n = 0 \/ (n = All /\ k = "setdev") THEN LocalAnswer(k) ELSE RemoteCall(k, n)
     ELSE UNCHANGED <<performed, wrong, bufs, calls>>
  /\ UNCHANGED <<script, wire, rbuf, ui, atbui_cmd, target, uiforward_nodeid, counts, heard, accepted>>

\* Mutant: the slot is cleared only where the switch has no case for it.
TickEndKept ==
  /\ ticking
  /\ ticking' = FALSE
  /\ atbui_cmd' = IF atbui_cmd \in SlotKinds THEN atbui_cmd ELSE "none"
  /\ UNCHANGED <<script, wire, rbuf, ui, target, bufs, uiforward_nodeid, calls, counts, heard, wrong, accepted, performed>>

\* ... and its end.
TickEnd ==
  /\ ticking
  /\ ticking' = FALSE
  /\ atbui_cmd' = "none"
  /\ UNCHANGED <<script, wire, rbuf, ui, target, bufs, uiforward_nodeid, calls, counts, heard, wrong, accepted, performed>>

\* atbsig_rpc_cbk, devset_rpc_cbk: an answer is copied over what is in the buffer; a call
\* that is not answered is forgotten.
Answered(c) ==
  /\ ~ticking
  /\ calls' = calls \ {c}
  /\ \/ /\ dev_set_buf' = IF c.kind = "getdev" THEN c ELSE dev_set_buf
        /\ ui_dat_buf' = IF c.kind = "getdev" THEN ui_dat_buf ELSE c
     \/ UNCHANGED bufs
  /\ UNCHANGED <<script, wire, rbuf, ui, atbui_cmd, target, uiforward_nodeid, ticking, counts, heard, wrong, accepted, performed>>

Next ==
  \/ \E h \in Hosts : HostSends(h)
  \/ \E h \in TNs : TnFrame(h) \/ SrvTnInfo(h)
  \/ AtbUiProcess \/ AtbUiTake \/ AtbUiFinish
  \/ TickSwitch \/ TickEnd
  \/ \E c \in calls : Answered(c)

Spec == Init /\ [][Next]_vars

-----------------------------------------------------------------------------
(* Properties *)

\* Types of the variables.
TypeOK ==
  /\ \A h \in Hosts : \A i \in 1..Len(wire[h]) : wire[h][i] \in UNION {PacketsOf(m) : m \in Msgs}
  /\ Len(rbuf) <= MaxPackets
  /\ atbui_cmd \in SlotKinds \cup {"boot", "none", "txgain"}
  /\ target \in [Fields -> Hosts \cup {All}]
  /\ uiforward_nodeid \in Hosts

\* eth_recv: whatever packets of several hosts come in between, late or twice, what is
\* parsed is one message; and it is in order unless it has two or more packets in the
\* middle, which the sum does not tell apart.
ParsedAsSent == "garbled" \notin wrong

\* eth_recv, atb_ui_parse: as long as one host alone sends, and no frame is repeated,
\* none of its messages is rejected: nothing of an earlier one is left in the buffer.
AloneIsHeard == faults = 0 /\ Cardinality(heard) <= 1 => "rejected" \notin wrong

\* The slot: a command is carried out once, and in the absence of a host at the CN (whose
\* thread may take the slot between the switch of the tick and its end) none is lost.
PerformedOnce ==
  /\ performed <= accepted
  /\ 0 \notin heard =>
       accepted = performed + (IF atbui_cmd \in SlotKinds /\ ~ticking THEN 1 ELSE 0)

\* uiforward_nodeid: the address of a TN that an earlier frame or alarm left behind does
\* no harm; the CN's own host misses a reply only if a TN calls while the UI thread is
\* in the middle of its message.
RepliesToAsker == "astray" \in wrong => "raced" \in wrong

\* SET_DEVICE: without a host at the CN and without queries of devices whose answers may
\* come late, a node is sent the data that its host set.
BlockIsHosts == 0 \notin heard /\ "query" \notin wrong => "mixed" \notin wrong
=============================================================================
