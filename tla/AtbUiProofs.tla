----------------------------- MODULE AtbUiProofs -----------------------------
(***************************************************************************)
(* The two sides of the UI thread: the host interface, for any nodes,      *)
(* hosts and messages, whatever comes in between, late or twice; and the   *)
(* configuration in flash, for any settings and resources and any width of *)
(* a length, wherever power fails.                                         *)
(***************************************************************************)
EXTENDS HostUi, FlashCfg, FiniteSetTheorems, SequenceTheorems, TLAPS

-----------------------------------------------------------------------------
(* The invariant *)

Pkts == {p \in Msgs \X (1..MaxPackets) : p[2] <= Packets[p[1]]}
InHand ==
  {u \in [msg : Msgs, at : Msgs, took : BOOLEAN, taken : BOOLEAN] : u.took => Kind[u.msg] # "direct"}
Commands == SlotKinds \cup {"boot", "none", "txgain"}

Types ==
  /\ script \in [Hosts -> Seq(Msgs)]
  /\ wire \in [Hosts -> Seq(Pkts)]
  /\ rbuf \in Seq(Pkts) /\ Len(rbuf) <= MaxPackets
  /\ ui \subseteq InHand /\ \A u, v \in ui : u = v
  /\ atbui_cmd \in Commands
  /\ target \in [Fields -> Hosts \cup {All}]
  /\ uiforward_nodeid \in Hosts
  /\ ticking \in BOOLEAN
  /\ faults \in Nat /\ accepted \in Nat /\ performed \in Nat
  /\ heard \subseteq Hosts /\ IsFiniteSet(heard)

\* The first of several packets is at the beginning of the buffer or nowhere.
Anew(b) == \A i \in 2..Len(b) : ~IsFirst(b[i])
Parsed == Anew(rbuf) /\ ParsedAsSent

\* While the UI thread is in the middle of a message the address is empty, or raced.
Addressed == (ui # {} => uiforward_nodeid = 0 \/ "raced" \in wrong) /\ RepliesToAsker

\* What is in the slot is accepted and not performed, until the switch of the tick.
Pending == IF atbui_cmd \in SlotKinds /\ ~ticking THEN 1 ELSE 0
OnceEach ==
  /\ performed + Pending <= accepted
  /\ 0 \notin heard => ui = {} /\ accepted = performed + Pending

\* A setting in the slot has its block in the buffer, and no answer will replace it.
Quiet == 0 \notin heard /\ "query" \notin wrong
BlockKept ==
  Quiet =>
    /\ "mixed" \notin wrong
    /\ \A c \in calls : c.kind # "getdev"
    /\ atbui_cmd = "setdev" /\ ~ticking => IsBlockFor(dev_set_buf, target["devset_nodeid"])

\* A packet is followed by the next of its message, the last one by a first one.
Follows(w, i) ==
  /\ w[i][2] < Packets[w[i][1]] => i < Len(w) /\ w[i + 1] = <<w[i][1], w[i][2] + 1>>
  /\ w[i][2] = Packets[w[i][1]] /\ i < Len(w) => w[i + 1][2] = 1
Unbroken(w) == \A i \in 1..Len(w) : Follows(w, i)
FromFirst(w) == w # <<>> => w[1][2] = 1
\* The buffer holds the beginning of the message that the wire goes on with.
Part(b, w) ==
  LET m == b[1][1]
  IN /\ Len(b) < Packets[m]
     /\ \A i \in 1..Len(b) : b[i] = <<m, i>>
     /\ w # <<>> /\ w[1] = <<m, Len(b) + 1>>
Continues(b, w) == IF b = <<>> THEN FromFirst(w) ELSE Part(b, w)

OneHost == faults = 0 /\ \A g, h \in heard : g = h
Flowing ==
  /\ faults = 0 => \A h \in Hosts : Unbroken(wire[h])
  /\ OneHost =>
       /\ "rejected" \notin wrong
       /\ \A h \in Hosts \ heard : FromFirst(wire[h])
       /\ heard = {} => rbuf = <<>> /\ ui = {}
       /\ \A h \in heard : IF ui = {} THEN Continues(rbuf, wire[h]) ELSE h = 0 /\ FromFirst(wire[h])

IInv == Types /\ Parsed /\ Addressed /\ OnceEach /\ BlockKept /\ Flowing

-----------------------------------------------------------------------------
(* Packets *)

LEMMA Constants ==
  /\ 0 \in Hosts /\ All \notin Hosts
  /\ \A h \in TNs : h \in Hosts /\ h # 0
  /\ \A m \in Msgs : /\ Packets[m] \in 1..MaxPackets
                     /\ Node[m] \in Hosts \cup {All}
                     /\ Kind[m] \in SlotKinds \cup {"direct", "txgain"}
  /\ Script \in [Hosts -> Seq(Msgs)] /\ MaxFault \in Nat
BY HostUiAssumption DEF Hosts, All

LEMMA PacketIs ==
  ASSUME NEW p \in Pkts
  PROVE  /\ p[1] \in Msgs /\ p[2] \in 1..MaxPackets /\ p[2] <= Packets[p[1]]
         /\ p = <<p[1], p[2]>> /\ Packets[p[1]] \in 1..MaxPackets
         /\ p[2] \in Nat /\ Packets[p[1]] \in Nat
<1>1. p \in Msgs \X (1..MaxPackets) /\ p[2] <= Packets[p[1]]
  BY DEF Pkts
<1>2. p[1] \in Msgs /\ p[2] \in 1..MaxPackets /\ p = <<p[1], p[2]>>
  BY <1>1
<1>3. Packets[p[1]] \in 1..MaxPackets
  BY <1>2, Constants
<1>. QED
  BY <1>1, <1>2, <1>3 DEF MaxPackets

LEMMA PacketsOfMessage ==
  ASSUME NEW m \in Msgs
  PROVE  /\ InOrder(m) \in Seq(Pkts) /\ Len(InOrder(m)) = Packets[m]
         /\ \A i \in 1..Packets[m] : InOrder(m)[i] = <<m, i>>
<1>1. Packets[m] \in 1..MaxPackets
  BY Constants
<1>2. \A i \in 1..Packets[m] : <<m, i>> \in Pkts
  BY <1>1 DEF Pkts, MaxPackets
<1>3. InOrder(m) \in [1..Packets[m] -> Pkts]
  BY <1>2 DEF InOrder
<1>4. Packets[m] \in Nat
  BY <1>1 DEF MaxPackets
<1>5. InOrder(m) \in Seq(Pkts) /\ Len(InOrder(m)) = Packets[m]
  BY <1>3, <1>4
<1>. QED
  BY <1>5 DEF InOrder

\* The packet that comes next, and the buffer after it.
LEMMA NextPacket ==
  ASSUME Types, NEW h \in Hosts, wire[h] # <<>>
  PROVE  /\ wire[h] \in Seq(Pkts) /\ Len(wire[h]) \in Nat \ {0}
         /\ Head(wire[h]) \in Pkts /\ Head(wire[h]) = wire[h][1]
         /\ Tail(wire[h]) \in Seq(Pkts) /\ Len(Tail(wire[h])) = Len(wire[h]) - 1
         /\ \A i \in 1..Len(Tail(wire[h])) : Tail(wire[h])[i] = wire[h][i + 1]
<1>1. wire[h] \in Seq(Pkts)
  BY DEF Types
<1>. QED
  BY <1>1, HeadTailProperties

LEMMA Received ==
  ASSUME Types, NEW p \in Pkts
  PROVE  /\ EthRecv(rbuf, p) \in Seq(Pkts) /\ Len(EthRecv(rbuf, p)) <= MaxPackets
         /\ Kept(rbuf, p) \in Seq(Pkts) /\ Len(Kept(rbuf, p)) <= MaxPackets
<1>1. rbuf \in Seq(Pkts) /\ Len(rbuf) <= MaxPackets /\ Len(rbuf) \in Nat
  BY DEF Types
<1>2. <<>> \in Seq(Pkts) /\ Len(<<>>) = 0 /\ <<p>> \in Seq(Pkts) /\ Len(<<p>>) = 1
  OBVIOUS
<1>3. Append(rbuf, p) \in Seq(Pkts) /\ Len(Append(rbuf, p)) = Len(rbuf) + 1
  BY <1>1, AppendProperties
<1>4. EthRecv(rbuf, p) \in Seq(Pkts) /\ Len(EthRecv(rbuf, p)) <= MaxPackets
  BY <1>1, <1>2, <1>3 DEF EthRecv, MaxPackets
<1>. QED
  BY <1>2, <1>4 DEF Kept, MaxPackets

-----------------------------------------------------------------------------
(* Types *)

LEMMA TypesHold ==
  ASSUME Types, Next
  PROVE  Types'
<1>1. ASSUME NEW h \in Hosts, HostSends(h)
      PROVE  Types'
  <2>1. Head(script[h]) \in Msgs /\ Tail(script[h]) \in Seq(Msgs)
    BY <1>1, HeadTailProperties DEF HostSends, Types
  <2>2. wire[h] \o InOrder(Head(script[h])) \in Seq(Pkts)
    BY <2>1, PacketsOfMessage, ConcatProperties DEF Types
  <2>3. wire' \in [Hosts -> Seq(Pkts)] /\ script' \in [Hosts -> Seq(Msgs)]
    BY <1>1, <2>1, <2>2 DEF HostSends, Types
  <2>. QED
    BY <1>1, <2>3 DEF HostSends, Types, slot, bufs, counts
<1>2. ASSUME NEW h \in TNs, TnFrame(h)
      PROVE  Types'
  <2>. DEFINE p == Head(wire[h])
  <2>1. h \in Hosts /\ wire[h] # <<>>
    BY <1>2, Constants DEF TnFrame
  <2>2. p \in Pkts /\ Tail(wire[h]) \in Seq(Pkts)
    BY <2>1, NextPacket
  <2>3. Tail(wire[h]) \o <<p>> \in Seq(Pkts)
    BY <2>2, ConcatProperties
  <2>4. wire' \in [Hosts -> Seq(Pkts)] /\ faults' \in Nat
    <3>1. wire' = [wire EXCEPT ![h] = Tail(@)] \/ wire' = [wire EXCEPT ![h] = Tail(@) \o <<Head(@)>>]
      BY <1>2 DEF TnFrame
    <3>2. faults' = faults \/ faults' = faults + 1
      BY <1>2 DEF TnFrame, Fault
    <3>3. wire' \in [Hosts -> Seq(Pkts)]
      BY <2>2, <2>3, <3>1 DEF Types
    <3>4. faults' \in Nat
      BY <3>2 DEF Types
    <3>. QED
      BY <3>3, <3>4
  <2>5. CASE SrvUiData(h)
    <3>1. p[1] \in Msgs /\ Kind[p[1]] \in SlotKinds \cup {"direct", "txgain"} /\ Node[p[1]] \in Hosts \cup {All}
      BY <2>2, PacketIs, Constants
    <3>2. rbuf' \in Seq(Pkts) /\ Len(rbuf') <= MaxPackets
      BY <2>2, <2>5, Received DEF SrvUiData
    <3>3. ui' \subseteq InHand /\ \A u, v \in ui' : u = v
      <4>1. \A u \in InHand : [u EXCEPT !.at = p[1]] \in InHand
        BY <3>1 DEF InHand
      <4>2. ui' = {[u EXCEPT !.at = p[1]] : u \in ui} \/ ui' = ui
        BY <2>5 DEF SrvUiData
      <4>. QED
        BY <4>1, <4>2 DEF Types
    <3>4. atbui_cmd' \in Commands /\ target' \in [Fields -> Hosts \cup {All}] /\ accepted' \in Nat
      <4>1. \/ TakeSlot(p[1]) /\ SetTarget(p[1], p[1]) /\ Takes(p[1])
            \/ atbui_cmd' = atbui_cmd /\ accepted' = accepted /\ target' = target
        BY <2>5 DEF SrvUiData, slot
      <4>2. Takes(p[1]) => Kind[p[1]] \in Commands
        BY <3>1 DEF Takes, Commands
      <4>3. atbui_cmd' \in Commands
        BY <4>1, <4>2 DEF TakeSlot, Types
      <4>4. target' \in [Fields -> Hosts \cup {All}]
        BY <3>1, <4>1 DEF SetTarget, Types
      <4>5. accepted' = accepted \/ accepted' = accepted + 1 \/ accepted' = accepted + 0
        BY <4>1 DEF TakeSlot
      <4>6. accepted' \in Nat
        BY <4>5 DEF Types
      <4>. QED
        BY <4>3, <4>4, <4>6
    <3>5. uiforward_nodeid' \in Hosts
      BY <2>1, <2>5, Constants DEF SrvUiData, UiEthSend
    <3>6. heard' \subseteq Hosts /\ IsFiniteSet(heard')
      BY <2>1, <2>5, FS_AddElement DEF SrvUiData, Types
    <3>7. script' = script /\ ticking' = ticking /\ performed' = performed
      BY <2>5 DEF SrvUiData
    <3>. QED
      BY <2>4, <3>2, <3>3, <3>4, <3>5, <3>6, <3>7 DEF Types
  <2>6. CASE ~SrvUiData(h)
    BY <1>2, <2>4, <2>6 DEF TnFrame, Types, slot, bufs
  <2>. QED
    BY <2>5, <2>6
<1>3. ASSUME NEW h \in TNs, SrvTnInfo(h)
      PROVE  Types'
  <2>1. h \in Hosts
    BY Constants
  <2>2. heard' \subseteq Hosts /\ IsFiniteSet(heard')
    BY <1>3, <2>1, FS_AddElement DEF SrvTnInfo, Types
  <2>. QED
    BY <1>3, <2>1, <2>2 DEF SrvTnInfo, Types, slot, bufs
<1>4. ASSUME AtbUiProcess
      PROVE  Types'
  <2>. DEFINE p == Head(wire[0])
  <2>1. p \in Pkts /\ Tail(wire[0]) \in Seq(Pkts)
    BY <1>4, NextPacket, Constants DEF AtbUiProcess
  <2>2. p[1] \in Msgs
    BY <2>1, PacketIs
  <2>3. rbuf' \in Seq(Pkts) /\ Len(rbuf') <= MaxPackets
    BY <1>4, <2>1, Received DEF AtbUiProcess
  <2>4. Takes(p[1]) \in BOOLEAN
    BY DEF Takes
  <2>5. ui' \subseteq InHand /\ \A u, v \in ui' : u = v
    <3>1. [msg |-> p[1], at |-> p[1], took |-> Takes(p[1]), taken |-> FALSE] \in InHand
      BY <2>2, <2>4 DEF InHand, Takes
    <3>2. ui' = {[msg |-> p[1], at |-> p[1], took |-> Takes(p[1]), taken |-> FALSE]} \/ ui' = ui
      BY <1>4 DEF AtbUiProcess
    <3>. QED
      BY <3>1, <3>2 DEF Types
  <2>6. heard' \subseteq Hosts /\ IsFiniteSet(heard')
    BY <1>4, FS_AddElement, Constants DEF AtbUiProcess, Types
  <2>. QED
    BY <1>4, <2>1, <2>3, <2>5, <2>6, Constants DEF AtbUiProcess, Types, slot, bufs, counts
<1>5. ASSUME AtbUiTake
      PROVE  Types'
  <2>1. PICK u \in ui : /\ u.took /\ ~u.taken
                        /\ TakeSlot(u.msg)
                        /\ IF Kind[u.msg] = "setdev" THEN SetTarget(u.msg, u.at) ELSE UNCHANGED target
                        /\ ui' = {[u EXCEPT !.taken = TRUE]}
    BY <1>5 DEF AtbUiTake
  <2>2. u \in InHand /\ u.msg \in Msgs /\ u.at \in Msgs
    BY <2>1 DEF Types, InHand
  <2>3. [u EXCEPT !.taken = TRUE] \in InHand
    BY <2>2 DEF InHand
  <2>4. ui' \subseteq InHand /\ \A v, w \in ui' : v = w
    BY <2>1, <2>3
  <2>5. target' \in [Fields -> Hosts \cup {All}]
    BY <2>1, <2>2, Constants DEF Types, SetTarget, ForSlot
  <2>7. Kind[u.msg] \in SlotKinds \cup {"txgain"}
    BY <2>1, <2>2, Constants DEF InHand
  <2>8. atbui_cmd' \in Commands /\ accepted' \in Nat
    BY <2>1, <2>2, <2>7 DEF TakeSlot, Types, Commands
  <2>. QED
    BY <1>5, <2>4, <2>5, <2>8, Constants DEF AtbUiTake, Types, bufs, counts
<1>6. ASSUME AtbUiFinish
      PROVE  Types'
  <2>1. PICK u \in ui : IF u.took /\ Kind[u.msg] # "setdev" THEN SetTarget(u.msg, u.at) ELSE UNCHANGED target
    BY <1>6 DEF AtbUiFinish
  <2>2. u \in InHand /\ u.msg \in Msgs /\ u.at \in Msgs
    BY <2>1 DEF Types, InHand
  <2>3. target' \in [Fields -> Hosts \cup {All}]
    BY <2>1, <2>2, Constants DEF Types, SetTarget, ForSlot
  <2>. QED
    BY <1>6, <2>3, Constants DEF AtbUiFinish, UiEthSend, Types, InHand, counts, MaxPackets
<1>7. ASSUME TickSwitch
      PROVE  Types'
  BY <1>7 DEF TickSwitch, Types, slot, bufs, counts
<1>8. ASSUME TickEnd
      PROVE  Types'
  BY <1>8 DEF TickEnd, Types, Commands, bufs, counts
<1>9. ASSUME NEW c \in calls, Answered(c)
      PROVE  Types'
  BY <1>9 DEF Answered, Types, bufs, counts
<1>. QED
  BY <1>1, <1>2, <1>3, <1>4, <1>5, <1>6, <1>7, <1>8, <1>9 DEF Next

-----------------------------------------------------------------------------
(* What is parsed *)

LEMMA ReceivedAnew ==
  ASSUME Types, Anew(rbuf), NEW p \in Pkts
  PROVE  Anew(EthRecv(rbuf, p)) /\ Anew(Kept(rbuf, p))
<1>1. rbuf \in Seq(Pkts) /\ Len(rbuf) \in Nat
  BY DEF Types
<1>2. Anew(<<>>) /\ Anew(<<p>>)
  BY DEF Anew
<1>3. ASSUME ~IsFirst(p)
      PROVE  Anew(Append(rbuf, p))
  <2>1. Len(Append(rbuf, p)) = Len(rbuf) + 1 /\ Append(rbuf, p)[Len(rbuf) + 1] = p
        /\ \A i \in 1..Len(rbuf) : Append(rbuf, p)[i] = rbuf[i]
    BY <1>1, AppendProperties
  <2>2. SUFFICES ASSUME NEW i \in 2..Len(Append(rbuf, p))
                 PROVE  ~IsFirst(Append(rbuf, p)[i])
    BY DEF Anew
  <2>3. i = Len(rbuf) + 1 \/ (i \in 2..Len(rbuf) /\ i \in 1..Len(rbuf))
    BY <1>1, <2>1, <2>2
  <2>. QED
    BY <1>3, <2>1, <2>3 DEF Anew
<1>4. Anew(EthRecv(rbuf, p))
  BY <1>2, <1>3 DEF EthRecv
<1>. QED
  BY <1>2, <1>4 DEF Kept

\* The last packet is at the end of the buffer.
LEMMA LastReceived ==
  ASSUME Types, NEW p \in Pkts, EthRecv(rbuf, p) # <<>>
  PROVE  LET b == EthRecv(rbuf, p)
         IN b \in Seq(Pkts) /\ Len(b) \in Nat \ {0} /\ b[Len(b)] = p
<1>1. rbuf \in Seq(Pkts) /\ Len(rbuf) \in Nat
  BY DEF Types
<1>2. EthRecv(rbuf, p) = <<p>> \/ EthRecv(rbuf, p) = Append(rbuf, p)
  BY DEF EthRecv
<1>3. <<p>> \in Seq(Pkts) /\ Len(<<p>>) = 1 /\ <<p>>[1] = p
  OBVIOUS
<1>4. /\ Append(rbuf, p) \in Seq(Pkts) /\ Len(Append(rbuf, p)) = Len(rbuf) + 1
      /\ Append(rbuf, p)[Len(rbuf) + 1] = p
  BY <1>1, AppendProperties
<1>. QED
  BY <1>1, <1>2, <1>3, <1>4

\* The sum does not tell the order of the packets; a message of up to three is in order all
\* the same, because its first packet is at the beginning and its last one at the end.
LEMMA FitsIntact ==
  ASSUME Types, Anew(rbuf), NEW p \in Pkts, Finished(rbuf, p)
  PROVE  Intact(EthRecv(rbuf, p), p[1])
<1>. DEFINE b == EthRecv(rbuf, p)
            m == p[1]
<1>1. b # <<>> /\ p[2] = Packets[m] /\ Len(b) = Packets[m] /\ {b[i] : i \in 1..Len(b)} = PacketsOf(m)
  BY DEF Finished, IsLast, CrcFits
<1>2. b \in Seq(Pkts) /\ b[Len(b)] = p
  BY <1>1, LastReceived
<1>3. m \in Msgs /\ p = <<m, Packets[m]>> /\ Packets[m] \in 1..MaxPackets
  BY <1>1, PacketIs
<1>4. Anew(b)
  BY ReceivedAnew
<1>. HIDE DEF b, m
<1>5. ASSUME Packets[m] <= 3
      PROVE  b = InOrder(m)
  <2>1. Packets[m] = 1 \/ Packets[m] = 2 \/ Packets[m] = 3
    BY <1>3, <1>5 DEF MaxPackets
  <2>2. b \in [1..Packets[m] -> Pkts]
    BY <1>1, <1>2
  <2>3. \A k \in 1..Packets[m] : \E i \in 1..Packets[m] : b[i] = <<m, k>>
    BY <1>1 DEF PacketsOf
  <2>4. ASSUME Packets[m] > 1, NEW i \in 1..Packets[m], b[i] = <<m, 1>>
        PROVE  i = 1
    <3>1. IsFirst(b[i])
      BY <2>4 DEF IsFirst
    <3>. QED
      BY <1>1, <1>4, <2>1, <3>1 DEF Anew
  <2>5. b[Packets[m]] = <<m, Packets[m]>>
    BY <1>1, <1>2, <1>3
  <2>6. \A k \in 1..Packets[m] : b[k] = <<m, k>>
    <3>1. CASE Packets[m] = 1
      BY <2>5, <3>1
    <3>2. CASE Packets[m] = 2
      <4>1. PICK i \in 1..2 : b[i] = <<m, 1>>
        BY <2>3, <3>2
      <4>2. i = 1
        BY <2>4, <3>2, <4>1
      <4>. QED
        BY <2>5, <3>2, <4>1, <4>2
    <3>3. CASE Packets[m] = 3
      <4>1. PICK i \in 1..3 : b[i] = <<m, 1>>
        BY <2>3, <3>3
      <4>2. i = 1
        BY <2>4, <3>3, <4>1
      <4>3. PICK j \in 1..3 : b[j] = <<m, 2>>
        BY <2>3, <3>3
      <4>4. j # 1 /\ j # 3
        BY <2>5, <3>3, <4>1, <4>2, <4>3
      <4>5. j = 2
        BY <4>4
      <4>. QED
        BY <2>5, <3>3, <4>1, <4>2, <4>3, <4>5
    <3>. QED
      BY <2>1, <3>1, <3>2, <3>3
  <2>. QED
    BY <2>2, <2>6 DEF InOrder
<1>. QED
  BY <1>1, <1>5 DEF Intact, b, m

LEMMA ParsedHolds ==
  ASSUME Types, Parsed, Next
  PROVE  Parsed'
<1>1. Anew(rbuf) /\ "garbled" \notin wrong
  BY DEF Parsed, ParsedAsSent
<1>2. ASSUME NEW h \in TNs, SrvUiData(h), wire[h] # <<>>
      PROVE  Parsed'
  <2>. DEFINE p == Head(wire[h])
  <2>1. p \in Pkts
    BY <1>2, NextPacket, Constants
  <2>2. Anew(rbuf')
    BY <1>1, <1>2, <2>1, ReceivedAnew DEF SrvUiData
  <2>3. "garbled" \notin wrong'
    <3>1. CASE Finished(rbuf, p)
      <4>1. Intact(EthRecv(rbuf, p), p[1])
        BY <1>1, <2>1, <3>1, FitsIntact
      <4>. QED
        BY <1>1, <1>2, <3>1, <4>1 DEF SrvUiData, UiEthSend, Note, If, Raced
    <3>2. CASE ~Finished(rbuf, p)
      BY <1>1, <1>2, <3>2 DEF SrvUiData, Note, If, Raced
    <3>. QED
      BY <3>1, <3>2
  <2>. QED
    BY <2>2, <2>3 DEF Parsed, ParsedAsSent
<1>3. ASSUME AtbUiProcess
      PROVE  Parsed'
  <2>. DEFINE p == Head(wire[0])
  <2>1. p \in Pkts
    BY <1>3, NextPacket, Constants DEF AtbUiProcess
  <2>2. Anew(EthRecv(rbuf, p)) /\ Anew(Kept(rbuf, p))
    BY <1>1, <2>1, ReceivedAnew
  <2>3. Anew(rbuf')
    BY <1>3, <2>2 DEF AtbUiProcess
  <2>4. "garbled" \notin wrong'
    <3>1. CASE Finished(rbuf, p)
      <4>1. Intact(EthRecv(rbuf, p), p[1])
        BY <1>1, <2>1, <3>1, FitsIntact
      <4>. QED
        BY <1>1, <1>3, <3>1, <4>1 DEF AtbUiProcess, Note, If
    <3>2. CASE ~Finished(rbuf, p)
      BY <1>1, <1>3, <3>2 DEF AtbUiProcess, Note, If
    <3>. QED
      BY <3>1, <3>2
  <2>. QED
    BY <2>3, <2>4 DEF Parsed, ParsedAsSent
<1>4. ASSUME AtbUiFinish
      PROVE  Parsed'
  BY <1>1, <1>4 DEF AtbUiFinish, UiEthSend, Note, If, Parsed, ParsedAsSent, Anew
<1>5. ASSUME NEW h \in TNs, SrvTnInfo(h)
      PROVE  Parsed'
  BY <1>1, <1>5 DEF SrvTnInfo, Note, If, Raced, Parsed, ParsedAsSent, Anew
<1>6. ASSUME TickSwitch
      PROVE  Parsed'
  <2>1. rbuf' = rbuf
    BY <1>6 DEF TickSwitch
  <2>2. "garbled" \notin wrong'
    BY <1>1, <1>6 DEF TickSwitch, Note, If
  <2>. QED
    BY <1>1, <2>1, <2>2 DEF Parsed, ParsedAsSent
<1>7. ASSUME rbuf' = rbuf, wrong' = wrong
      PROVE  Parsed'
  BY <1>1, <1>7 DEF Parsed, ParsedAsSent
<1>8. ASSUME NEW h \in TNs, TnFrame(h)
      PROVE  Parsed'
  BY <1>2, <1>7, <1>8 DEF TnFrame
<1>. QED
  BY <1>3, <1>4, <1>5, <1>6, <1>7, <1>8 DEF Next, HostSends, AtbUiTake, TickEnd, Answered

-----------------------------------------------------------------------------
(* Whom a reply reaches *)

LEMMA AddressedHolds ==
  ASSUME Types, Addressed, Next
  PROVE  Addressed'
<1>1. /\ ui # {} => uiforward_nodeid = 0 \/ "raced" \in wrong
      /\ "astray" \in wrong => "raced" \in wrong
  BY DEF Addressed, RepliesToAsker
<1>2. ASSUME NEW h \in TNs, SrvUiData(h)
      PROVE  Addressed'
  <2>1. ui' = {} \/ "raced" \in wrong'
    BY <1>2 DEF SrvUiData, UiEthSend, Note, If, Raced
  <2>2. wrong \subseteq wrong'
    BY <1>2 DEF SrvUiData, UiEthSend, Note
  <2>3. "astray" \in wrong' => "astray" \in wrong
    BY <1>2 DEF SrvUiData, UiEthSend, Note, If, Raced
  <2>. QED
    BY <1>1, <2>1, <2>2, <2>3 DEF Addressed, RepliesToAsker
<1>3. ASSUME NEW h \in TNs, TnFrame(h)
      PROVE  Addressed'
  <2>1. CASE SrvUiData(h)
    BY <1>2, <2>1
  <2>2. CASE ~SrvUiData(h)
    BY <1>1, <1>3, <2>2 DEF TnFrame, Addressed, RepliesToAsker
  <2>. QED
    BY <2>1, <2>2
<1>4. ASSUME NEW h \in TNs, SrvTnInfo(h)
      PROVE  Addressed'
  BY <1>1, <1>4 DEF SrvTnInfo, Note, If, Raced, Addressed, RepliesToAsker
<1>5. ASSUME AtbUiProcess
      PROVE  Addressed'
  <2>1. uiforward_nodeid' = 0 /\ wrong \subseteq wrong' /\ ("astray" \in wrong' => "astray" \in wrong)
    BY <1>5 DEF AtbUiProcess, Note, If
  <2>. QED
    BY <1>1, <2>1 DEF Addressed, RepliesToAsker
<1>6. ASSUME AtbUiTake
      PROVE  Addressed'
  BY <1>1, <1>6 DEF AtbUiTake, Addressed, RepliesToAsker
<1>7. ASSUME AtbUiFinish
      PROVE  Addressed'
  <2>1. ui # {} /\ ui' = {} /\ wrong' = wrong \cup If(uiforward_nodeid # 0, "astray")
    BY <1>7 DEF AtbUiFinish, UiEthSend, Note
  <2>. QED
    BY <1>1, <2>1 DEF Addressed, RepliesToAsker, If
<1>8. ASSUME TickSwitch
      PROVE  Addressed'
  <2>1. ui' = ui /\ uiforward_nodeid' = uiforward_nodeid
    BY <1>8 DEF TickSwitch
  <2>2. wrong \subseteq wrong' /\ ("astray" \in wrong' => "astray" \in wrong)
    BY <1>8 DEF TickSwitch, Note, If
  <2>. QED
    BY <1>1, <2>1, <2>2 DEF Addressed, RepliesToAsker
<1>9. ASSUME ui' = ui, uiforward_nodeid' = uiforward_nodeid, wrong' = wrong
      PROVE  Addressed'
  BY <1>1, <1>9 DEF Addressed, RepliesToAsker
<1>. QED
  BY <1>3, <1>4, <1>5, <1>6, <1>7, <1>8, <1>9 DEF Next, HostSends, TickEnd, Answered

-----------------------------------------------------------------------------
(* The slot *)

\* A command is put into the slot, or the slot stays as it is.
LEMMA SlotEffect ==
  ASSUME NEW h \in TNs, SrvUiData(h)
  PROVE  LET m == Head(wire[h])[1]
         IN /\ ~ticking /\ ticking' = ticking /\ performed' = performed /\ calls' = calls
            /\ heard' = heard \cup {h}
            /\ \/ Takes(m) /\ TakeSlot(m) /\ SetTarget(m, m) /\ CopyBlock(m, m, TRUE)
               \/ /\ atbui_cmd' = atbui_cmd /\ accepted' = accepted /\ target' = target
                  /\ dev_set_buf' = dev_set_buf
<1>. DEFINE m == Head(wire[h])[1]
<1>1. CASE Finished(rbuf, Head(wire[h])) /\ Takes(m)
  BY <1>1 DEF SrvUiData, CopyBlock
<1>2. CASE Finished(rbuf, Head(wire[h])) /\ ~Takes(m)
  BY <1>2 DEF SrvUiData, CopyBlock
<1>3. CASE ~Finished(rbuf, Head(wire[h]))
  BY <1>3 DEF SrvUiData, slot, bufs
<1>. QED
  BY <1>1, <1>2, <1>3

LEMMA OnceHolds ==
  ASSUME Types, OnceEach, Next
  PROVE  OnceEach'
<1>1. accepted \in Nat /\ performed \in Nat /\ Pending \in {0, 1}
  BY DEF Types, Pending
<1>2. /\ performed + Pending <= accepted
      /\ 0 \notin heard => ui = {} /\ accepted = performed + Pending
  BY DEF OnceEach
<1>3. \A h \in TNs : h # 0
  BY Constants
<1>4. ASSUME NEW h \in TNs, SrvUiData(h)
      PROVE  OnceEach'
  <2>. DEFINE m == Head(wire[h])[1]
  <2>1. 0 \in heard' <=> 0 \in heard
    BY <1>3, <1>4, SlotEffect
  <2>2. ui = {} => ui' = {}
    BY <1>4 DEF SrvUiData
  <2>9. ~ticking /\ ~ticking' /\ performed' = performed
    BY <1>4, SlotEffect
  <2>3. CASE Takes(m) /\ TakeSlot(m)
    <3>1. Pending = 0
      BY <2>3 DEF Takes, Pending, SlotKinds, Field
    <3>2. Pending' = IF ForSlot(m) THEN 1 ELSE 0
      BY <2>9, <2>3 DEF TakeSlot, ForSlot, Pending
    <3>3. accepted' = accepted + (IF ForSlot(m) THEN 1 ELSE 0) /\ performed' = performed
      BY <2>9, <2>3 DEF TakeSlot
    <3>4. performed' + Pending' <= accepted' /\ (accepted = performed + Pending => accepted' = performed' + Pending')
      BY <1>1, <1>2, <3>1, <3>2, <3>3
    <3>. QED
      BY <1>2, <2>1, <2>2, <3>4 DEF OnceEach
  <2>4. CASE atbui_cmd' = atbui_cmd /\ accepted' = accepted
    <3>1. Pending' = Pending /\ performed' = performed
      BY <2>9, <2>4 DEF Pending
    <3>. QED
      BY <1>2, <2>1, <2>2, <2>4, <3>1 DEF OnceEach
  <2>. QED
    BY <1>4, <2>3, <2>4, SlotEffect
<1>5. ASSUME NEW h \in TNs, TnFrame(h)
      PROVE  OnceEach'
  <2>1. CASE SrvUiData(h)
    BY <1>4, <2>1
  <2>2. CASE ~SrvUiData(h)
    BY <1>2, <1>5, <2>2 DEF TnFrame, OnceEach, Pending, slot
  <2>. QED
    BY <2>1, <2>2
<1>6. ASSUME NEW h \in TNs, SrvTnInfo(h)
      PROVE  OnceEach'
  BY <1>2, <1>3, <1>6 DEF SrvTnInfo, OnceEach, Pending, slot
<1>7. ASSUME AtbUiProcess
      PROVE  OnceEach'
  <2>1. 0 \in heard' /\ performed' = performed /\ accepted' = accepted /\ Pending' = Pending
    BY <1>7 DEF AtbUiProcess, Pending, slot
  <2>. QED
    BY <1>2, <2>1 DEF OnceEach
<1>8. ASSUME AtbUiTake
      PROVE  OnceEach'
  <2>1. PICK u \in ui : TakeSlot(u.msg)
    BY <1>8 DEF AtbUiTake
  <2>2. 0 \in heard'
    BY <1>2, <1>8, <2>1 DEF AtbUiTake
  <2>3. performed' = performed /\ ticking' = ticking
    BY <1>8 DEF AtbUiTake
  <2>4. CASE ForSlot(u.msg)
    <3>1. accepted' = accepted + 1
      BY <2>1, <2>4 DEF TakeSlot
    <3>2. Pending' = 0 \/ Pending' = 1
      BY DEF Pending
    <3>3. performed' + Pending' <= accepted'
      BY <1>1, <1>2, <2>3, <3>1, <3>2
    <3>. QED
      BY <2>2, <3>3 DEF OnceEach
  <2>5. CASE ~ForSlot(u.msg)
    <3>1. accepted' = accepted + 0 /\ Pending' = 0
      BY <2>1, <2>5 DEF TakeSlot, Pending, ForSlot
    <3>2. performed <= accepted
      BY <1>1, <1>2
    <3>. QED
      BY <1>1, <2>2, <2>3, <3>1, <3>2 DEF OnceEach
  <2>. QED
    BY <2>4, <2>5
<1>9. ASSUME AtbUiFinish
      PROVE  OnceEach'
  BY <1>2, <1>9 DEF AtbUiFinish, OnceEach, Pending
<1>10. ASSUME TickSwitch
      PROVE  OnceEach'
  <2>1. ~ticking /\ ticking' /\ accepted' = accepted /\ heard' = heard /\ ui' = ui /\ Pending' = 0
    BY <1>10 DEF TickSwitch, Pending
  <2>2. performed' = performed + Pending
    <3>1. CASE atbui_cmd \in SlotKinds
      BY <1>10, <3>1 DEF TickSwitch, Pending
    <3>2. CASE atbui_cmd \notin SlotKinds
      BY <1>1, <1>10, <3>2 DEF TickSwitch, Pending
    <3>. QED
      BY <3>1, <3>2
  <2>. QED
    BY <1>1, <1>2, <2>1, <2>2 DEF OnceEach
<1>11. ASSUME TickEnd
      PROVE  OnceEach'
  <2>1. Pending = 0 /\ Pending' = 0
    BY <1>11 DEF TickEnd, Pending, SlotKinds, Field
  <2>. QED
    BY <1>2, <1>11, <2>1 DEF TickEnd, OnceEach
<1>12. ASSUME atbui_cmd' = atbui_cmd, ticking' = ticking, ui' = ui, heard' = heard,
              accepted' = accepted, performed' = performed
      PROVE  OnceEach'
  BY <1>2, <1>12 DEF OnceEach, Pending
<1>13. ASSUME NEW h \in Hosts, HostSends(h)
       PROVE  OnceEach'
  BY <1>12, <1>13 DEF HostSends, slot
<1>14. ASSUME NEW c \in calls, Answered(c)
       PROVE  OnceEach'
  BY <1>12, <1>14 DEF Answered
<1>. QED
  BY <1>5, <1>6, <1>7, <1>8, <1>9, <1>10, <1>11, <1>13, <1>14 DEF Next

LEMMA BlockKeptHolds ==
  ASSUME Types, OnceEach, BlockKept, Next
  PROVE  BlockKept'
<1>. SUFFICES ASSUME Quiet'
              PROVE  /\ "mixed" \notin wrong'
                     /\ \A c \in calls' : c.kind # "getdev"
                     /\ atbui_cmd' = "setdev" /\ ~ticking' => IsBlockFor(dev_set_buf', target'["devset_nodeid"])
  BY DEF BlockKept
<1>1. heard \subseteq heard' /\ wrong \subseteq wrong'
  <2>1. ASSUME NEW h \in Hosts, HostSends(h)
        PROVE  heard \subseteq heard' /\ wrong \subseteq wrong'
    BY <2>1 DEF HostSends
  <2>2. ASSUME NEW h \in TNs, TnFrame(h)
        PROVE  heard \subseteq heard' /\ wrong \subseteq wrong'
    BY <2>2 DEF TnFrame, SrvUiData, UiEthSend, Note
  <2>3. ASSUME NEW h \in TNs, SrvTnInfo(h)
        PROVE  heard \subseteq heard' /\ wrong \subseteq wrong'
    BY <2>3 DEF SrvTnInfo, Note
  <2>4. ASSUME AtbUiProcess
        PROVE  heard \subseteq heard' /\ wrong \subseteq wrong'
    BY <2>4 DEF AtbUiProcess, Note
  <2>5. ASSUME AtbUiTake \/ AtbUiFinish \/ TickEnd
        PROVE  heard \subseteq heard' /\ wrong \subseteq wrong'
    BY <2>5 DEF AtbUiTake, AtbUiFinish, TickEnd, UiEthSend, Note
  <2>6. ASSUME TickSwitch
        PROVE  heard \subseteq heard' /\ wrong \subseteq wrong'
    BY <2>6 DEF TickSwitch, Note
  <2>7. ASSUME NEW c \in calls, Answered(c)
        PROVE  heard \subseteq heard' /\ wrong \subseteq wrong'
    BY <2>7 DEF Answered
  <2>. QED
    BY <2>1, <2>2, <2>3, <2>4, <2>5, <2>6, <2>7 DEF Next
<1>2. Quiet /\ 0 \notin heard' /\ "query" \notin wrong'
  BY <1>1 DEF Quiet
<1>3. /\ "mixed" \notin wrong
      /\ \A c \in calls : c.kind # "getdev"
      /\ atbui_cmd = "setdev" /\ ~ticking => IsBlockFor(dev_set_buf, target["devset_nodeid"])
      /\ ui = {}
  BY <1>2 DEF BlockKept, OnceEach, Quiet
<1>. DEFINE Same == /\ "mixed" \notin wrong' /\ calls' \subseteq calls
                    /\ atbui_cmd' = "setdev" /\ ~ticking' =>
                         /\ atbui_cmd = "setdev" /\ ~ticking
                         /\ dev_set_buf' = dev_set_buf /\ target' = target
            Goal == /\ "mixed" \notin wrong'
                    /\ \A c \in calls' : c.kind # "getdev"
                    /\ atbui_cmd' = "setdev" /\ ~ticking' => IsBlockFor(dev_set_buf', target'["devset_nodeid"])
<1>4. ASSUME Same
      PROVE  Goal
  BY <1>3, <1>4
<1>5. ASSUME NEW h \in TNs, SrvUiData(h), wire[h] # <<>>
      PROVE  Goal
  <2>. DEFINE m == Head(wire[h])[1]
  <2>1. "mixed" \notin wrong'
    BY <1>3, <1>5 DEF SrvUiData, UiEthSend, Note, If, Raced
  <2>2. ~ticking /\ calls' = calls
    BY <1>5, SlotEffect
  <2>3. CASE Takes(m) /\ TakeSlot(m) /\ SetTarget(m, m) /\ CopyBlock(m, m, TRUE)
    <3>1. SUFFICES ASSUME atbui_cmd' = "setdev"
                   PROVE  IsBlockFor(dev_set_buf', target'["devset_nodeid"])
      BY <1>3, <2>1, <2>2
    <3>2. Kind[m] = "setdev" /\ dev_set_buf' = m
      BY <2>3, <3>1 DEF TakeSlot, CopyBlock
    <3>3. Field["setdev"] = "devset_nodeid" /\ "devset_nodeid" \in Fields /\ ForSlot(m)
      BY <3>2 DEF Field, Fields, SlotKinds, ForSlot
    <3>4. target'["devset_nodeid"] = Node[m]
      BY <2>3, <3>2, <3>3 DEF SetTarget, Types
    <3>5. m \in Msgs
      BY <1>5, NextPacket, PacketIs, Constants
    <3>. QED
      BY <3>2, <3>4, <3>5 DEF IsBlockFor
  <2>4. CASE atbui_cmd' = atbui_cmd /\ target' = target /\ dev_set_buf' = dev_set_buf
    BY <1>3, <2>1, <2>2, <2>4
  <2>. QED
    BY <1>5, <2>3, <2>4, SlotEffect
<1>6. ASSUME NEW h \in TNs, TnFrame(h)
      PROVE  Goal
  <2>1. CASE SrvUiData(h)
    BY <1>5, <1>6, <2>1 DEF TnFrame
  <2>2. CASE ~SrvUiData(h)
    BY <1>3, <1>4, <1>6, <2>2 DEF TnFrame, slot, bufs
  <2>. QED
    BY <2>1, <2>2
<1>7. ASSUME NEW h \in TNs, SrvTnInfo(h)
      PROVE  Goal
  BY <1>3, <1>4, <1>7 DEF SrvTnInfo, Note, If, Raced, slot, bufs
<1>8. ~AtbUiProcess /\ ~AtbUiTake /\ ~AtbUiFinish
  BY <1>2, <1>3 DEF AtbUiProcess, AtbUiTake, AtbUiFinish
<1>9. ASSUME TickSwitch
      PROVE  Goal
  <2>. DEFINE n == target[Field[atbui_cmd]]
  <2>1. ticking' /\ ~ticking
    BY <1>9 DEF TickSwitch
  <2>2. CASE atbui_cmd \in SlotKinds
    <3>1. atbui_cmd # "getdev"
      BY <1>2, <1>9, <2>2 DEF TickSwitch, Note, If
    <3>2. \/ LocalAnswer(atbui_cmd)
          \/ RemoteCall(atbui_cmd, n)
      BY <1>9, <2>2 DEF TickSwitch
    <3>3. calls' = calls \/ calls' = calls \cup {Answer(atbui_cmd, n)}
      BY <3>2 DEF LocalAnswer, RemoteCall
    <3>4. Answer(atbui_cmd, n).kind # "getdev"
      BY <3>1 DEF Answer
    <3>5. \A c \in calls' : c.kind # "getdev"
      BY <1>3, <3>3, <3>4
    <3>6. atbui_cmd = "setdev" => IsBlockFor(dev_set_buf, n)
      BY <1>3, <2>1 DEF Field
    <3>7. "mixed" \notin wrong'
      BY <1>3, <1>9, <2>2, <3>6 DEF TickSwitch, Note, If
    <3>. QED
      BY <2>1, <3>5, <3>7
  <2>3. CASE atbui_cmd \notin SlotKinds
    BY <1>3, <1>9, <2>1, <2>3 DEF TickSwitch, SlotKinds
  <2>. QED
    BY <2>2, <2>3
<1>10. ASSUME TickEnd
       PROVE  Goal
  BY <1>3, <1>10 DEF TickEnd
<1>11. ASSUME NEW c \in calls, Answered(c)
       PROVE  Goal
  <2>1. c.kind # "getdev"
    BY <1>3
  <2>2. dev_set_buf' = dev_set_buf
    BY <1>11, <2>1 DEF Answered, bufs
  <2>. QED
    BY <1>3, <1>4, <1>11, <2>2 DEF Answered
<1>12. ASSUME NEW h \in Hosts, HostSends(h)
       PROVE  Goal
  BY <1>3, <1>4, <1>12 DEF HostSends, slot, bufs
<1>. QED
  BY <1>6, <1>7, <1>8, <1>9, <1>10, <1>11, <1>12 DEF Next

-----------------------------------------------------------------------------
(* A host that is alone *)

\* The host sends one more message.
LEMMA MessageAppended ==
  ASSUME NEW w \in Seq(Pkts), NEW m \in Msgs
  PROVE  LET v == w \o InOrder(m)
         IN /\ Unbroken(w) => Unbroken(v)
            /\ FromFirst(w) => FromFirst(v)
            /\ \A b : Continues(b, w) => Continues(b, v)
<1>. DEFINE v == w \o InOrder(m)
<1>1. /\ InOrder(m) \in Seq(Pkts) /\ Len(InOrder(m)) = Packets[m]
      /\ \A i \in 1..Packets[m] : InOrder(m)[i] = <<m, i>>
  BY PacketsOfMessage
<1>2. Packets[m] \in Nat /\ Packets[m] >= 1 /\ Len(w) \in Nat
  BY Constants DEF MaxPackets
<1>3. /\ v \in Seq(Pkts) /\ Len(v) = Len(w) + Packets[m]
      /\ \A i \in 1..Len(v) : v[i] = IF i <= Len(w) THEN w[i] ELSE InOrder(m)[i - Len(w)]
  BY <1>1, ConcatProperties
<1>4. \A i \in 1..Len(w) : v[i] = w[i]
  BY <1>2, <1>3
<1>5. \A i \in 1..Packets[m] : v[Len(w) + i] = <<m, i>>
  <2>1. SUFFICES ASSUME NEW i \in 1..Packets[m]
                 PROVE  v[Len(w) + i] = <<m, i>>
    OBVIOUS
  <2>2. Len(w) + i \in 1..Len(v) /\ ~(Len(w) + i <= Len(w)) /\ (Len(w) + i) - Len(w) = i
    BY <1>2, <1>3
  <2>. QED
    BY <1>1, <1>3, <2>2
<1>. HIDE DEF v
<1>6. \A i \in 1..Len(w) : w[i][2] \in Nat /\ Packets[w[i][1]] \in Nat /\ w[i][2] <= Packets[w[i][1]]
  <2>1. \A i \in 1..Len(w) : w[i] \in Pkts
    OBVIOUS
  <2>. QED
    BY <2>1, PacketIs
<1>7. ASSUME Unbroken(w)
      PROVE  Unbroken(v)
  <2>1. SUFFICES ASSUME NEW i \in 1..Len(v)
                 PROVE  Follows(v, i)
    BY DEF Unbroken
  <2>2. CASE i \in 1..(Len(w) - 1)
    <3>1. i \in 1..Len(w) /\ i + 1 \in 1..Len(w) /\ i < Len(v) /\ i < Len(w)
      BY <1>2, <1>3, <2>2
    <3>2. v[i] = w[i] /\ v[i + 1] = w[i + 1] /\ Follows(w, i)
      BY <1>4, <1>7, <3>1 DEF Unbroken
    <3>. QED
      BY <3>1, <3>2 DEF Follows
  <2>3. CASE i = Len(w)
    <3>1. i \in 1..Len(w) /\ v[i] = w[i] /\ Follows(w, i)
      BY <1>2, <1>4, <1>7, <2>1, <2>3 DEF Unbroken
    <3>2. v[i + 1] = <<m, 1>>
      BY <1>2, <1>5, <2>3
    <3>3. ~(w[i][2] < Packets[w[i][1]])
      BY <1>2, <2>3, <3>1 DEF Follows
    <3>. QED
      BY <3>1, <3>2, <3>3 DEF Follows
  <2>4. CASE i > Len(w)
    <3>1. PICK k \in 1..Packets[m] : i = Len(w) + k
      <4>1. i - Len(w) \in 1..Packets[m] /\ i = Len(w) + (i - Len(w))
        BY <1>2, <1>3, <2>4
      <4>. QED
        BY <4>1
    <3>2. v[i] = <<m, k>>
      BY <1>5, <3>1
    <3>3. CASE k = Packets[m]
      BY <1>2, <1>3, <3>1, <3>2, <3>3 DEF Follows
    <3>4. CASE k < Packets[m]
      <4>1. k + 1 \in 1..Packets[m] /\ i + 1 = Len(w) + (k + 1) /\ i < Len(v)
        BY <1>2, <1>3, <3>1, <3>4
      <4>2. v[i + 1] = <<m, k + 1>>
        BY <1>5, <4>1
      <4>. QED
        BY <1>2, <3>2, <3>4, <4>1, <4>2 DEF Follows
    <3>. QED
      BY <1>2, <3>3, <3>4
  <2>. QED
    BY <1>2, <1>3, <2>2, <2>3, <2>4
<1>8. w # <<>> => v # <<>> /\ v[1] = w[1]
  <2>1. ASSUME w # <<>>
        PROVE  v # <<>> /\ v[1] = w[1]
    <3>1. Len(w) # 0
      BY <2>1
    <3>2. Len(v) # 0 /\ 1 \in 1..Len(w)
      BY <1>2, <1>3, <3>1
    <3>. QED
      BY <1>4, <3>2
  <2>. QED
    BY <2>1
<1>9. w = <<>> => v[1][2] = 1
  <2>1. ASSUME w = <<>>
        PROVE  v[1][2] = 1
    <3>1. Len(w) + 1 = 1 /\ 1 \in 1..Packets[m]
      BY <1>2, <2>1
    <3>2. v[Len(w) + 1] = <<m, 1>>
      BY <1>5, <3>1
    <3>. QED
      BY <3>1, <3>2
  <2>. QED
    BY <2>1
<1>10. FromFirst(w) => FromFirst(v)
  BY <1>8, <1>9 DEF FromFirst
<1>11. \A b : Continues(b, w) => Continues(b, v)
  BY <1>8, <1>10 DEF Continues, Part
<1>. QED
  BY <1>7, <1>10, <1>11 DEF v

\* A packet is taken from the wire.
LEMMA PacketTaken ==
  ASSUME Types, NEW h \in Hosts, wire[h] # <<>>, Unbroken(wire[h])
  PROVE  /\ Unbroken(Tail(wire[h]))
         /\ Continues(rbuf, wire[h]) =>
              LET p == Head(wire[h])
              IN IF IsLast(p)
                 THEN Finished(rbuf, p) /\ FromFirst(Tail(wire[h]))
                 ELSE Continues(EthRecv(rbuf, p), Tail(wire[h]))
<1>. DEFINE w == wire[h]
            v == Tail(w)
            p == Head(w)
            b == Append(rbuf, p)
<1>1. /\ w \in Seq(Pkts) /\ Len(w) \in Nat \ {0}
      /\ p \in Pkts /\ p = w[1]
      /\ v \in Seq(Pkts) /\ Len(v) = Len(w) - 1
      /\ \A i \in 1..Len(v) : v[i] = w[i + 1]
  BY NextPacket
<1>2. /\ p[1] \in Msgs /\ p[2] \in Nat /\ p[2] >= 1 /\ p[2] <= Packets[p[1]] /\ p = <<p[1], p[2]>>
      /\ Packets[p[1]] \in Nat /\ Packets[p[1]] <= MaxPackets
  <2>1. /\ p[1] \in Msgs /\ p[2] \in 1..MaxPackets /\ p[2] <= Packets[p[1]] /\ p = <<p[1], p[2]>>
        /\ Packets[p[1]] \in 1..MaxPackets
    BY <1>1, PacketIs
  <2>. QED
    BY <2>1 DEF MaxPackets
<1>3. rbuf \in Seq(Pkts) /\ Len(rbuf) \in Nat
  BY DEF Types
<1>4. \A i \in 1..Len(w) : Follows(w, i)
  BY DEF Unbroken
<1>5. /\ b \in Seq(Pkts) /\ Len(b) = Len(rbuf) + 1 /\ b[Len(rbuf) + 1] = p
      /\ \A i \in 1..Len(rbuf) : b[i] = rbuf[i]
  BY <1>1, <1>3, AppendProperties
<1>. HIDE DEF w, v, p, b
<1>6. Unbroken(v)
  <2>1. SUFFICES ASSUME NEW i \in 1..Len(v)
                 PROVE  Follows(v, i)
    BY DEF Unbroken
  <2>2. i + 1 \in 1..Len(w) /\ v[i] = w[i + 1] /\ (i + 1 < Len(w) <=> i < Len(v))
    BY <1>1
  <2>3. i < Len(v) => v[i + 1] = w[(i + 1) + 1]
    BY <1>1
  <2>4. Follows(w, i + 1)
    BY <1>4, <2>2
  <2>. QED
    BY <2>2, <2>3, <2>4 DEF Follows
<1>7. ASSUME Continues(rbuf, w)
      PROVE  IF IsLast(p) THEN Finished(rbuf, p) /\ FromFirst(v) ELSE Continues(EthRecv(rbuf, p), v)
  <2>1. p[2] = Len(rbuf) + 1 /\ \A i \in 1..Len(rbuf) : rbuf[i] = <<p[1], i>>
    <3>1. CASE rbuf = <<>>
      <4>1. w # <<>>
        BY <1>1
      <4>2. p[2] = 1
        BY <1>1, <1>7, <3>1, <4>1 DEF Continues, FromFirst
      <4>. QED
        BY <3>1, <4>2
    <3>2. CASE rbuf # <<>>
      <4>1. p = <<rbuf[1][1], Len(rbuf) + 1>> /\ \A i \in 1..Len(rbuf) : rbuf[i] = <<rbuf[1][1], i>>
        BY <1>1, <1>7, <3>2 DEF Continues, Part
      <4>2. p[1] = rbuf[1][1] /\ p[2] = Len(rbuf) + 1
        BY <4>1
      <4>. QED
        BY <4>1, <4>2
    <3>. QED
      BY <3>1, <3>2
  <2>2. EthRecv(rbuf, p) = b
    <3>1. ~(Len(rbuf) + 1 > MaxPackets)
      BY <1>2, <1>3, <2>1 DEF MaxPackets
    <3>2. IsFirst(p) => rbuf = <<>>
      BY <1>3, <2>1 DEF IsFirst
    <3>3. rbuf = <<>> => b = <<p>>
      BY DEF b
    <3>. QED
      BY <3>1, <3>2, <3>3 DEF EthRecv, b
  <2>3. Len(b) = p[2] /\ b # <<>>
    BY <1>3, <1>5, <2>1
  <2>4. \A i \in 1..p[2] : b[i] = <<p[1], i>>
    <3>1. SUFFICES ASSUME NEW i \in 1..p[2]
                   PROVE  b[i] = <<p[1], i>>
      OBVIOUS
    <3>2. CASE i \in 1..Len(rbuf)
      BY <1>5, <2>1, <3>2
    <3>3. CASE i = Len(rbuf) + 1
      BY <1>2, <1>5, <2>1, <3>3
    <3>. QED
      BY <1>3, <2>1, <3>2, <3>3
  <2>5. 1 \in 1..Len(w) /\ Follows(w, 1)
    BY <1>1, <1>4
  <2>6. 1 < Len(w) => v # <<>> /\ v[1] = w[2]
    <3>1. ASSUME 1 < Len(w)
          PROVE  v # <<>> /\ v[1] = w[2]
      <4>1. 1 \in 1..Len(v) /\ Len(v) # 0
        BY <1>1, <3>1
      <4>2. v[1] = w[1 + 1]
        BY <1>1, <4>1
      <4>. QED
        BY <4>1, <4>2
    <3>. QED
      BY <3>1
  <2>7. CASE IsLast(p)
    <3>1. p[2] = Packets[p[1]]
      BY <2>7 DEF IsLast
    <3>2. {b[i] : i \in 1..Len(b)} = PacketsOf(p[1])
      BY <2>3, <2>4, <3>1 DEF PacketsOf
    <3>3. Finished(rbuf, p)
      BY <2>2, <2>3, <2>7, <3>1, <3>2 DEF Finished, CrcFits
    <3>4. v # <<>> => 1 < Len(w)
      BY <1>1
    <3>5. FromFirst(v)
      BY <1>1, <2>5, <2>6, <3>1, <3>4 DEF FromFirst, Follows
    <3>. QED
      BY <2>7, <3>3, <3>5
  <2>8. CASE ~IsLast(p)
    <3>1. p[2] < Packets[p[1]]
      BY <1>2, <2>8 DEF IsLast
    <3>2. 1 < Len(w) /\ w[2] = <<p[1], p[2] + 1>>
      BY <1>1, <2>5, <3>1 DEF Follows
    <3>3. v # <<>> /\ v[1] = <<p[1], p[2] + 1>>
      BY <2>6, <3>2
    <3>4. b[1] = <<p[1], 1>>
      BY <1>2, <2>4
    <3>5. b[1][1] = p[1]
      BY <3>4
    <3>6. Part(b, v)
      BY <2>3, <2>4, <3>1, <3>3, <3>5 DEF Part
    <3>. QED
      BY <2>2, <2>3, <2>8, <3>6 DEF Continues
  <2>. QED
    BY <2>7, <2>8
<1>. QED
  BY <1>6, <1>7 DEF w, v, p

LEMMA FlowingHolds ==
  ASSUME Types, Flowing, Next
  PROVE  Flowing'
<1>1. /\ faults = 0 => \A g \in Hosts : Unbroken(wire[g])
      /\ OneHost => /\ "rejected" \notin wrong
                    /\ \A g \in Hosts \ heard : FromFirst(wire[g])
                    /\ heard = {} => rbuf = <<>> /\ ui = {}
                    /\ \A g \in heard : IF ui = {} THEN Continues(rbuf, wire[g]) ELSE g = 0 /\ FromFirst(wire[g])
  BY DEF Flowing
<1>2. faults \in Nat /\ heard \subseteq Hosts /\ \A h \in TNs : h \in Hosts /\ h # 0
  BY Constants DEF Types
\* The frame that comes is that of the only host there is.
<1>3. ASSUME NEW h \in Hosts, wire[h] # <<>>, heard' = heard \cup {h}, wire' = [wire EXCEPT ![h] = Tail(@)],
             faults' = faults
      PROVE  /\ faults' = 0 => \A g \in Hosts : Unbroken(wire'[g])
             /\ OneHost' =>
                  /\ "rejected" \notin wrong /\ heard' = {h}
                  /\ \A g \in Hosts \ heard' : FromFirst(wire'[g])
                  /\ (h # 0 => ui = {})
                  /\ wire'[h] = Tail(wire[h])
                  /\ ui = {} => LET p == Head(wire[h])
                                IN IF IsLast(p)
                                   THEN Finished(rbuf, p) /\ FromFirst(wire'[h])
                                   ELSE Continues(EthRecv(rbuf, p), wire'[h])
  <2>1. wire'[h] = Tail(wire[h]) /\ \A g \in Hosts \ {h} : wire'[g] = wire[g]
    BY <1>3 DEF Types
  <2>2. faults = 0 => Unbroken(wire[h])
    BY <1>1, <1>3
  <2>3. faults = 0 => Unbroken(Tail(wire[h]))
    BY <1>3, <2>2, PacketTaken
  <2>4. faults' = 0 => \A g \in Hosts : Unbroken(wire'[g])
    BY <1>1, <1>3, <2>1, <2>3
  <2>5. ASSUME OneHost'
        PROVE  /\ "rejected" \notin wrong /\ heard' = {h}
               /\ \A g \in Hosts \ heard' : FromFirst(wire'[g])
               /\ (h # 0 => ui = {})
               /\ ui = {} => Continues(rbuf, wire[h])
    <3>1. OneHost /\ heard' = {h}
      BY <1>3, <2>5 DEF OneHost
    <3>2. heard = {} \/ heard = {h}
      BY <1>3, <3>1
    <3>3. \A g \in Hosts \ heard' : FromFirst(wire'[g])
      BY <1>1, <1>3, <2>1, <3>1
    <3>4. CASE heard = {}
      <4>1. rbuf = <<>> /\ ui = {} /\ FromFirst(wire[h])
        BY <1>1, <1>3, <3>1, <3>4
      <4>. QED
        BY <1>1, <3>1, <3>3, <4>1 DEF Continues
    <3>5. CASE heard = {h}
      BY <1>1, <3>1, <3>3, <3>5
    <3>. QED
      BY <3>2, <3>4, <3>5
  <2>6. OneHost' => faults = 0
    BY <1>3 DEF OneHost
  <2>7. OneHost' /\ ui = {} =>
          LET p == Head(wire[h])
          IN IF IsLast(p)
             THEN Finished(rbuf, p) /\ FromFirst(Tail(wire[h]))
             ELSE Continues(EthRecv(rbuf, p), Tail(wire[h]))
    BY <1>3, <2>2, <2>5, <2>6, PacketTaken
  <2>. QED
    BY <2>1, <2>4, <2>5, <2>7
<1>4. ASSUME NEW h \in TNs, SrvUiData(h), wire[h] # <<>>, wire' = [wire EXCEPT ![h] = Tail(@)], faults' = faults
      PROVE  Flowing'
  <2>. DEFINE p == Head(wire[h])
  <2>1. heard' = heard \cup {h} /\ rbuf' = Kept(rbuf, p) /\ (ui = {} => ui' = {})
    BY <1>4 DEF SrvUiData
  <2>2. SUFFICES ASSUME OneHost'
                 PROVE  /\ "rejected" \notin wrong' /\ heard' = {h} /\ ui' = {}
                        /\ \A g \in Hosts \ heard' : FromFirst(wire'[g])
                        /\ Continues(rbuf', wire'[h])
    BY <1>2, <1>3, <1>4, <2>1 DEF Flowing
  <2>3. /\ "rejected" \notin wrong /\ heard' = {h} /\ ui = {}
        /\ \A g \in Hosts \ heard' : FromFirst(wire'[g])
        /\ IF IsLast(p) THEN Finished(rbuf, p) /\ FromFirst(wire'[h]) ELSE Continues(EthRecv(rbuf, p), wire'[h])
    BY <1>2, <1>3, <1>4, <2>1, <2>2
  <2>4. CASE IsLast(p)
    <3>1. "rejected" \notin wrong'
      BY <1>4, <2>3, <2>4 DEF SrvUiData, UiEthSend, Note, If, Raced
    <3>2. Continues(rbuf', wire'[h])
      BY <2>1, <2>3, <2>4 DEF Kept, Continues
    <3>. QED
      BY <2>1, <2>3, <3>1, <3>2
  <2>5. CASE ~IsLast(p)
    <3>1. "rejected" \notin wrong'
      BY <1>4, <2>3, <2>5 DEF SrvUiData, Finished, Note, If, Raced
    <3>2. Continues(rbuf', wire'[h])
      BY <2>1, <2>3, <2>5 DEF Kept
    <3>. QED
      BY <2>1, <2>3, <3>1, <3>2
  <2>. QED
    BY <2>4, <2>5
<1>5. ASSUME NEW h \in TNs, TnFrame(h)
      PROVE  Flowing'
  <2>1. CASE Fault
    <3>1. faults' # 0
      BY <1>2, <2>1 DEF Fault
    <3>. QED
      BY <3>1 DEF Flowing, OneHost
  <2>2. CASE ~Fault
    BY <1>4, <1>5, <2>2 DEF TnFrame
  <2>. QED
    BY <2>1, <2>2
<1>6. ASSUME NEW h \in TNs, SrvTnInfo(h)
      PROVE  Flowing'
  <2>1. heard' = heard \cup {h} /\ wire' = wire /\ rbuf' = rbuf /\ ui' = ui /\ faults' = faults
    BY <1>6 DEF SrvTnInfo
  <2>2. "rejected" \in wrong' => "rejected" \in wrong
    BY <1>6 DEF SrvTnInfo, Note, If, Raced
  <2>3. SUFFICES ASSUME OneHost'
                 PROVE  /\ "rejected" \notin wrong
                        /\ \A g \in Hosts \ heard' : FromFirst(wire[g])
                        /\ heard' # {}
                        /\ \A g \in heard' : IF ui = {} THEN Continues(rbuf, wire[g]) ELSE g = 0 /\ FromFirst(wire[g])
    BY <1>1, <2>1, <2>2 DEF Flowing
  <2>4. OneHost /\ (heard = {} \/ heard = heard') /\ heard' = {h}
    BY <2>1, <2>3 DEF OneHost
  <2>5. CASE heard = {}
    <3>1. rbuf = <<>> /\ ui = {} /\ FromFirst(wire[h])
      BY <1>1, <1>2, <2>4, <2>5
    <3>. QED
      BY <1>1, <2>1, <2>4, <3>1 DEF Continues
  <2>6. CASE heard = heard'
    BY <1>1, <2>4, <2>6
  <2>. QED
    BY <2>4, <2>5, <2>6
<1>7. ASSUME AtbUiProcess
      PROVE  Flowing'
  <2>. DEFINE p == Head(wire[0])
  <2>1. /\ wire[0] # <<>> /\ ui = {} /\ heard' = heard \cup {0}
        /\ wire' = [wire EXCEPT ![0] = Tail(@)] /\ faults' = faults
    BY <1>7 DEF AtbUiProcess, counts
  <2>2. SUFFICES ASSUME OneHost'
                 PROVE  /\ "rejected" \notin wrong' /\ heard' = {0}
                        /\ \A g \in Hosts \ heard' : FromFirst(wire'[g])
                        /\ IF ui' = {} THEN Continues(rbuf', wire'[0]) ELSE FromFirst(wire'[0])
    BY <1>3, <2>1, Constants DEF Flowing
  <2>3. /\ "rejected" \notin wrong /\ heard' = {0}
        /\ \A g \in Hosts \ heard' : FromFirst(wire'[g])
        /\ IF IsLast(p) THEN Finished(rbuf, p) /\ FromFirst(wire'[0]) ELSE Continues(EthRecv(rbuf, p), wire'[0])
    BY <1>3, <2>1, <2>2, Constants
  <2>4. CASE IsLast(p)
    <3>1. /\ ui' = {[msg |-> p[1], at |-> p[1], took |-> Takes(p[1]), taken |-> FALSE]}
          /\ Note(If(~Intact(EthRecv(rbuf, p), p[1]), "garbled"))
      BY <1>7, <2>3, <2>4 DEF AtbUiProcess
    <3>2. ui' # {}
      BY <3>1
    <3>3. "rejected" \notin wrong'
      BY <2>3, <3>1 DEF Note, If
    <3>. QED
      BY <2>3, <2>4, <3>2, <3>3
  <2>5. CASE ~IsLast(p)
    <3>1. ui' = ui /\ rbuf' = Kept(rbuf, p) /\ wrong' = wrong \cup {}
      BY <1>7, <2>5 DEF AtbUiProcess, Finished, Note, If
    <3>2. ui' = {} /\ "rejected" \notin wrong' /\ rbuf' = EthRecv(rbuf, p)
      BY <2>1, <2>3, <2>5, <3>1 DEF Kept
    <3>. QED
      BY <2>3, <2>5, <3>2
  <2>. QED
    BY <2>4, <2>5
<1>8. ASSUME AtbUiTake
      PROVE  Flowing'
  <2>1. /\ wire' = wire /\ rbuf' = rbuf /\ heard' = heard /\ wrong' = wrong /\ faults' = faults
        /\ ui # {} /\ ui' # {}
    BY <1>8 DEF AtbUiTake, counts
  <2>. QED
    BY <1>1, <2>1 DEF Flowing, OneHost
<1>9. ASSUME AtbUiFinish
      PROVE  Flowing'
  <2>1. /\ wire' = wire /\ rbuf' = <<>> /\ heard' = heard /\ faults' = faults
        /\ ui # {} /\ ui' = {} /\ ("rejected" \in wrong' => "rejected" \in wrong)
    BY <1>9 DEF AtbUiFinish, UiEthSend, Note, If, counts
  <2>2. OneHost' => OneHost
    BY <2>1 DEF OneHost
  <2>3. ASSUME OneHost
        PROVE  /\ "rejected" \notin wrong' /\ heard' # {}
               /\ \A g \in Hosts \ heard' : FromFirst(wire'[g])
               /\ \A g \in heard' : Continues(rbuf', wire'[g])
    BY <1>1, <2>1, <2>3 DEF Continues
  <2>. QED
    BY <1>1, <2>1, <2>2, <2>3 DEF Flowing
<1>10. ASSUME TickSwitch
       PROVE  Flowing'
  <2>1. wire' = wire /\ rbuf' = rbuf /\ heard' = heard /\ faults' = faults /\ ui' = ui
    BY <1>10 DEF TickSwitch, counts
  <2>2. "rejected" \in wrong' => "rejected" \in wrong
    BY <1>10 DEF TickSwitch, Note, If
  <2>. QED
    BY <1>1, <2>1, <2>2 DEF Flowing, OneHost
<1>11. ASSUME NEW h \in Hosts, HostSends(h)
       PROVE  Flowing'
  <2>. DEFINE m == Head(script[h])
  <2>1. /\ rbuf' = rbuf /\ heard' = heard /\ faults' = faults /\ ui' = ui /\ wrong' = wrong
        /\ wire' = [wire EXCEPT ![h] = @ \o InOrder(m)]
    BY <1>11 DEF HostSends, counts
  <2>2. m \in Msgs /\ wire[h] \in Seq(Pkts)
    BY <1>11, HeadTailProperties DEF HostSends, Types
  <2>3. wire'[h] = wire[h] \o InOrder(m) /\ \A g \in Hosts \ {h} : wire'[g] = wire[g]
    BY <2>1 DEF Types
  <2>4. \A g \in Hosts : /\ Unbroken(wire[g]) => Unbroken(wire'[g])
                         /\ FromFirst(wire[g]) => FromFirst(wire'[g])
                         /\ Continues(rbuf, wire[g]) => Continues(rbuf, wire'[g])
    BY <2>2, <2>3, MessageAppended
  <2>5. \A g \in heard : g \in Hosts
    BY <1>2
  <2>6. OneHost' <=> OneHost
    BY <2>1 DEF OneHost
  <2>. QED
    BY <1>1, <2>1, <2>4, <2>5, <2>6 DEF Flowing
<1>12. ASSUME wire' = wire, rbuf' = rbuf, heard' = heard, faults' = faults, ui' = ui, wrong' = wrong
       PROVE  Flowing'
  BY <1>1, <1>12 DEF Flowing, OneHost
<1>13. ASSUME TickEnd
       PROVE  Flowing'
  BY <1>12, <1>13 DEF TickEnd, counts
<1>14. ASSUME NEW c \in calls, Answered(c)
       PROVE  Flowing'
  BY <1>12, <1>14 DEF Answered, counts
<1>. QED
  BY <1>5, <1>6, <1>7, <1>8, <1>9, <1>10, <1>11, <1>13, <1>14 DEF Next

-----------------------------------------------------------------------------
(* Theorems *)

LEMMA InitIInv ==
  ASSUME Init
  PROVE  IInv
<1>1. \A h \in Hosts : wire[h] = <<>>
  BY DEF Init
<1>2. wire \in [Hosts -> Seq(Pkts)] /\ rbuf \in Seq(Pkts) /\ Len(rbuf) = 0
  BY DEF Init
<1>3. script \in [Hosts -> Seq(Msgs)] /\ target \in [Fields -> Hosts \cup {All}]
  BY Constants DEF Init
<1>4. Types
  <2>1. ui = {} /\ heard = {} /\ atbui_cmd \in Commands /\ ticking \in BOOLEAN
    BY DEF Init, Commands
  <2>2. uiforward_nodeid \in Hosts
    BY Constants DEF Init
  <2>3. faults \in Nat /\ accepted \in Nat /\ performed \in Nat
    BY DEF Init
  <2>4. IsFiniteSet(heard)
    BY <2>1, FS_EmptySet
  <2>5. Len(rbuf) <= MaxPackets
    BY <1>2 DEF MaxPackets
  <2>. QED
    BY <1>2, <1>3, <2>1, <2>2, <2>3, <2>4, <2>5 DEF Types
<1>5. Parsed
  BY <1>2 DEF Init, Parsed, ParsedAsSent, Anew
<1>6. Addressed /\ OnceEach /\ BlockKept
  BY DEF Init, Addressed, RepliesToAsker, OnceEach, Pending, BlockKept, SlotKinds, Field
<1>7. Flowing
  <2>1. \A h \in Hosts : Unbroken(wire[h]) /\ FromFirst(wire[h])
    BY <1>1 DEF Unbroken, FromFirst
  <2>. QED
    BY <2>1 DEF Init, Flowing
<1>. QED
  BY <1>4, <1>5, <1>6, <1>7 DEF IInv

LEMMA StepKeepsIInv ==
  ASSUME IInv, [Next]_vars
  PROVE  IInv'
<1>1. CASE Next
  BY <1>1, TypesHold, ParsedHolds, AddressedHolds, OnceHolds, BlockKeptHolds, FlowingHolds DEF IInv
<1>2. CASE UNCHANGED vars
  <2>1. /\ script' = script /\ wire' = wire /\ rbuf' = rbuf /\ ui' = ui
        /\ atbui_cmd' = atbui_cmd /\ target' = target /\ ui_dat_buf' = ui_dat_buf /\ dev_set_buf' = dev_set_buf
        /\ uiforward_nodeid' = uiforward_nodeid /\ ticking' = ticking /\ calls' = calls
        /\ faults' = faults /\ reports' = reports
        /\ heard' = heard /\ wrong' = wrong /\ accepted' = accepted /\ performed' = performed
    BY <1>2 DEF vars, slot, bufs, counts
  <2>2. Types' /\ Parsed' /\ Addressed'
    BY <2>1 DEF IInv, Types, Parsed, ParsedAsSent, Anew, Addressed, RepliesToAsker
  <2>3. OnceEach' /\ BlockKept' /\ Flowing'
    BY <2>1 DEF IInv, OnceEach, Pending, BlockKept, Quiet, Flowing, OneHost
  <2>. QED
    BY <2>2, <2>3 DEF IInv
<1>. QED
  BY <1>1, <1>2

\* The invariant of the host interface: what is in the buffer and on the wire, what the slot
\* stands for, whom the address names.
THEOREM InterfaceInvariant == Spec => []IInv
<1>1. Init => IInv
  BY InitIInv
<1>2. IInv /\ [Next]_vars => IInv'
  BY StepKeepsIInv
<1>. QED
  BY <1>1, <1>2, PTL DEF Spec

\* The variables have the types that the code gives them.
THEOREM InterfaceTypes == Spec => []TypeOK
<1>1. IInv => TypeOK
  <2>1. SUFFICES ASSUME IInv
                 PROVE  TypeOK
    OBVIOUS
  <2>2. Types
    BY <2>1 DEF IInv
  <2>3. ASSUME NEW h \in Hosts, NEW i \in 1..Len(wire[h])
        PROVE  wire[h][i] \in UNION {PacketsOf(m) : m \in Msgs}
    <3>1. wire[h] \in Seq(Pkts)
      BY <2>2 DEF Types
    <3>2. wire[h][i] \in Pkts
      BY <3>1
    <3>3. /\ wire[h][i] = <<wire[h][i][1], wire[h][i][2]>> /\ wire[h][i][1] \in Msgs
          /\ wire[h][i][2] \in 1..Packets[wire[h][i][1]]
      BY <3>2, PacketIs DEF MaxPackets
    <3>4. wire[h][i] \in PacketsOf(wire[h][i][1])
      BY <3>3 DEF PacketsOf
    <3>. QED
      BY <3>3, <3>4
  <2>. QED
    BY <2>2, <2>3 DEF Types, TypeOK, Commands
<1>. QED
  BY <1>1, InterfaceInvariant, PTL

\* eth_recv: what is parsed is one message, in order unless two packets are in its middle,
\* for any number of hosts and any packets that come in between, late or twice.
THEOREM InterfaceParses == Spec => []ParsedAsSent
<1>1. IInv => ParsedAsSent
  BY DEF IInv, Parsed
<1>. QED
  BY <1>1, InterfaceInvariant, PTL

\* eth_recv, atb_ui_parse: none of the messages of a host that is alone is rejected.
THEOREM InterfaceHearsOne == Spec => []AloneIsHeard
<1>1. IInv => AloneIsHeard
  <2>1. SUFFICES ASSUME IInv, faults = 0, Cardinality(heard) <= 1
                 PROVE  "rejected" \notin wrong
    BY DEF AloneIsHeard
  <2>2. IsFiniteSet(heard)
    BY <2>1 DEF IInv, Types
  <2>3. \A g, h \in heard : g = h
    <3>1. SUFFICES ASSUME NEW g \in heard, NEW h \in heard, g # h
                   PROVE  FALSE
      OBVIOUS
    <3>2. Cardinality({g, h}) = 2
      <4>1. IsFiniteSet({g}) /\ Cardinality({g}) = 1
        BY FS_Singleton
      <4>2. Cardinality({g} \cup {h}) = Cardinality({g}) + 1
        BY <3>1, <4>1, FS_AddElement
      <4>3. {g, h} = {g} \cup {h}
        OBVIOUS
      <4>. QED
        BY <4>1, <4>2, <4>3
    <3>3. {g, h} \subseteq heard
      OBVIOUS
    <3>4. Cardinality({g, h}) <= Cardinality(heard)
      BY <2>2, <3>3, FS_Subset
    <3>5. Cardinality(heard) \in Nat
      BY <2>2, FS_CardinalityType
    <3>. QED
      BY <2>1, <3>2, <3>4, <3>5
  <2>. QED
    BY <2>1, <2>3 DEF IInv, Flowing, OneHost
<1>. QED
  BY <1>1, InterfaceInvariant, PTL

\* sys_timer_tick, atb_ui_parse: no command is carried out that was not accepted, and each
\* once; without a host at the CN none is lost.
THEOREM InterfacePerformsOnce == Spec => []PerformedOnce
<1>1. IInv => PerformedOnce
  BY DEF IInv, OnceEach, Pending, PerformedOnce, Types
<1>. QED
  BY <1>1, InterfaceInvariant, PTL

\* uiforward_nodeid: a reply reaches the host that asked, unless a TN called while the UI
\* thread was in the middle of a message.
THEOREM InterfaceReplies == Spec => []RepliesToAsker
<1>1. IInv => RepliesToAsker
  BY DEF IInv, Addressed
<1>. QED
  BY <1>1, InterfaceInvariant, PTL

\* SET_DEVICE: a node is sent the data that its host set, as long as the CN has no host and
\* nobody asks for those of a device.
THEOREM InterfaceSendsBlock == Spec => []BlockIsHosts
<1>1. IInv => BlockIsHosts
  BY DEF IInv, BlockKept, Quiet, BlockIsHosts
<1>. QED
  BY <1>1, InterfaceInvariant, PTL

-----------------------------------------------------------------------------
(* What a thread has to do. *)

\* What is written was erased just before, if that is not done yet; parameters are looked
\* at after they were written; the start of sysm is the last step of the start.
Shape(p) ==
  /\ \A i \in 2..Len(p) : p[i][1] = "write" => p[i - 1] = <<"erase", p[i][2]>>
  /\ \A i \in 1..Len(p) : p[i] = <<"write", "atb">> => i < Len(p) /\ p[i + 1] = <<"drop", "atb">>
  /\ \A i \in 1..Len(p) : p[i][1] = "start" => i = Len(p)

Shapes == \A t \in Threads : Shape(todo[t])

\* Thread t has erased sector s and is about to write it.
AtWrite(t, s) == todo[t] # <<>> /\ Head(todo[t]) = <<"write", s>>

\* What is in a sector that the threads did not save at one time is what was saved last;
\* what was cut off has not been saved.
Clean ==
  \A s \in Sectors \ shared :
    /\ IF s \in torn THEN last[s] = <<>> ELSE flash[s] = last[s]
    /\ \A t \in Threads : AtWrite(t, s) => flash[s] = <<>> /\ last[s] = <<>> /\ s \notin torn
    /\ \A t, u \in Threads : AtWrite(t, s) /\ AtWrite(u, s) => t = u

\* Something is still to be done that leaves the flash without a reservation, or without
\* these parameters.
In(p, x) == \E i \in 1..Len(p) : p[i] = x
Freeing == {<<"erase", "pre">>, <<"load", "atb">>, <<"erase", "atb">>}
Frees(t) ==
  \/ \E x \in Freeing : In(todo[t], x)
  \/ In(todo[t], <<"drop", "atb">>) /\ atb.dynamic

Freed ==
  "atb" \notin shared /\ Marked("atb") /\ flash["atb"][1].dynamic =>
    ~Marked("pre") \/ since \/ \E t \in Threads : Frees(t)

\* Settings of devices are saved by the UI thread, and after the start only on a message.
SetDev == Save("dev") \o Load("dev")
Without(p, s) == \A i \in 1..Len(p) : p[i][2] # s
NoStart(p) == \A i \in 1..Len(p) : p[i][1] # "start"

DevByUi ==
  /\ Without(todo["sysm"], "dev") /\ NoStart(todo["sysm"])
  /\ up => \/ todo["ui"] \in {SetDev, Tail(SetDev), Load("dev")}
           \/ Without(todo["ui"], "dev")
  /\ ~up => setbuf = NoDevs

DevIsSet ==
  msgs = 0 /\ setbuf # NoDevs =>
    /\ dev = setbuf
    /\ \/ todo["ui"] = SetDev
       \/ todo["ui"] = Tail(SetDev) /\ "dev" \notin torn
       \/ /\ todo["ui"] = Load("dev") \/ Without(todo["ui"], "dev")
          /\ flash["dev"] = <<setbuf>> /\ "dev" \notin torn

\* The resource in flash, too, is the one that was set.
BothKept == KeepsLength(res, given.memory) /\ KeepsLength(flash["res"], given.flash)

\* Plans are what a thread takes up: they do not begin with a write.
Plan(p) == p \in Seq(Steps) /\ Shape(p) /\ (p # <<>> => p[1][1] # "write")

LEMMA StepIsPair ==
  ASSUME NEW x \in Steps
  PROVE  /\ x = <<x[1], x[2]>>
         /\ x[1] \in {"load", "erase", "write"} => x[2] \in Sectors
         /\ x[1] = "role" => x[2] \in {"three", "plain"}
         /\ x[1] \in {"drop", "start", "load", "erase", "write", "role"}
         /\ x[1] = "drop" => x[2] = "atb"
         /\ x[1] = "start" => x[2] = "sysm"
  BY DEF Steps

LEMMA TodoTyped ==
  ASSUME CfgTypeOK, NEW t \in Threads
  PROVE  todo[t] \in Seq(Steps) /\ Len(todo[t]) \in Nat
BY LenProperties DEF CfgTypeOK

\* What is left of a sequence of steps.
LEMMA LeftOver ==
  ASSUME NEW p \in Seq(Steps), p # <<>>
  PROVE  /\ Head(p) = p[1] /\ Head(p) \in Steps
         /\ Tail(p) \in Seq(Steps) /\ Len(p) \in Nat \ {0} /\ Len(Tail(p)) = Len(p) - 1
         /\ \A i \in 1..Len(Tail(p)) : Tail(p)[i] = p[i + 1]
<1>1. /\ Head(p) \in Steps /\ Tail(p) \in Seq(Steps) /\ Len(Tail(p)) = Len(p) - 1
      /\ \A i \in 1..Len(Tail(p)) : Tail(p)[i] = p[i + 1]
  BY HeadTailProperties
<1>2. Len(p) \in Nat \ {0}
  BY EmptySeq
<1>. QED
  BY <1>1, <1>2

LEMMA ShapeOfTail ==
  ASSUME NEW p \in Seq(Steps), p # <<>>, Shape(p)
  PROVE  /\ Shape(Tail(p))
         /\ Head(p)[1] # "erase" => Plan(Tail(p))
         /\ Tail(p) # <<>> => /\ Tail(p)[1] = p[2]
                              /\ p[2][1] = "write" => Head(p) = <<"erase", p[2][2]>>
<1>. DEFINE q == Tail(p)
<1>1. /\ Head(p) = p[1] /\ q \in Seq(Steps) /\ Len(p) \in Nat \ {0} /\ Len(q) = Len(p) - 1
      /\ \A i \in 1..Len(q) : q[i] = p[i + 1]
  BY LeftOver
<1>. HIDE DEF q
<1>2. \A i \in 2..Len(q) : q[i][1] = "write" => q[i - 1] = <<"erase", q[i][2]>>
  <2>1. TAKE i \in 2..Len(q)
  <2>2. i + 1 \in 2..Len(p) /\ q[i] = p[i + 1] /\ q[i - 1] = p[(i + 1) - 1]
    BY <1>1, <2>1
  <2>. QED
    BY <2>2 DEF Shape
<1>3. \A i \in 1..Len(q) : q[i] = <<"write", "atb">> => i < Len(q) /\ q[i + 1] = <<"drop", "atb">>
  <2>1. TAKE i \in 1..Len(q)
  <2>2. i + 1 \in 1..Len(p) /\ q[i] = p[i + 1] /\ (i < Len(q) => q[i + 1] = p[(i + 1) + 1])
    BY <1>1, <2>1
  <2>. QED
    BY <1>1, <2>1, <2>2 DEF Shape
<1>4. \A i \in 1..Len(q) : q[i][1] = "start" => i = Len(q)
  <2>1. TAKE i \in 1..Len(q)
  <2>2. i + 1 \in 1..Len(p) /\ q[i] = p[i + 1]
    BY <1>1, <2>1
  <2>. QED
    BY <1>1, <2>1, <2>2 DEF Shape
<1>5. ASSUME q # <<>>
      PROVE  q[1] = p[2] /\ (p[2][1] = "write" => Head(p) = <<"erase", p[2][2]>>)
  <2>1. Len(q) \in Nat \ {0}
    BY <1>1, <1>5, EmptySeq
  <2>2. 2 \in 2..Len(p) /\ q[1] = p[2] /\ p[2 - 1] = p[1]
    BY <1>1, <2>1
  <2>. QED
    BY <1>1, <2>2 DEF Shape
<1>6. Head(p)[1] # "erase" => Plan(q)
  BY <1>1, <1>2, <1>3, <1>4, <1>5 DEF Plan, Shape
<1>. QED
  BY <1>2, <1>3, <1>4, <1>5, <1>6 DEF q, Shape

LEMMA PlansJoin ==
  ASSUME NEW p, NEW q, Plan(p), NoStart(p), Plan(q)
  PROVE  /\ Plan(p \o q) /\ (p # <<>> => p \o q # <<>> /\ (p \o q)[1] = p[1])
         /\ NoStart(q) => NoStart(p \o q)
<1>. DEFINE r == p \o q
<1>1. /\ p \in Seq(Steps) /\ q \in Seq(Steps) /\ Len(p) \in Nat /\ Len(q) \in Nat
      /\ r \in Seq(Steps) /\ Len(r) = Len(p) + Len(q)
      /\ \A i \in 1..(Len(p) + Len(q)) : r[i] = IF i <= Len(p) THEN p[i] ELSE q[i - Len(p)]
  BY ConcatProperties, LenProperties DEF Plan
<1>2. (p # <<>> => Len(p) > 0) /\ (q # <<>> <=> Len(q) > 0)
  BY <1>1, EmptySeq
<1>. HIDE DEF r
<1>3. p # <<>> => r # <<>> /\ r[1] = p[1]
  BY <1>1, <1>2, EmptySeq
<1>4. r # <<>> => r[1][1] # "write"
  <2>1. CASE p # <<>>
    BY <1>3, <2>1 DEF Plan
  <2>2. CASE p = <<>>
    BY <1>1, <2>2, ConcatEmptySeq DEF Plan, r
  <2>. QED
    BY <2>1, <2>2
<1>5. ASSUME NEW i \in 2..Len(r), r[i][1] = "write" PROVE r[i - 1] = <<"erase", r[i][2]>>
  <2>1. CASE i <= Len(p)
    <3>1. i \in 2..Len(p) /\ r[i] = p[i]
      BY <1>1, <2>1
    <3>2. i - 1 \in 1..(Len(p) + Len(q)) /\ i - 1 <= Len(p)
      BY <1>1, <3>1
    <3>3. r[i - 1] = p[i - 1]
      BY <1>1, <3>2
    <3>. QED
      BY <1>5, <3>1, <3>3 DEF Plan, Shape
  <2>2. CASE i = Len(p) + 1
    <3>1. r[i] = q[1] /\ Len(q) > 0
      BY <1>1, <2>2
    <3>. QED
      BY <1>2, <1>5, <3>1 DEF Plan
  <2>3. CASE i > Len(p) + 1
    <3>1. i - Len(p) \in 2..Len(q) /\ r[i] = q[i - Len(p)]
      BY <1>1, <2>3
    <3>2. /\ i - 1 \in 1..(Len(p) + Len(q)) /\ ~(i - 1 <= Len(p))
          /\ (i - 1) - Len(p) = (i - Len(p)) - 1
      BY <1>1, <2>3
    <3>3. r[i - 1] = q[(i - 1) - Len(p)]
      BY <1>1, <3>2
    <3>. QED
      BY <1>5, <3>1, <3>2, <3>3 DEF Plan, Shape
  <2>. QED
    BY <1>1, <2>1, <2>2, <2>3
<1>6. ASSUME NEW i \in 1..Len(r), r[i] = <<"write", "atb">>
      PROVE  i < Len(r) /\ r[i + 1] = <<"drop", "atb">>
  <2>1. CASE i <= Len(p)
    <3>1. i \in 1..Len(p) /\ r[i] = p[i]
      BY <1>1, <2>1
    <3>2. i < Len(p) /\ p[i + 1] = <<"drop", "atb">>
      BY <1>6, <3>1 DEF Plan, Shape
    <3>. QED
      BY <1>1, <3>2
  <2>2. CASE i > Len(p)
    <3>1. i - Len(p) \in 1..Len(q) /\ r[i] = q[i - Len(p)]
      BY <1>1, <2>2
    <3>2. i - Len(p) < Len(q) /\ q[(i - Len(p)) + 1] = <<"drop", "atb">>
      BY <1>6, <3>1 DEF Plan, Shape
    <3>. QED
      BY <1>1, <2>2, <3>2
  <2>. QED
    BY <1>1, <2>1, <2>2
<1>7. ASSUME NEW i \in 1..Len(r), r[i][1] = "start" PROVE i = Len(r)
  <2>1. ~(i <= Len(p))
    BY <1>1, <1>7 DEF NoStart
  <2>2. i - Len(p) \in 1..Len(q) /\ r[i] = q[i - Len(p)]
    BY <1>1, <2>1
  <2>3. i - Len(p) = Len(q)
    BY <1>7, <2>2 DEF Plan, Shape
  <2>. QED
    BY <1>1, <2>3
<1>8. Plan(r)
  BY <1>1, <1>4, <1>5, <1>6, <1>7 DEF Plan, Shape
<1>9. ASSUME NoStart(q), NEW i \in 1..Len(r) PROVE r[i][1] # "start"
  BY <1>1, <1>9 DEF NoStart
<1>. QED
  BY <1>3, <1>8, <1>9 DEF r, NoStart

LEMMA OneStep ==
  ASSUME NEW x \in Steps, x[1] # "write"
  PROVE  Plan(<<x>>) /\ (x[1] # "start" => NoStart(<<x>>))
<1>1. <<x>> \in Seq(Steps) /\ Len(<<x>>) = 1 /\ <<x>>[1] = x
  OBVIOUS
<1>2. x # <<"write", "atb">>
  OBVIOUS
<1>. QED
  BY <1>1, <1>2 DEF Plan, NoStart, Shape

LEMMA TwoSteps ==
  ASSUME NEW x \in Steps, NEW y \in Steps
  PROVE  /\ <<x, y>> \in Seq(Steps) /\ Len(<<x, y>>) = 2
         /\ <<x, y>>[1] = x /\ <<x, y>>[2] = y
OBVIOUS

LEMMA SmallPlans ==
  /\ Plan(<<>>) /\ NoStart(<<>>)
  /\ \A s \in Sectors : Plan(Load(s)) /\ NoStart(Load(s))
  /\ \A s \in Sectors : Plan(Erase(s)) /\ NoStart(Erase(s))
  /\ \A s \in Sectors \ {"atb"} : Plan(Save(s)) /\ NoStart(Save(s))
  /\ \A mode \in {"three", "plain"} : Plan(<< <<"role", mode>> >>) /\ NoStart(<< <<"role", mode>> >>)
  /\ Plan(<< <<"start", "sysm">> >>)
<1>1. \A s \in Sectors : <<"load", s>> \in Steps /\ <<"erase", s>> \in Steps /\ <<"write", s>> \in Steps
  BY DEF Steps
<1>2. Plan(<<>>) /\ NoStart(<<>>)
  BY EmptySeq DEF Plan, NoStart, Shape
<1>3. ASSUME NEW s \in Sectors PROVE Plan(Load(s)) /\ NoStart(Load(s))
  <2>1. <<"load", s>> \in Steps
    BY <1>1, <1>3
  <2>. QED
    BY <2>1, OneStep DEF Load
<1>4. ASSUME NEW s \in Sectors PROVE Plan(Erase(s)) /\ NoStart(Erase(s))
  <2>1. <<"erase", s>> \in Steps
    BY <1>1, <1>4
  <2>. QED
    BY <2>1, OneStep DEF Erase
<1>5. ASSUME NEW s \in Sectors \ {"atb"} PROVE Plan(Save(s)) /\ NoStart(Save(s))
  <2>1. <<"erase", s>> \in Steps /\ <<"write", s>> \in Steps
    BY <1>1, <1>5
  <2>2. /\ Save(s) \in Seq(Steps) /\ Len(Save(s)) = 2
        /\ Save(s)[1] = <<"erase", s>> /\ Save(s)[2] = <<"write", s>>
    BY <2>1, TwoSteps DEF Save
  <2>. QED
    BY <1>5, <2>2 DEF Plan, NoStart, Shape
<1>6. ASSUME NEW mode \in {"three", "plain"}
      PROVE  Plan(<< <<"role", mode>> >>) /\ NoStart(<< <<"role", mode>> >>)
  <2>1. <<"role", mode>> \in Steps
    BY DEF Steps
  <2>. QED
    BY <2>1, OneStep
<1>7. Plan(<< <<"start", "sysm">> >>)
  <2>1. <<"start", "sysm">> \in Steps
    BY DEF Steps
  <2>. QED
    BY <2>1, OneStep
<1>. QED
  BY <1>2, <1>3, <1>4, <1>5, <1>6, <1>7

\* The steps of the longer ones.
LEMMA SaveAtbIs ==
  /\ SaveAtb \in Seq(Steps) /\ Len(SaveAtb) = 3
  /\ SaveAtb[1] = <<"erase", "atb">> /\ SaveAtb[2] = <<"write", "atb">> /\ SaveAtb[3] = <<"drop", "atb">>
<1>1. <<"erase", "atb">> \in Steps /\ <<"write", "atb">> \in Steps /\ <<"drop", "atb">> \in Steps
  BY DEF Steps, Sectors
<1>. DEFINE a == << <<"erase", "atb">>, <<"write", "atb">> >>
            b == << <<"drop", "atb">> >>
<1>2. a \in Seq(Steps) /\ Len(a) = 2 /\ a[1] = <<"erase", "atb">> /\ a[2] = <<"write", "atb">>
  BY <1>1
<1>3. b \in Seq(Steps) /\ Len(b) = 1 /\ b[1] = <<"drop", "atb">>
  BY <1>1
<1>4. SaveAtb = a \o b
  BY DEF SaveAtb, Save
<1>. HIDE DEF a, b
<1>5. /\ a \o b \in Seq(Steps) /\ Len(a \o b) = 3
      /\ \A i \in 1..3 : (a \o b)[i] = IF i <= 2 THEN a[i] ELSE b[i - 2]
  BY <1>2, <1>3, ConcatProperties
<1>6. (a \o b)[1] = a[1] /\ (a \o b)[2] = a[2] /\ (a \o b)[3] = b[1]
  BY <1>5
<1>. QED
  BY <1>2, <1>3, <1>4, <1>5, <1>6

LEMMA SetDevIs ==
  /\ SetDev \in Seq(Steps) /\ Len(SetDev) = 3
  /\ SetDev[1] = <<"erase", "dev">> /\ SetDev[2] = <<"write", "dev">> /\ SetDev[3] = <<"load", "dev">>
<1>1. <<"erase", "dev">> \in Steps /\ <<"write", "dev">> \in Steps /\ <<"load", "dev">> \in Steps
  BY DEF Steps, Sectors
<1>. DEFINE a == << <<"erase", "dev">>, <<"write", "dev">> >>
            b == << <<"load", "dev">> >>
<1>2. a \in Seq(Steps) /\ Len(a) = 2 /\ a[1] = <<"erase", "dev">> /\ a[2] = <<"write", "dev">>
  BY <1>1
<1>3. b \in Seq(Steps) /\ Len(b) = 1 /\ b[1] = <<"load", "dev">>
  BY <1>1
<1>4. SetDev = a \o b
  BY DEF SetDev, Save, Load
<1>. HIDE DEF a, b
<1>5. /\ a \o b \in Seq(Steps) /\ Len(a \o b) = 3
      /\ \A i \in 1..3 : (a \o b)[i] = IF i <= 2 THEN a[i] ELSE b[i - 2]
  BY <1>2, <1>3, ConcatProperties
<1>6. (a \o b)[1] = a[1] /\ (a \o b)[2] = a[2] /\ (a \o b)[3] = b[1]
  BY <1>5
<1>. QED
  BY <1>2, <1>3, <1>4, <1>5, <1>6

\* What a thread takes up.
LEMMA LongPlans ==
  /\ Plan(SaveAtb) /\ NoStart(SaveAtb)
  /\ Plan(SetDev) /\ NoStart(SetDev)
  /\ Plan(Erase("pre") \o Erase("res")) /\ NoStart(Erase("pre") \o Erase("res"))
  /\ \A mode \in {"three", "plain"} : /\ Plan(Load("atb") \o << <<"role", mode>> >>)
                                       /\ NoStart(Load("atb") \o << <<"role", mode>> >>)
  /\ Plan(Boot)
<1>1. Plan(SaveAtb) /\ NoStart(SaveAtb)
  BY SaveAtbIs DEF Plan, NoStart, Shape
<1>2. Plan(SetDev) /\ NoStart(SetDev)
  BY SetDevIs DEF Plan, NoStart, Shape
<1>3. "pre" \in Sectors /\ "res" \in Sectors /\ "atb" \in Sectors /\ "dev" \in Sectors
  BY DEF Sectors
<1>4. Plan(Erase("pre") \o Erase("res")) /\ NoStart(Erase("pre") \o Erase("res"))
  BY <1>3, SmallPlans, PlansJoin
<1>5. \A mode \in {"three", "plain"} : /\ Plan(Load("atb") \o << <<"role", mode>> >>)
                                       /\ NoStart(Load("atb") \o << <<"role", mode>> >>)
  BY <1>3, SmallPlans, PlansJoin
<1>6. Plan(Boot)
  <2>. DEFINE a == Load("dev") \o Load("pre")
              b == a \o Load("atb")
              c == b \o Load("res")
  <2>1. Plan(a) /\ NoStart(a)
    BY <1>3, SmallPlans, PlansJoin
  <2>2. Plan(b) /\ NoStart(b)
    BY <1>3, <2>1, SmallPlans, PlansJoin
  <2>3. Plan(c) /\ NoStart(c)
    BY <1>3, <2>2, SmallPlans, PlansJoin
  <2>. QED
    BY <2>3, SmallPlans, PlansJoin DEF Boot
<1>. QED
  BY <1>1, <1>2, <1>4, <1>5, <1>6

-----------------------------------------------------------------------------
(* The steps. *)

LEMMA TheSectors ==
  /\ "atb" \in Sectors /\ "res" \in Sectors /\ "dev" \in Sectors /\ "pre" \in Sectors
  /\ "ui" \in Threads /\ "sysm" \in Threads
BY DEF Sectors, Threads

LEMMA StepIs ==
  ASSUME CfgTypeOK, NEW t \in Threads, Step(t)
  PROVE  /\ todo[t] # <<>> /\ UNCHANGED <<setbuf, msgs, ops>>
         /\ \/ \E s \in Sectors : Head(todo[t]) = <<"load", s>> /\ LoadStep(t, s)
            \/ \E s \in Sectors : Head(todo[t]) = <<"erase", s>> /\ EraseStep(t, s)
            \/ \E s \in Sectors : Head(todo[t]) = <<"write", s>> /\ WriteStep(t, s)
            \/ Head(todo[t]) = <<"drop", "atb">> /\ DropStep(t)
            \/ \E mode \in {"three", "plain"} : Head(todo[t]) = <<"role", mode>> /\ RoleStep(t, mode)
            \/ Head(todo[t]) = <<"start", "sysm">> /\ StartStep(t)
<1>. DEFINE x == Head(todo[t])
<1>1. todo[t] # <<>> /\ UNCHANGED <<setbuf, msgs, ops>>
  BY DEF Step
<1>2. x \in Steps
  BY <1>1, TodoTyped, LeftOver
<1>3. \/ x[1] = "load" /\ LoadStep(t, x[2])
      \/ x[1] = "erase" /\ EraseStep(t, x[2])
      \/ x[1] = "write" /\ WriteStep(t, x[2])
      \/ x[1] = "drop" /\ DropStep(t)
      \/ x[1] = "role" /\ RoleStep(t, x[2])
      \/ x[1] = "start" /\ StartStep(t)
  BY DEF Step
<1>. HIDE DEF x
<1>4. x = <<x[1], x[2]>>
  BY <1>2, StepIsPair
<1>5. CASE x[1] = "load" /\ LoadStep(t, x[2])
  <2>1. x[2] \in Sectors /\ x = <<"load", x[2]>>
    BY <1>2, <1>4, <1>5, StepIsPair
  <2>. QED
    BY <1>1, <1>5, <2>1 DEF x
<1>6. CASE x[1] = "erase" /\ EraseStep(t, x[2])
  <2>1. x[2] \in Sectors /\ x = <<"erase", x[2]>>
    BY <1>2, <1>4, <1>6, StepIsPair
  <2>. QED
    BY <1>1, <1>6, <2>1 DEF x
<1>7. CASE x[1] = "write" /\ WriteStep(t, x[2])
  <2>1. x[2] \in Sectors /\ x = <<"write", x[2]>>
    BY <1>2, <1>4, <1>7, StepIsPair
  <2>. QED
    BY <1>1, <1>7, <2>1 DEF x
<1>8. CASE x[1] = "drop" /\ DropStep(t)
  <2>1. x = <<"drop", "atb">>
    BY <1>2, <1>4, <1>8, StepIsPair
  <2>. QED
    BY <1>1, <1>8, <2>1 DEF x
<1>9. CASE x[1] = "role" /\ RoleStep(t, x[2])
  <2>1. x[2] \in {"three", "plain"} /\ x = <<"role", x[2]>>
    BY <1>2, <1>4, <1>9, StepIsPair
  <2>. QED
    BY <1>1, <1>9, <2>1 DEF x
<1>10. CASE x[1] = "start" /\ StartStep(t)
  <2>1. x = <<"start", "sysm">>
    BY <1>2, <1>4, <1>10, StepIsPair
  <2>. QED
    BY <1>1, <1>10, <2>1 DEF x
<1>. QED
  BY <1>3, <1>5, <1>6, <1>7, <1>8, <1>9, <1>10

\* What one step leaves to the thread that takes it.
Leaves(t, rest) == todo' = [todo EXCEPT ![t] = rest]

LEMMA RestOfStep ==
  ASSUME CfgTypeOK, NEW t \in Threads, Step(t)
  PROVE  /\ todo[t] # <<>>
         /\ \/ Leaves(t, Tail(todo[t]))
            \/ /\ Head(todo[t])[1] \in {"load", "drop", "role"}
               /\ \E p : Plan(p) /\ NoStart(p) /\ Leaves(t, p \o Tail(todo[t]))
<1>1. todo[t] # <<>>
  BY StepIs
<1>2. ASSUME NEW s \in Sectors, Head(todo[t]) = <<"load", s>>, LoadStep(t, s)
      PROVE  \/ Leaves(t, Tail(todo[t]))
             \/ \E p : Plan(p) /\ NoStart(p) /\ Leaves(t, p \o Tail(todo[t]))
  <2>1. CASE s = "dev"
    <3>1. LoadDev(t)
      BY <1>2, <2>1 DEF LoadStep
    <3>2. Done(t) \/ Then(t, SetDev)
      BY <3>1 DEF LoadDev, SetDev
    <3>. QED
      BY <3>2, LongPlans DEF Done, Then, Leaves
  <2>2. CASE s = "pre"
    <3>1. LoadPre(t)
      BY <1>2, <2>2 DEF LoadStep
    <3>. QED
      BY <3>1 DEF LoadPre, Done, Leaves
  <2>3. CASE s = "atb"
    <3>1. LoadAtb(t)
      BY <1>2, <2>3 DEF LoadStep
    <3>2. Done(t) \/ Then(t, Erase("pre"))
      BY <3>1 DEF LoadAtb
    <3>3. Plan(Erase("pre")) /\ NoStart(Erase("pre"))
      BY SmallPlans, TheSectors
    <3>. QED
      BY <3>2, <3>3 DEF Done, Then, Leaves
  <2>4. CASE s = "res"
    <3>1. LoadRes(t)
      BY <1>2, <2>4 DEF LoadStep
    <3>. QED
      BY <3>1 DEF LoadRes, Done, Leaves
  <2>. QED
    BY <2>1, <2>2, <2>3, <2>4 DEF Sectors
<1>3. ASSUME NEW s \in Sectors, EraseStep(t, s) PROVE Leaves(t, Tail(todo[t]))
  BY <1>3 DEF EraseStep, Done, Leaves
<1>4. ASSUME NEW s \in Sectors, WriteStep(t, s) PROVE Leaves(t, Tail(todo[t]))
  BY <1>4 DEF WriteStep, Done, Leaves
<1>5. ASSUME DropStep(t)
      PROVE  \/ Leaves(t, Tail(todo[t]))
             \/ \E p : Plan(p) /\ NoStart(p) /\ Leaves(t, p \o Tail(todo[t]))
  <2>1. Done(t) \/ Then(t, Erase("pre") \o Erase("res"))
    BY <1>5 DEF DropStep
  <2>. QED
    BY <2>1, LongPlans DEF Done, Then, Leaves
<1>6. ASSUME NEW mode, RoleStep(t, mode)
      PROVE  \E p : Plan(p) /\ NoStart(p) /\ Leaves(t, p \o Tail(todo[t]))
  BY <1>6, LongPlans DEF RoleStep, Then, Leaves
<1>7. ASSUME StartStep(t) PROVE Leaves(t, Tail(todo[t]))
  BY <1>7 DEF StartStep, Done, Leaves
<1>. QED
  BY <1>1, <1>2, <1>3, <1>4, <1>5, <1>6, <1>7, StepIs

\* How a thread that is idle comes to have something to do.
LEMMA TaskIsPlan ==
  ASSUME NEW t \in Threads,
         \/ \E params \in Params : SetAtbCfg(t, params)
         \/ \E r \in Resources : SetResConfig(t, r)
         \/ t = "ui" /\ (SaveRes \/ Command \/ UimsgProc)
  PROVE  todo[t] = <<>> /\ \E p : Plan(p) /\ NoStart(p) /\ Leaves(t, p)
<1>1. ASSUME NEW params, SetAtbCfg(t, params)
      PROVE  todo[t] = <<>> /\ \E p : Plan(p) /\ NoStart(p) /\ Leaves(t, p)
  BY <1>1, LongPlans DEF SetAtbCfg, Begins, Leaves
<1>2. Plan(Save("res")) /\ NoStart(Save("res"))
  BY SmallPlans DEF Sectors
<1>3. ASSUME NEW r, SetResConfig(t, r)
      PROVE  todo[t] = <<>> /\ \E p : Plan(p) /\ NoStart(p) /\ Leaves(t, p)
  BY <1>2, <1>3 DEF SetResConfig, Begins, Leaves
<1>4. ASSUME t = "ui", SaveRes
      PROVE  todo[t] = <<>> /\ \E p : Plan(p) /\ NoStart(p) /\ Leaves(t, p)
  BY <1>2, <1>4 DEF SaveRes, Begins, Leaves
<1>5. ASSUME t = "ui", Command
      PROVE  todo[t] = <<>> /\ \E p : Plan(p) /\ NoStart(p) /\ Leaves(t, p)
  <2>1. PICK what \in {Load("atb") \o << <<"role", mode>> >> : mode \in {"three", "plain"}}
                      \cup {Load("atb"), Save("pre"), Erase("pre")} : Begins("ui", what)
    BY <1>5 DEF Command
  <2>2. /\ Plan(Load("atb")) /\ NoStart(Load("atb")) /\ Plan(Save("pre")) /\ NoStart(Save("pre"))
        /\ Plan(Erase("pre")) /\ NoStart(Erase("pre"))
    BY SmallPlans DEF Sectors
  <2>3. \A mode \in {"three", "plain"} : /\ Plan(Load("atb") \o << <<"role", mode>> >>)
                                         /\ NoStart(Load("atb") \o << <<"role", mode>> >>)
    BY LongPlans
  <2>4. Plan(what) /\ NoStart(what)
    BY <2>1, <2>2, <2>3
  <2>. QED
    BY <1>5, <2>1, <2>4 DEF Begins, Leaves
<1>6. ASSUME t = "ui", UimsgProc
      PROVE  todo[t] = <<>> /\ \E p : Plan(p) /\ NoStart(p) /\ Leaves(t, p)
  BY <1>6, LongPlans DEF UimsgProc, Begins, Leaves, SetDev
<1>. QED
  BY <1>1, <1>3, <1>4, <1>5, <1>6

\* The actions, by what they do to the steps that are to come.
LEMMA ActionIs ==
  ASSUME [CfgNext]_cfgvars
  PROVE  \/ \E t \in Threads : Step(t)
         \/ \E t \in Threads : \/ \E params \in Params : SetAtbCfg(t, params)
                               \/ \E r \in Resources : SetResConfig(t, r)
                               \/ t = "ui" /\ (SaveRes \/ Command \/ UimsgProc)
         \/ \E d \in Devs : DeviceSet(d)
         \/ PowerFails
         \/ UNCHANGED cfgvars
BY TheSectors DEF CfgNext

LEMMA TodoBySteps ==
  ASSUME CfgTypeOK, [CfgNext]_cfgvars
  PROVE  \/ UNCHANGED todo
         \/ todo' = AtBoot
         \/ \E t \in Threads : todo[t] = <<>> /\ \E p : Plan(p) /\ NoStart(p) /\ Leaves(t, p)
         \/ \E t \in Threads :
              /\ todo[t] # <<>>
              /\ \/ Leaves(t, Tail(todo[t]))
                 \/ /\ Head(todo[t])[1] \in {"load", "drop", "role"}
                    /\ \E p : Plan(p) /\ NoStart(p) /\ Leaves(t, p \o Tail(todo[t]))
<1>1. ASSUME NEW d, DeviceSet(d) PROVE UNCHANGED todo
  BY <1>1 DEF DeviceSet
<1>2. PowerFails => todo' = AtBoot
  BY DEF PowerFails
<1>3. UNCHANGED cfgvars => UNCHANGED todo
  BY DEF cfgvars
<1>. QED
  BY <1>1, <1>2, <1>3, ActionIs, RestOfStep, TaskIsPlan

LEMMA BootIsShaped == /\ AtBoot \in [Threads -> Seq(Steps)] /\ \A t \in Threads : Plan(AtBoot[t])
                      /\ AtBoot["ui"] = Boot /\ AtBoot["sysm"] = <<>>
<1>1. \A t \in Threads : AtBoot[t] = IF t = "ui" THEN Boot ELSE <<>>
  BY DEF AtBoot
<1>2. Plan(Boot) /\ Plan(<<>>)
  BY LongPlans, SmallPlans
<1>3. Boot \in Seq(Steps) /\ <<>> \in Seq(Steps)
  BY <1>2 DEF Plan
<1>. QED
  BY <1>1, <1>2, <1>3, TheSectors DEF AtBoot

\* What holds of all that threads have to do is kept by plans and their rests.
LEMMA ShapesStep ==
  ASSUME CfgTypeOK, Shapes, [CfgNext]_cfgvars
  PROVE  Shapes' /\ todo' \in [Threads -> Seq(Steps)]
<1>0. todo \in [Threads -> Seq(Steps)]
  BY DEF CfgTypeOK
<1>1. CASE UNCHANGED todo
  BY <1>0, <1>1 DEF Shapes
<1>2. CASE todo' = AtBoot
  BY <1>2, BootIsShaped DEF Plan, Shapes
<1>3. ASSUME NEW t \in Threads, NEW rest, rest \in Seq(Steps), Shape(rest), Leaves(t, rest)
      PROVE  Shapes' /\ todo' \in [Threads -> Seq(Steps)]
  <2>1. todo' \in [Threads -> Seq(Steps)]
    BY <1>0, <1>3 DEF Leaves
  <2>2. \A u \in Threads : todo'[u] = IF u = t THEN rest ELSE todo[u]
    BY <1>0, <1>3 DEF Leaves
  <2>. QED
    BY <1>3, <2>1, <2>2 DEF Shapes
<1>4. ASSUME NEW t \in Threads, todo[t] # <<>>
      PROVE  /\ Tail(todo[t]) \in Seq(Steps) /\ Shape(Tail(todo[t]))
             /\ Head(todo[t])[1] \in {"load", "drop", "role"} => Plan(Tail(todo[t]))
  <2>1. todo[t] \in Seq(Steps) /\ Shape(todo[t])
    BY <1>0 DEF Shapes
  <2>. QED
    BY <1>4, <2>1, LeftOver, ShapeOfTail
<1>5. ASSUME NEW t \in Threads, NEW p, Plan(p), NoStart(p), Plan(Tail(todo[t]))
      PROVE  p \o Tail(todo[t]) \in Seq(Steps) /\ Shape(p \o Tail(todo[t]))
  BY <1>5, PlansJoin DEF Plan
<1>. QED
  BY <1>1, <1>2, <1>3, <1>4, <1>5, TodoBySteps DEF Plan

LEMMA TableOf ==
  ASSUME NEW S
  PROVE  /\ <<>> \in AtMostOne(S)
         /\ \A v \in S : <<v>> \in AtMostOne(S) /\ <<v>> # <<>> /\ <<v>>[1] = v
         /\ \A table \in AtMostOne(S) : table # <<>> => table[1] \in S /\ table = <<table[1]>>
<1>1. <<>> \in AtMostOne(S)
  BY EmptySeq DEF AtMostOne
<1>2. ASSUME NEW v \in S PROVE <<v>> \in AtMostOne(S) /\ <<v>> # <<>> /\ <<v>>[1] = v
  <2>1. <<v>> \in Seq(S) /\ Len(<<v>>) = 1 /\ <<v>>[1] = v
    OBVIOUS
  <2>. QED
    BY <2>1, EmptySeq DEF AtMostOne
<1>3. ASSUME NEW table \in AtMostOne(S), table # <<>>
      PROVE  table[1] \in S /\ table = <<table[1]>>
  <2>1. table \in Seq(S) /\ Len(table) = 1
    <3>1. table \in Seq(S) /\ Len(table) <= 1
      BY <1>3 DEF AtMostOne
    <3>2. Len(table) \in Nat \ {0}
      BY <1>3, <3>1, EmptySeq
    <3>3. \A n \in Nat \ {0} : n <= 1 => n = 1
      OBVIOUS
    <3>. QED
      BY <3>1, <3>2, <3>3
  <2>2. table[1] \in S
    BY <2>1, ElementOfSeq
  <2>3. <<table[1]>> \in Seq(S) /\ Len(<<table[1]>>) = 1 /\ <<table[1]>>[1] = table[1]
    BY <2>2
  <2>. QED
    BY <2>1, <2>2, <2>3, SeqEqual
<1>. QED
  BY <1>1, <1>2, <1>3

\* A resource that reaches over the end has a length to lose.
LEMMA ShortenIs ==
  ASSUME NEW table \in AtMostOne(Entries)
  PROVE  /\ Shorten(table) \in AtMostOne(Entries)
         /\ Shorten(table) # <<>> <=> table # <<>>
         /\ table # <<>> =>
              /\ Shorten(table)[1].pos = table[1].pos
              /\ Shorten(table)[1].len # table[1].len /\ table[1].pos < End =>
                   /\ table[1].pos + table[1].len >= End
                   /\ Shorten(table)[1].len = table[1].len - 1
<1>1. CASE ~(table # <<>> /\ Cut(table[1]))
  BY <1>1 DEF Shorten
<1>2. CASE table # <<>> /\ Cut(table[1])
  <2>. DEFINE e == table[1]
              l == (e.len + Width - 1) % Width
              r == [e EXCEPT !.len = l]
  <2>1. e \in Entries /\ Shorten(table) = <<r>>
    BY <1>2, TableOf DEF Shorten
  <2>2. e.pos \in Nat /\ e.len \in 0..(Width - 1) /\ Width \in Nat \ {0} /\ End \in Nat
    BY <2>1, FlashCfgAssumption DEF Entries
  <2>3. e.len + Width - 1 \in Nat
    BY <2>2
  <2>4. l \in 0..(Width - 1) /\ (e.len # 0 => l = e.len - 1)
    BY <2>2, <2>3
  <2>5. r \in Entries /\ r.pos = e.pos /\ r.len = l
    BY <2>1, <2>4 DEF Entries
  <2>6. e.pos + e.len >= End
    BY <1>2 DEF Cut
  <2>. HIDE DEF e, l, r
  <2>7. Shorten(table) \in AtMostOne(Entries) /\ Shorten(table) # <<>> /\ Shorten(table)[1] = r
    BY <2>1, <2>5, TableOf
  <2>8. e.pos < End => e.len # 0
    BY <2>2, <2>6
  <2>. QED
    BY <1>2, <2>2, <2>4, <2>5, <2>6, <2>7, <2>8 DEF e
<1>. QED
  BY <1>1, <1>2

LEMMA MemoryTyped ==
  ASSUME CfgTypeOK, NEW s \in Sectors
  PROVE  Memory(s) \in AtMostOne(Values(s))
<1>1. CASE s = "atb"
  BY <1>1, TableOf DEF Memory, Values, CfgTypeOK
<1>2. CASE s = "res"
  BY <1>2 DEF Memory, Values, CfgTypeOK
<1>3. CASE s = "dev"
  <2>1. dev \in Devs \cup {NoDevs}
    BY DEF CfgTypeOK
  <2>2. <<dev>> \in AtMostOne(Devs \cup {NoDevs})
    BY <2>1, TableOf
  <2>. QED
    BY <1>3, <2>2 DEF Memory, Values
<1>4. CASE s = "pre"
  <2>1. <<"set">> \in AtMostOne({"set"})
    BY TableOf
  <2>. QED
    BY <1>4, <2>1 DEF Memory, Values
<1>. QED
  BY <1>1, <1>2, <1>3, <1>4 DEF Sectors

\* The content of the sectors.
Holding(f) == f = [s \in Sectors |-> f[s]] /\ \A s \in Sectors : f[s] \in AtMostOne(Values(s))

LEMMA HoldingKept ==
  ASSUME NEW f, Holding(f), NEW s \in Sectors, NEW v \in AtMostOne(Values(s))
  PROVE  /\ Holding([f EXCEPT ![s] = v])
         /\ \A r \in Sectors : [f EXCEPT ![s] = v][r] = IF r = s THEN v ELSE f[r]
<1>. DEFINE g == [f EXCEPT ![s] = v]
<1>1. f = [x \in Sectors |-> f[x]]
  BY DEF Holding
<1>2. g = [x \in Sectors |-> IF x = s THEN v ELSE f[x]]
  BY <1>1
<1>. HIDE DEF g
<1>3. \A r \in Sectors : g[r] = IF r = s THEN v ELSE f[r]
  BY <1>2
<1>4. g = [x \in Sectors |-> g[x]]
  BY <1>2, <1>3
<1>. QED
  BY <1>3, <1>4 DEF g, Holding

LEMMA SectorsTyped ==
  CfgTypeOK => /\ Holding(flash) /\ Holding(last)
               /\ flash["atb"] \in AtMostOne(Params) /\ last["atb"] \in AtMostOne(Params)
               /\ flash["res"] \in AtMostOne(Entries)
               /\ flash["dev"] \in AtMostOne(Devs \cup {NoDevs})
<1>. SUFFICES ASSUME CfgTypeOK
              PROVE  /\ Holding(flash) /\ Holding(last)
                     /\ flash["atb"] \in AtMostOne(Params) /\ last["atb"] \in AtMostOne(Params)
                     /\ flash["res"] \in AtMostOne(Entries)
                     /\ flash["dev"] \in AtMostOne(Devs \cup {NoDevs})
  OBVIOUS
<1>1. Holding(flash) /\ Holding(last)
  BY DEF CfgTypeOK, Holding
<1>2. /\ flash["atb"] \in AtMostOne(Values("atb")) /\ last["atb"] \in AtMostOne(Values("atb"))
      /\ flash["res"] \in AtMostOne(Values("res")) /\ flash["dev"] \in AtMostOne(Values("dev"))
  BY <1>1, TheSectors DEF Holding
<1>3. Values("atb") = Params /\ Values("res") = Entries /\ Values("dev") = Devs \cup {NoDevs}
  BY DEF Values
<1>. QED
  BY <1>1, <1>2, <1>3

-----------------------------------------------------------------------------
(* Types *)

LEMMA NodeStartsEmpty ==
  NoParams \in Params /\ <<>> \in AtMostOne(Entries) /\ AtBoot \in [Threads -> Seq(Steps)]
BY TableOf, BootIsShaped DEF NoParams, Params

LEMMA CfgTypeInit == CfgInit => CfgTypeOK /\ Shapes
<1>. SUFFICES ASSUME CfgInit PROVE CfgTypeOK /\ Shapes
  OBVIOUS
<1>1. Shapes
  BY BootIsShaped DEF CfgInit, Shapes, Plan
<1>2. /\ \A s \in Sectors : flash[s] = <<>> /\ last[s] = <<>>
      /\ flash = [s \in Sectors |-> flash[s]] /\ last = [s \in Sectors |-> last[s]]
  BY DEF CfgInit
<1>3. \A s \in Sectors : {flash[s], last[s]} \subseteq AtMostOne(Values(s))
  BY <1>2, TableOf
<1>4. given \in [memory : AtMostOne(Entries), flash : AtMostOne(Entries)]
  BY NodeStartsEmpty DEF CfgInit
<1>. QED
  BY <1>1, <1>2, <1>3, <1>4, NodeStartsEmpty DEF CfgInit, CfgTypeOK

\* What the flash holds, as what a host gave it, and what is in memory.
FlashTyped ==
  /\ Holding(flash) /\ Holding(last)
  /\ torn \subseteq Sectors /\ shared \subseteq Sectors /\ mistaken \subseteq Sectors
  /\ given \in [memory : AtMostOne(Entries), flash : AtMostOne(Entries)] /\ since \in BOOLEAN
RamTyped ==
  /\ up \in BOOLEAN /\ atb \in Params /\ res \in AtMostOne(Entries)
  /\ dev \in Devs \cup {NoDevs} /\ reserved \in BOOLEAN
RestTyped == setbuf \in Devs \cup {NoDevs} /\ msgs \in Nat /\ ops \in Nat

LEMMA TypeIs == CfgTypeOK <=> FlashTyped /\ RamTyped /\ RestTyped /\ todo \in [Threads -> Seq(Steps)]
  BY DEF CfgTypeOK, FlashTyped, RamTyped, RestTyped, Holding

LEMMA LoadTyped ==
  ASSUME CfgTypeOK, NEW t \in Threads, NEW s \in Sectors, LoadStep(t, s)
  PROVE  FlashTyped' /\ RamTyped'
<1>0. FlashTyped /\ RamTyped
  BY TypeIs
<1>1. UNCHANGED <<flash, torn, up, last, shared>>
  BY DEF LoadStep
<1>2. /\ Marked("atb") => flash["atb"][1] \in Params
      /\ Marked("dev") => flash["dev"][1] \in Devs \cup {NoDevs}
  BY SectorsTyped, TableOf DEF Marked
<1>3. \A r \in Sectors : \A c, d : Taken(r, c, d) => mistaken' \subseteq Sectors
  BY <1>0 DEF Taken, FlashTyped
<1>4. CASE s = "dev"
  <2>1. LoadDev(t)
    BY <1>4 DEF LoadStep
  <2>2. /\ UNCHANGED <<atb, res, reserved, given, since>> /\ dev' \in Devs \cup {NoDevs}
        /\ mistaken' \subseteq Sectors
    BY <1>2, <1>3, <2>1, TheSectors DEF LoadDev
  <2>. QED
    BY <1>0, <1>1, <2>2 DEF FlashTyped, RamTyped, Holding
<1>5. CASE s = "pre"
  <2>1. LoadPre(t)
    BY <1>5 DEF LoadStep
  <2>2. UNCHANGED <<atb, res, dev, given, since, mistaken>> /\ reserved' \in BOOLEAN
    BY <2>1 DEF LoadPre, Marked
  <2>. QED
    BY <1>0, <1>1, <2>2 DEF FlashTyped, RamTyped, Holding
<1>6. CASE s = "atb"
  <2>1. LoadAtb(t)
    BY <1>6 DEF LoadStep
  <2>2. /\ UNCHANGED <<res, dev, reserved, given>> /\ atb' \in Params /\ since' \in BOOLEAN
        /\ mistaken' \subseteq Sectors
    BY <1>2, <1>3, <2>1, TheSectors, NodeStartsEmpty DEF LoadAtb
  <2>. QED
    BY <1>0, <1>1, <2>2 DEF FlashTyped, RamTyped, Holding
<1>7. CASE s = "res"
  <2>1. LoadRes(t)
    BY <1>7 DEF LoadStep
  <2>2. Shorten(flash["res"]) \in AtMostOne(Entries) /\ <<>> \in AtMostOne(Entries)
    BY SectorsTyped, ShortenIs, TableOf
  <2>3. res' \in AtMostOne(Entries) /\ UNCHANGED <<atb, dev, reserved, since, mistaken>>
    BY <2>1, <2>2 DEF LoadRes
  <2>4. given' = [given EXCEPT !.memory = IF "res" \in shared THEN <<>> ELSE given.flash]
    BY <2>1 DEF LoadRes
  <2>5. given' \in [memory : AtMostOne(Entries), flash : AtMostOne(Entries)]
    BY <1>0, <2>2, <2>4 DEF FlashTyped
  <2>. QED
    BY <1>0, <1>1, <2>3, <2>5 DEF FlashTyped, RamTyped, Holding
<1>. QED
  BY <1>4, <1>5, <1>6, <1>7 DEF Sectors

LEMMA StepTyped ==
  ASSUME CfgTypeOK, NEW t \in Threads, Step(t)
  PROVE  FlashTyped' /\ RamTyped' /\ RestTyped'
<1>0. FlashTyped /\ RamTyped /\ RestTyped
  BY TypeIs
<1>1. RestTyped'
  <2>1. UNCHANGED <<setbuf, msgs, ops>>
    BY StepIs
  <2>. QED
    BY <1>0, <2>1 DEF RestTyped
<1>2. ASSUME NEW s \in Sectors, LoadStep(t, s) PROVE FlashTyped' /\ RamTyped'
  BY <1>2, LoadTyped
<1>3. ASSUME NEW s \in Sectors, EraseStep(t, s) PROVE FlashTyped' /\ RamTyped'
  <2>1. Holding(flash') /\ Holding(last')
    <3>1. <<>> \in AtMostOne(Values(s))
      BY TableOf
    <3>2. flash' = [flash EXCEPT ![s] = <<>>] /\ last' = [last EXCEPT ![s] = <<>>]
      BY <1>3 DEF EraseStep
    <3>. QED
      BY <1>0, <3>1, <3>2, HoldingKept DEF FlashTyped
  <2>2. torn' = torn \ {s} /\ shared' \in {shared \cup {s}, shared \ {s}}
    BY <1>3 DEF EraseStep
  <2>3. UNCHANGED <<up, ram, given, since, mistaken>>
    BY <1>3 DEF EraseStep
  <2>4. FlashTyped'
    BY <1>0, <1>3, <2>1, <2>2, <2>3 DEF FlashTyped, Holding
  <2>. QED
    BY <1>0, <2>3, <2>4 DEF RamTyped, ram
<1>4. ASSUME NEW s \in Sectors, WriteStep(t, s) PROVE FlashTyped' /\ RamTyped'
  <2>1. Holding(flash') /\ Holding(last')
    <3>1. flash' = [flash EXCEPT ![s] = Memory(s)] /\ last' = [last EXCEPT ![s] = Memory(s)]
      BY <1>4 DEF WriteStep
    <3>. QED
      BY <1>0, <3>1, MemoryTyped, HoldingKept DEF FlashTyped
  <2>2. /\ UNCHANGED <<torn, up, ram, shared, mistaken>>
        /\ since' = IF s \in {"pre", "atb"} THEN s = "pre" ELSE since
        /\ given' = IF s = "res" THEN [given EXCEPT !.flash = given.memory] ELSE given
    BY <1>4 DEF WriteStep
  <2>3. since' \in BOOLEAN
    BY <1>0, <2>2 DEF FlashTyped
  <2>4. given' \in [memory : AtMostOne(Entries), flash : AtMostOne(Entries)]
    BY <1>0, <2>2 DEF FlashTyped
  <2>5. FlashTyped'
    BY <1>0, <2>1, <2>2, <2>3, <2>4 DEF FlashTyped, Holding
  <2>. QED
    BY <1>0, <2>2, <2>5 DEF RamTyped, ram
<1>5. ASSUME DropStep(t) PROVE FlashTyped' /\ RamTyped'
  BY <1>0, <1>5 DEF DropStep, FlashTyped, RamTyped, Holding, ram, history
<1>6. ASSUME NEW mode, RoleStep(t, mode) PROVE FlashTyped' /\ RamTyped'
  <2>1. UNCHANGED <<flash, torn, up, res, dev, reserved, history>>
    BY <1>6 DEF RoleStep
  <2>2. atb' \in Params
    BY <1>0, <1>6 DEF RoleStep, RamTyped, Params
  <2>. QED
    BY <1>0, <2>1, <2>2 DEF FlashTyped, RamTyped, Holding, history
<1>7. ASSUME StartStep(t) PROVE FlashTyped' /\ RamTyped'
  BY <1>0, <1>7 DEF StartStep, FlashTyped, RamTyped, Holding, ram, history
<1>. QED
  BY <1>1, <1>2, <1>3, <1>4, <1>5, <1>6, <1>7, StepIs

LEMMA TaskTyped ==
  ASSUME CfgTypeOK, NEW t \in Threads,
         \/ \E params \in Params : SetAtbCfg(t, params)
         \/ \E r \in Resources : SetResConfig(t, r)
         \/ t = "ui" /\ (SaveRes \/ Command \/ UimsgProc)
  PROVE  FlashTyped' /\ RamTyped' /\ RestTyped'
<1>0. FlashTyped /\ RamTyped /\ RestTyped
  BY TypeIs
<1>1. ASSUME NEW params \in Params, SetAtbCfg(t, params)
      PROVE  FlashTyped' /\ RamTyped' /\ RestTyped'
  BY <1>0, <1>1 DEF SetAtbCfg, Asked, FlashTyped, RamTyped, RestTyped, Holding, history
<1>2. ASSUME NEW r \in Resources, SetResConfig(t, r)
      PROVE  FlashTyped' /\ RamTyped' /\ RestTyped'
  <2>1. r \in Entries
    BY FlashCfgAssumption DEF Entries
  <2>2. <<r>> \in AtMostOne(Entries)
    BY <2>1, TableOf
  <2>3. Shorten(<<r>>) \in AtMostOne(Entries)
    BY <2>2, ShortenIs
  <2>4. /\ UNCHANGED <<flash, torn, up, atb, dev, reserved, setbuf, msgs, last, shared, since, mistaken>>
        /\ ops' = ops + 1 /\ res' = Shorten(<<r>>) /\ given' = [given EXCEPT !.memory = <<r>>]
    BY <1>2 DEF SetResConfig, Asked
  <2>5. given' \in [memory : AtMostOne(Entries), flash : AtMostOne(Entries)]
    BY <1>0, <2>2, <2>4 DEF FlashTyped
  <2>. QED
    BY <1>0, <2>3, <2>4, <2>5 DEF FlashTyped, RamTyped, RestTyped, Holding
<1>3. ASSUME SaveRes PROVE FlashTyped' /\ RamTyped' /\ RestTyped'
  <2>1. Shorten(res) \in AtMostOne(Entries)
    BY <1>0, ShortenIs DEF RamTyped
  <2>. QED
    BY <1>0, <1>3, <2>1 DEF SaveRes, Asked, FlashTyped, RamTyped, RestTyped, Holding, history
<1>4. ASSUME Command PROVE FlashTyped' /\ RamTyped' /\ RestTyped'
  BY <1>0, <1>4 DEF Command, Asked, FlashTyped, RamTyped, RestTyped, Holding, ram, history
<1>5. ASSUME UimsgProc PROVE FlashTyped' /\ RamTyped' /\ RestTyped'
  BY <1>0, <1>5 DEF UimsgProc, FlashTyped, RamTyped, RestTyped, Holding, history
<1>. QED
  BY <1>1, <1>2, <1>3, <1>4, <1>5

\* What a failure leaves in the flash.
LEMMA FailureLeaves ==
  ASSUME CfgTypeOK, PowerFails
  PROVE  \E part \in SUBSET {s \in Writing : Memory(s) # <<>>} :
           /\ \A s \in Sectors : flash'[s] = IF s \in part THEN Memory(s) ELSE flash[s]
           /\ Holding(flash') /\ torn' = torn \cup part /\ part \subseteq Sectors
           /\ given' = [memory |-> <<>>,
                        flash |-> IF "res" \in part THEN given.memory ELSE given.flash]
<1>1. PICK part \in SUBSET {s \in Writing : Memory(s) # <<>>} :
        /\ flash' = [s \in Sectors |-> IF s \in part THEN Memory(s) ELSE flash[s]]
        /\ torn' = torn \cup part
        /\ given' = [memory |-> <<>>,
                     flash |-> IF "res" \in part THEN given.memory ELSE given.flash]
  BY DEF PowerFails
<1>2. \A s \in Sectors : flash'[s] = IF s \in part THEN Memory(s) ELSE flash[s]
  BY <1>1
<1>3. \A s \in Sectors : flash'[s] \in AtMostOne(Values(s))
  BY <1>2, MemoryTyped, SectorsTyped DEF Holding
<1>4. flash' = [s \in Sectors |-> flash'[s]]
  BY <1>1, <1>2
<1>5. part \subseteq Sectors
  BY <1>1 DEF Writing
<1>. QED
  BY <1>1, <1>2, <1>3, <1>4, <1>5 DEF Holding

LEMMA CfgTypeStep ==
  ASSUME CfgTypeOK, Shapes, [CfgNext]_cfgvars
  PROVE  CfgTypeOK' /\ Shapes'
<1>0. FlashTyped /\ RamTyped /\ RestTyped
  BY TypeIs
<1>1. ASSUME NEW d \in Devs, DeviceSet(d) PROVE FlashTyped' /\ RamTyped' /\ RestTyped'
  BY <1>0, <1>1 DEF DeviceSet, Asked, FlashTyped, RamTyped, RestTyped, Holding, ram, history
<1>2. ASSUME PowerFails PROVE FlashTyped' /\ RamTyped' /\ RestTyped'
  <2>1. UNCHANGED <<last, shared, since, mistaken>>
    BY <1>2 DEF PowerFails
  <2>2. FlashTyped'
    <3>1. PICK part : /\ Holding(flash') /\ torn' = torn \cup part /\ part \subseteq Sectors
                      /\ given' = [memory |-> <<>>,
                                   flash |-> IF "res" \in part THEN given.memory ELSE given.flash]
      BY <1>2, FailureLeaves
    <3>2. given' \in [memory : AtMostOne(Entries), flash : AtMostOne(Entries)]
      BY <1>0, <3>1, NodeStartsEmpty DEF FlashTyped
    <3>. QED
      BY <1>0, <2>1, <3>1, <3>2 DEF FlashTyped, Holding
  <2>3. RamTyped' /\ RestTyped'
    BY <1>2, NodeStartsEmpty DEF PowerFails, RamTyped, RestTyped
  <2>. QED
    BY <2>2, <2>3
<1>3. ASSUME UNCHANGED cfgvars PROVE FlashTyped' /\ RamTyped' /\ RestTyped'
  BY <1>0, <1>3 DEF cfgvars, FlashTyped, RamTyped, RestTyped, Holding, ram, history
<1>4. FlashTyped' /\ RamTyped' /\ RestTyped'
  BY <1>1, <1>2, <1>3, ActionIs, StepTyped, TaskTyped
<1>5. todo' \in [Threads -> Seq(Steps)] /\ Shapes'
  BY ShapesStep
<1>6. CfgTypeOK'
  BY <1>4, <1>5 DEF CfgTypeOK, FlashTyped, RamTyped, RestTyped, Holding
<1>. QED
  BY <1>5, <1>6

\* Sectors, memory, histories and what is to be done have their types, for any resources,
\* settings and lengths.
THEOREM ConfigurationTypes == CfgSpec => []CfgTypeOK
<1>. QED
  BY CfgTypeInit, CfgTypeStep, PTL DEF CfgSpec

-----------------------------------------------------------------------------
(* What is taken from flash *)

Task(t) ==
  \/ \E params \in Params : SetAtbCfg(t, params)
  \/ \E r \in Resources : SetResConfig(t, r)
  \/ t = "ui" /\ (SaveRes \/ Command \/ UimsgProc)

LEMMA OthersKeep ==
  ASSUME CfgTypeOK, NEW t \in Threads, NEW rest, Leaves(t, rest)
  PROVE  todo'[t] = rest /\ \A u \in Threads \ {t} : todo'[u] = todo[u]
BY DEF Leaves, CfgTypeOK

\* Thread t erases sector s.
Erases(t, s) == todo[t] # <<>> /\ Head(todo[t]) = <<"erase", s>> /\ EraseStep(t, s)

LEMMA TailDiffers ==
  ASSUME NEW p \in Seq(Steps), p # <<>>
  PROVE  Tail(p) # p
<1>1. Len(p) \in Nat \ {0} /\ Len(Tail(p)) = Len(p) - 1
  BY LeftOver
<1>2. \A n \in Nat : n - 1 # n
  OBVIOUS
<1>3. Len(p) - 1 # Len(p)
  BY <1>1, <1>2
<1>. QED
  BY <1>1, <1>3

\* Who is about to write has been, or has just erased the sector.
LEMMA AtWriteBySteps ==
  ASSUME CfgTypeOK, Shapes, [CfgNext]_cfgvars, NEW u \in Threads, NEW s \in Sectors, AtWrite(u, s)'
  PROVE  \/ AtWrite(u, s) /\ todo'[u] = todo[u]
         \/ Erases(u, s) /\ todo'[u] # todo[u]
<1>0. todo'[u] # <<>> /\ Head(todo'[u]) = <<"write", s>>
  BY DEF AtWrite
<1>1. ASSUME NEW p, Plan(p) PROVE ~(todo'[u] = p)
  <2>1. SUFFICES ASSUME todo'[u] = p PROVE FALSE
    OBVIOUS
  <2>2. p # <<>> /\ Head(p) = p[1]
    BY <1>0, <1>1, <2>1, LeftOver DEF Plan
  <2>. QED
    BY <1>0, <1>1, <2>1, <2>2 DEF Plan
<1>2. CASE todo'[u] = todo[u]
  BY <1>0, <1>2 DEF AtWrite
<1>3. ASSUME NEW t \in Threads, Task(t) PROVE todo'[u] = todo[u]
  <2>1. \E p : Plan(p) /\ Leaves(t, p)
    BY <1>3, TaskIsPlan DEF Task
  <2>. QED
    BY <1>1, <2>1, OthersKeep
<1>4. ASSUME NEW t \in Threads, Step(t), t # u PROVE todo'[u] = todo[u]
  BY <1>4, RestOfStep, OthersKeep
<1>5. ASSUME Step(u) PROVE Erases(u, s) /\ todo'[u] # todo[u]
  <2>. DEFINE q == todo[u]
  <2>1. q # <<>> /\ q \in Seq(Steps) /\ Shape(q)
    BY <1>5, StepIs, TodoTyped DEF Shapes
  <2>2. /\ Head(q)[1] # "erase" => Plan(Tail(q))
        /\ Tail(q) \in Seq(Steps)
        /\ Tail(q) # <<>> => /\ Tail(q)[1] = q[2]
                             /\ q[2][1] = "write" => Head(q) = <<"erase", q[2][2]>>
    BY <2>1, LeftOver, ShapeOfTail
  <2>. HIDE DEF q
  <2>3. ~(Head(q)[1] \in {"load", "drop", "role"} /\ \E p : Plan(p) /\ NoStart(p) /\ Leaves(u, p \o Tail(q)))
    BY <1>1, <2>2, PlansJoin, OthersKeep
  <2>4. Leaves(u, Tail(q))
    BY <1>5, <2>3, RestOfStep DEF q
  <2>5. todo'[u] = Tail(q)
    BY <2>4, OthersKeep
  <2>6. Tail(q)[1] = <<"write", s>>
    BY <1>0, <2>2, <2>5, LeftOver
  <2>7. Head(q) = <<"erase", s>>
    BY <1>0, <2>2, <2>5, <2>6
  <2>8. EraseStep(u, s)
    BY <1>5, <2>7, StepIs DEF q
  <2>9. todo'[u] # q
    BY <1>0, <2>7
  <2>. QED
    BY <2>1, <2>7, <2>8, <2>9 DEF q, Erases
<1>6. ~PowerFails
  <2>1. SUFFICES ASSUME PowerFails PROVE FALSE
    OBVIOUS
  <2>2. todo' = AtBoot
    BY <2>1 DEF PowerFails
  <2>3. todo'[u] = AtBoot[u]
    BY <2>2
  <2>. QED
    BY <1>1, <2>3, BootIsShaped
<1>7. ASSUME NEW d, DeviceSet(d) PROVE todo'[u] = todo[u]
  BY <1>7 DEF DeviceSet
<1>8. UNCHANGED cfgvars => todo'[u] = todo[u]
  BY DEF cfgvars
<1>. QED
  BY <1>2, <1>3, <1>4, <1>5, <1>6, <1>7, <1>8, ActionIs DEF Task

\* Only these touch the flash.
LEMMA FlashBySteps ==
  ASSUME CfgTypeOK, [CfgNext]_cfgvars
  PROVE  \/ \E t \in Threads, s \in Sectors : Erases(t, s)
         \/ \E t \in Threads, s \in Sectors : WriteStep(t, s) /\ AtWrite(t, s)
         \/ PowerFails
         \/ UNCHANGED <<flash, torn, last, shared>>
<1>1. ASSUME NEW t \in Threads, Task(t) PROVE UNCHANGED <<flash, torn, last, shared>>
  BY <1>1 DEF Task, SetAtbCfg, SetResConfig, SaveRes, Command, UimsgProc, history
<1>2. ASSUME NEW t \in Threads, Step(t)
      PROVE  \/ \E s \in Sectors : Erases(t, s)
             \/ \E s \in Sectors : WriteStep(t, s) /\ AtWrite(t, s)
             \/ UNCHANGED <<flash, torn, last, shared>>
  <2>1. ASSUME NEW s, LoadStep(t, s) PROVE UNCHANGED <<flash, torn, last, shared>>
    BY <2>1 DEF LoadStep
  <2>2. ASSUME NEW mode, RoleStep(t, mode) PROVE UNCHANGED <<flash, torn, last, shared>>
    BY <2>2 DEF RoleStep, history
  <2>3. DropStep(t) \/ StartStep(t) => UNCHANGED <<flash, torn, last, shared>>
    BY DEF DropStep, StartStep, history
  <2>. QED
    BY <1>2, <2>1, <2>2, <2>3, StepIs DEF AtWrite, Erases
<1>3. ASSUME NEW d, DeviceSet(d) PROVE UNCHANGED <<flash, torn, last, shared>>
  BY <1>3 DEF DeviceSet, history
<1>4. UNCHANGED cfgvars => UNCHANGED <<flash, torn, last, shared>>
  BY DEF cfgvars, history
<1>. QED
  BY <1>1, <1>2, <1>3, <1>4, ActionIs DEF Task

\* A thread that is about to write a sector is seen to be at it.
LEMMA WriterIsAt ==
  ASSUME CfgTypeOK, NEW t \in Threads, NEW s, AtWrite(t, s)
  PROVE  AtSector(t, s)
<1>1. todo[t] \in Seq(Steps) /\ todo[t] # <<>>
  BY TodoTyped DEF AtWrite
<1>2. todo[t][1] = <<"write", s>> /\ 1 \in 1..Len(todo[t])
  BY <1>1, LeftOver DEF AtWrite
<1>3. todo[t][1][2] = s
  BY <1>2
<1>. QED
  BY <1>2, <1>3 DEF AtSector

LEMMA CleanStep ==
  ASSUME CfgTypeOK, Shapes, Clean, [CfgNext]_cfgvars
  PROVE  Clean'
<1>. DEFINE IsClean(s) ==
       /\ IF s \in torn THEN last[s] = <<>> ELSE flash[s] = last[s]
       /\ \A t \in Threads : AtWrite(t, s) => flash[s] = <<>> /\ last[s] = <<>> /\ s \notin torn
       /\ \A t, u \in Threads : AtWrite(t, s) /\ AtWrite(u, s) => t = u
<1>. SUFFICES ASSUME NEW s \in Sectors, s \notin shared' PROVE IsClean(s)'
  BY DEF Clean, AtWrite
<1>0. Holding(flash) /\ Holding(last) /\ (s \notin shared => IsClean(s))
  BY SectorsTyped DEF Clean
<1>1. ASSUME NEW t \in Threads, NEW r \in Sectors, Erases(t, r) PROVE IsClean(s)'
  <2>1. /\ flash' = [flash EXCEPT ![r] = <<>>] /\ last' = [last EXCEPT ![r] = <<>>]
        /\ torn' = torn \ {r}
        /\ shared' = IF \E u \in Threads \ {t} : AtSector(u, r) THEN shared \cup {r} ELSE shared \ {r}
        /\ Leaves(t, Tail(todo[t]))
    BY <1>1 DEF Erases, EraseStep, Done, Leaves
  <2>2. <<>> \in AtMostOne(Values(r))
    BY TableOf
  <2>3. \A x \in Sectors : /\ flash'[x] = IF x = r THEN <<>> ELSE flash[x]
                           /\ last'[x] = IF x = r THEN <<>> ELSE last[x]
    BY <1>0, <2>1, <2>2, HoldingKept
  <2>4. ASSUME NEW u \in Threads, AtWrite(u, s)' PROVE AtWrite(u, s) \/ (u = t /\ s = r)
    <3>1. AtWrite(u, s) \/ (Erases(u, s) /\ todo'[u] # todo[u])
      BY <2>4, AtWriteBySteps
    <3>2. ASSUME Erases(u, s), todo'[u] # todo[u] PROVE u = t /\ s = r
      <4>1. u = t
        BY <2>1, <3>2, OthersKeep
      <4>. QED
        BY <1>1, <3>2, <4>1 DEF Erases
    <3>. QED
      BY <3>1, <3>2
  <2>5. CASE s = r
    <3>1. \A u \in Threads \ {t} : ~AtSector(u, s)
      BY <2>1, <2>5
    <3>2. \A u \in Threads : AtWrite(u, s)' => u = t
      BY <2>4, <3>1, WriterIsAt
    <3>. QED
      BY <2>1, <2>3, <2>5, <3>2
  <2>6. CASE s # r
    <3>1. s \notin shared /\ flash'[s] = flash[s] /\ last'[s] = last[s] /\ (s \in torn' <=> s \in torn)
      BY <2>1, <2>3, <2>6
    <3>. QED
      BY <1>0, <2>4, <2>6, <3>1
  <2>. QED
    BY <2>5, <2>6
<1>2. ASSUME NEW t \in Threads, NEW r \in Sectors, WriteStep(t, r), AtWrite(t, r) PROVE IsClean(s)'
  <2>1. /\ flash' = [flash EXCEPT ![r] = Memory(r)] /\ last' = [last EXCEPT ![r] = Memory(r)]
        /\ UNCHANGED <<torn, shared>> /\ Leaves(t, Tail(todo[t]))
    BY <1>2 DEF WriteStep, Done, Leaves
  <2>2. \A x \in Sectors : /\ flash'[x] = IF x = r THEN Memory(r) ELSE flash[x]
                           /\ last'[x] = IF x = r THEN Memory(r) ELSE last[x]
    BY <1>0, <2>1, MemoryTyped, HoldingKept
  <2>3. todo[t] \in Seq(Steps) /\ todo[t] # <<>> /\ todo'[t] = Tail(todo[t])
    BY <1>2, <2>1, TodoTyped, OthersKeep DEF AtWrite
  <2>4. todo'[t] # todo[t]
    BY <2>3, TailDiffers
  <2>5. ASSUME NEW u \in Threads, AtWrite(u, s)' PROVE AtWrite(u, s) /\ u # t
    <3>1. ~(Erases(u, s) /\ todo'[u] # todo[u])
      <4>1. SUFFICES ASSUME Erases(u, s), todo'[u] # todo[u] PROVE FALSE
        OBVIOUS
      <4>2. u = t
        BY <2>1, <4>1, OthersKeep
      <4>. QED
        BY <1>2, <4>1, <4>2 DEF Erases, AtWrite
    <3>. QED
      BY <2>4, <2>5, <3>1, AtWriteBySteps
  <2>6. s \notin shared
    BY <2>1
  <2>7. CASE s = r
    <3>1. s \notin torn /\ \A u \in Threads : AtWrite(u, s) => u = t
      BY <1>0, <1>2, <2>6, <2>7
    <3>2. \A u \in Threads : ~(AtWrite(u, s)')
      BY <2>5, <3>1
    <3>. QED
      BY <2>1, <2>2, <2>7, <3>1, <3>2
  <2>8. CASE s # r
    BY <1>0, <2>1, <2>2, <2>5, <2>6, <2>8
  <2>. QED
    BY <2>7, <2>8
<1>3. ASSUME PowerFails PROVE IsClean(s)'
  <2>1. PICK part \in SUBSET {x \in Writing : Memory(x) # <<>>} :
          /\ \A x \in Sectors : flash'[x] = IF x \in part THEN Memory(x) ELSE flash[x]
          /\ torn' = torn \cup part
    BY <1>3, FailureLeaves
  <2>2. UNCHANGED <<last, shared>> /\ todo' = AtBoot
    BY <1>3 DEF PowerFails
  <2>3. \A u \in Threads : ~(AtWrite(u, s)')
    <3>1. TAKE u \in Threads
    <3>2. Plan(todo'[u])
      BY <2>2, BootIsShaped
    <3>3. todo'[u] # <<>> => Head(todo'[u]) = todo'[u][1]
      BY <3>2, LeftOver DEF Plan
    <3>. QED
      BY <3>2, <3>3 DEF Plan, AtWrite
  <2>4. s \in part => last[s] = <<>>
    <3>1. SUFFICES ASSUME s \in part PROVE last[s] = <<>>
      OBVIOUS
    <3>2. PICK t \in Threads : AtWrite(t, s)
      BY <2>1, <3>1 DEF Writing, AtWrite
    <3>. QED
      BY <1>0, <2>2, <3>2
  <2>. QED
    BY <1>0, <2>1, <2>2, <2>3, <2>4
<1>4. CASE ~(\E t \in Threads, r \in Sectors : Erases(t, r)) /\ UNCHANGED <<flash, torn, last, shared>>
  <2>1. \A u \in Threads : AtWrite(u, s)' => AtWrite(u, s)
    BY <1>4, AtWriteBySteps
  <2>. QED
    BY <1>0, <1>4, <2>1
<1>. QED
  BY <1>1, <1>2, <1>3, <1>4, FlashBySteps

LEMMA NothingMistaken ==
  ASSUME CfgTypeOK, Clean, TakenIsSaved, [CfgNext]_cfgvars
  PROVE  TakenIsSaved'
<1>1. ASSUME NEW t \in Threads, NEW s \in Sectors, LoadStep(t, s) PROVE mistaken' = {}
  <2>1. mistaken = {}
    BY DEF TakenIsSaved
  <2>2. \A r \in Sectors \ shared : last[r] = IF Marked(r) THEN flash[r] ELSE <<>>
    BY DEF Clean, Marked
  <2>3. CASE s = "dev"
    <3>1. Taken("dev", dev', NoDevs) /\ dev' = IF Marked("dev") THEN flash["dev"][1] ELSE NoDevs
      BY <1>1, <2>3 DEF LoadStep, LoadDev
    <3>. QED
      BY <2>1, <2>2, <3>1, TheSectors DEF Taken, Marked
  <2>4. CASE s = "atb"
    <3>1. Taken("atb", atb', NoParams) /\ atb' = IF Marked("atb") THEN flash["atb"][1] ELSE NoParams
      BY <1>1, <2>4 DEF LoadStep, LoadAtb
    <3>. QED
      BY <2>1, <2>2, <3>1, TheSectors DEF Taken, Marked
  <2>5. CASE s \in {"pre", "res"}
    BY <1>1, <2>1, <2>5 DEF LoadStep, LoadPre, LoadRes
  <2>. QED
    BY <2>3, <2>4, <2>5 DEF Sectors
<1>2. ASSUME NEW t \in Threads, Step(t) PROVE mistaken' = {}
  <2>1. ASSUME NEW s, EraseStep(t, s) \/ WriteStep(t, s) PROVE UNCHANGED mistaken
    BY <2>1 DEF EraseStep, WriteStep
  <2>2. ASSUME NEW mode, RoleStep(t, mode) \/ DropStep(t) \/ StartStep(t) PROVE UNCHANGED mistaken
    BY <2>2 DEF RoleStep, DropStep, StartStep, history
  <2>. QED
    BY <1>1, <1>2, <2>1, <2>2, StepIs DEF TakenIsSaved
<1>3. ASSUME NEW t \in Threads, Task(t) PROVE UNCHANGED mistaken
  BY <1>3 DEF Task, SetAtbCfg, SetResConfig, SaveRes, Command, UimsgProc, history
<1>4. ASSUME NEW d, DeviceSet(d) PROVE UNCHANGED mistaken
  BY <1>4 DEF DeviceSet, history
<1>5. PowerFails \/ UNCHANGED cfgvars => UNCHANGED mistaken
  BY DEF PowerFails, cfgvars, history
<1>. QED
  BY <1>2, <1>3, <1>4, <1>5, ActionIs DEF Task, TakenIsSaved

\* flash_load_atbcfg, flash_load_devcfg: wherever power fails and however the saves of
\* different sectors interleave, what is taken is what was saved last or the default.
THEOREM ConfigurationTakenIsSaved == CfgSpec => []TakenIsSaved
<1>1. CfgInit => Clean /\ TakenIsSaved
  <2>1. SUFFICES ASSUME CfgInit PROVE Clean /\ TakenIsSaved
    OBVIOUS
  <2>2. /\ \A s \in Sectors : flash[s] = <<>> /\ last[s] = <<>>
        /\ torn = {} /\ mistaken = {} /\ todo = AtBoot
    BY <2>1 DEF CfgInit
  <2>3. ASSUME NEW t \in Threads, NEW s PROVE ~AtWrite(t, s)
    <3>1. Plan(todo[t])
      BY <2>2, BootIsShaped
    <3>2. todo[t] # <<>> => Head(todo[t]) = todo[t][1]
      BY <3>1, LeftOver DEF Plan
    <3>. QED
      BY <3>1, <3>2 DEF Plan, AtWrite
  <2>. QED
    BY <2>2, <2>3 DEF Clean, TakenIsSaved
<1>2. CfgTypeOK /\ Shapes /\ Clean /\ TakenIsSaved /\ [CfgNext]_cfgvars
      => (CfgTypeOK /\ Shapes /\ Clean /\ TakenIsSaved)'
  BY CfgTypeStep, CleanStep, NothingMistaken
<1>. QED
  BY <1>1, <1>2, CfgTypeInit, PTL DEF CfgSpec

-----------------------------------------------------------------------------
(* The length of a resource *)

LEMMA ShorteningKeeps ==
  ASSUME NEW table \in AtMostOne(Entries), NEW as \in AtMostOne(Entries), KeepsLength(table, as)
  PROVE  KeepsLength(Shorten(table), as)
<1>. SUFFICES ASSUME Shorten(table) # <<>>, as # <<>>
              PROVE  /\ Shorten(table)[1].pos = as[1].pos
                     /\ as[1].pos < End =>
                          /\ Shorten(table)[1].len <= as[1].len
                          /\ Shorten(table)[1].len < as[1].len =>
                               Shorten(table)[1].pos + Shorten(table)[1].len + 1 >= End
  BY DEF KeepsLength
<1>. DEFINE e == table[1]
            s == Shorten(table)[1]
            a == as[1]
<1>1. table # <<>> /\ e \in Entries /\ s \in Entries /\ a \in Entries
  BY ShortenIs, TableOf
<1>2. /\ e.pos = a.pos
      /\ a.pos < End => e.len <= a.len /\ (e.len < a.len => e.pos + e.len + 1 >= End)
  BY <1>1 DEF KeepsLength
<1>3. /\ s.pos = e.pos
      /\ s.len # e.len /\ e.pos < End => e.pos + e.len >= End /\ s.len = e.len - 1
  BY <1>1, ShortenIs
<1>. HIDE DEF e, s, a
<1>4. /\ e.pos \in Nat /\ e.len \in Nat /\ s.pos \in Nat /\ s.len \in Nat /\ a.pos \in Nat /\ a.len \in Nat
      /\ End \in Nat
  <2>1. \A x \in Entries : x.pos \in Nat /\ x.len \in Nat
    BY FlashCfgAssumption DEF Entries
  <2>. QED
    BY <1>1, <2>1, FlashCfgAssumption
<1>5. s.pos = a.pos
  BY <1>2, <1>3
<1>6. ASSUME a.pos < End PROVE s.len <= a.len /\ (s.len < a.len => s.pos + s.len + 1 >= End)
  <2>1. CASE s.len = e.len
    BY <1>2, <1>3, <1>6, <2>1
  <2>2. CASE s.len # e.len
    BY <1>2, <1>3, <1>4, <1>6, <2>2
  <2>. QED
    BY <2>1, <2>2
<1>. QED
  BY <1>5, <1>6 DEF e, s, a

LEMMA KeptStep ==
  ASSUME CfgTypeOK, Shapes, BothKept, [CfgNext]_cfgvars
  PROVE  BothKept'
<1>0. /\ KeepsLength(res, given.memory) /\ KeepsLength(flash["res"], given.flash)
      /\ Holding(flash) /\ res \in AtMostOne(Entries) /\ flash["res"] \in AtMostOne(Entries)
      /\ given \in [memory : AtMostOne(Entries), flash : AtMostOne(Entries)]
  BY SectorsTyped DEF BothKept, CfgTypeOK
<1>1. \A table : KeepsLength(table, <<>>) /\ KeepsLength(<<>>, table)
  BY DEF KeepsLength
<1>2. UNCHANGED <<flash, res, given>> => BothKept'
  BY DEF BothKept
<1>3. ASSUME NEW t \in Threads, NEW s \in Sectors, LoadStep(t, s) PROVE BothKept'
  <2>1. UNCHANGED flash
    BY <1>3 DEF LoadStep
  <2>2. CASE s = "res"
    <3>1. LoadRes(t)
      BY <1>3, <2>2 DEF LoadStep
    <3>2. /\ res' = Shorten(flash["res"]) \/ res' = <<>>
          /\ given' = [given EXCEPT !.memory = IF "res" \in shared THEN <<>> ELSE given.flash]
      BY <3>1 DEF LoadRes
    <3>3. given'.flash = given.flash /\ given'.memory = IF "res" \in shared THEN <<>> ELSE given.flash
      BY <1>0, <3>2
    <3>4. KeepsLength(Shorten(flash["res"]), given.flash)
      BY <1>0, ShorteningKeeps
    <3>5. KeepsLength(res', given'.memory)
      BY <1>1, <3>2, <3>3, <3>4
    <3>. QED
      BY <1>0, <2>1, <3>3, <3>5 DEF BothKept
  <2>3. CASE s # "res"
    <3>1. LoadDev(t) \/ LoadPre(t) \/ LoadAtb(t)
      BY <1>3, <2>3 DEF LoadStep
    <3>2. UNCHANGED <<res, given>>
      BY <3>1 DEF LoadDev, LoadPre, LoadAtb
    <3>. QED
      BY <1>2, <2>1, <3>2
  <2>. QED
    BY <2>2, <2>3
<1>4. ASSUME NEW t \in Threads, NEW s \in Sectors, EraseStep(t, s) PROVE BothKept'
  <2>1. flash' = [flash EXCEPT ![s] = <<>>] /\ UNCHANGED <<res, given>>
    BY <1>4 DEF EraseStep, ram
  <2>2. flash'["res"] \in {flash["res"], <<>>}
    <3>1. <<>> \in AtMostOne(Values(s))
      BY TableOf
    <3>. QED
      BY <1>0, <2>1, <3>1, HoldingKept, TheSectors
  <2>3. KeepsLength(flash'["res"], given.flash)
    BY <1>0, <1>1, <2>2
  <2>. QED
    BY <1>0, <2>1, <2>3 DEF BothKept
<1>5. ASSUME NEW t \in Threads, NEW s \in Sectors, WriteStep(t, s) PROVE BothKept'
  <2>1. /\ flash' = [flash EXCEPT ![s] = Memory(s)] /\ UNCHANGED res
        /\ given' = IF s = "res" THEN [given EXCEPT !.flash = given.memory] ELSE given
    BY <1>5 DEF WriteStep, ram
  <2>2. flash'["res"] = IF s = "res" THEN Memory("res") ELSE flash["res"]
    BY <1>0, <2>1, MemoryTyped, HoldingKept, TheSectors
  <2>3. /\ given'.memory = given.memory
        /\ given'.flash = IF s = "res" THEN given.memory ELSE given.flash
    BY <1>0, <2>1
  <2>4. Memory("res") = res
    BY DEF Memory
  <2>5. KeepsLength(flash'["res"], given'.flash)
    BY <1>0, <2>2, <2>3, <2>4
  <2>. QED
    BY <1>0, <2>1, <2>3, <2>5 DEF BothKept
<1>6. ASSUME NEW t \in Threads, Step(t) PROVE BothKept'
  <2>1. ASSUME NEW mode, RoleStep(t, mode) \/ DropStep(t) \/ StartStep(t)
        PROVE  UNCHANGED <<flash, res, given>>
    BY <2>1 DEF RoleStep, DropStep, StartStep, ram, history
  <2>. QED
    BY <1>2, <1>3, <1>4, <1>5, <1>6, <2>1, StepIs
<1>7. ASSUME NEW t \in Threads, NEW r \in Resources, SetResConfig(t, r) PROVE BothKept'
  <2>1. UNCHANGED flash /\ res' = Shorten(<<r>>) /\ given' = [given EXCEPT !.memory = <<r>>]
    BY <1>7 DEF SetResConfig
  <2>2. r \in Entries
    BY FlashCfgAssumption DEF Entries
  <2>3. <<r>> \in AtMostOne(Entries) /\ <<r>>[1] = r
    BY <2>2, TableOf
  <2>4. KeepsLength(<<r>>, <<r>>)
    <3>1. r.len \in Nat
      BY <2>2, FlashCfgAssumption DEF Entries
    <3>. QED
      BY <2>3, <3>1 DEF KeepsLength
  <2>5. KeepsLength(Shorten(<<r>>), <<r>>)
    BY <2>3, <2>4, ShorteningKeeps
  <2>6. given'.flash = given.flash /\ given'.memory = <<r>>
    BY <1>0, <2>1
  <2>. QED
    BY <1>0, <2>1, <2>5, <2>6 DEF BothKept
<1>8. ASSUME SaveRes PROVE BothKept'
  <2>1. UNCHANGED <<flash, given>> /\ res' = Shorten(res)
    BY <1>8 DEF SaveRes, history
  <2>2. KeepsLength(Shorten(res), given.memory)
    BY <1>0, ShorteningKeeps
  <2>. QED
    BY <1>0, <2>1, <2>2 DEF BothKept
<1>9. ASSUME NEW t \in Threads, Task(t) PROVE BothKept'
  <2>1. (\E params \in Params : SetAtbCfg(t, params)) \/ Command \/ UimsgProc
        => UNCHANGED <<flash, res, given>>
    BY DEF SetAtbCfg, Command, UimsgProc, ram, history
  <2>. QED
    BY <1>2, <1>7, <1>8, <1>9, <2>1 DEF Task
<1>10. ASSUME PowerFails PROVE BothKept'
  <2>1. PICK part \in SUBSET {x \in Writing : Memory(x) # <<>>} :
          /\ \A x \in Sectors : flash'[x] = IF x \in part THEN Memory(x) ELSE flash[x]
          /\ given' = [memory |-> <<>>, flash |-> IF "res" \in part THEN given.memory ELSE given.flash]
    BY <1>10, FailureLeaves
  <2>2. flash'["res"] = IF "res" \in part THEN res ELSE flash["res"]
    BY <2>1, TheSectors DEF Memory
  <2>3. given'.memory = <<>> /\ given'.flash = IF "res" \in part THEN given.memory ELSE given.flash
    BY <2>1
  <2>. QED
    BY <1>0, <1>1, <2>2, <2>3 DEF BothKept
<1>11. ASSUME NEW d, DeviceSet(d) PROVE UNCHANGED <<flash, res, given>>
  BY <1>11 DEF DeviceSet, ram, history
<1>12. UNCHANGED cfgvars => UNCHANGED <<flash, res, given>>
  BY DEF cfgvars, ram, history
<1>. QED
  BY <1>2, <1>6, <1>9, <1>10, <1>11, <1>12, ActionIs DEF Task

\* flash_save_rescfg, flash_load_rescfg: however often tables are saved and loaded, in
\* whatever order and whatever modes, and wherever power fails, no resource is shortened
\* past the end, for any width of a length.
THEOREM ConfigurationLengthKept == CfgSpec => []LengthKept
<1>1. CfgInit => BothKept
  BY DEF CfgInit, BothKept, KeepsLength
<1>2. CfgTypeOK /\ Shapes /\ BothKept /\ [CfgNext]_cfgvars => (CfgTypeOK /\ Shapes /\ BothKept)'
  BY CfgTypeStep, KeptStep
<1>3. BothKept => LengthKept
  BY DEF BothKept, LengthKept
<1>. QED
  BY <1>1, <1>2, <1>3, CfgTypeInit, PTL DEF CfgSpec

-----------------------------------------------------------------------------
(* Dynamic bandwidth has no reservation *)

LEMMA InJoined ==
  ASSUME NEW p \in Seq(Steps), NEW q \in Seq(Steps), NEW x
  PROVE  /\ In(p, x) \/ In(q, x) => In(p \o q, x)
         /\ ~In(<<>>, x)
<1>1. /\ Len(p) \in Nat /\ Len(q) \in Nat /\ Len(p \o q) = Len(p) + Len(q)
      /\ \A i \in 1..(Len(p) + Len(q)) : (p \o q)[i] = IF i <= Len(p) THEN p[i] ELSE q[i - Len(p)]
  BY ConcatProperties, LenProperties
<1>2. ASSUME NEW i \in 1..Len(p), p[i] = x PROVE In(p \o q, x)
  <2>1. i \in 1..(Len(p) + Len(q)) /\ i <= Len(p)
    BY <1>1
  <2>. QED
    BY <1>1, <1>2, <2>1 DEF In
<1>3. ASSUME NEW i \in 1..Len(q), q[i] = x PROVE In(p \o q, x)
  <2>1. /\ i + Len(p) \in 1..(Len(p) + Len(q)) /\ ~(i + Len(p) <= Len(p))
        /\ (i + Len(p)) - Len(p) = i
    BY <1>1
  <2>. QED
    BY <1>1, <1>3, <2>1 DEF In
<1>4. ~In(<<>>, x)
  BY EmptySeq DEF In
<1>. QED
  BY <1>2, <1>3, <1>4 DEF In

LEMMA InTail ==
  ASSUME NEW p \in Seq(Steps), p # <<>>, NEW x, In(p, x), Head(p) # x
  PROVE  In(Tail(p), x)
<1>1. /\ Head(p) = p[1] /\ Len(p) \in Nat \ {0} /\ Len(Tail(p)) = Len(p) - 1
      /\ \A i \in 1..Len(Tail(p)) : Tail(p)[i] = p[i + 1]
  BY LeftOver
<1>2. PICK i \in 1..Len(p) : p[i] = x
  BY DEF In
<1>3. i - 1 \in 1..Len(Tail(p)) /\ (i - 1) + 1 = i
  BY <1>1, <1>2
<1>. QED
  BY <1>1, <1>2, <1>3 DEF In

\* What is not the first that a thread has to do is still to be done after its step.
LEMMA StaysToBeDone ==
  ASSUME CfgTypeOK, NEW t \in Threads, NEW x, In(todo[t], x)
  PROVE  /\ \A u \in Threads : Task(u) => In(todo'[t], x)
         /\ \A u \in Threads : Step(u) /\ Head(todo[u]) # x => In(todo'[t], x)
<1>1. todo[t] \in Seq(Steps) /\ todo[t] # <<>>
  BY TodoTyped, InJoined
<1>2. ASSUME NEW u \in Threads, Task(u) PROVE In(todo'[t], x)
  <2>1. u # t
    BY <1>1, <1>2, TaskIsPlan DEF Task
  <2>2. \E p : Leaves(u, p)
    BY <1>2, TaskIsPlan DEF Task
  <2>3. todo'[t] = todo[t]
    BY <2>1, <2>2, OthersKeep
  <2>. QED
    BY <2>3
<1>3. ASSUME NEW u \in Threads, Step(u), u # t PROVE In(todo'[t], x)
  <2>1. todo'[t] = todo[t]
    BY <1>3, RestOfStep, OthersKeep
  <2>. QED
    BY <2>1
<1>4. ASSUME Step(t), Head(todo[t]) # x PROVE In(todo'[t], x)
  <2>1. Tail(todo[t]) \in Seq(Steps) /\ In(Tail(todo[t]), x)
    BY <1>1, <1>4, LeftOver, InTail
  <2>2. \/ todo'[t] = Tail(todo[t])
        \/ \E p \in Seq(Steps) : todo'[t] = p \o Tail(todo[t])
    BY <1>4, RestOfStep, OthersKeep DEF Plan
  <2>. QED
    BY <2>1, <2>2, InJoined
<1>. QED
  BY <1>2, <1>3, <1>4

LEMMA FreedKept ==
  ASSUME Freed, UNCHANGED <<atb, since>>,
         Marked("atb")' => Marked("atb") /\ flash'["atb"] = flash["atb"],
         Marked("pre")' => Marked("pre"),
         "atb" \in shared => "atb" \in shared',
         \A t \in Threads, x \in Freeing : In(todo[t], x) => In(todo'[t], x),
         \A t \in Threads : atb.dynamic /\ In(todo[t], <<"drop", "atb">>) => In(todo'[t], <<"drop", "atb">>)
  PROVE  Freed'
<1>. SUFFICES ASSUME "atb" \notin shared', Marked("atb")', flash'["atb"][1].dynamic,
                     Marked("pre")', ~since'
              PROVE  \E t \in Threads : Frees(t)'
  BY DEF Freed
<1>1. PICK t \in Threads : Frees(t)
  BY DEF Freed
<1>2. ASSUME NEW x \in Freeing, In(todo[t], x) PROVE Frees(t)'
  <2>1. In(todo'[t], x)
    BY <1>2
  <2>. QED
    BY <2>1 DEF Frees
<1>3. ASSUME In(todo[t], <<"drop", "atb">>), atb.dynamic PROVE Frees(t)'
  <2>1. In(todo'[t], <<"drop", "atb">>) /\ atb'.dynamic
    BY <1>3
  <2>. QED
    BY <2>1 DEF Frees
<1>. QED
  BY <1>1, <1>2, <1>3 DEF Frees

\* A step that is none of these leaves what is to be done.
LEMMA OtherSteps ==
  ASSUME CfgTypeOK, Freed, NEW me \in Threads, Step(me) \/ Task(me),
         UNCHANGED <<atb, since>>,
         Marked("atb")' => Marked("atb") /\ flash'["atb"] = flash["atb"],
         Marked("pre")' => Marked("pre"),
         "atb" \in shared => "atb" \in shared',
         Step(me) => /\ Head(todo[me]) \notin Freeing
                     /\ Head(todo[me]) = <<"drop", "atb">> => ~atb.dynamic
  PROVE  Freed'
<1>1. \A t \in Threads, x \in Freeing : In(todo[t], x) => In(todo'[t], x)
  BY StaysToBeDone
<1>2. \A t \in Threads : atb.dynamic /\ In(todo[t], <<"drop", "atb">>) => In(todo'[t], <<"drop", "atb">>)
  BY StaysToBeDone
<1>. QED
  BY <1>1, <1>2, FreedKept

\* What makes a thread free the flash.
LEMMA FreeingPlans ==
  /\ In(SaveAtb, <<"erase", "atb">>) /\ In(Erase("pre"), <<"erase", "pre">>)
  /\ In(Erase("pre") \o Erase("res"), <<"erase", "pre">>)
  /\ In(Boot, <<"load", "atb">>)
<1>1. In(SaveAtb, <<"erase", "atb">>)
  BY SaveAtbIs DEF In
<1>2. ASSUME NEW x \in Steps PROVE In(<<x>>, x)
  <2>1. <<x>>[1] = x /\ Len(<<x>>) = 1
    OBVIOUS
  <2>. QED
    BY <2>1 DEF In
<1>3. <<"erase", "pre">> \in Steps /\ <<"load", "atb">> \in Steps
  BY DEF Steps, Sectors
<1>4. In(Erase("pre"), <<"erase", "pre">>) /\ In(Load("atb"), <<"load", "atb">>)
  BY <1>2, <1>3 DEF Erase, Load
<1>5. /\ \A s \in Sectors : Load(s) \in Seq(Steps) /\ Erase(s) \in Seq(Steps)
      /\ << <<"start", "sysm">> >> \in Seq(Steps)
  BY SmallPlans DEF Plan
<1>6. In(Erase("pre") \o Erase("res"), <<"erase", "pre">>)
  BY <1>4, <1>5, TheSectors, InJoined
<1>7. In(Boot, <<"load", "atb">>)
  <2>. DEFINE a == Load("dev") \o Load("pre")
              b == a \o Load("atb")
              c == b \o Load("res")
  <2>1. a \in Seq(Steps) /\ b \in Seq(Steps) /\ c \in Seq(Steps)
    BY <1>5, TheSectors, ConcatProperties
  <2>2. Boot = c \o << <<"start", "sysm">> >>
    BY DEF Boot
  <2>3. In(b, <<"load", "atb">>)
    BY <1>4, <1>5, <2>1, TheSectors, InJoined
  <2>4. In(c, <<"load", "atb">>)
    BY <1>5, <2>1, <2>3, TheSectors, InJoined
  <2>. HIDE DEF c
  <2>. QED
    BY <1>5, <2>1, <2>2, <2>4, InJoined
<1>. QED
  BY <1>1, <1>4, <1>6, <1>7

LEMMA FreedStep ==
  ASSUME CfgTypeOK, Shapes, Freed, [CfgNext]_cfgvars
  PROVE  Freed'
<1>0. Holding(flash) /\ todo \in [Threads -> Seq(Steps)]
  BY SectorsTyped DEF CfgTypeOK
<1>1. ASSUME NEW t \in Threads, NEW x \in Freeing, In(todo'[t], x) PROVE Freed'
  <2>1. Frees(t)'
    BY <1>1 DEF Frees
  <2>. QED
    BY <2>1 DEF Freed
<1>2. ASSUME NEW t \in Threads, Step(t) PROVE Freed'
  <2>0. todo[t] # <<>> /\ todo[t] \in Seq(Steps) /\ Tail(todo[t]) \in Seq(Steps)
    BY <1>2, StepIs, TodoTyped, LeftOver
  <2>1. ASSUME NEW p \in Seq(Steps), NEW x \in Freeing, In(p, x), Then(t, p) PROVE Freed'
    <3>1. todo'[t] = p \o Tail(todo[t])
      BY <2>1, OthersKeep DEF Then, Leaves
    <3>2. In(todo'[t], x)
      BY <2>0, <2>1, <3>1, InJoined
    <3>. QED
      BY <1>1, <3>2
  <2>2. ASSUME NEW s \in Sectors, Head(todo[t]) = <<"load", s>>, LoadStep(t, s) PROVE Freed'
    <3>1. UNCHANGED <<flash, torn, shared>>
      BY <2>2 DEF LoadStep
    <3>2. CASE s = "atb"
      <4>1. LoadAtb(t)
        BY <2>2, <3>2 DEF LoadStep
      <4>2. CASE atb'.dynamic
        <5>1. Then(t, Erase("pre"))
          BY <4>1, <4>2 DEF LoadAtb
        <5>2. Erase("pre") \in Seq(Steps) /\ <<"erase", "pre">> \in Freeing
          BY SmallPlans, TheSectors DEF Plan, Freeing
        <5>. QED
          BY <2>1, <5>1, <5>2, FreeingPlans
      <4>3. CASE ~atb'.dynamic
        <5>1. Marked("atb") => atb' = flash["atb"][1]
          BY <4>1 DEF LoadAtb
        <5>. QED
          BY <3>1, <4>3, <5>1 DEF Freed, Marked
      <4>. QED
        BY <4>2, <4>3
    <3>3. CASE s # "atb"
      <4>1. LoadDev(t) \/ LoadPre(t) \/ LoadRes(t)
        BY <2>2, <3>3 DEF LoadStep
      <4>2. UNCHANGED <<atb, since>>
        BY <4>1 DEF LoadDev, LoadPre, LoadRes
      <4>3. Head(todo[t]) \notin Freeing /\ Head(todo[t]) # <<"drop", "atb">>
        BY <2>2, <3>3 DEF Freeing
      <4>. QED
        BY <1>2, <3>1, <4>2, <4>3, OtherSteps DEF Marked
    <3>. QED
      BY <3>2, <3>3
  <2>3. ASSUME NEW s \in Sectors, Head(todo[t]) = <<"erase", s>>, EraseStep(t, s) PROVE Freed'
    <3>1. /\ flash' = [flash EXCEPT ![s] = <<>>] /\ torn' = torn \ {s} /\ UNCHANGED <<atb, since>>
          /\ shared' = shared \cup {s} \/ shared' = shared \ {s}
      BY <2>3 DEF EraseStep, ram
    <3>2. \A r \in Sectors : flash'[r] = IF r = s THEN <<>> ELSE flash[r]
      <4>1. <<>> \in AtMostOne(Values(s))
        BY TableOf
      <4>. QED
        BY <1>0, <3>1, <4>1, HoldingKept
    <3>3. ~(Marked(s)') /\ \A r \in Sectors \ {s} : flash'[r] = flash[r] /\ (Marked(r)' <=> Marked(r))
      BY <3>1, <3>2 DEF Marked
    <3>4. CASE s \in {"atb", "pre"}
      BY <3>3, <3>4 DEF Freed
    <3>5. CASE s \notin {"atb", "pre"}
      <4>1. Head(todo[t]) \notin Freeing /\ Head(todo[t]) # <<"drop", "atb">>
        BY <2>3, <3>5 DEF Freeing
      <4>2. /\ Marked("atb")' => Marked("atb") /\ flash'["atb"] = flash["atb"]
            /\ Marked("pre")' => Marked("pre")
        BY <3>3, <3>5, TheSectors
      <4>3. "atb" \in shared => "atb" \in shared'
        BY <3>1, <3>5
      <4>. QED
        BY <1>2, <3>1, <4>1, <4>2, <4>3, OtherSteps
    <3>. QED
      BY <3>4, <3>5
  <2>4. ASSUME NEW s \in Sectors, Head(todo[t]) = <<"write", s>>, WriteStep(t, s) PROVE Freed'
    <3>1. /\ flash' = [flash EXCEPT ![s] = Memory(s)] /\ UNCHANGED <<torn, atb, shared>>
          /\ since' = IF s \in {"pre", "atb"} THEN s = "pre" ELSE since
          /\ Leaves(t, Tail(todo[t]))
      BY <2>4 DEF WriteStep, ram, Done, Leaves
    <3>2. \A r \in Sectors : flash'[r] = IF r = s THEN Memory(s) ELSE flash[r]
      BY <1>0, <3>1, MemoryTyped, HoldingKept
    <3>3. CASE s = "pre"
      BY <3>1, <3>3 DEF Freed
    <3>4. CASE s = "atb"
      <4>1. flash'["atb"] = <<atb>>
        BY <3>2, <3>4, TheSectors DEF Memory
      <4>2. Shape(todo[t]) /\ todo[t][1] = <<"write", "atb">>
        BY <2>0, <2>4, <3>4, LeftOver DEF Shapes
      <4>3. 1 < Len(todo[t]) /\ todo[t][1 + 1] = <<"drop", "atb">> /\ Len(todo[t]) \in Nat
        <5>1. 1 \in 1..Len(todo[t])
          BY <2>0, LeftOver
        <5>. QED
          BY <2>0, <4>2, <5>1, LeftOver DEF Shape
      <4>4. In(Tail(todo[t]), <<"drop", "atb">>)
        <5>1. /\ Len(Tail(todo[t])) = Len(todo[t]) - 1
              /\ \A i \in 1..Len(Tail(todo[t])) : Tail(todo[t])[i] = todo[t][i + 1]
          BY <2>0, LeftOver
        <5>2. 1 \in 1..Len(Tail(todo[t]))
          BY <4>3, <5>1
        <5>3. Tail(todo[t])[1] = <<"drop", "atb">>
          BY <4>3, <5>1, <5>2
        <5>. QED
          BY <5>2, <5>3 DEF In
      <4>5. In(todo'[t], <<"drop", "atb">>)
        BY <3>1, <4>4, OthersKeep
      <4>6. atb'.dynamic => Frees(t)'
        BY <4>5 DEF Frees
      <4>7. flash'["atb"][1].dynamic => atb'.dynamic
        BY <3>1, <4>1
      <4>. QED
        BY <4>6, <4>7 DEF Freed
    <3>5. CASE s \notin {"pre", "atb"}
      <4>1. Head(todo[t]) \notin Freeing /\ Head(todo[t]) # <<"drop", "atb">>
        BY <2>4 DEF Freeing
      <4>2. /\ Marked("atb")' => Marked("atb") /\ flash'["atb"] = flash["atb"]
            /\ Marked("pre")' => Marked("pre")
        BY <3>1, <3>2, <3>5, TheSectors DEF Marked
      <4>3. UNCHANGED since
        BY <3>1, <3>5
      <4>. QED
        BY <1>2, <3>1, <4>1, <4>2, <4>3, OtherSteps
    <3>. QED
      BY <3>3, <3>4, <3>5
  <2>5. ASSUME Head(todo[t]) = <<"drop", "atb">>, DropStep(t) PROVE Freed'
    <3>1. UNCHANGED <<flash, torn, shared, atb, since>>
      BY <2>5 DEF DropStep, ram, history
    <3>2. CASE atb.dynamic
      <4>1. Then(t, Erase("pre") \o Erase("res"))
        BY <2>5, <3>2 DEF DropStep
      <4>2. Erase("pre") \o Erase("res") \in Seq(Steps) /\ <<"erase", "pre">> \in Freeing
        BY LongPlans DEF Plan, Freeing
      <4>. QED
        BY <2>1, <4>1, <4>2, FreeingPlans
    <3>3. CASE ~atb.dynamic
      <4>1. Head(todo[t]) \notin Freeing
        BY <2>5 DEF Freeing
      <4>. QED
        BY <1>2, <3>1, <3>3, <4>1, OtherSteps DEF Marked
    <3>. QED
      BY <3>2, <3>3
  <2>6. ASSUME NEW mode, RoleStep(t, mode) PROVE Freed'
    <3>1. Then(t, SaveAtb)
      BY <2>6 DEF RoleStep
    <3>2. SaveAtb \in Seq(Steps) /\ <<"erase", "atb">> \in Freeing
      BY SaveAtbIs DEF Freeing
    <3>. QED
      BY <2>1, <3>1, <3>2, FreeingPlans
  <2>7. ASSUME Head(todo[t]) = <<"start", "sysm">>, StartStep(t) PROVE Freed'
    <3>1. UNCHANGED <<flash, torn, shared, atb, since>>
      BY <2>7 DEF StartStep, ram, history
    <3>2. Head(todo[t]) \notin Freeing /\ Head(todo[t]) # <<"drop", "atb">>
      BY <2>7 DEF Freeing
    <3>. QED
      BY <1>2, <3>1, <3>2, OtherSteps DEF Marked
  <2>. QED
    BY <1>2, <2>2, <2>3, <2>4, <2>5, <2>6, <2>7, StepIs
<1>3. ASSUME NEW t \in Threads, NEW params, SetAtbCfg(t, params) PROVE Freed'
  <2>1. Leaves(t, SaveAtb)
    BY <1>3 DEF SetAtbCfg, Begins, Leaves
  <2>2. In(todo'[t], <<"erase", "atb">>) /\ <<"erase", "atb">> \in Freeing
    BY <2>1, OthersKeep, FreeingPlans DEF Freeing
  <2>. QED
    BY <1>1, <2>2
<1>4. ASSUME NEW t \in Threads, Task(t), \A params \in Params : ~SetAtbCfg(t, params) PROVE Freed'
  <2>1. UNCHANGED <<flash, torn, shared, atb, since>>
    BY <1>4 DEF Task, SetResConfig, SaveRes, Command, UimsgProc, ram, history
  <2>2. \A u \in Threads : \A x : In(todo[u], x) => In(todo'[u], x)
    BY <1>4, StaysToBeDone
  <2>. QED
    BY <2>1, <2>2, FreedKept DEF Marked
<1>5. ASSUME PowerFails PROVE Freed'
  <2>1. todo'["ui"] = Boot
    BY <1>5, BootIsShaped DEF PowerFails
  <2>2. In(todo'["ui"], <<"load", "atb">>) /\ <<"load", "atb">> \in Freeing
    BY <2>1, FreeingPlans DEF Freeing
  <2>. QED
    BY <1>1, <2>2, TheSectors
<1>6. ASSUME NEW d, DeviceSet(d) PROVE Freed'
  <2>1. UNCHANGED <<flash, torn, shared, todo, atb, since>>
    BY <1>6 DEF DeviceSet, ram, history
  <2>. QED
    BY <2>1, FreedKept DEF Marked
<1>7. ASSUME UNCHANGED cfgvars PROVE Freed'
  <2>1. UNCHANGED <<flash, torn, shared, todo, atb, since>>
    BY <1>7 DEF cfgvars, ram, history
  <2>. QED
    BY <2>1, FreedKept DEF Marked
<1>. QED
  BY <1>2, <1>3, <1>4, <1>5, <1>6, <1>7, ActionIs DEF Task

\* flash_save_atbcfg, flash_load_atbcfg: wherever power fails, when all is done parameters of
\* dynamic bandwidth are alone in flash, unless a reservation was saved after them.
THEOREM ConfigurationDynamicIsFree == CfgSpec => []DynamicIsFree
<1>1. CfgInit => Freed
  BY TheSectors DEF CfgInit, Freed, Marked
<1>2. CfgTypeOK /\ Shapes /\ Freed /\ [CfgNext]_cfgvars => (CfgTypeOK /\ Shapes /\ Freed)'
  BY CfgTypeStep, FreedStep
<1>3. Freed => DynamicIsFree
  <2>1. \A x : ~In(<<>>, x)
    BY EmptySeq DEF In
  <2>2. Idle => \A t \in Threads : ~Frees(t)
    BY <2>1 DEF Idle, Frees
  <2>. QED
    BY <2>2 DEF Freed, DynamicIsFree
<1>. QED
  BY <1>1, <1>2, <1>3, CfgTypeInit, PTL DEF CfgSpec

-----------------------------------------------------------------------------
(* The settings of devices *)

LEMMA WithoutJoined ==
  ASSUME NEW p \in Seq(Steps), NEW q \in Seq(Steps), Without(p, "dev"), Without(q, "dev")
  PROVE  Without(p \o q, "dev")
<1>1. /\ Len(p) \in Nat /\ Len(q) \in Nat /\ Len(p \o q) = Len(p) + Len(q)
      /\ \A i \in 1..(Len(p) + Len(q)) : (p \o q)[i] = IF i <= Len(p) THEN p[i] ELSE q[i - Len(p)]
  BY ConcatProperties, LenProperties
<1>2. ASSUME NEW i \in 1..(Len(p) + Len(q)) PROVE (p \o q)[i][2] # "dev"
  <2>1. CASE i <= Len(p)
    <3>1. i \in 1..Len(p) /\ (p \o q)[i] = p[i]
      BY <1>1, <2>1
    <3>. QED
      BY <3>1 DEF Without
  <2>2. CASE ~(i <= Len(p))
    <3>1. i - Len(p) \in 1..Len(q) /\ (p \o q)[i] = q[i - Len(p)]
      BY <1>1, <2>2
    <3>. QED
      BY <3>1 DEF Without
  <2>. QED
    BY <2>1, <2>2
<1>. QED
  BY <1>1, <1>2 DEF Without

LEMMA WithoutRest ==
  ASSUME NEW p \in Seq(Steps), p # <<>>
  PROVE  /\ Without(p, "dev") => Head(p)[2] # "dev" /\ Without(Tail(p), "dev")
         /\ NoStart(p) => Head(p)[1] # "start" /\ NoStart(Tail(p))
<1>1. /\ Head(p) = p[1] /\ Len(p) \in Nat \ {0} /\ Len(Tail(p)) = Len(p) - 1
      /\ \A i \in 1..Len(Tail(p)) : Tail(p)[i] = p[i + 1]
  BY LeftOver
<1>2. 1 \in 1..Len(p) /\ \A i \in 1..Len(Tail(p)) : i + 1 \in 1..Len(p)
  BY <1>1
<1>3. Without(p, "dev") => Head(p)[2] # "dev" /\ Without(Tail(p), "dev")
  BY <1>1, <1>2 DEF Without
<1>4. NoStart(p) => Head(p)[1] # "start" /\ NoStart(Tail(p))
  BY <1>1, <1>2 DEF NoStart
<1>. QED
  BY <1>3, <1>4

LEMMA PlansWithout ==
  /\ Without(<<>>, "dev") /\ Without(SaveAtb, "dev")
  /\ \A s \in Sectors \ {"dev"} : Without(Load(s), "dev") /\ Without(Erase(s), "dev") /\ Without(Save(s), "dev")
  /\ Without(Erase("pre") \o Erase("res"), "dev")
  /\ \A mode \in {"three", "plain"} : Without(Load("atb") \o << <<"role", mode>> >>, "dev")
<1>1. Without(<<>>, "dev")
  BY EmptySeq DEF Without
<1>2. Without(SaveAtb, "dev")
  BY SaveAtbIs DEF Without
<1>3. ASSUME NEW x \in Steps, x[2] # "dev" PROVE Without(<<x>>, "dev") /\ <<x>> \in Seq(Steps)
  <2>1. Len(<<x>>) = 1 /\ <<x>>[1] = x
    OBVIOUS
  <2>. QED
    BY <1>3, <2>1 DEF Without
<1>4. ASSUME NEW s \in Sectors \ {"dev"}
      PROVE  Without(Load(s), "dev") /\ Without(Erase(s), "dev") /\ Without(Save(s), "dev")
  <2>1. <<"load", s>> \in Steps /\ <<"erase", s>> \in Steps /\ <<"write", s>> \in Steps
    BY DEF Steps
  <2>2. Without(Load(s), "dev") /\ Without(Erase(s), "dev")
    BY <1>3, <1>4, <2>1 DEF Load, Erase
  <2>3. /\ Len(Save(s)) = 2
        /\ Save(s)[1] = <<"erase", s>> /\ Save(s)[2] = <<"write", s>>
    BY <2>1, TwoSteps DEF Save
  <2>. QED
    BY <1>4, <2>2, <2>3 DEF Without
<1>5. /\ \A s \in Sectors : Load(s) \in Seq(Steps) /\ Erase(s) \in Seq(Steps)
      /\ "pre" # "dev" /\ "res" # "dev" /\ "atb" # "dev"
  BY SmallPlans DEF Plan
<1>6. Without(Erase("pre") \o Erase("res"), "dev")
  BY <1>4, <1>5, TheSectors, WithoutJoined
<1>7. ASSUME NEW mode \in {"three", "plain"} PROVE Without(Load("atb") \o << <<"role", mode>> >>, "dev")
  <2>1. <<"role", mode>> \in Steps /\ <<"role", mode>>[2] # "dev"
    BY DEF Steps
  <2>2. Without(<< <<"role", mode>> >>, "dev") /\ << <<"role", mode>> >> \in Seq(Steps)
    BY <1>3, <2>1
  <2>. QED
    BY <1>4, <1>5, <2>2, TheSectors, WithoutJoined
<1>. QED
  BY <1>1, <1>2, <1>4, <1>6, <1>7

\* A thread without anything to do for the devices leaves them as they are.
LEMMA DevicesAlone ==
  ASSUME CfgTypeOK, NEW t \in Threads, Step(t), Without(todo[t], "dev")
  PROVE  /\ Without(todo'[t], "dev")
         /\ UNCHANGED dev /\ flash'["dev"] = flash["dev"] /\ ("dev" \in torn' <=> "dev" \in torn)
<1>0. /\ todo[t] # <<>> /\ todo[t] \in Seq(Steps) /\ Tail(todo[t]) \in Seq(Steps)
      /\ Head(todo[t])[2] # "dev" /\ Without(Tail(todo[t]), "dev") /\ Holding(flash)
  BY StepIs, TodoTyped, LeftOver, WithoutRest, SectorsTyped
<1>1. ASSUME Done(t) PROVE Without(todo'[t], "dev")
  <2>1. todo'[t] = Tail(todo[t])
    BY <1>1, OthersKeep DEF Done, Leaves
  <2>. QED
    BY <1>0, <2>1
<1>2. ASSUME NEW p \in Seq(Steps), Without(p, "dev"), Then(t, p) PROVE Without(todo'[t], "dev")
  <2>1. todo'[t] = p \o Tail(todo[t])
    BY <1>2, OthersKeep DEF Then, Leaves
  <2>. QED
    BY <1>0, <1>2, <2>1, WithoutJoined
<1>3. ASSUME NEW s \in Sectors, Head(todo[t]) = <<"load", s>>, LoadStep(t, s)
      PROVE  Without(todo'[t], "dev") /\ UNCHANGED <<dev, flash, torn>>
  <2>1. s # "dev" /\ UNCHANGED <<flash, torn>>
    BY <1>0, <1>3 DEF LoadStep
  <2>2. CASE s = "atb"
    <3>1. LoadAtb(t)
      BY <1>3, <2>2 DEF LoadStep
    <3>2. (Then(t, Erase("pre")) \/ Done(t)) /\ UNCHANGED dev
      BY <3>1 DEF LoadAtb
    <3>3. Erase("pre") \in Seq(Steps) /\ Without(Erase("pre"), "dev")
      BY SmallPlans, PlansWithout, TheSectors DEF Plan
    <3>. QED
      BY <1>1, <1>2, <2>1, <3>2, <3>3
  <2>3. CASE s \in {"pre", "res"}
    <3>1. LoadPre(t) \/ LoadRes(t)
      BY <1>3, <2>3 DEF LoadStep
    <3>2. Done(t) /\ UNCHANGED dev
      BY <3>1 DEF LoadPre, LoadRes
    <3>. QED
      BY <1>1, <2>1, <3>2
  <2>. QED
    BY <2>1, <2>2, <2>3 DEF Sectors
<1>4. ASSUME NEW s \in Sectors, Head(todo[t]) = <<"erase", s>>, EraseStep(t, s)
      PROVE  /\ Without(todo'[t], "dev") /\ UNCHANGED dev
             /\ flash'["dev"] = flash["dev"] /\ ("dev" \in torn' <=> "dev" \in torn)
  <2>1. /\ s # "dev" /\ flash' = [flash EXCEPT ![s] = <<>>] /\ torn' = torn \ {s}
        /\ UNCHANGED dev /\ Done(t)
    BY <1>0, <1>4 DEF EraseStep, ram
  <2>2. <<>> \in AtMostOne(Values(s))
    BY TableOf
  <2>3. flash'["dev"] = flash["dev"]
    BY <1>0, <2>1, <2>2, HoldingKept, TheSectors
  <2>. QED
    BY <1>1, <2>1, <2>3
<1>5. ASSUME NEW s \in Sectors, Head(todo[t]) = <<"write", s>>, WriteStep(t, s)
      PROVE  /\ Without(todo'[t], "dev") /\ UNCHANGED dev
             /\ flash'["dev"] = flash["dev"] /\ ("dev" \in torn' <=> "dev" \in torn)
  <2>1. /\ s # "dev" /\ flash' = [flash EXCEPT ![s] = Memory(s)] /\ UNCHANGED <<dev, torn>> /\ Done(t)
    BY <1>0, <1>5 DEF WriteStep, ram
  <2>2. flash'["dev"] = flash["dev"]
    BY <1>0, <2>1, MemoryTyped, HoldingKept, TheSectors
  <2>. QED
    BY <1>1, <2>1, <2>2
<1>6. ASSUME DropStep(t) PROVE Without(todo'[t], "dev") /\ UNCHANGED <<dev, flash, torn>>
  <2>1. (Then(t, Erase("pre") \o Erase("res")) \/ Done(t)) /\ UNCHANGED <<dev, flash, torn>>
    BY <1>6 DEF DropStep, ram
  <2>2. Erase("pre") \o Erase("res") \in Seq(Steps) /\ Without(Erase("pre") \o Erase("res"), "dev")
    BY LongPlans, PlansWithout DEF Plan
  <2>. QED
    BY <1>1, <1>2, <2>1, <2>2
<1>7. ASSUME NEW mode, RoleStep(t, mode) PROVE Without(todo'[t], "dev") /\ UNCHANGED <<dev, flash, torn>>
  <2>1. Then(t, SaveAtb) /\ UNCHANGED <<dev, flash, torn>>
    BY <1>7 DEF RoleStep
  <2>2. SaveAtb \in Seq(Steps) /\ Without(SaveAtb, "dev")
    BY SaveAtbIs, PlansWithout
  <2>. QED
    BY <1>2, <2>1, <2>2
<1>8. ASSUME StartStep(t) PROVE Without(todo'[t], "dev") /\ UNCHANGED <<dev, flash, torn>>
  <2>1. Done(t) /\ UNCHANGED <<dev, flash, torn>>
    BY <1>8 DEF StartStep, ram
  <2>. QED
    BY <1>1, <2>1
<1>. QED
  BY <1>3, <1>4, <1>5, <1>6, <1>7, <1>8, StepIs

\* So does what is taken up, except by the UI thread on a message.
LEMMA TasksAlone ==
  ASSUME CfgTypeOK, NEW t \in Threads, Task(t), ~(t = "ui" /\ UimsgProc)
  PROVE  /\ up /\ todo[t] = <<>> /\ Without(todo'[t], "dev")
         /\ \A u \in Threads \ {t} : todo'[u] = todo[u]
         /\ UNCHANGED <<up, dev, flash, torn, setbuf, msgs>>
<1>1. up /\ UNCHANGED <<up, dev, flash, torn, setbuf, msgs>>
  BY DEF Task, SetAtbCfg, SetResConfig, SaveRes, Command, Asked, ram
<1>2. todo[t] = <<>> /\ \A u \in Threads \ {t} : todo'[u] = todo[u]
  BY TaskIsPlan, OthersKeep DEF Task
<1>3. ASSUME NEW p, Begins(t, p), Without(p, "dev") PROVE Without(todo'[t], "dev")
  BY <1>3, OthersKeep DEF Begins, Leaves
<1>4. ASSUME NEW params, SetAtbCfg(t, params) PROVE Without(todo'[t], "dev")
  <2>1. Begins(t, SaveAtb)
    BY <1>4 DEF SetAtbCfg
  <2>. QED
    BY <1>3, <2>1, PlansWithout
<1>5. ASSUME (\E r \in Resources : SetResConfig(t, r)) \/ (t = "ui" /\ SaveRes)
      PROVE  Without(todo'[t], "dev")
  <2>1. Begins(t, Save("res"))
    BY <1>5 DEF SetResConfig, SaveRes
  <2>2. Without(Save("res"), "dev")
    BY PlansWithout, TheSectors
  <2>. QED
    BY <1>3, <2>1, <2>2
<1>6. ASSUME t = "ui", Command PROVE Without(todo'[t], "dev")
  <2>1. PICK what \in {Load("atb") \o << <<"role", mode>> >> : mode \in {"three", "plain"}}
                      \cup {Load("atb"), Save("pre"), Erase("pre")} : Begins("ui", what)
    BY <1>6 DEF Command
  <2>2. Without(Load("atb"), "dev") /\ Without(Save("pre"), "dev") /\ Without(Erase("pre"), "dev")
    BY PlansWithout, TheSectors
  <2>3. Without(what, "dev")
    BY <2>1, <2>2, PlansWithout
  <2>. QED
    BY <1>3, <1>6, <2>1, <2>3
<1>. QED
  BY <1>1, <1>2, <1>4, <1>5, <1>6 DEF Task

\* How the UI thread saves the settings.
LEMMA SetDevRests ==
  /\ SetDev # <<>> /\ Head(SetDev) = <<"erase", "dev">>
  /\ Tail(SetDev) # <<>> /\ Head(Tail(SetDev)) = <<"write", "dev">>
  /\ Tail(Tail(SetDev)) = Load("dev")
  /\ Load("dev") # <<>> /\ Head(Load("dev")) = <<"load", "dev">> /\ Tail(Load("dev")) = <<>>
  /\ SetDev \o <<>> = SetDev
<1>. DEFINE e == <<"erase", "dev">>
            w == <<"write", "dev">>
            l == <<"load", "dev">>
<1>1. e \in Steps /\ w \in Steps /\ l \in Steps
  BY DEF Steps, Sectors
<1>2. SetDev = <<e, w, l>>
  <2>1. /\ SetDev \in Seq(Steps) /\ Len(SetDev) = 3
        /\ SetDev[1] = e /\ SetDev[2] = w /\ SetDev[3] = l
    BY SetDevIs
  <2>. HIDE DEF e, w, l
  <2>2. /\ <<e, w, l>> \in Seq(Steps) /\ Len(<<e, w, l>>) = 3
        /\ <<e, w, l>>[1] = e /\ <<e, w, l>>[2] = w /\ <<e, w, l>>[3] = l
    BY <1>1
  <2>3. \A i \in 1..3 : SetDev[i] = <<e, w, l>>[i]
    BY <2>1, <2>2
  <2>. QED
    BY <2>1, <2>2, <2>3, SeqEqual
<1>3. Load("dev") = <<l>>
  BY DEF Load
<1>4. SetDev \o <<>> = SetDev
  BY SetDevIs, ConcatEmptySeq
<1>. HIDE DEF e, w, l
<1>5. /\ <<e, w, l>> # <<>> /\ Head(<<e, w, l>>) = e /\ Tail(<<e, w, l>>) = <<w, l>>
      /\ <<w, l>> # <<>> /\ Head(<<w, l>>) = w /\ Tail(<<w, l>>) = <<l>>
      /\ <<l>> # <<>> /\ Head(<<l>>) = l /\ Tail(<<l>>) = <<>>
  BY <1>1
<1>. QED
  BY <1>2, <1>3, <1>4, <1>5 DEF e, w, l

LEMMA SetDevDistinct ==
  /\ SetDev # Tail(SetDev) /\ Load("dev") # Tail(SetDev) /\ Load("dev") # SetDev
  /\ ~Without(SetDev, "dev") /\ ~Without(Tail(SetDev), "dev")
<1>1. /\ SetDev # Tail(SetDev) /\ Load("dev") # Tail(SetDev) /\ Load("dev") # SetDev
  <2>1. <<"erase", "dev">> # <<"write", "dev">> /\ <<"load", "dev">> # <<"write", "dev">>
        /\ <<"erase", "dev">> # <<"load", "dev">>
    OBVIOUS
  <2>. QED
    BY <2>1, SetDevRests
<1>2. SetDev \in Seq(Steps) /\ Tail(SetDev) \in Seq(Steps)
  BY SetDevIs, SetDevRests, LeftOver
<1>3. <<"erase", "dev">>[2] = "dev" /\ <<"write", "dev">>[2] = "dev"
  OBVIOUS
<1>. QED
  BY <1>1, <1>2, <1>3, SetDevRests, WithoutRest

\* A step is what comes first.
LEMMA HeadsOfSteps ==
  ASSUME NEW t \in Threads, Step(t), NEW s \in Sectors
  PROVE  /\ Head(todo[t]) = <<"load", s>> => LoadStep(t, s)
         /\ Head(todo[t]) = <<"erase", s>> => EraseStep(t, s)
         /\ Head(todo[t]) = <<"write", s>> => WriteStep(t, s)
BY DEF Step

\* Only the last step of the start starts sysm.
LEMMA UpStays ==
  ASSUME CfgTypeOK, NEW t \in Threads, Step(t)
  PROVE  (up => up') /\ (Head(todo[t])[1] # "start" => UNCHANGED up)
<1>1. ASSUME NEW s, LoadStep(t, s) \/ EraseStep(t, s) \/ WriteStep(t, s) \/ RoleStep(t, s) \/ DropStep(t)
      PROVE  UNCHANGED up
  BY <1>1 DEF LoadStep, EraseStep, WriteStep, RoleStep, DropStep
<1>2. StartStep(t) => up'
  BY DEF StartStep
<1>. QED
  BY <1>1, <1>2, StepIs

\* A step of the UI thread while it saves the settings.
LEMMA SetDevSteps ==
  ASSUME CfgTypeOK, Step("ui")
  PROVE  /\ todo["ui"] = SetDev =>
              todo'["ui"] = Tail(SetDev) /\ UNCHANGED <<up, dev>> /\ "dev" \notin torn'
         /\ todo["ui"] = Tail(SetDev) =>
              /\ todo'["ui"] = Load("dev") /\ UNCHANGED <<up, dev, torn>>
              /\ flash'["dev"] = <<dev>>
         /\ todo["ui"] = Load("dev") =>
              /\ UNCHANGED <<up, flash, torn>>
              /\ IF Marked("dev") THEN todo'["ui"] = <<>> /\ dev' = flash["dev"][1]
                                  ELSE todo'["ui"] = SetDev
<1>1. ASSUME todo["ui"] = SetDev
      PROVE  todo'["ui"] = Tail(SetDev) /\ UNCHANGED <<up, dev>> /\ "dev" \notin torn'
  <2>1. EraseStep("ui", "dev")
    BY <1>1, HeadsOfSteps, SetDevRests, TheSectors
  <2>2. Leaves("ui", Tail(SetDev)) /\ UNCHANGED <<up, dev>> /\ torn' = torn \ {"dev"}
    BY <1>1, <2>1 DEF EraseStep, Done, Leaves, ram
  <2>. QED
    BY <2>2, OthersKeep, TheSectors
<1>2. ASSUME todo["ui"] = Tail(SetDev)
      PROVE  todo'["ui"] = Load("dev") /\ UNCHANGED <<up, dev, torn>> /\ flash'["dev"] = <<dev>>
  <2>1. WriteStep("ui", "dev")
    BY <1>2, HeadsOfSteps, SetDevRests, TheSectors
  <2>2. /\ Leaves("ui", Load("dev")) /\ UNCHANGED <<up, dev, torn>>
        /\ flash' = [flash EXCEPT !["dev"] = Memory("dev")]
    BY <1>2, <2>1, SetDevRests DEF WriteStep, Done, Leaves, ram
  <2>3. flash'["dev"] = Memory("dev") /\ Memory("dev") = <<dev>>
    <3>1. flash'["dev"] = Memory("dev")
      BY <2>2, SectorsTyped, MemoryTyped, HoldingKept, TheSectors
    <3>. QED
      BY <3>1 DEF Memory
  <2>. QED
    BY <2>2, <2>3, OthersKeep, TheSectors
<1>3. ASSUME todo["ui"] = Load("dev")
      PROVE  /\ UNCHANGED <<up, flash, torn>>
             /\ IF Marked("dev") THEN todo'["ui"] = <<>> /\ dev' = flash["dev"][1]
                                 ELSE todo'["ui"] = SetDev
  <2>1. LoadStep("ui", "dev")
    BY <1>3, HeadsOfSteps, SetDevRests, TheSectors
  <2>2. LoadDev("ui") /\ UNCHANGED <<up, flash, torn>>
    BY <2>1 DEF LoadStep
  <2>3. CASE Marked("dev")
    <3>1. Leaves("ui", <<>>) /\ dev' = flash["dev"][1]
      BY <1>3, <2>2, <2>3, SetDevRests DEF LoadDev, Done, Leaves
    <3>. QED
      BY <2>2, <2>3, <3>1, OthersKeep, TheSectors
  <2>4. CASE ~Marked("dev")
    <3>1. Then("ui", SetDev)
      BY <2>2, <2>4 DEF LoadDev, SetDev
    <3>2. Leaves("ui", SetDev)
      BY <1>3, <3>1, SetDevRests DEF Then, Leaves
    <3>. QED
      BY <2>2, <2>4, <3>2, OthersKeep, TheSectors
  <2>. QED
    BY <2>3, <2>4
<1>. QED
  BY <1>1, <1>2, <1>3

LEMMA DevicesStep ==
  ASSUME CfgTypeOK, Shapes, DevByUi, DevIsSet, [CfgNext]_cfgvars
  PROVE  DevByUi' /\ DevIsSet'
<1>0. /\ Without(todo["sysm"], "dev") /\ NoStart(todo["sysm"])
      /\ Without(<<>>, "dev") /\ "ui" # "sysm" /\ NoDevs \notin {} /\ msgs \in Nat
  BY PlansWithout DEF DevByUi, CfgTypeOK
<1>1. ASSUME UNCHANGED <<up, dev, setbuf, msgs>>, todo'["ui"] = todo["ui"],
             flash'["dev"] = flash["dev"], "dev" \in torn' <=> "dev" \in torn,
             Without(todo'["sysm"], "dev"), NoStart(todo'["sysm"])
      PROVE  DevByUi' /\ DevIsSet'
  BY <1>1 DEF DevByUi, DevIsSet
<1>2. ASSUME Step("sysm") PROVE DevByUi' /\ DevIsSet'
  <2>1. /\ todo["sysm"] # <<>> /\ todo["sysm"] \in Seq(Steps)
        /\ UNCHANGED <<setbuf, msgs>> /\ todo'["ui"] = todo["ui"]
    BY <1>0, <1>2, StepIs, TodoTyped, RestOfStep, OthersKeep, TheSectors
  <2>2. /\ Without(todo'["sysm"], "dev") /\ UNCHANGED dev
        /\ flash'["dev"] = flash["dev"] /\ ("dev" \in torn' <=> "dev" \in torn)
    BY <1>0, <1>2, DevicesAlone, TheSectors
  <2>3. NoStart(Tail(todo["sysm"])) /\ Head(todo["sysm"])[1] # "start"
    BY <1>0, <2>1, WithoutRest
  <2>4. NoStart(todo'["sysm"])
    <3>1. \/ todo'["sysm"] = Tail(todo["sysm"])
          \/ /\ Head(todo["sysm"])[1] # "erase"
             /\ \E p : Plan(p) /\ NoStart(p) /\ todo'["sysm"] = p \o Tail(todo["sysm"])
      <4>1. \/ Leaves("sysm", Tail(todo["sysm"]))
            \/ /\ Head(todo["sysm"])[1] \in {"load", "drop", "role"}
               /\ \E p : Plan(p) /\ NoStart(p) /\ Leaves("sysm", p \o Tail(todo["sysm"]))
        BY <1>2, RestOfStep, TheSectors
      <4>2. \A rest : Leaves("sysm", rest) => todo'["sysm"] = rest
        BY OthersKeep, TheSectors
      <4>. QED
        BY <4>1, <4>2
    <3>2. Head(todo["sysm"])[1] # "erase" => Plan(Tail(todo["sysm"]))
      BY <2>1, ShapeOfTail, TheSectors DEF Shapes
    <3>. QED
      BY <2>3, <3>1, <3>2, PlansJoin
  <2>5. UNCHANGED up
    BY <1>2, <2>3, UpStays, TheSectors
  <2>. QED
    BY <1>1, <2>1, <2>2, <2>4, <2>5
<1>3. ASSUME Step("ui") PROVE DevByUi' /\ DevIsSet'
  <2>1. /\ todo["ui"] # <<>> /\ todo["ui"] \in Seq(Steps) /\ Shape(todo["ui"])
        /\ UNCHANGED <<setbuf, msgs>> /\ todo'["sysm"] = todo["sysm"]
    BY <1>0, <1>3, StepIs, TodoTyped, RestOfStep, OthersKeep, TheSectors DEF Shapes
  <2>2. CASE ~up
    <3>1. setbuf' = NoDevs
      BY <2>1, <2>2 DEF DevByUi
    <3>2. CASE Head(todo["ui"])[1] = "start"
      <4>1. todo'["ui"] = Tail(todo["ui"])
        BY <1>3, <3>2, RestOfStep, OthersKeep, TheSectors
      <4>2. /\ todo["ui"][1][1] = "start" /\ Len(todo["ui"]) \in Nat \ {0}
            /\ Tail(todo["ui"]) \in Seq(Steps) /\ Len(Tail(todo["ui"])) = Len(todo["ui"]) - 1
        BY <2>1, <3>2, LeftOver
      <4>3. Len(todo["ui"]) = 1
        <5>1. 1 \in 1..Len(todo["ui"])
          BY <4>2
        <5>. QED
          BY <2>1, <4>2, <5>1 DEF Shape
      <4>4. todo'["ui"] = <<>>
        <5>1. Len(Tail(todo["ui"])) = 0
          BY <4>2, <4>3
        <5>2. Tail(todo["ui"]) = <<>>
          BY <4>2, <5>1, EmptySeq
        <5>. QED
          BY <4>1, <5>2
      <4>. QED
        BY <1>0, <2>1, <3>1, <4>4 DEF DevByUi, DevIsSet
    <3>3. CASE Head(todo["ui"])[1] # "start"
      <4>1. ~up'
        BY <1>3, <2>2, <3>3, UpStays, TheSectors
      <4>. QED
        BY <1>0, <2>1, <3>1, <4>1 DEF DevByUi, DevIsSet
    <3>. QED
      BY <3>2, <3>3
  <2>3. CASE up /\ todo["ui"] = SetDev
    <3>1. todo'["ui"] = Tail(SetDev) /\ UNCHANGED <<up, dev>> /\ "dev" \notin torn'
      BY <1>3, <2>3, SetDevSteps
    <3>. QED
      BY <1>0, <2>1, <2>3, <3>1 DEF DevByUi, DevIsSet
  <2>4. CASE up /\ todo["ui"] = Tail(SetDev)
    <3>1. todo'["ui"] = Load("dev") /\ UNCHANGED <<up, dev, torn>> /\ flash'["dev"] = <<dev>>
      BY <1>3, <2>4, SetDevSteps
    <3>2. SetDev # Tail(SetDev) /\ Load("dev") # Tail(SetDev) /\ ~Without(Tail(SetDev), "dev")
      BY SetDevDistinct
    <3>3. DevByUi'
      BY <1>0, <2>1, <2>4, <3>1 DEF DevByUi
    <3>4. DevIsSet'
      BY <2>1, <2>4, <3>1, <3>2 DEF DevIsSet
    <3>. QED
      BY <3>3, <3>4
  <2>5. CASE up /\ todo["ui"] = Load("dev")
    <3>1. /\ UNCHANGED <<up, flash, torn>>
          /\ IF Marked("dev") THEN todo'["ui"] = <<>> /\ dev' = flash["dev"][1]
                              ELSE todo'["ui"] = SetDev
      BY <1>3, <2>5, SetDevSteps
    <3>2. Load("dev") # SetDev /\ Load("dev") # Tail(SetDev)
      BY SetDevDistinct
    <3>3. DevByUi'
      BY <1>0, <2>1, <2>5, <3>1 DEF DevByUi
    <3>4. ASSUME msgs = 0, setbuf # NoDevs
          PROVE  todo'["ui"] = <<>> /\ dev' = setbuf /\ flash["dev"] = <<setbuf>> /\ "dev" \notin torn
      <4>1. flash["dev"] = <<setbuf>> /\ "dev" \notin torn
        BY <2>5, <3>2, <3>4 DEF DevIsSet
      <4>2. <<setbuf>> # <<>> /\ <<setbuf>>[1] = setbuf
        OBVIOUS
      <4>3. Marked("dev")
        BY <4>1, <4>2 DEF Marked
      <4>. QED
        BY <3>1, <4>1, <4>2, <4>3
    <3>5. DevIsSet'
      BY <1>0, <2>1, <3>1, <3>4 DEF DevIsSet
    <3>. QED
      BY <3>3, <3>5
  <2>6. CASE up /\ Without(todo["ui"], "dev")
    <3>1. /\ Without(todo'["ui"], "dev") /\ UNCHANGED dev
          /\ flash'["dev"] = flash["dev"] /\ ("dev" \in torn' <=> "dev" \in torn)
      BY <1>3, <2>6, DevicesAlone, TheSectors
    <3>2. ~Without(SetDev, "dev") /\ ~Without(Tail(SetDev), "dev")
      BY SetDevDistinct
    <3>3. DevByUi'
      <4>1. up'
        BY <1>3, <2>6, UpStays, TheSectors
      <4>. QED
        BY <1>0, <2>1, <3>1, <4>1 DEF DevByUi
    <3>4. DevIsSet'
      BY <2>1, <2>6, <3>1, <3>2 DEF DevIsSet
    <3>. QED
      BY <3>3, <3>4
  <2>. QED
    BY <2>2, <2>3, <2>4, <2>5, <2>6 DEF DevByUi
<1>4. ASSUME NEW t \in Threads, Task(t), ~(t = "ui" /\ UimsgProc) PROVE DevByUi' /\ DevIsSet'
  <2>1. /\ up /\ todo[t] = <<>> /\ Without(todo'[t], "dev")
        /\ \A u \in Threads \ {t} : todo'[u] = todo[u]
        /\ UNCHANGED <<up, dev, flash, torn, setbuf, msgs>>
    BY <1>4, TasksAlone
  <2>2. CASE t = "sysm"
    <3>1. NoStart(todo'["sysm"])
      BY <1>4, <2>2, TaskIsPlan, OthersKeep DEF Task
    <3>2. todo'["ui"] = todo["ui"]
      BY <1>0, <2>1, <2>2, TheSectors
    <3>. QED
      BY <1>1, <2>1, <2>2, <3>1, <3>2
  <2>3. CASE t = "ui"
    <3>1. todo'["sysm"] = todo["sysm"]
      BY <1>0, <2>1, <2>3, TheSectors
    <3>2. DevByUi'
      BY <1>0, <2>1, <2>3, <3>1 DEF DevByUi
    <3>3. <<>> # SetDev /\ <<>> # Tail(SetDev)
      BY SetDevRests
    <3>4. DevIsSet'
      BY <2>1, <2>3, <3>3 DEF DevIsSet
    <3>. QED
      BY <3>2, <3>4
  <2>. QED
    BY <2>2, <2>3 DEF Threads
<1>5. ASSUME UimsgProc PROVE DevByUi' /\ DevIsSet'
  <2>1. /\ up /\ UNCHANGED <<up, setbuf>> /\ dev' = setbuf /\ Leaves("ui", SetDev)
    BY <1>5 DEF UimsgProc, Begins, Leaves, SetDev
  <2>2. todo'["ui"] = SetDev /\ todo'["sysm"] = todo["sysm"]
    BY <1>0, <2>1, OthersKeep, TheSectors
  <2>. QED
    BY <1>0, <2>1, <2>2 DEF DevByUi, DevIsSet
<1>6. ASSUME PowerFails PROVE DevByUi' /\ DevIsSet'
  <2>1. todo'["sysm"] = <<>> /\ ~up' /\ setbuf' = NoDevs
    BY <1>6, BootIsShaped DEF PowerFails
  <2>2. NoStart(<<>>)
    BY SmallPlans
  <2>. QED
    BY <1>0, <2>1, <2>2 DEF DevByUi, DevIsSet
<1>7. ASSUME NEW d, DeviceSet(d) PROVE DevByUi' /\ DevIsSet'
  <2>1. up /\ UNCHANGED <<up, todo>> /\ msgs' = msgs + 1
    BY <1>7 DEF DeviceSet, Asked
  <2>2. msgs' # 0
    BY <1>0, <2>1
  <2>. QED
    BY <2>1, <2>2 DEF DevByUi, DevIsSet
<1>8. ASSUME UNCHANGED cfgvars PROVE DevByUi' /\ DevIsSet'
  <2>1. UNCHANGED <<up, todo, dev, flash, torn, setbuf, msgs>>
    BY <1>8 DEF cfgvars, ram
  <2>. QED
    BY <1>0, <1>1, <2>1
<1>. QED
  BY <1>2, <1>3, <1>4, <1>5, <1>6, <1>7, <1>8, ActionIs DEF Task, Threads

\* sysres_srv_device_set, uimsg_proc: what was set for the devices last is in force and in
\* flash when all is done, whatever sysm saves meanwhile and wherever power fails.
THEOREM ConfigurationSettingKept == CfgSpec => []SettingKept
<1>1. CfgInit => DevByUi /\ DevIsSet
  <2>1. CfgInit => todo["sysm"] = <<>> /\ ~up /\ setbuf = NoDevs
    BY BootIsShaped DEF CfgInit
  <2>2. Without(<<>>, "dev") /\ NoStart(<<>>)
    BY SmallPlans, PlansWithout
  <2>. QED
    BY <2>1, <2>2 DEF DevByUi, DevIsSet
<1>2. /\ CfgTypeOK /\ Shapes /\ DevByUi /\ DevIsSet /\ [CfgNext]_cfgvars
      => (CfgTypeOK /\ Shapes /\ DevByUi /\ DevIsSet)'
  BY CfgTypeStep, DevicesStep
<1>3. DevIsSet => SettingKept
  <2>1. <<>> # SetDev /\ <<>> # Tail(SetDev)
    BY SetDevRests
  <2>2. Idle => todo["ui"] = <<>>
    BY TheSectors DEF Idle
  <2>. QED
    BY <2>1, <2>2 DEF DevIsSet, SettingKept
<1>. QED
  BY <1>1, <1>2, <1>3, CfgTypeInit, PTL DEF CfgSpec
=============================================================================
