----------------------------- MODULE OtaProofs -----------------------------
(***************************************************************************)
(* Proofs about the firmware update.  That every node that takes part      *)
(* waits for the same block holds whatever the UI thread does; what is in  *)
(* the flash is only right if the UI thread is done with one command       *)
(* before the next one comes (Prompt).                                     *)
(***************************************************************************)
EXTENDS Ota, TLAPS, SequenceTheorems

Told(n, what) == uimsg[n] # <<>> /\ Head(uimsg[n]) = what

\* A node that takes part has been told where to begin.
Numbered == \A n \in Nodes : ota_flag[n] => ota_data_sn[n] >= 1

\* The command in the slot is the one in the buffer.
SlotHolds ==
  atbui_cmd \in {"START", "DATA", "END"} =>
    ui_dat_buf[0] \in Commands /\ ui_dat_buf[0].type = atbui_cmd

(***************************************************************************)
(* There is a history of K broadcasts, said, and of the block that those   *)
(* who take part waited for after each, due: every node is somewhere in it *)
(* and the calls on their way to a node are the rest of it.                *)
(***************************************************************************)
Follows(K, said, due) ==
  \A k \in 1..K :
    /\ said[k].type = "START" => due[k] = 1
    /\ said[k].type = "DATA" /\ said[k].sn = due[k - 1] => due[k] = due[k - 1] + 1
    /\ said[k].type = "END" => due[k] = due[k - 1]

Ahead(n, K) == K - Len(calls[n])

Abreast(K, said, due) ==
  /\ ota_flag[0] => ota_data_sn[0] = due[K]
  /\ \A n \in TNs :
       /\ Len(calls[n]) <= K
       /\ \A j \in 1..Len(calls[n]) : calls[n][j] = said[Ahead(n, K) + j]
       /\ ota_flag[n] => ota_data_sn[n] = due[Ahead(n, K)]

OneHistory ==
  losses = 0 =>
    \E K \in Nat : \E said \in [Nat -> Commands] : \E due \in [Nat -> Int] :
      Follows(K, said, due) /\ Abreast(K, said, due)

(***************************************************************************)
(* What the UI thread still has to do, if it is prompt: nothing before the *)
(* next command; a block that it has to write is in the buffer, and all    *)
(* before it are in the flash.                                             *)
(***************************************************************************)
Queues(n) ==
  IF n = 0 THEN {<<>>, <<"otastart", "START">>, <<"START">>,
                 <<"otadata", "DATA">>, <<"DATA">>, <<"END">>}
  ELSE {<<>>, <<"otastart">>, <<"otadata">>}

OneAtATime ==
  /\ \A n \in Nodes : uimsg[n] \in Queues(n)
  /\ atbui_cmd # "NONE" => uimsg[0] = <<>>

Holds(n, last) == \A i \in 1..last : flash[n][i] = i

WrittenAt(n) ==
  /\ Told(n, "otadata") =>
       /\ ota_flag[n]
       /\ ui_dat_buf[n].type = "DATA" /\ ui_dat_buf[n].sn = ota_data_sn[n] - 1
       /\ ui_dat_buf[n].sn \in Area
       /\ Holds(n, ota_data_sn[n] - 2)
  /\ ota_flag[n] /\ ~Told(n, "otadata") /\ (n = 0 => atbui_cmd # "START") =>
       \/ ota_data_sn[n] = 1
       \/ ~Told(n, "otastart") /\ Holds(n, ota_data_sn[n] - 1)

Written == \A n \in Nodes : WrittenAt(n)

Prompted == OneAtATime /\ Written /\ AreaKept

IInv == TypeOK /\ Numbered /\ SlotHolds /\ OneHistory

-----------------------------------------------------------------------------
(* What a service yields, and where it goes. *)

USE OtaAssumption

Tells == {"otastart", "otadata", "START", "DATA", "END"}

\* The services, one line for each command.
LEMMA ServiceResult ==
  ASSUME TypeOK, NEW n \in Nodes, NEW c \in Commands
  PROVE  LET s == Service(n, c)
         IN  /\ s.flag \in BOOLEAN /\ s.sn \in 0..(Blocks + 1) /\ s.reboot \in BOOLEAN
             /\ s.tell \in Seq(Tells)
             /\ c.type = "START" => s.sn = 1 /\ s.tell = <<"otastart">>
             /\ c.type = "DATA" =>
                  \/ ~s.flag /\ s.tell = <<>>
                  \/ /\ ota_flag[n] /\ c.sn = ota_data_sn[n]
                     /\ s.sn = ota_data_sn[n] + 1 /\ s.flag /\ s.tell = <<"otadata">>
             /\ c.type = "END" =>
                  s.flag = ota_flag[n] /\ s.sn = ota_data_sn[n] /\ s.tell = <<>>
<1> DEFINE s == Service(n, c)
<1>0. /\ ota_flag[n] \in BOOLEAN /\ reboot_delay[n] \in BOOLEAN
      /\ ota_data_sn[n] \in 0..(Blocks + 1)
  BY DEF TypeOK
<1>1. CASE c.type = "START"
  <2>1. s = OtaStart(n, c)
    BY <1>1 DEF Service
  <2>2. /\ s.flag = (ota_flag[n] \/ n \in c.list) /\ s.sn = 1
        /\ s.reboot = reboot_delay[n] /\ s.tell = <<"otastart">>
    BY <2>1 DEF OtaStart, At
  <2>3. 1 \in 0..(Blocks + 1) /\ <<"otastart">> \in Seq(Tells)
    BY DEF Tells
  <2>4. s.flag \in BOOLEAN
    BY <2>2
  <2> QED
    BY <1>0, <1>1, <2>2, <2>3, <2>4
<1>2. CASE c.type = "DATA"
  <2>1. s = OtaData(n, c) /\ c.sn \in Area
    BY <1>2 DEF Service, Commands
  <2>2. CASE ~ota_flag[n]
    BY <1>0, <1>2, <2>1, <2>2 DEF OtaData, At
  <2>3. CASE ota_flag[n] /\ c.sn # ota_data_sn[n]
    BY <1>0, <1>2, <2>1, <2>3 DEF OtaData, At
  <2>4. CASE ota_flag[n] /\ c.sn = ota_data_sn[n]
    <3>1. /\ s.flag = ota_flag[n] /\ s.sn = ota_data_sn[n] + 1
          /\ s.reboot = reboot_delay[n] /\ s.tell = <<"otadata">>
      BY <2>1, <2>4 DEF OtaData, At
    <3>2. ota_data_sn[n] + 1 \in 0..(Blocks + 1)
      BY <2>1, <2>4 DEF Area
    <3>3. <<"otadata">> \in Seq(Tells)
      BY DEF Tells
    <3> QED
      BY <1>0, <1>2, <2>4, <3>1, <3>2, <3>3
  <2> QED
    BY <2>2, <2>3, <2>4
<1>3. CASE c.type = "END"
  <2>1. s = OtaEnd(n)
    BY <1>3 DEF Service
  <2>2. /\ s.flag = ota_flag[n] /\ s.sn = ota_data_sn[n]
        /\ s.reboot \in BOOLEAN /\ s.tell = <<>>
    <3>1. CASE ota_flag[n]
      <4>1. s = [At(n) EXCEPT !.reboot = TRUE]
        BY <2>1, <3>1 DEF OtaEnd
      <4> QED
        BY <4>1 DEF At
    <3>2. CASE ~ota_flag[n]
      BY <1>0, <2>1, <3>2 DEF OtaEnd, At
    <3> QED
      BY <3>1, <3>2
  <2>3. <<>> \in Seq(Tells)
    OBVIOUS
  <2> QED
    BY <1>0, <1>3, <2>2, <2>3
<1> QED
  BY <1>1, <1>2, <1>3 DEF Commands

\* The node of a service changes, no other one does.
LEMMA BecomesOnly ==
  ASSUME TypeOK, NEW n \in Nodes, NEW c \in Commands, NEW tell \in Seq(Tells),
         Becomes(n, Service(n, c), tell)
  PROVE  /\ ota_flag' \in [Nodes -> BOOLEAN] /\ reboot_delay' \in [Nodes -> BOOLEAN]
         /\ ota_data_sn' \in [Nodes -> 0..(Blocks + 1)]
         /\ uimsg' \in [Nodes -> Seq(Tells)]
         /\ ota_flag'[n] = Service(n, c).flag
         /\ ota_data_sn'[n] = Service(n, c).sn
         /\ uimsg'[n] = uimsg[n] \o tell
         /\ \A m \in Nodes \ {n} : /\ ota_flag'[m] = ota_flag[m]
                                   /\ ota_data_sn'[m] = ota_data_sn[m]
                                   /\ uimsg'[m] = uimsg[m]
<1> DEFINE s == Service(n, c)
<1>1. s.flag \in BOOLEAN /\ s.sn \in 0..(Blocks + 1) /\ s.reboot \in BOOLEAN
  BY ServiceResult
<1>2. uimsg[n] \o tell \in Seq(Tells) /\ uimsg \in [Nodes -> Seq(Tells)]
  BY DEF TypeOK, Tells
<1> HIDE DEF s
<1>3. /\ ota_flag' = [ota_flag EXCEPT ![n] = s.flag]
      /\ ota_data_sn' = [ota_data_sn EXCEPT ![n] = s.sn]
      /\ reboot_delay' = [reboot_delay EXCEPT ![n] = s.reboot]
      /\ uimsg' = [uimsg EXCEPT ![n] = uimsg[n] \o tell]
  BY DEF Becomes, s
<1>4. /\ ota_flag \in [Nodes -> BOOLEAN] /\ reboot_delay \in [Nodes -> BOOLEAN]
      /\ ota_data_sn \in [Nodes -> 0..(Blocks + 1)]
  BY DEF TypeOK
<1>5. ota_flag' \in [Nodes -> BOOLEAN] /\ ota_flag'[n] = s.flag
  BY <1>1, <1>3, <1>4
<1>6. reboot_delay' \in [Nodes -> BOOLEAN]
  BY <1>1, <1>3, <1>4
<1>7. ota_data_sn' \in [Nodes -> 0..(Blocks + 1)] /\ ota_data_sn'[n] = s.sn
  BY <1>1, <1>3, <1>4
<1>8. uimsg' \in [Nodes -> Seq(Tells)] /\ uimsg'[n] = uimsg[n] \o tell
  BY <1>2, <1>3
<1>9. \A m \in Nodes \ {n} : /\ ota_flag'[m] = ota_flag[m]
                             /\ ota_data_sn'[m] = ota_data_sn[m]
                             /\ uimsg'[m] = uimsg[m]
  BY <1>2, <1>3, <1>4
<1> QED
  BY <1>5, <1>6, <1>7, <1>8, <1>9 DEF s

-----------------------------------------------------------------------------
(* The history goes on. *)

\* A step that changes no more than leave nodes out of the update.
LEMMA HistoryKept ==
  ASSUME OneHistory, losses' = losses, TypeOK, NEW gone \in SUBSET Nodes,
         \A n \in Nodes \ gone :
           ota_flag'[n] = ota_flag[n] /\ ota_data_sn'[n] = ota_data_sn[n],
         \A n \in TNs \ gone : calls'[n] = calls[n],
         \A n \in gone : ~ota_flag'[n],
         \A n \in TNs \cap gone : calls'[n] = <<>>
  PROVE  OneHistory'
<1> SUFFICES ASSUME losses = 0
             PROVE  \E K \in Nat : \E said \in [Nat -> Commands] : \E due \in [Nat -> Int] :
                      Follows(K, said, due) /\ Abreast(K, said, due)'
  BY DEF OneHistory, Follows
<1>1. PICK K \in Nat, said \in [Nat -> Commands], due \in [Nat -> Int] :
        Follows(K, said, due) /\ Abreast(K, said, due)
  BY DEF OneHistory
<1>2. ASSUME NEW n \in TNs
      PROVE  /\ Len(calls'[n]) <= K
             /\ \A j \in 1..Len(calls'[n]) : calls'[n][j] = said[K - Len(calls'[n]) + j]
             /\ ota_flag'[n] => ota_data_sn'[n] = due[K - Len(calls'[n])]
  <2>1. CASE n \in gone
    <3>1. calls'[n] = <<>> /\ ~ota_flag'[n]
      BY <2>1
    <3>2. Len(<<>>) = 0 /\ 1..0 = {}
      OBVIOUS
    <3> QED
      BY <3>1, <3>2
  <2>2. CASE n \notin gone
    <3>1. /\ calls'[n] = calls[n]
          /\ ota_flag'[n] = ota_flag[n] /\ ota_data_sn'[n] = ota_data_sn[n]
      BY <2>2 DEF Nodes
    <3>2. /\ Len(calls[n]) <= K
          /\ \A j \in 1..Len(calls[n]) : calls[n][j] = said[K - Len(calls[n]) + j]
          /\ ota_flag[n] => ota_data_sn[n] = due[K - Len(calls[n])]
      BY <1>1 DEF Abreast, Ahead
    <3> QED
      BY <3>1, <3>2
  <2> QED
    BY <2>1, <2>2
<1>3. ota_flag'[0] => ota_data_sn'[0] = due[K]
  BY <1>1 DEF Abreast, Nodes
<1>4. Abreast(K, said, due)'
  BY <1>2, <1>3 DEF Abreast, Ahead
<1> QED
  BY <1>1, <1>4

LEMMA HistoryUntouched ==
  ASSUME OneHistory, TypeOK, losses' = losses, calls' = calls,
         \A n \in Nodes : ota_flag'[n] = ota_flag[n] /\ ota_data_sn'[n] = ota_data_sn[n]
  PROVE  OneHistory'
<1> DEFINE gone == {}
<1>1. /\ \A n \in Nodes \ gone : ota_flag'[n] = ota_flag[n] /\ ota_data_sn'[n] = ota_data_sn[n]
      /\ \A n \in TNs \ gone : calls'[n] = calls[n]
      /\ \A n \in gone : ~ota_flag'[n]
      /\ \A n \in TNs \cap gone : calls'[n] = <<>>
      /\ gone \in SUBSET Nodes
  OBVIOUS
<1> HIDE DEF gone
<1> QED
  BY <1>1, HistoryKept

\* A broadcast that the CN itself has served makes the history longer.
LEMMA HistoryGrows ==
  ASSUME OneHistory, losses' = losses, TypeOK, NEW c \in Commands,
         calls' = [n \in TNs |-> Append(calls[n], c)],
         \A n \in TNs : ota_flag'[n] = ota_flag[n] /\ ota_data_sn'[n] = ota_data_sn[n],
         ota_flag'[0] = Service(0, c).flag, ota_data_sn'[0] = Service(0, c).sn
  PROVE  OneHistory'
<1> SUFFICES ASSUME losses = 0
             PROVE  \E K \in Nat : \E said \in [Nat -> Commands] : \E due \in [Nat -> Int] :
                      Follows(K, said, due) /\ Abreast(K, said, due)'
  BY DEF OneHistory, Follows
<1>1. PICK K \in Nat, said \in [Nat -> Commands], due \in [Nat -> Int] :
        Follows(K, said, due) /\ Abreast(K, said, due)
  BY DEF OneHistory
<1> DEFINE next == IF c.type = "START" THEN 1
                   ELSE IF c.type = "DATA" THEN due[K] + 1 ELSE due[K]
<1>2. PICK said2 \in [Nat -> Commands], due2 \in [Nat -> Int] :
        /\ said2[K + 1] = c /\ due2[K + 1] = next
        /\ \A k \in 0..K : said2[k] = said[k] /\ due2[k] = due[k]
  <2>1. next \in Int
    BY <1>1
  <2> HIDE DEF next
  <2>2. /\ [said EXCEPT ![K + 1] = c] \in [Nat -> Commands]
        /\ [said EXCEPT ![K + 1] = c][K + 1] = c
        /\ \A k \in 0..K : [said EXCEPT ![K + 1] = c][k] = said[k]
    BY <1>1
  <2>3. /\ [due EXCEPT ![K + 1] = next] \in [Nat -> Int]
        /\ [due EXCEPT ![K + 1] = next][K + 1] = next
        /\ \A k \in 0..K : [due EXCEPT ![K + 1] = next][k] = due[k]
    BY <1>1, <2>1
  <2>4. \E x \in [Nat -> Commands] :
          x[K + 1] = c /\ \A k \in 0..K : x[k] = said[k]
    BY <2>2
  <2>5. \E x \in [Nat -> Int] :
          x[K + 1] = next /\ \A k \in 0..K : x[k] = due[k]
    BY <2>3
  <2> QED
    BY <2>4, <2>5
<1>3. Follows(K + 1, said2, due2)
  <2> SUFFICES ASSUME NEW k \in 1..(K + 1)
               PROVE  /\ said2[k].type = "START" => due2[k] = 1
                      /\ said2[k].type = "DATA" /\ said2[k].sn = due2[k - 1]
                           => due2[k] = due2[k - 1] + 1
                      /\ said2[k].type = "END" => due2[k] = due2[k - 1]
    BY DEF Follows
  <2>1. CASE k \in 1..K
    <3>1. said2[k] = said[k] /\ due2[k] = due[k] /\ due2[k - 1] = due[k - 1]
      BY <1>1, <1>2, <2>1
    <3> QED
      BY <1>1, <2>1, <3>1 DEF Follows
  <2>2. CASE k = K + 1
    <3>1. said2[k] = c /\ due2[k] = next /\ due2[k - 1] = due[K]
      BY <1>2, <2>2
    <3> QED
      BY <3>1
  <2> QED
    BY <2>1, <2>2
<1>4. ota_flag'[0] => ota_data_sn'[0] = due2[K + 1]
  <2>1. ota_flag[0] => ota_data_sn[0] = due[K]
    BY <1>1 DEF Abreast
  <2>2. 0 \in Nodes
    BY DEF Nodes
  <2> QED
    <3>1. c.type \in {"START", "DATA", "END"}
      BY DEF Commands
    <3> HIDE DEF next
    <3>2. ota_flag'[0] => Service(0, c).sn = next
      <4>1. CASE c.type = "START"
        BY <2>2, <4>1, ServiceResult DEF next
      <4>2. CASE c.type = "DATA"
        BY <2>1, <2>2, <4>2, ServiceResult DEF next
      <4>3. CASE c.type = "END"
        BY <2>1, <2>2, <4>3, ServiceResult DEF next
      <4> QED
        BY <3>1, <4>1, <4>2, <4>3
    <3> QED
      BY <1>2, <3>2
<1>5. ASSUME NEW n \in TNs
      PROVE  /\ Len(calls'[n]) <= K + 1
             /\ \A j \in 1..Len(calls'[n]) :
                  calls'[n][j] = said2[K + 1 - Len(calls'[n]) + j]
             /\ ota_flag'[n] => ota_data_sn'[n] = due2[K + 1 - Len(calls'[n])]
  <2> DEFINE q == calls[n]
  <2>1. /\ q \in Seq(Commands) /\ Len(q) \in Nat /\ Len(q) <= K
        /\ \A j \in 1..Len(q) : q[j] = said[K - Len(q) + j]
        /\ ota_flag[n] => ota_data_sn[n] = due[K - Len(q)]
    <3>1. q \in Seq(Commands)
      BY DEF TypeOK
    <3>2. Len(q) \in Nat
      BY <3>1
    <3> QED
      BY <1>1, <3>1, <3>2 DEF Abreast, Ahead
  <2>2. calls'[n] = Append(q, c)
    OBVIOUS
  <2> HIDE DEF q
  <2>3. /\ Len(Append(q, c)) = Len(q) + 1
        /\ \A j \in 1..Len(q) : Append(q, c)[j] = q[j]
        /\ Append(q, c)[Len(q) + 1] = c
    BY <2>1
  <2>4. ASSUME NEW j \in 1..(Len(q) + 1)
        PROVE  Append(q, c)[j] = said2[K - Len(q) + j]
    <3>1. CASE j \in 1..Len(q)
      <4>1. K - Len(q) + j \in 0..K
        <5> DEFINE L == Len(q)
        <5>1. K \in Nat /\ L \in Nat /\ L <= K /\ j \in 1..L
          BY <1>1, <2>1, <3>1
        <5> HIDE DEF L
        <5>2. j \in Int /\ 1 <= j /\ j <= L
          BY <5>1
        <5>3. K - L + j \in 0..K
          BY <5>1, <5>2
        <5> QED
          BY <5>3 DEF L
      <4> QED
        BY <1>2, <2>1, <2>3, <3>1, <4>1
    <3>2. CASE j = Len(q) + 1
      <4>1. K - Len(q) + j = K + 1
        BY <2>1, <3>2
      <4> QED
        BY <1>2, <2>3, <3>2, <4>1
    <3>3. j \in 1..Len(q) \/ j = Len(q) + 1
      BY <2>1
    <3> QED
      BY <3>1, <3>2, <3>3
  <2>5. K + 1 - (Len(q) + 1) = K - Len(q) /\ K - Len(q) \in 0..K
    BY <2>1
  <2>6. ota_flag'[n] => ota_data_sn'[n] = due2[K - Len(q)]
    BY <1>2, <2>1, <2>5
  <2>7. Len(q) + 1 <= K + 1
    BY <1>1, <2>1
  <2>8. \A j \in 1..(Len(q) + 1) : Append(q, c)[j] = said2[K + 1 - (Len(q) + 1) + j]
    BY <2>4, <2>5
  <2>9. ota_flag'[n] => ota_data_sn'[n] = due2[K + 1 - (Len(q) + 1)]
    BY <2>5, <2>6
  <2> QED
    BY <2>2, <2>3, <2>7, <2>8, <2>9
<1>6. Abreast(K + 1, said2, due2)'
  <2>1. ASSUME NEW n \in TNs
        PROVE  /\ Len(calls'[n]) <= K + 1
               /\ \A j \in 1..Len(calls'[n]) : calls'[n][j] = said2[Ahead(n, K + 1)' + j]
               /\ ota_flag'[n] => ota_data_sn'[n] = due2[Ahead(n, K + 1)']
    <3>1. Ahead(n, K + 1)' = K + 1 - Len(calls'[n])
      BY DEF Ahead
    <3>2. /\ Len(calls'[n]) <= K + 1
          /\ ota_flag'[n] => ota_data_sn'[n] = due2[K + 1 - Len(calls'[n])]
          /\ \A j \in 1..Len(calls'[n]) : calls'[n][j] = said2[K + 1 - Len(calls'[n]) + j]
      BY <1>5, Zenon
    <3> QED
      BY <3>1, <3>2, Zenon
  <2> QED
    BY <1>4, <2>1, Zenon DEF Abreast
<1> QED
  BY <1>1, <1>2, <1>3, <1>6

\* A node that serves a broadcast comes one step further in it.
LEMMA HistoryFollowed ==
  ASSUME OneHistory, losses' = losses, TypeOK, NEW n \in TNs, calls[n] # <<>>,
         calls' = [calls EXCEPT ![n] = Tail(@)],
         \A m \in Nodes \ {n} :
           ota_flag'[m] = ota_flag[m] /\ ota_data_sn'[m] = ota_data_sn[m],
         ota_flag'[n] = Service(n, Head(calls[n])).flag,
         ota_data_sn'[n] = Service(n, Head(calls[n])).sn
  PROVE  OneHistory'
<1> SUFFICES ASSUME losses = 0
             PROVE  \E K \in Nat : \E said \in [Nat -> Commands] : \E due \in [Nat -> Int] :
                      Follows(K, said, due) /\ Abreast(K, said, due)'
  BY DEF OneHistory, Follows
<1>1. PICK K \in Nat, said \in [Nat -> Commands], due \in [Nat -> Int] :
        Follows(K, said, due) /\ Abreast(K, said, due)
  BY DEF OneHistory
<1> DEFINE q == calls[n]
           c == Head(q)
           k == K - Len(q)
<1>2. /\ q \in Seq(Commands) /\ q # <<>> /\ Len(q) \in Nat \ {0} /\ Len(q) <= K
      /\ \A j \in 1..Len(q) : q[j] = said[k + j]
      /\ ota_flag[n] => ota_data_sn[n] = due[k]
  <2>1. q \in Seq(Commands) /\ q # <<>>
    BY DEF TypeOK
  <2>2. Len(q) \in Nat \ {0}
    BY <2>1
  <2> QED
    BY <1>1, <2>1, <2>2 DEF Abreast, Ahead
<1>3. calls'[n] = Tail(q) /\ \A m \in TNs \ {n} : calls'[m] = calls[m]
  BY DEF TypeOK
<1> HIDE DEF q
<1>4. c \in Commands /\ c = said[k + 1] /\ k + 1 \in 1..K
  <2>1. c = q[1] /\ 1 \in 1..Len(q) /\ q[1] \in Commands
    BY <1>2
  <2>2. q[1] = said[k + 1]
    BY <1>2, <2>1
  <2>3. k + 1 \in 1..K
    <3> DEFINE L == Len(q)
    <3>1. K \in Nat /\ L \in Nat \ {0} /\ L <= K
      BY <1>1, <1>2
    <3> HIDE DEF L
    <3>2. K - L + 1 \in 1..K
      BY <3>1
    <3> QED
      BY <3>2 DEF L
  <2> QED
    BY <2>1, <2>2, <2>3
<1>5. ota_flag'[n] => ota_data_sn'[n] = due[k + 1]
  <2>1. n \in Nodes
    BY DEF Nodes
  <2>2. /\ c.type = "START" => due[k + 1] = 1
        /\ c.type = "DATA" /\ c.sn = due[k] => due[k + 1] = due[k] + 1
        /\ c.type = "END" => due[k + 1] = due[k]
    <3>1. (k + 1) - 1 = k
      BY <1>2
    <3> QED
      BY <1>1, <1>4, <3>1 DEF Follows
  <2>3. c.type \in {"START", "DATA", "END"}
    BY <1>4 DEF Commands
  <2>4. ota_flag'[n] = Service(n, c).flag /\ ota_data_sn'[n] = Service(n, c).sn
    BY DEF q
  <2> HIDE DEF c, k
  <2>5. CASE c.type = "START"
    BY <1>4, <2>1, <2>2, <2>4, <2>5, ServiceResult
  <2>6. CASE c.type = "DATA"
    <3>1. \/ ~Service(n, c).flag
          \/ /\ ota_flag[n] /\ c.sn = ota_data_sn[n]
             /\ Service(n, c).sn = ota_data_sn[n] + 1
      BY <1>4, <2>1, <2>6, ServiceResult
    <3> QED
      BY <1>2, <2>2, <2>4, <2>6, <3>1 DEF k
  <2>7. CASE c.type = "END"
    BY <1>2, <1>4, <2>1, <2>2, <2>4, <2>7, ServiceResult
  <2> QED
    BY <2>3, <2>5, <2>6, <2>7
<1>6. ASSUME NEW m \in TNs
      PROVE  /\ Len(calls'[m]) <= K
             /\ \A j \in 1..Len(calls'[m]) : calls'[m][j] = said[K - Len(calls'[m]) + j]
             /\ ota_flag'[m] => ota_data_sn'[m] = due[K - Len(calls'[m])]
  <2>1. CASE m = n
    <3>1. /\ Len(Tail(q)) = Len(q) - 1
          /\ \A j \in 1..(Len(q) - 1) : Tail(q)[j] = q[j + 1]
      BY <1>2
    <3>2. K - (Len(q) - 1) = k + 1 /\ Len(q) - 1 <= K
      BY <1>2
    <3>3. \A j \in 1..(Len(q) - 1) : q[j + 1] = said[k + 1 + j]
      BY <1>2
    <3>4. \A j \in 1..(Len(q) - 1) : Tail(q)[j] = said[K - (Len(q) - 1) + j]
      BY <3>1, <3>2, <3>3
    <3>5. ota_flag'[n] => ota_data_sn'[n] = due[K - (Len(q) - 1)]
      BY <1>5, <3>2
    <3>6. Len(calls'[n]) = Len(q) - 1 /\ calls'[n] = Tail(q)
      BY <1>3, <3>1
    <3>7. /\ Len(calls'[n]) <= K
          /\ \A j \in 1..Len(calls'[n]) : calls'[n][j] = said[K - Len(calls'[n]) + j]
          /\ ota_flag'[n] => ota_data_sn'[n] = due[K - Len(calls'[n])]
      BY <3>2, <3>4, <3>5, <3>6
    <3> QED
      BY <2>1, <3>7
  <2>2. CASE m # n
    <3>1. /\ calls'[m] = calls[m]
          /\ ota_flag'[m] = ota_flag[m] /\ ota_data_sn'[m] = ota_data_sn[m]
      BY <1>3, <2>2 DEF Nodes
    <3>2. /\ Len(calls[m]) <= K
          /\ \A j \in 1..Len(calls[m]) : calls[m][j] = said[K - Len(calls[m]) + j]
          /\ ota_flag[m] => ota_data_sn[m] = due[K - Len(calls[m])]
      BY <1>1 DEF Abreast, Ahead
    <3> QED
      BY <3>1, <3>2
  <2> QED
    BY <2>1, <2>2
<1>7. ota_flag'[0] => ota_data_sn'[0] = due[K]
  BY <1>1, OtaAssumption DEF Abreast, Nodes
<1>8. Abreast(K, said, due)'
  BY <1>6, <1>7 DEF Abreast, Ahead
<1> QED
  BY <1>1, <1>8

-----------------------------------------------------------------------------
(* The actions, whether the UI thread is prompt or not. *)

LEMMA InitIInv == Init => IInv
<1> SUFFICES ASSUME Init PROVE IInv
  OBVIOUS
<1>1. TypeOK
  <2>1. host \in [next : 0..(Blocks + 1), waits : BOOLEAN]
    BY DEF Init
  <2>2. flash \in [Nodes -> [-1..Blocks -> Area \cup {Erased, Garbage}]]
    BY DEF Init, Erased
  <2>3. ota_data_sn \in [Nodes -> 0..(Blocks + 1)] /\ starts \in 0..MaxStart /\ losses \in 0..MaxLoss
    BY DEF Init
  <2>4. uimsg \in [Nodes -> Seq(Tells)] /\ calls \in [TNs -> Seq(Commands)]
    BY DEF Init, Tells
  <2> QED
    BY <2>1, <2>2, <2>3, <2>4 DEF Init, TypeOK, Tells
<1>2. Numbered /\ SlotHolds
  BY DEF Init, Numbered, SlotHolds
<1>3. OneHistory
  <2> DEFINE c == [type |-> "END"]
  <2>1. c \in Commands
    BY DEF Commands
  <2> HIDE DEF c
  <2>2. PICK said \in [Nat -> Commands] : TRUE
    <3>1. [k \in Nat |-> c] \in [Nat -> Commands]
      BY <2>1
    <3> QED
      BY <3>1
  <2>3. PICK due \in [Nat -> Int] : TRUE
    <3>1. [k \in Nat |-> 0] \in [Nat -> Int]
      OBVIOUS
    <3> QED
      BY <3>1
  <2>4. Follows(0, said, due)
    BY DEF Follows
  <2>5. Abreast(0, said, due)
    BY DEF Init, Abreast, Nodes
  <2> QED
    BY <2>4, <2>5, Zenon DEF OneHistory
<1> QED
  BY <1>1, <1>2, <1>3 DEF IInv

LEMMA BreakOffIInv ==
  ASSUME IInv, BreakOff
  PROVE  IInv'
<1>1. UNCHANGED <<slot, node, flash, calls, starts, losses>>
  BY DEF BreakOff
<1>2. TypeOK'
  <2>1. host' \in [next : 0..(Blocks + 1), waits : BOOLEAN]
    BY DEF BreakOff
  <2> QED
    BY <1>1, <2>1 DEF IInv, TypeOK, slot, node
<1>3. Numbered' /\ SlotHolds'
  BY <1>1 DEF IInv, Numbered, SlotHolds, slot, node
<1>4. OneHistory'
  <2>1. \A n \in Nodes : ota_flag'[n] = ota_flag[n] /\ ota_data_sn'[n] = ota_data_sn[n]
    BY <1>1 DEF node
  <2>2. losses' = losses /\ calls' = calls
    BY <1>1
  <2> QED
    BY <2>1, <2>2, HistoryUntouched DEF IInv
<1> QED
  BY <1>2, <1>3, <1>4 DEF IInv

LEMMA ToSendCommands == ToSend \subseteq Commands
BY DEF ToSend

LEMMA EraseType ==
  ASSUME NEW f \in [-1..Blocks -> Area \cup {Erased, Garbage}]
  PROVE  /\ Erase(f) \in [-1..Blocks -> Area \cup {Erased, Garbage}]
         /\ \A i \in -1..Blocks : Erase(f)[i] = IF i \in Area THEN Erased ELSE f[i]
BY DEF Erase

LEMMA AtbUiParseIInv ==
  ASSUME IInv, NEW c \in ToSend, AtbUiParse(c)
  PROVE  IInv'
<1>0. c \in Commands /\ c.type \in {"START", "DATA", "END"} /\ 0 \in Nodes /\ TypeOK
  BY ToSendCommands DEF Commands, Nodes, IInv
<1>1. /\ atbui_cmd' = c.type /\ ota_reply_cmd' = c.type
      /\ ui_dat_buf' = [ui_dat_buf EXCEPT ![0] = c]
      /\ host' = [host EXCEPT !.waits = TRUE]
      /\ UNCHANGED <<ota_flag, ota_data_sn, reboot_delay, uimsg, calls, losses>>
  BY DEF AtbUiParse
<1>2. /\ flash' \in [Nodes -> [-1..Blocks -> Area \cup {Erased, Garbage}]]
      /\ starts' \in 0..MaxStart
  <2>1. CASE c.type = "START"
    <3>1. /\ starts < MaxStart /\ starts' = starts + 1
          /\ flash' = [flash EXCEPT ![0] = Erase(flash[0])]
      BY <2>1 DEF AtbUiParse
    <3>2. Erase(flash[0]) \in [-1..Blocks -> Area \cup {Erased, Garbage}]
      BY <1>0, EraseType DEF TypeOK
    <3> QED
      BY <1>0, <3>1, <3>2 DEF TypeOK
  <2>2. CASE c.type # "START"
    BY <1>0, <2>2 DEF AtbUiParse, TypeOK
  <2> QED
    BY <2>1, <2>2
<1>3. TypeOK'
  <2>1. host' \in [next : 0..(Blocks + 1), waits : BOOLEAN]
    BY <1>0, <1>1 DEF TypeOK
  <2>2. ui_dat_buf' \in [Nodes -> Commands \cup {None}]
    BY <1>0, <1>1 DEF TypeOK
  <2>3. atbui_cmd' \in {"ZERO", "NONE", "START", "DATA", "END"}
        /\ ota_reply_cmd' \in {"NONE", "START", "DATA", "END"}
    BY <1>0, <1>1
  <2> QED
    BY <1>0, <1>1, <1>2, <2>1, <2>2, <2>3 DEF TypeOK
<1>4. Numbered' /\ SlotHolds'
  BY <1>0, <1>1 DEF IInv, TypeOK, Numbered, SlotHolds
<1>5. OneHistory'
  <2>1. \A n \in Nodes : ota_flag'[n] = ota_flag[n] /\ ota_data_sn'[n] = ota_data_sn[n]
    BY <1>1
  <2> QED
    BY <1>1, <2>1, HistoryUntouched DEF IInv
<1> QED
  BY <1>3, <1>4, <1>5 DEF IInv

\* What a command in the slot does: the CN serves it, and its end is told.
LEMMA SlotServed ==
  ASSUME IInv, SysTimerTick, atbui_cmd # "ZERO", NEW c, c = ui_dat_buf[0]
  PROVE  /\ atbui_cmd = c.type /\ c \in Commands /\ 0 \in Nodes
         /\ Append(Service(0, c).tell, atbui_cmd) \in Seq(Tells)
         /\ Becomes(0, Service(0, c), Append(Service(0, c).tell, atbui_cmd))
         /\ Broadcast(c)
<1>1. atbui_cmd \in {"START", "DATA", "END"}
  BY DEF SysTimerTick, IInv, TypeOK
<1>2. 0 \in Nodes
  BY DEF Nodes
<1>3. c \in Commands /\ atbui_cmd = c.type
  BY <1>1 DEF IInv, SlotHolds
<1>4. Service(0, c).tell \in Seq(Tells)
  BY <1>2, <1>3, ServiceResult DEF IInv
<1>5. Append(Service(0, c).tell, atbui_cmd) \in Seq(Tells)
  BY <1>1, <1>4 DEF Tells
<1> QED
  BY <1>2, <1>3, <1>5 DEF SysTimerTick

LEMMA SysTimerTickIInv ==
  ASSUME IInv, SysTimerTick
  PROVE  IInv'
<1>1. /\ atbui_cmd' = "NONE"
      /\ UNCHANGED <<host, ota_reply_cmd, ui_dat_buf, flash, starts, losses>>
  BY DEF SysTimerTick
<1>2. CASE atbui_cmd = "ZERO"
  <2>1. UNCHANGED <<ota_flag, ota_data_sn, reboot_delay, uimsg, calls>>
    BY <1>2 DEF SysTimerTick
  <2>2. TypeOK'
    BY <1>1, <2>1 DEF IInv, TypeOK
  <2>3. Numbered' /\ SlotHolds'
    BY <1>1, <2>1 DEF IInv, Numbered, SlotHolds
  <2>4. OneHistory'
    BY <1>1, <2>1, HistoryUntouched DEF IInv
  <2> QED
    BY <2>2, <2>3, <2>4 DEF IInv
<1>3. CASE atbui_cmd # "ZERO"
  <2> DEFINE c == ui_dat_buf[0]
             tell == Append(Service(0, c).tell, atbui_cmd)
  <2>1. /\ c \in Commands /\ 0 \in Nodes /\ tell \in Seq(Tells)
        /\ Becomes(0, Service(0, c), tell) /\ Broadcast(c)
    BY <1>3, SlotServed
  <2> HIDE DEF c, tell
  <2>2. /\ ota_flag' \in [Nodes -> BOOLEAN] /\ reboot_delay' \in [Nodes -> BOOLEAN]
        /\ ota_data_sn' \in [Nodes -> 0..(Blocks + 1)]
        /\ uimsg' \in [Nodes -> Seq(Tells)]
        /\ ota_flag'[0] = Service(0, c).flag
        /\ ota_data_sn'[0] = Service(0, c).sn
        /\ \A m \in Nodes \ {0} :
             ota_flag'[m] = ota_flag[m] /\ ota_data_sn'[m] = ota_data_sn[m]
    BY <2>1, BecomesOnly DEF IInv
  <2>3. calls' = [n \in TNs |-> Append(calls[n], c)]
    BY <2>1 DEF Broadcast
  <2>4. calls' \in [TNs -> Seq(Commands)]
    BY <2>1, <2>3 DEF IInv, TypeOK
  <2>5. TypeOK'
    BY <1>1, <2>2, <2>4 DEF IInv, TypeOK, Tells
  <2>6. Numbered'
    <3>1. ota_flag'[0] => ota_data_sn'[0] >= 1
      <4>1. c.type \in {"START", "DATA", "END"}
        BY <2>1 DEF Commands
      <4>2. ota_data_sn[0] \in Nat /\ (ota_flag[0] => ota_data_sn[0] >= 1)
        BY <2>1 DEF IInv, TypeOK, Numbered
      <4>3. CASE c.type = "START"
        BY <2>1, <2>2, <4>3, ServiceResult DEF IInv
      <4>4. CASE c.type = "DATA"
        BY <2>1, <2>2, <4>2, <4>4, ServiceResult DEF IInv
      <4>5. CASE c.type = "END"
        BY <2>1, <2>2, <4>2, <4>5, ServiceResult DEF IInv
      <4> QED
        BY <4>1, <4>3, <4>4, <4>5
    <3> QED
      BY <2>2, <3>1 DEF IInv, Numbered
  <2>7. SlotHolds'
    BY <1>1 DEF SlotHolds
  <2>8. OneHistory'
    <3>1. \A n \in TNs : ota_flag'[n] = ota_flag[n] /\ ota_data_sn'[n] = ota_data_sn[n]
      BY <2>2, OtaAssumption DEF Nodes
    <3> QED
      BY <1>1, <2>1, <2>2, <2>3, <3>1, HistoryGrows DEF IInv
  <2> QED
    BY <2>5, <2>6, <2>7, <2>8 DEF IInv
<1> QED
  BY <1>2, <1>3

LEMMA ServeIInv ==
  ASSUME IInv, NEW n \in TNs, Serve(n)
  PROVE  IInv'
<1> DEFINE c == Head(calls[n])
<1>1. /\ calls[n] # <<>> /\ c \in Commands
      /\ calls' = [calls EXCEPT ![n] = Tail(@)] /\ calls' \in [TNs -> Seq(Commands)]
  BY DEF Serve, IInv, TypeOK
<1>2. n \in Nodes /\ n # 0
  BY OtaAssumption DEF Nodes
<1>3. UNCHANGED <<host, atbui_cmd, ota_reply_cmd, flash, starts, losses>>
  BY DEF Serve, slot
<1>4. /\ Becomes(n, Service(n, c), Service(n, c).tell)
      /\ ui_dat_buf' = IF Keeps(n, c) THEN [ui_dat_buf EXCEPT ![n] = c] ELSE ui_dat_buf
  BY DEF Serve
<1> HIDE DEF c
<1>5. Service(n, c).tell \in Seq(Tells)
  BY <1>1, <1>2, ServiceResult DEF IInv
<1>6. /\ ota_flag' \in [Nodes -> BOOLEAN] /\ reboot_delay' \in [Nodes -> BOOLEAN]
      /\ ota_data_sn' \in [Nodes -> 0..(Blocks + 1)]
      /\ uimsg' \in [Nodes -> Seq(Tells)]
      /\ ota_flag'[n] = Service(n, c).flag
      /\ ota_data_sn'[n] = Service(n, c).sn
      /\ \A m \in Nodes \ {n} :
           ota_flag'[m] = ota_flag[m] /\ ota_data_sn'[m] = ota_data_sn[m]
  BY <1>1, <1>2, <1>4, <1>5, BecomesOnly DEF IInv
<1>7. ui_dat_buf' \in [Nodes -> Commands \cup {None}] /\ ui_dat_buf'[0] = ui_dat_buf[0]
  BY <1>1, <1>2, <1>4 DEF IInv, TypeOK, Nodes
<1>8. TypeOK'
  BY <1>1, <1>3, <1>6, <1>7 DEF IInv, TypeOK, Tells
<1>9. Numbered'
  <2>1. ota_flag'[n] => ota_data_sn'[n] >= 1
    <3>1. c.type \in {"START", "DATA", "END"}
      BY <1>1 DEF Commands
    <3>2. ota_data_sn[n] \in Nat /\ (ota_flag[n] => ota_data_sn[n] >= 1)
      BY <1>2 DEF IInv, TypeOK, Numbered
    <3>3. CASE c.type = "START"
      BY <1>1, <1>2, <1>6, <3>3, ServiceResult DEF IInv
    <3>4. CASE c.type = "DATA"
      <4>1. ~Service(n, c).flag \/ Service(n, c).sn = ota_data_sn[n] + 1
        BY <1>1, <1>2, <3>4, ServiceResult DEF IInv
      <4> QED
        BY <1>6, <3>2, <4>1
    <3>5. CASE c.type = "END"
      BY <1>1, <1>2, <1>6, <3>2, <3>5, ServiceResult DEF IInv
    <3> QED
      BY <3>1, <3>3, <3>4, <3>5
  <2> QED
    BY <1>6, <2>1 DEF IInv, Numbered
<1>10. SlotHolds'
  BY <1>3, <1>7 DEF IInv, SlotHolds
<1>11. OneHistory'
  BY <1>1, <1>3, <1>6, HistoryFollowed DEF IInv, c
<1> QED
  BY <1>8, <1>9, <1>10, <1>11 DEF IInv

LEMMA LoseIInv ==
  ASSUME IInv, NEW n \in TNs, Lose(n)
  PROVE  IInv'
<1>1. /\ calls[n] # <<>> /\ losses < MaxLoss
      /\ calls' = [calls EXCEPT ![n] = Tail(@)] /\ losses' = losses + 1
      /\ UNCHANGED <<host, slot, node, flash, starts>>
  BY DEF Lose
<1>2. calls' \in [TNs -> Seq(Commands)] /\ losses' \in 0..MaxLoss /\ losses' # 0
  BY <1>1 DEF IInv, TypeOK
<1>3. TypeOK'
  BY <1>1, <1>2 DEF IInv, TypeOK, slot, node
<1>4. Numbered' /\ SlotHolds' /\ OneHistory'
  BY <1>1, <1>2 DEF IInv, Numbered, SlotHolds, OneHistory, slot, node
<1> QED
  BY <1>3, <1>4 DEF IInv

\* What the UI thread does is a matter of the host and of the flash.
LEMMA UimsgProcTypes ==
  ASSUME TypeOK, NEW n \in Nodes, UimsgProc(n), ota_data_sn[n] - 1 \in -1..Blocks
  PROVE  /\ host' \in [next : 0..(Blocks + 1), waits : BOOLEAN]
         /\ flash' \in [Nodes -> [-1..Blocks -> Area \cup {Erased, Garbage}]]
<1>0. /\ host \in [next : 0..(Blocks + 1), waits : BOOLEAN]
      /\ flash \in [Nodes -> [-1..Blocks -> Area \cup {Erased, Garbage}]]
  BY DEF TypeOK
<1>1. CASE flash' = [flash EXCEPT ![n] = Erase(@)] /\ UNCHANGED host
  <2>1. Erase(flash[n]) \in [-1..Blocks -> Area \cup {Erased, Garbage}]
    BY <1>0, EraseType
  <2> QED
    BY <1>0, <1>1, <2>1
<1>2. CASE flash' = [flash EXCEPT ![n][Offset(n)] = Content(n)] /\ UNCHANGED host
  <2>1. Content(n) \in Area \cup {Erased, Garbage}
    <3>1. ui_dat_buf[n] \in Commands \cup {None}
      BY DEF TypeOK
    <3>2. ui_dat_buf[n].type = "DATA" => ui_dat_buf[n].sn \in Area
      BY <3>1 DEF Commands, None
    <3> QED
      BY <3>2 DEF Content
  <2>2. Offset(n) \in -1..Blocks
    BY DEF Offset
  <2>3. [flash[n] EXCEPT ![Offset(n)] = Content(n)]
          \in [-1..Blocks -> Area \cup {Erased, Garbage}]
    BY <1>0, <2>1
  <2> QED
    BY <1>0, <1>2, <2>3
<1>3. CASE Replied /\ UNCHANGED flash
  <2>1. (host.next + 1) % (Blocks + 2) \in 0..(Blocks + 1)
    BY <1>0
  <2> QED
    <3>1. [next |-> (host.next + 1) % (Blocks + 2), waits |-> FALSE]
             \in [next : 0..(Blocks + 1), waits : BOOLEAN]
      BY <2>1
    <3>2. host' \in {host, [next |-> (host.next + 1) % (Blocks + 2), waits |-> FALSE]}
      BY <1>3 DEF Replied
    <3> QED
      BY <1>0, <1>3, <3>1, <3>2, Zenon
<1>4. CASE UNCHANGED <<host, flash>>
  BY <1>0, <1>4
<1> QED
  BY <1>1, <1>2, <1>3, <1>4 DEF UimsgProc

LEMMA UimsgProcIInv ==
  ASSUME IInv, NEW n \in Nodes, UimsgProc(n)
  PROVE  IInv'
<1>1. /\ uimsg[n] # <<>> /\ uimsg' = [uimsg EXCEPT ![n] = Tail(@)]
      /\ UNCHANGED <<slot, ui_dat_buf, ota_flag, ota_data_sn, reboot_delay, calls, starts,
                     losses>>
  BY DEF UimsgProc
<1>2. TypeOK'
  <2>1. uimsg' \in [Nodes -> Seq(Tells)]
    BY <1>1 DEF IInv, TypeOK, Tells
  <2>2. ota_data_sn[n] - 1 \in -1..Blocks
    BY DEF IInv, TypeOK
  <2> QED
    BY <1>1, <2>1, <2>2, UimsgProcTypes DEF IInv, TypeOK, Tells, slot
<1>3. Numbered' /\ SlotHolds'
  BY <1>1 DEF IInv, Numbered, SlotHolds, slot
<1>4. OneHistory'
  <2>1. /\ losses' = losses /\ calls' = calls
        /\ \A m \in Nodes : ota_flag'[m] = ota_flag[m] /\ ota_data_sn'[m] = ota_data_sn[m]
    BY <1>1
  <2> QED
    BY <2>1, HistoryUntouched DEF IInv
<1> QED
  BY <1>2, <1>3, <1>4 DEF IInv

LEMMA RebootIInv ==
  ASSUME IInv, NEW n \in Nodes, Reboot(n)
  PROVE  IInv'
<1>0. TypeOK
  BY DEF IInv
<1>1. /\ ui_dat_buf' = [ui_dat_buf EXCEPT ![n] = None]
      /\ ota_flag' = [ota_flag EXCEPT ![n] = FALSE]
      /\ ota_data_sn' = [ota_data_sn EXCEPT ![n] = 0]
      /\ reboot_delay' = [reboot_delay EXCEPT ![n] = FALSE]
      /\ uimsg' = [uimsg EXCEPT ![n] = <<>>]
      /\ calls' = [m \in TNs |-> IF m = n THEN <<>> ELSE calls[m]]
      /\ UNCHANGED <<flash, starts, losses>>
  BY DEF Reboot
<1>2. \/ n # 0 /\ UNCHANGED <<host, slot>>
      \/ /\ n = 0 /\ host' = [next |-> 0, waits |-> FALSE]
         /\ atbui_cmd' = "ZERO" /\ ota_reply_cmd' = "NONE"
  BY DEF Reboot
<1>3. TypeOK'
  <2>1. /\ ui_dat_buf' \in [Nodes -> Commands \cup {None}]
        /\ ota_flag' \in [Nodes -> BOOLEAN] /\ reboot_delay' \in [Nodes -> BOOLEAN]
    BY <1>0, <1>1 DEF TypeOK
  <2>2. ota_data_sn' \in [Nodes -> 0..(Blocks + 1)]
    BY <1>0, <1>1 DEF TypeOK
  <2>3. uimsg' \in [Nodes -> Seq(Tells)] /\ calls' \in [TNs -> Seq(Commands)]
    BY <1>0, <1>1 DEF TypeOK, Tells
  <2>4. /\ host' \in [next : 0..(Blocks + 1), waits : BOOLEAN]
        /\ atbui_cmd' \in {"ZERO", "NONE", "START", "DATA", "END"}
        /\ ota_reply_cmd' \in {"NONE", "START", "DATA", "END"}
    <3>1. CASE n # 0 /\ UNCHANGED <<host, slot>>
      BY <1>0, <3>1 DEF TypeOK, slot
    <3>2. CASE n = 0 /\ host' = [next |-> 0, waits |-> FALSE]
               /\ atbui_cmd' = "ZERO" /\ ota_reply_cmd' = "NONE"
      BY <3>2
    <3> QED
      BY <1>2, <3>1, <3>2
  <2> QED
    BY <1>0, <1>1, <2>1, <2>2, <2>3, <2>4 DEF TypeOK, Tells
<1>4. Numbered'
  BY <1>0, <1>1 DEF IInv, TypeOK, Numbered
<1>5. SlotHolds'
  <2>1. 0 \in Nodes
    BY DEF Nodes
  <2> QED
    BY <1>0, <1>1, <1>2, <2>1 DEF IInv, TypeOK, SlotHolds, slot
<1>6. OneHistory'
  <2>1. \A m \in Nodes \ {n} : ota_flag'[m] = ota_flag[m] /\ ota_data_sn'[m] = ota_data_sn[m]
    BY <1>0, <1>1 DEF TypeOK
  <2>2. ~ota_flag'[n] /\ losses' = losses
    BY <1>0, <1>1 DEF TypeOK
  <2>3. \A m \in TNs : calls'[m] = IF m = n THEN <<>> ELSE calls[m]
    BY <1>1
  <2>4. {n} \in SUBSET Nodes
    OBVIOUS
  <2> DEFINE gone == {n}
  <2>5. /\ \A m \in Nodes \ gone : ota_flag'[m] = ota_flag[m] /\ ota_data_sn'[m] = ota_data_sn[m]
        /\ \A m \in TNs \ gone : calls'[m] = calls[m]
        /\ \A m \in gone : ~ota_flag'[m]
        /\ \A m \in TNs \cap gone : calls'[m] = <<>>
        /\ gone \in SUBSET Nodes
    BY <2>1, <2>2, <2>3
  <2> HIDE DEF gone
  <2> QED
    BY <1>0, <2>2, <2>5, HistoryKept DEF IInv
<1> QED
  BY <1>3, <1>4, <1>5, <1>6 DEF IInv

\* The inductive invariant of the update.
THEOREM UpdateInvariant == Spec => []IInv
<1>1. IInv /\ [Next]_vars => IInv'
  <2> SUFFICES ASSUME IInv, [Next]_vars PROVE IInv'
    OBVIOUS
  <2>1. CASE BreakOff
    BY <2>1, BreakOffIInv
  <2>2. ASSUME NEW c \in ToSend, AtbUiParse(c) PROVE IInv'
    BY <2>2, AtbUiParseIInv
  <2>3. CASE SysTimerTick
    BY <2>3, SysTimerTickIInv
  <2>4. ASSUME NEW n \in TNs, Serve(n) PROVE IInv'
    BY <2>4, ServeIInv
  <2>5. ASSUME NEW n \in TNs, Lose(n) PROVE IInv'
    BY <2>5, LoseIInv
  <2>6. ASSUME NEW n \in Nodes, UimsgProc(n) PROVE IInv'
    BY <2>6, UimsgProcIInv
  <2>7. ASSUME NEW n \in Nodes, Reboot(n) PROVE IInv'
    BY <2>7, RebootIInv
  <2>8. CASE UNCHANGED vars
    <3>1. /\ UNCHANGED <<host, slot, node, flash, calls, starts, losses>>
      BY <2>8 DEF vars
    <3>2. TypeOK' /\ Numbered' /\ SlotHolds'
      BY <3>1 DEF IInv, TypeOK, Numbered, SlotHolds, slot, node
    <3>3. /\ losses' = losses /\ calls' = calls
          /\ \A m \in Nodes : ota_flag'[m] = ota_flag[m] /\ ota_data_sn'[m] = ota_data_sn[m]
      BY <3>1 DEF node
    <3>4. OneHistory'
      BY <3>3, HistoryUntouched DEF IInv
    <3> QED
      BY <3>2, <3>4 DEF IInv
  <2> QED
    BY <2>1, <2>2, <2>3, <2>4, <2>5, <2>6, <2>7, <2>8 DEF Next
<1> QED
  BY <1>1, InitIInv, PTL DEF Spec

(***************************************************************************)
(* Nodes that take part wait for the same block once they have served all  *)
(* broadcasts, if none was lost: for any number of nodes and of starts,    *)
(* and however late the UI thread is (sysres_srv_ota_start and its         *)
(* followers, rpc_ota_start).                                              *)
(***************************************************************************)
THEOREM UpdateInStep == Spec => []InStep
<1>1. IInv => InStep
  <2> SUFFICES ASSUME IInv, losses = 0, NEW m \in Nodes, NEW n \in Nodes,
                      ota_flag[m], ota_flag[n], Served(m), Served(n)
               PROVE  ota_data_sn[m] = ota_data_sn[n]
    BY DEF InStep
  <2>1. PICK K \in Nat, said \in [Nat -> Commands], due \in [Nat -> Int] :
          Abreast(K, said, due)
    BY DEF IInv, OneHistory
  <2>2. ASSUME NEW k \in Nodes, ota_flag[k], Served(k)
        PROVE  ota_data_sn[k] = due[K]
    <3>1. CASE k = 0
      BY <2>1, <2>2, <3>1 DEF Abreast
    <3>2. CASE k \in TNs
      <4>1. calls[k] = <<>>
        BY <2>2, <3>2, OtaAssumption DEF Served
      <4>2. Ahead(k, K) = K
        BY <2>1, <4>1 DEF Ahead
      <4> QED
        BY <2>1, <2>2, <3>2, <4>2 DEF Abreast
    <3> QED
      BY <3>1, <3>2 DEF Nodes
  <2> QED
    BY <2>2
<1> QED
  BY <1>1, UpdateInvariant, PTL

-----------------------------------------------------------------------------
(* The flash, if the UI thread is prompt. *)

\* A node of which nothing changes.
LEMMA WrittenUntouched ==
  ASSUME NEW n \in Nodes, WrittenAt(n),
         uimsg'[n] = uimsg[n], ota_flag'[n] = ota_flag[n],
         ota_data_sn'[n] = ota_data_sn[n], flash'[n] = flash[n],
         Told(n, "otadata") => ui_dat_buf'[n] = ui_dat_buf[n],
         n = 0 /\ atbui_cmd = "START" => atbui_cmd' = "START" \/ ~ota_flag[n]
  PROVE  WrittenAt(n)'
<1>1. \A what : Told(n, what)' = Told(n, what)
  BY DEF Told
<1>2. \A last : Holds(n, last)' = Holds(n, last)
  BY DEF Holds
<1>3. Told(n, "otadata")' =>
        /\ ota_flag'[n]
        /\ ui_dat_buf'[n].type = "DATA" /\ ui_dat_buf'[n].sn = ota_data_sn'[n] - 1
        /\ ui_dat_buf'[n].sn \in Area
        /\ Holds(n, ota_data_sn[n] - 2)'
  BY <1>1, <1>2 DEF WrittenAt
<1>4. ota_flag'[n] /\ ~Told(n, "otadata")' /\ (n = 0 => atbui_cmd' # "START") =>
        \/ ota_data_sn'[n] = 1
        \/ ~Told(n, "otastart")' /\ Holds(n, ota_data_sn[n] - 1)'
  BY <1>1, <1>2 DEF WrittenAt
<1> QED
  BY <1>3, <1>4 DEF WrittenAt, Holds

\* A node that has served a command, given what the UI thread is told beside.
LEMMA WrittenServed ==
  ASSUME IInv, NEW n \in Nodes, NEW c \in Commands, WrittenAt(n), uimsg[n] = <<>>,
         NEW rest \in {<<>>, <<c.type>>}, uimsg'[n] = Service(n, c).tell \o rest,
         ota_flag'[n] = Service(n, c).flag, ota_data_sn'[n] = Service(n, c).sn,
         flash'[n] = flash[n], c.type = "DATA" /\ ota_flag[n] => ui_dat_buf'[n] = c,
         n = 0 => atbui_cmd = c.type
  PROVE  WrittenAt(n)' /\ uimsg'[n] \in {<<"otastart">> \o rest, <<"otadata">> \o rest, rest}
<1> DEFINE s == Service(n, c)
<1>1. /\ ota_data_sn[n] \in 0..(Blocks + 1) /\ (ota_flag[n] => ota_data_sn[n] >= 1)
      /\ ~Told(n, "otadata") /\ ~Told(n, "otastart")
  BY DEF IInv, TypeOK, Numbered, Told
<1>2. c.type \in {"START", "DATA", "END"}
  BY DEF Commands
<1>3. rest # <<>> => Head(rest) \notin {"otastart", "otadata"}
  BY <1>2
<1>4. \A last : Holds(n, last)' = Holds(n, last)
  BY DEF Holds
<1>5. CASE c.type = "START"
  <2>1. s.sn = 1 /\ s.tell = <<"otastart">>
    BY <1>5, ServiceResult DEF IInv
  <2>2. ota_data_sn'[n] = 1 /\ uimsg'[n] = <<"otastart">> \o rest
    BY <2>1
  <2>3. uimsg'[n] # <<>> /\ Head(uimsg'[n]) = "otastart"
    BY <2>2
  <2> QED
    BY <2>2, <2>3 DEF WrittenAt, Told
<1>6. CASE c.type = "DATA" /\ ~s.flag /\ s.tell = <<>>
  <2>1. ~ota_flag'[n] /\ uimsg'[n] = rest
    BY <1>6
  <2> QED
    BY <1>3, <2>1 DEF WrittenAt, Told
<1>7. CASE c.type = "DATA" /\ /\ ota_flag[n] /\ c.sn = ota_data_sn[n]
                              /\ s.sn = ota_data_sn[n] + 1 /\ s.flag /\ s.tell = <<"otadata">>
  <2>1. /\ ota_flag'[n] /\ ota_data_sn'[n] = ota_data_sn[n] + 1 /\ ui_dat_buf'[n] = c
        /\ uimsg'[n] = <<"otadata">> \o rest
    BY <1>7
  <2>2. uimsg'[n] # <<>> /\ Head(uimsg'[n]) = "otadata"
    BY <2>1
  <2>3. c.sn \in Area
    BY <1>7 DEF Commands
  <2>4. Holds(n, ota_data_sn[n] - 1)
    <3>1. ota_data_sn[n] = 1 \/ Holds(n, ota_data_sn[n] - 1)
      BY <1>1, <1>7 DEF WrittenAt
    <3> QED
      BY <3>1 DEF Holds
  <2>5. Holds(n, ota_data_sn[n] - 2)'
    <3>1. ota_data_sn'[n] - 2 = ota_data_sn[n] - 1
      BY <1>1, <2>1
    <3> QED
      BY <2>4, <3>1 DEF Holds
  <2>6. ui_dat_buf'[n].sn = ota_data_sn'[n] - 1
    BY <1>1, <1>7, <2>1
  <2> QED
    BY <1>7, <2>1, <2>2, <2>3, <2>5, <2>6 DEF WrittenAt, Told
<1>8. CASE c.type = "END"
  <2>1. s.flag = ota_flag[n] /\ s.sn = ota_data_sn[n] /\ s.tell = <<>>
    BY <1>8, ServiceResult DEF IInv
  <2>2. ota_flag'[n] = ota_flag[n] /\ ota_data_sn'[n] = ota_data_sn[n] /\ uimsg'[n] = rest
    BY <2>1
  <2>3. ~Told(n, "otadata")' /\ ~Told(n, "otastart")'
    BY <1>3, <2>2 DEF Told
  <2>4. ota_flag[n] => ota_data_sn[n] = 1 \/ Holds(n, ota_data_sn[n] - 1)
    BY <1>1, <1>8 DEF WrittenAt
  <2>5. ota_flag'[n] => ota_data_sn'[n] = 1 \/ Holds(n, ota_data_sn[n] - 1)'
    BY <2>2, <2>4 DEF Holds
  <2> QED
    BY <2>2, <2>3, <2>5 DEF WrittenAt
<1>9. c.type = "DATA" =>
        \/ ~s.flag /\ s.tell = <<>>
        \/ /\ ota_flag[n] /\ c.sn = ota_data_sn[n]
           /\ s.sn = ota_data_sn[n] + 1 /\ s.flag /\ s.tell = <<"otadata">>
  BY ServiceResult DEF IInv
<1> QED
  BY <1>2, <1>5, <1>6, <1>7, <1>8, <1>9

LEMMA InitPrompted == Init => Prompted
<1> SUFFICES ASSUME Init PROVE Prompted
  OBVIOUS
<1>1. OneAtATime
  BY DEF Init, OneAtATime, Queues, Nodes
<1>2. Written
  BY DEF Init, Written, WrittenAt, Told
<1>3. AreaKept
  BY DEF Init, AreaKept, Erased
<1> QED
  BY <1>1, <1>2, <1>3 DEF Prompted

\* The steps that leave the flash and what the UI thread is told alone.
LEMMA QuietPrompted ==
  ASSUME Prompted, UNCHANGED <<flash, uimsg, ota_flag, ota_data_sn, ui_dat_buf, atbui_cmd>>
  PROVE  Prompted'
<1>1. OneAtATime' /\ AreaKept'
  BY DEF Prompted, OneAtATime, AreaKept, Queues
<1>2. ASSUME NEW n \in Nodes
      PROVE  WrittenAt(n)'
  BY <1>2, WrittenUntouched DEF Prompted, Written
<1> QED
  BY <1>1, <1>2 DEF Prompted, Written

LEMMA AtbUiParsePrompted ==
  ASSUME Prompt, IInv, Prompted, NEW c \in ToSend, AtbUiParse(c)
  PROVE  Prompted'
<1>1. /\ uimsg[0] = <<>> /\ atbui_cmd = "NONE" /\ atbui_cmd' = c.type
      /\ ui_dat_buf' = [ui_dat_buf EXCEPT ![0] = c]
      /\ UNCHANGED <<ota_flag, ota_data_sn, uimsg>>
  BY DEF AtbUiParse, Done
<1>2. 0 \in Nodes /\ TypeOK
  BY DEF IInv, Nodes
<1>3. \/ c.type = "START" /\ flash' = [flash EXCEPT ![0] = Erase(flash[0])]
      \/ c.type # "START" /\ flash' = flash
  BY DEF AtbUiParse
<1>4. OneAtATime'
  BY <1>1 DEF Prompted, OneAtATime, Queues
<1>5. AreaKept'
  <2>1. Erase(flash[0])[-1] = flash[0][-1] /\ Erase(flash[0])[0] = flash[0][0]
    BY <1>2, EraseType DEF TypeOK, Area
  <2> QED
    BY <1>2, <1>3, <2>1 DEF Prompted, AreaKept, TypeOK
<1>6. ASSUME NEW n \in Nodes
      PROVE  WrittenAt(n)'
  <2>0. WrittenAt(n)
    BY DEF Prompted, Written
  <2>1. CASE n # 0
    <3>1. flash'[n] = flash[n] /\ ui_dat_buf'[n] = ui_dat_buf[n]
      BY <1>1, <1>2, <1>3, <2>1 DEF TypeOK
    <3> QED
      BY <1>1, <2>0, <2>1, <3>1, WrittenUntouched
  <2>2. CASE n = 0 /\ c.type # "START"
    <3>1. flash'[n] = flash[n] /\ ~Told(n, "otadata")
      BY <1>1, <1>3, <2>2 DEF Told
    <3> QED
      BY <1>1, <2>0, <2>2, <3>1, WrittenUntouched
  <2>3. CASE n = 0 /\ c.type = "START"
    BY <1>1, <2>3 DEF WrittenAt, Told
  <2> QED
    BY <2>1, <2>2, <2>3
<1> QED
  BY <1>4, <1>5, <1>6 DEF Prompted, Written

LEMMA TwoTells ==
  ASSUME NEW x \in Tells, NEW y \in Tells
  PROVE  <<x>> \o <<y>> = <<x, y>>
<1>1. <<x>> \in Seq(Tells) /\ <<y>> \in Seq(Tells) /\ <<x, y>> \in Seq(Tells)
  OBVIOUS
<1>2. /\ <<x>> \o <<y>> \in Seq(Tells)
      /\ Len(<<x>> \o <<y>>) = 2 /\ Len(<<x, y>>) = 2
      /\ (<<x>> \o <<y>>)[1] = x /\ (<<x>> \o <<y>>)[2] = y
      /\ <<x, y>>[1] = x /\ <<x, y>>[2] = y
  BY <1>1
<1>3. \A i \in 1..2 : (<<x>> \o <<y>>)[i] = <<x, y>>[i]
  <2>1. \A i \in 1..2 : i = 1 \/ i = 2
    OBVIOUS
  <2> QED
    BY <1>2, <2>1
<1> QED
  BY <1>1, <1>2, <1>3, SeqEqual

LEMMA SysTimerTickPrompted ==
  ASSUME IInv, Prompted, SysTimerTick
  PROVE  Prompted'
<1>1. /\ atbui_cmd # "NONE" /\ atbui_cmd' = "NONE" /\ uimsg[0] = <<>>
      /\ UNCHANGED <<ui_dat_buf, flash>>
  BY DEF SysTimerTick, Prompted, OneAtATime
<1>2. CASE atbui_cmd = "ZERO"
  <2>1. UNCHANGED <<ota_flag, ota_data_sn, uimsg>>
    BY <1>2 DEF SysTimerTick
  <2>2. OneAtATime' /\ AreaKept'
    BY <1>1, <2>1 DEF Prompted, OneAtATime, AreaKept, Queues
  <2>3. ASSUME NEW n \in Nodes
        PROVE  WrittenAt(n)'
    BY <1>1, <1>2, <2>1, WrittenUntouched DEF Prompted, Written
  <2> QED
    BY <2>2, <2>3 DEF Prompted, Written
<1>3. CASE atbui_cmd # "ZERO"
  <2> DEFINE c == ui_dat_buf[0]
             s == Service(0, c)
  <2>1. /\ atbui_cmd = c.type /\ c \in Commands /\ 0 \in Nodes
        /\ Append(s.tell, atbui_cmd) \in Seq(Tells)
        /\ Becomes(0, s, Append(s.tell, atbui_cmd))
    BY <1>3, SlotServed
  <2>2. s.tell \in Seq(Tells)
    BY <2>1, ServiceResult DEF IInv
  <2> HIDE DEF c
  <2>3. /\ ota_flag'[0] = s.flag /\ ota_data_sn'[0] = s.sn
        /\ uimsg'[0] = uimsg[0] \o Append(s.tell, atbui_cmd)
        /\ \A m \in Nodes \ {0} : /\ ota_flag'[m] = ota_flag[m]
                                  /\ ota_data_sn'[m] = ota_data_sn[m]
                                  /\ uimsg'[m] = uimsg[m]
    BY <2>1, BecomesOnly DEF IInv
  <2>4. uimsg'[0] = s.tell \o <<c.type>>
    <3>1. Append(s.tell, c.type) = s.tell \o <<c.type>>
      BY <2>2
    <3>2. Append(s.tell, c.type) \in Seq(Tells)
      BY <2>1
    <3> QED
      BY <1>1, <2>1, <2>3, <3>1, <3>2
  <2>5. /\ WrittenAt(0)'
        /\ uimsg'[0] \in {<<"otastart">> \o <<c.type>>, <<"otadata">> \o <<c.type>>, <<c.type>>}
    <3>1. WrittenAt(0)
      BY <2>1 DEF Prompted, Written
    <3>2. flash'[0] = flash[0] /\ ui_dat_buf'[0] = c
      BY <1>1 DEF c
    <3> HIDE DEF s
    <3>3. <<c.type>> \in {<<>>, <<c.type>>}
      OBVIOUS
    <3> QED
      BY <1>1, <2>1, <2>3, <2>4, <3>1, <3>2, <3>3, WrittenServed DEF s
  <2>6. uimsg'[0] \in Queues(0)
    <3>1. c.type \in {"START", "DATA", "END"}
      BY <2>1 DEF Commands
    <3>2. /\ c.type = "START" => s.tell = <<"otastart">>
          /\ c.type = "DATA" => s.tell \in {<<>>, <<"otadata">>}
          /\ c.type = "END" => s.tell = <<>>
      BY <2>1, ServiceResult DEF IInv
    <3> HIDE DEF s
    <3>3. \A x, y \in Tells : <<x>> \o <<y>> = <<x, y>>
      BY TwoTells
    <3>4. \A x \in Tells : <<>> \o <<x>> = <<x>>
      OBVIOUS
    <3> QED
      BY <2>4, <3>1, <3>2, <3>3, <3>4 DEF Queues, Tells
  <2>7. ASSUME NEW n \in Nodes, n # 0
        PROVE  WrittenAt(n)' /\ uimsg'[n] \in Queues(n)
    <3>1. WrittenAt(n) /\ uimsg[n] \in Queues(n)
      BY DEF Prompted, Written, OneAtATime
    <3> QED
      BY <1>1, <2>3, <2>7, <3>1, WrittenUntouched
  <2>8. OneAtATime'
    BY <1>1, <2>6, <2>7 DEF OneAtATime, Queues
  <2>9. AreaKept'
    BY <1>1 DEF Prompted, AreaKept
  <2> QED
    BY <2>5, <2>7, <2>8, <2>9 DEF Prompted, Written
<1> QED
  BY <1>2, <1>3

LEMMA ServePrompted ==
  ASSUME Prompt, IInv, Prompted, NEW n \in TNs, Serve(n)
  PROVE  Prompted'
<1> DEFINE c == Head(calls[n])
           s == Service(n, c)
<1>1. /\ c \in Commands /\ uimsg[n] = <<>>
      /\ Becomes(n, s, s.tell)
      /\ ui_dat_buf' = IF Keeps(n, c) THEN [ui_dat_buf EXCEPT ![n] = c] ELSE ui_dat_buf
      /\ UNCHANGED <<atbui_cmd, flash>>
  BY DEF Serve, Done, IInv, TypeOK, slot
<1>2. n \in Nodes /\ n # 0 /\ 0 \in Nodes
  BY OtaAssumption DEF Nodes
<1> HIDE DEF c
<1>3. s.tell \in Seq(Tells) /\ s.tell \in {<<>>, <<"otastart">>, <<"otadata">>}
  BY <1>1, <1>2, ServiceResult DEF IInv, Commands
<1>4. /\ ota_flag'[n] = s.flag /\ ota_data_sn'[n] = s.sn
      /\ uimsg'[n] = uimsg[n] \o s.tell
      /\ \A m \in Nodes \ {n} : /\ ota_flag'[m] = ota_flag[m]
                                /\ ota_data_sn'[m] = ota_data_sn[m]
                                /\ uimsg'[m] = uimsg[m]
  BY <1>1, <1>2, <1>3, BecomesOnly DEF IInv
<1>5. uimsg'[n] = s.tell /\ s.tell = s.tell \o <<>>
  BY <1>1, <1>3, <1>4
<1>6. WrittenAt(n)'
  <2>1. WrittenAt(n)
    BY <1>2 DEF Prompted, Written
  <2>2. c.type = "DATA" /\ ota_flag[n] => ui_dat_buf'[n] = c
    BY <1>1, <1>2 DEF Keeps, IInv, TypeOK
  <2> DEFINE rest == <<>>
  <2>3. rest \in {<<>>, <<c.type>>} /\ uimsg'[n] = s.tell \o rest /\ flash'[n] = flash[n]
    BY <1>1, <1>5
  <2> HIDE DEF s, rest
  <2> QED
    BY <1>1, <1>2, <1>4, <2>1, <2>2, <2>3, WrittenServed DEF s
<1>7. ASSUME NEW m \in Nodes, m # n
      PROVE  WrittenAt(m)' /\ uimsg'[m] \in Queues(m)
  <2>1. WrittenAt(m) /\ uimsg[m] \in Queues(m)
    BY DEF Prompted, Written, OneAtATime
  <2>2. ui_dat_buf'[m] = ui_dat_buf[m]
    BY <1>1, <1>7 DEF IInv, TypeOK
  <2> QED
    BY <1>1, <1>4, <1>7, <2>1, <2>2, WrittenUntouched
<1>8. OneAtATime'
  <2>1. uimsg'[n] \in Queues(n)
    BY <1>2, <1>3, <1>5 DEF Queues
  <2>2. uimsg'[0] = uimsg[0]
    BY <1>2, <1>4
  <2> QED
    BY <1>1, <1>7, <2>1, <2>2 DEF Prompted, OneAtATime, Queues
<1>9. AreaKept'
  BY <1>1 DEF Prompted, AreaKept
<1> QED
  BY <1>6, <1>7, <1>8, <1>9 DEF Prompted, Written

\* The UI thread takes the first of what it is told.
LEMMA QueueTail ==
  ASSUME NEW n \in Nodes, uimsg[n] \in Queues(n), uimsg[n] # <<>>
  PROVE  /\ Tail(uimsg[n]) \in Queues(n)
         /\ Tail(uimsg[n]) # <<>> => Head(Tail(uimsg[n])) \notin {"otastart", "otadata"}
         /\ Head(uimsg[n]) \in Tells
<1>1. ASSUME NEW x \in Tells
      PROVE  Head(<<x>>) = x /\ Tail(<<x>>) = <<>>
  OBVIOUS
<1>2. ASSUME NEW x \in Tells, NEW y \in Tells
      PROVE  Head(<<x, y>>) = x /\ Tail(<<x, y>>) = <<y>> /\ <<y>> # <<>>
  OBVIOUS
<1>3. CASE n = 0
  <2>1. uimsg[n] \in {<<"otastart", "START">>, <<"START">>, <<"otadata", "DATA">>,
                       <<"DATA">>, <<"END">>}
    BY <1>3 DEF Queues
  <2>2. Tail(uimsg[n]) \in {<<>>, <<"START">>, <<"DATA">>} /\ Head(uimsg[n]) \in Tells
    BY <1>1, <1>2, <2>1 DEF Tells
  <2>3. Tail(uimsg[n]) # <<>> => Head(Tail(uimsg[n])) \notin {"otastart", "otadata"}
    BY <1>1, <2>2 DEF Tells
  <2> QED
    BY <1>3, <2>2, <2>3 DEF Queues
<1>4. CASE n # 0
  <2>1. uimsg[n] \in {<<"otastart">>, <<"otadata">>}
    BY <1>4 DEF Queues
  <2>2. Tail(uimsg[n]) = <<>> /\ Head(uimsg[n]) \in Tells
    BY <1>1, <2>1 DEF Tells
  <2> QED
    BY <1>4, <2>2 DEF Queues
<1> QED
  BY <1>3, <1>4

LEMMA UimsgProcPrompted ==
  ASSUME IInv, Prompted, NEW n \in Nodes, UimsgProc(n)
  PROVE  Prompted'
<1>0. /\ TypeOK /\ WrittenAt(n) /\ 0 \in Nodes
      /\ flash[n] \in [-1..Blocks -> Area \cup {Erased, Garbage}]
      /\ ota_data_sn[n] \in 0..(Blocks + 1)
  BY DEF IInv, TypeOK, Prompted, Written, Nodes
<1>1. /\ uimsg[n] # <<>> /\ uimsg' = [uimsg EXCEPT ![n] = Tail(uimsg[n])]
      /\ UNCHANGED <<atbui_cmd, ui_dat_buf, ota_flag, ota_data_sn>>
  BY DEF UimsgProc, slot
<1>2. /\ uimsg'[n] = Tail(uimsg[n])
      /\ \A m \in Nodes \ {n} : uimsg'[m] = uimsg[m]
  BY <1>0, <1>1 DEF TypeOK
<1>3. /\ uimsg'[n] \in Queues(n)
      /\ ~Told(n, "otastart")' /\ ~Told(n, "otadata")'
  BY <1>1, <1>2, QueueTail DEF Prompted, OneAtATime, Told
<1>4. OneAtATime'
  BY <1>0, <1>1, <1>2, <1>3 DEF Prompted, OneAtATime, Queues
<1> DEFINE Right == /\ WrittenAt(n)'
                    /\ flash'[n][-1] = Erased /\ flash'[n][0] = Erased
                    /\ \A m \in Nodes \ {n} : flash'[m] = flash[m]
<1>5. ASSUME Head(uimsg[n]) = "otastart"
      PROVE  Right
  <2>1. flash' = [flash EXCEPT ![n] = Erase(flash[n])]
    BY <1>5 DEF UimsgProc, IInv, TypeOK
  <2>2. Told(n, "otastart") /\ ~Told(n, "otadata")
    BY <1>1, <1>5 DEF Told
  <2>3. n = 0 => atbui_cmd = "NONE"
    BY <1>1 DEF Prompted, OneAtATime
  <2>4. WrittenAt(n)'
    BY <1>0, <1>1, <1>3, <2>2, <2>3 DEF WrittenAt
  <2>5. Erase(flash[n])[-1] = flash[n][-1] /\ Erase(flash[n])[0] = flash[n][0]
    BY <1>0, EraseType DEF Area
  <2>6. flash'[n][-1] = Erased /\ flash'[n][0] = Erased
    BY <1>0, <2>1, <2>5 DEF Prompted, AreaKept, TypeOK
  <2>7. \A m \in Nodes \ {n} : flash'[m] = flash[m]
    BY <1>0, <2>1 DEF TypeOK
  <2> QED
    BY <2>4, <2>6, <2>7
<1>6. ASSUME Head(uimsg[n]) = "otadata"
      PROVE  Right
  <2> DEFINE k == ota_data_sn[n] - 1
  <2>1. /\ ota_flag[n] /\ ui_dat_buf[n].type = "DATA" /\ ui_dat_buf[n].sn = k
        /\ k \in Area /\ Holds(n, ota_data_sn[n] - 2)
    BY <1>0, <1>1, <1>6 DEF WrittenAt, Told
  <2>2. Content(n) = k /\ Offset(n) = k
    BY <2>1 DEF Content, Offset
  <2>3. flash' = [flash EXCEPT ![n][k] = k]
    BY <1>6, <2>2 DEF UimsgProc, IInv, TypeOK
  <2> HIDE DEF k
  <2>4. k \in -1..Blocks /\ k # -1 /\ k # 0
    BY <2>1 DEF Area
  <2>5. /\ flash'[n][k] = k
        /\ \A i \in (-1..Blocks) \ {k} : flash'[n][i] = flash[n][i]
        /\ \A m \in Nodes \ {n} : flash'[m] = flash[m]
    BY <1>0, <2>3, <2>4 DEF TypeOK
  <2>6. ASSUME NEW i \in 1..k
        PROVE  flash'[n][i] = i
    <3>1. CASE i = k
      BY <2>5, <3>1
    <3>2. CASE i # k
      <4>1. i \in 1..(ota_data_sn[n] - 2) /\ i \in (-1..Blocks) \ {k}
        BY <1>0, <2>1, <3>2 DEF k, Area
      <4> QED
        BY <2>1, <2>5, <4>1 DEF Holds
    <3> QED
      BY <3>1, <3>2
  <2>7. Holds(n, ota_data_sn[n] - 1)'
    BY <1>1, <2>6 DEF Holds, k
  <2>8. WrittenAt(n)'
    BY <1>3, <2>7 DEF WrittenAt
  <2>9. flash'[n][-1] = Erased /\ flash'[n][0] = Erased
    BY <1>0, <2>4, <2>5 DEF Prompted, AreaKept
  <2> QED
    BY <2>5, <2>8, <2>9
<1>7. ASSUME Head(uimsg[n]) \notin {"otastart", "otadata"}
      PROVE  Right
  <2>1. flash' = flash
    BY <1>7 DEF UimsgProc
  <2>2. ~Told(n, "otastart") /\ ~Told(n, "otadata")
    BY <1>7 DEF Told
  <2>3. ota_flag[n] /\ (n = 0 => atbui_cmd # "START") =>
          ota_data_sn[n] = 1 \/ Holds(n, ota_data_sn[n] - 1)
    BY <1>0, <2>2 DEF WrittenAt
  <2>4. WrittenAt(n)'
    BY <1>1, <1>3, <2>1, <2>3 DEF WrittenAt, Holds
  <2> QED
    BY <2>1, <2>4 DEF Prompted, AreaKept
<1>8. Right
  BY <1>5, <1>6, <1>7
<1>9. Written'
  <2> SUFFICES ASSUME NEW m \in Nodes, m # n PROVE WrittenAt(m)'
    BY <1>8 DEF Written
  <2> QED
    BY <1>1, <1>2, <1>8, WrittenUntouched DEF Prompted, Written
<1>10. AreaKept'
  BY <1>8 DEF Prompted, AreaKept
<1> QED
  BY <1>4, <1>9, <1>10 DEF Prompted

LEMMA RebootPrompted ==
  ASSUME Prompt, IInv, Prompted, NEW n \in Nodes, Reboot(n)
  PROVE  Prompted'
<1>0. TypeOK /\ 0 \in Nodes
  BY DEF IInv, Nodes
<1>1. /\ ui_dat_buf' = [ui_dat_buf EXCEPT ![n] = None]
      /\ ota_flag' = [ota_flag EXCEPT ![n] = FALSE]
      /\ ota_data_sn' = [ota_data_sn EXCEPT ![n] = 0]
      /\ uimsg' = [uimsg EXCEPT ![n] = <<>>]
      /\ uimsg[n] = <<>> /\ flash' = flash
      /\ n # 0 => atbui_cmd' = atbui_cmd
  BY DEF Reboot, Done, slot
<1>2. /\ uimsg'[n] = <<>> /\ ~ota_flag'[n]
      /\ \A m \in Nodes \ {n} : /\ ota_flag'[m] = ota_flag[m] /\ uimsg'[m] = uimsg[m]
                                /\ ota_data_sn'[m] = ota_data_sn[m]
                                /\ ui_dat_buf'[m] = ui_dat_buf[m]
  BY <1>0, <1>1 DEF TypeOK
<1>3. OneAtATime'
  <2>1. <<>> \in Queues(n)
    BY DEF Queues
  <2>2. atbui_cmd' # "NONE" => uimsg'[0] = <<>>
    BY <1>0, <1>1, <1>2 DEF Prompted, OneAtATime
  <2> QED
    BY <1>2, <2>1, <2>2 DEF Prompted, OneAtATime, Queues
<1>4. ASSUME NEW m \in Nodes
      PROVE  WrittenAt(m)'
  <2>1. CASE m = n
    BY <1>2, <2>1 DEF WrittenAt, Told
  <2>2. CASE m # n
    BY <1>1, <1>2, <2>2, WrittenUntouched DEF Prompted, Written
  <2> QED
    BY <2>1, <2>2
<1>5. AreaKept'
  BY <1>1 DEF Prompted, AreaKept
<1> QED
  BY <1>3, <1>4, <1>5 DEF Prompted, Written

\* If the UI thread is prompt, what it still has to write is at hand.
THEOREM PromptInvariant == ASSUME Prompt PROVE Spec => []Prompted
<1>1. IInv /\ Prompted /\ [Next]_vars => Prompted'
  <2> SUFFICES ASSUME IInv, Prompted, [Next]_vars PROVE Prompted'
    OBVIOUS
  <2>1. CASE BreakOff
    BY <2>1, QuietPrompted DEF BreakOff, slot, node
  <2>2. ASSUME NEW c \in ToSend, AtbUiParse(c) PROVE Prompted'
    BY <2>2, AtbUiParsePrompted
  <2>3. CASE SysTimerTick
    BY <2>3, SysTimerTickPrompted
  <2>4. ASSUME NEW n \in TNs, Serve(n) PROVE Prompted'
    BY <2>4, ServePrompted
  <2>5. ASSUME NEW n \in TNs, Lose(n) PROVE Prompted'
    BY <2>5, QuietPrompted DEF Lose, slot, node
  <2>6. ASSUME NEW n \in Nodes, UimsgProc(n) PROVE Prompted'
    BY <2>6, UimsgProcPrompted
  <2>7. ASSUME NEW n \in Nodes, Reboot(n) PROVE Prompted'
    BY <2>7, RebootPrompted
  <2>8. CASE UNCHANGED vars
    BY <2>8, QuietPrompted DEF vars, slot, node
  <2> QED
    BY <2>1, <2>2, <2>3, <2>4, <2>5, <2>6, <2>7, <2>8 DEF Next
<1> QED
  BY <1>1, InitPrompted, UpdateInvariant, PTL DEF Spec

(***************************************************************************)
(* A node that takes part has every block up to its number in its flash,   *)
(* in order, whatever was lost or broken off, once a UI thread that is     *)
(* prompt has written what it was told ("tell the UI thread to write the   *)
(* flash", sysres.c:2718).                                                 *)
(***************************************************************************)
THEOREM PromptFlashIsImage == ASSUME Prompt PROVE Spec => []FlashIsImage
<1>1. IInv /\ Prompted => FlashIsImage
  <2> SUFFICES ASSUME IInv, Prompted, NEW n \in Nodes, ota_flag[n], Settled(n),
                      NEW i \in 1..(ota_data_sn[n] - 1)
               PROVE  flash[n][i] = i
    BY DEF FlashIsImage
  <2>1. WrittenAt(n) /\ ~Told(n, "otadata") /\ ota_data_sn[n] \in Int
    BY DEF Prompted, Written, Settled, Told, IInv, TypeOK
  <2>2. ota_data_sn[n] = 1 \/ Holds(n, ota_data_sn[n] - 1)
    BY <2>1 DEF WrittenAt, Settled
  <2> QED
    BY <2>1, <2>2 DEF Holds
<1> QED
  BY <1>1, UpdateInvariant, PromptInvariant, PTL

\* No block is written before the area for updates (atbui.h:257), if the UI thread is prompt.
THEOREM PromptAreaKept == ASSUME Prompt PROVE Spec => []AreaKept
<1>1. Prompted => AreaKept
  BY DEF Prompted
<1> QED
  BY <1>1, PromptInvariant, PTL
=============================================================================
