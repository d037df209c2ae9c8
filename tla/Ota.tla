-------------------------------- MODULE Ota --------------------------------
(***************************************************************************)
(* The firmware update (atbui.c, sysm/sysent.c, sysm/sysres.c, tmux.c).    *)
(* The host program sends the CN the list of the nodes to update, the      *)
(* blocks and an end, one at a time, and waits for a reply.  On the CN     *)
(*   the UI thread (tty_mux) puts each into the one command slot,          *)
(*   sysm takes it every 50 ms, handles it for the CN itself, broadcasts   *)
(*   it to the TNs without repetition and asks for the reply.              *)
(* On every node sysm checks the serial numbers and tells the UI thread to *)
(* erase or to write the flash; the UI thread takes the block and its      *)
(* number from what sysm has in memory by then.                            *)
(*                                                                         *)
(* A handler runs without interruption here, and the host sends nothing    *)
(* but the update.  A block is its number.                                 *)
(***************************************************************************)
EXTENDS Integers, Sequences, FiniteSets

CONSTANTS TNs,         \* the TNs; the CN is 0
          Blocks,      \* blocks of the image
          MaxStart,    \* bound: how often the host starts
          MaxLoss,     \* bound: broadcasts that do not arrive
          Prompt       \* whether the UI thread is done before the next command

ASSUME OtaAssumption ==
  /\ 0 \notin TNs
  /\ Blocks \in Nat \ {0} /\ MaxStart \in Nat /\ MaxLoss \in Nat
  /\ Prompt \in BOOLEAN

VARIABLES
  host,           \* the host: what it sends next, whether it waits for a reply
  atbui_cmd,      \* CN: the command slot
  ota_reply_cmd,  \* CN: the command that the host waits for
  ui_dat_buf,     \* per node: the list or the block received last
  ota_flag,       \* per node: takes part in the update
  ota_data_sn,    \* per node: the number of the next block
  reboot_delay,   \* per node: the update is done, a reboot is due
  uimsg,          \* per node: what sysm tells the UI thread
  flash,          \* per node: the update area, and the two blocks before it
  calls,          \* per TN: broadcasts on the way
  starts, losses  \* what the bounds count

node == <<ui_dat_buf, ota_flag, ota_data_sn, reboot_delay, uimsg>>
slot == <<atbui_cmd, ota_reply_cmd>>
vars == <<host, slot, node, flash, calls, starts, losses>>

Nodes   == TNs \cup {0}
Area    == 1..Blocks
Erased  == 0
Garbage == -1

\* A command and what comes with it: the list, or the number of the block.
Commands ==
  [type : {"START"}, list : SUBSET Nodes \ {{}}]
    \cup [type : {"DATA"}, sn : Area] \cup [type : {"END"}]
None == [type |-> "NONE"]

Init ==
  /\ host = [next |-> 0, waits |-> FALSE]
  /\ atbui_cmd = "ZERO" /\ ota_reply_cmd = "NONE"
  /\ ui_dat_buf = [n \in Nodes |-> None]
  /\ ota_flag = [n \in Nodes |-> FALSE]
  /\ ota_data_sn = [n \in Nodes |-> 0]
  /\ reboot_delay = [n \in Nodes |-> FALSE]
  /\ uimsg = [n \in Nodes |-> <<>>]
  /\ flash = [n \in Nodes |-> [i \in -1..Blocks |-> Erased]]
  /\ calls = [n \in TNs |-> <<>>]
  /\ starts = 0 /\ losses = 0

-----------------------------------------------------------------------------
(* The host program, outside src/: it starts, sends the blocks in order and *)
(* an end, and may break off and start again.                               *)

ToSend == {c \in Commands : CASE host.next = 0 -> c.type = "START"
                              [] host.next \in Area -> c.type = "DATA" /\ c.sn = host.next
                              [] OTHER -> c.type = "END"}

BreakOff ==
  /\ starts < MaxStart
  /\ host.next # 0
  /\ Prompt => ~host.waits \/ (atbui_cmd = "NONE" /\ uimsg[0] = <<>>)
  /\ host' = [next |-> 0, waits |-> FALSE]
  /\ UNCHANGED <<slot, node, flash, calls, starts, losses>>

\* A reply: the host goes on, after the end from the start.
Replied == IF host.waits
           THEN host' = [next |-> (host.next + 1) % (Blocks + 2), waits |-> FALSE]
           ELSE UNCHANGED host

-----------------------------------------------------------------------------
\* Erasing the update area.
Erase(f) == [i \in DOMAIN f |-> IF i \in Area THEN Erased ELSE f[i]]

\* The UI thread has nothing left to do, where that is assumed.
Done(n) == Prompt => uimsg[n] = <<>>

(***************************************************************************)
(* atb_ui_parse: a command goes into the slot if that is free, and is      *)
(* dropped otherwise; a start erases the area at once.                     *)
(***************************************************************************)
AtbUiParse(c) ==
  /\ ~host.waits /\ Done(0)
  /\ atbui_cmd = "NONE"
  /\ atbui_cmd' = c.type /\ ota_reply_cmd' = c.type
  /\ ui_dat_buf' = [ui_dat_buf EXCEPT ![0] = c]
  /\ host' = [host EXCEPT !.waits = TRUE]
  /\ \/ /\ c.type = "START" /\ starts < MaxStart
        /\ starts' = starts + 1
        /\ flash' = [flash EXCEPT ![0] = Erase(@)]
     \/ /\ c.type # "START"
        /\ UNCHANGED <<flash, starts>>
  /\ UNCHANGED <<ota_flag, ota_data_sn, reboot_delay, uimsg, calls, losses>>

-----------------------------------------------------------------------------
(* The services of a node, for the CN's own command and for a broadcast.    *)
(* They yield the flag, the number, whether a reboot is due and what the UI *)
(* thread is told.                                                          *)

At(n) == [flag |-> ota_flag[n], sn |-> ota_data_sn[n], reboot |-> reboot_delay[n], tell |-> <<>>]

\* Only listed nodes start from the first block.
OtaStartListed(n, c) ==
  IF n \in c.list THEN [At(n) EXCEPT !.flag = TRUE, !.sn = 1, !.tell = <<"otastart">>]
  ELSE [At(n) EXCEPT !.tell = <<"otastart">>]

\* sysres_srv_ota_start: a node that is not listed keeps its flag.
OtaStart(n, c) ==
  [At(n) EXCEPT !.flag = @ \/ n \in c.list, !.sn = 1, !.tell = <<"otastart">>]

\* A block that is ahead is taken; a block is announced before its number is checked.
OtaDataAhead(n, c) ==
  IF ~ota_flag[n] THEN At(n)
  ELSE IF c.sn < ota_data_sn[n] THEN [At(n) EXCEPT !.flag = FALSE, !.sn = 0]
  ELSE [At(n) EXCEPT !.sn = @ + 1, !.tell = <<"otadata">>]

OtaDataTellsFirst(n, c) ==
  IF ~ota_flag[n] THEN At(n)
  ELSE IF c.sn # ota_data_sn[n] THEN [At(n) EXCEPT !.flag = FALSE, !.sn = 0, !.tell = <<"otadata">>]
  ELSE [At(n) EXCEPT !.sn = @ + 1, !.tell = <<"otadata">>]

\* sysres_srv_ota_data: a wrong number ends the update.
OtaData(n, c) ==
  IF ~ota_flag[n] THEN At(n)
  ELSE IF c.sn # ota_data_sn[n] THEN [At(n) EXCEPT !.flag = FALSE, !.sn = 0]
  ELSE [At(n) EXCEPT !.sn = @ + 1, !.tell = <<"otadata">>]

\* sysres_srv_ota_end.
OtaEnd(n) == IF ota_flag[n] THEN [At(n) EXCEPT !.reboot = TRUE] ELSE At(n)

Service(n, c) ==
  IF c.type = "START" THEN OtaStart(n, c)
  ELSE IF c.type = "DATA" THEN OtaData(n, c) ELSE OtaEnd(n)

\* Only a node that takes part copies a block into its buffer.
Keeps(n, c) == c.type = "DATA" /\ ota_flag[n]

Becomes(n, s, tell) ==
  /\ ota_flag' = [ota_flag EXCEPT ![n] = s.flag]
  /\ ota_data_sn' = [ota_data_sn EXCEPT ![n] = s.sn]
  /\ reboot_delay' = [reboot_delay EXCEPT ![n] = s.reboot]
  /\ uimsg' = [uimsg EXCEPT ![n] = @ \o tell]

\* rpc_ota_start, rpc_ota_data, rpc_ota_end: one call for all, not repeated.
Broadcast(c) == calls' = [n \in TNs |-> Append(calls[n], c)]

\* A CN that takes no part in the update does not reply.
SysTimerTickListed ==
  /\ atbui_cmd # "NONE"
  /\ LET c == ui_dat_buf[0]
         s == Service(0, c)
     IN  /\ IF ota_flag[0] \/ c.type = "START"
            THEN Becomes(0, s, Append(s.tell, atbui_cmd))
            ELSE UNCHANGED <<ota_flag, ota_data_sn, reboot_delay, uimsg>>
         /\ Broadcast(c)
  /\ atbui_cmd' = "NONE"
  /\ UNCHANGED <<host, ota_reply_cmd, ui_dat_buf, flash, starts, losses>>

(***************************************************************************)
(* sys_timer_tick on the CN: the CN itself, the broadcast, the reply, a    *)
(* free slot.  The slot holds 0 at first, which is not E_UI_CMD_NONE.      *)
(***************************************************************************)
SysTimerTick ==
  /\ atbui_cmd # "NONE"
  /\ IF atbui_cmd = "ZERO" THEN UNCHANGED <<ota_flag, ota_data_sn, reboot_delay, uimsg, calls>>
     ELSE LET c == ui_dat_buf[0]
              s == Service(0, c)
          IN  Becomes(0, s, Append(s.tell, atbui_cmd)) /\ Broadcast(c)
  /\ atbui_cmd' = "NONE"
  /\ UNCHANGED <<host, ota_reply_cmd, ui_dat_buf, flash, starts, losses>>

\* rpc_proc_input on a TN.
Serve(n) ==
  /\ calls[n] # <<>> /\ Done(n)
  /\ LET c == Head(calls[n])
         s == Service(n, c)
     IN  /\ Becomes(n, s, s.tell)
         /\ ui_dat_buf' = IF Keeps(n, c) THEN [ui_dat_buf EXCEPT ![n] = c] ELSE ui_dat_buf
  /\ calls' = [calls EXCEPT ![n] = Tail(@)]
  /\ UNCHANGED <<host, slot, flash, starts, losses>>

\* A broadcast does not arrive at a node.
Lose(n) ==
  /\ calls[n] # <<>> /\ losses < MaxLoss
  /\ calls' = [calls EXCEPT ![n] = Tail(@)]
  /\ losses' = losses + 1
  /\ UNCHANGED <<host, slot, node, flash, starts>>

-----------------------------------------------------------------------------
\* Where "otadata" writes: block sn - 2 of the area, counted from 0.
Offset(n) == ota_data_sn[n] - 1

\* What it writes; the CN has one buffer for blocks and lists.
Content(n) == IF ui_dat_buf[n].type = "DATA" THEN ui_dat_buf[n].sn ELSE Garbage

\* uimsg_proc; a reply that is not for the last command is not sent.
UimsgProc(n) ==
  /\ uimsg[n] # <<>>
  /\ uimsg' = [uimsg EXCEPT ![n] = Tail(@)]
  /\ \/ /\ Head(uimsg[n]) = "otastart"
        /\ flash' = [flash EXCEPT ![n] = Erase(@)]
        /\ UNCHANGED host
     \/ /\ Head(uimsg[n]) = "otadata"
        /\ flash' = [flash EXCEPT ![n][Offset(n)] = Content(n)]
        /\ UNCHANGED host
     \/ /\ Head(uimsg[n]) = ota_reply_cmd
        /\ Replied
        /\ UNCHANGED flash
     \/ /\ Head(uimsg[n]) \notin {"otastart", "otadata", ota_reply_cmd}
        /\ UNCHANGED <<host, flash>>
  /\ UNCHANGED <<slot, ui_dat_buf, ota_flag, ota_data_sn, reboot_delay, calls, starts, losses>>

(***************************************************************************)
(* sys_timer_tick two or three seconds after the end: a reset.  The flash  *)
(* stays; the host notices that the CN is gone.                            *)
(***************************************************************************)
Reboot(n) ==
  /\ reboot_delay[n] /\ Done(n)
  /\ ui_dat_buf' = [ui_dat_buf EXCEPT ![n] = None]
  /\ ota_flag' = [ota_flag EXCEPT ![n] = FALSE]
  /\ ota_data_sn' = [ota_data_sn EXCEPT ![n] = 0]
  /\ reboot_delay' = [reboot_delay EXCEPT ![n] = FALSE]
  /\ uimsg' = [uimsg EXCEPT ![n] = <<>>]
  /\ calls' = [m \in TNs |-> IF m = n THEN <<>> ELSE calls[m]]
  /\ IF n = 0
     THEN /\ host' = [next |-> 0, waits |-> FALSE]
          /\ atbui_cmd' = "ZERO" /\ ota_reply_cmd' = "NONE"
     ELSE UNCHANGED <<host, slot>>
  /\ UNCHANGED <<flash, starts, losses>>

-----------------------------------------------------------------------------

Next ==
  \/ BreakOff
  \/ \E c \in ToSend : AtbUiParse(c)
  \/ SysTimerTick
  \/ \E n \in TNs : Serve(n) \/ Lose(n)
  \/ \E n \in Nodes : UimsgProc(n) \/ Reboot(n)

Spec == Init /\ [][Next]_vars

\* The timer of sysm goes on, the UI thread keeps reading, calls arrive or are lost.
Fairness ==
  /\ WF_vars(SysTimerTick)
  /\ \A n \in Nodes : WF_vars(UimsgProc(n))
  /\ \A n \in TNs : WF_vars(Serve(n))

FairSpec == Spec /\ Fairness

-----------------------------------------------------------------------------

\* Everything has its type.
TypeOK ==
  /\ host \in [next : 0..(Blocks + 1), waits : BOOLEAN]
  /\ atbui_cmd \in {"ZERO", "NONE", "START", "DATA", "END"}
  /\ ota_reply_cmd \in {"NONE", "START", "DATA", "END"}
  /\ ui_dat_buf \in [Nodes -> Commands \cup {None}]
  /\ ota_flag \in [Nodes -> BOOLEAN] /\ reboot_delay \in [Nodes -> BOOLEAN]
  /\ ota_data_sn \in [Nodes -> 0..(Blocks + 1)]
  /\ uimsg \in [Nodes -> Seq({"otastart", "otadata", "START", "DATA", "END"})]
  /\ flash \in [Nodes -> [-1..Blocks -> Area \cup {Erased, Garbage}]]
  /\ calls \in [TNs -> Seq(Commands)]
  /\ starts \in 0..MaxStart /\ losses \in 0..MaxLoss

(***************************************************************************)
(* A node that takes part in an update has every block up to its number in *)
(* its flash, in order, whatever was lost or broken off ("tell the UI      *)
(* thread to write the flash", sysres.c:2718): once the UI thread is done  *)
(* and no start, for which the CN has erased its area, is in the slot.     *)
(***************************************************************************)
Settled(n) == uimsg[n] = <<>> /\ (n = 0 => atbui_cmd # "START")

FlashIsImage ==
  \A n \in Nodes : ota_flag[n] /\ Settled(n) =>
    \A i \in 1..(ota_data_sn[n] - 1) : flash[n][i] = i

\* No block is written before the area for updates (atbui.h:257), where the program is.
AreaKept == \A n \in Nodes : flash[n][-1] = Erased /\ flash[n][0] = Erased

(***************************************************************************)
(* Nodes that take part wait for the same block once they have served all  *)
(* broadcasts, if none was lost, however often the host started.           *)
(***************************************************************************)
Served(n) == n = 0 \/ calls[n] = <<>>

InStep ==
  losses = 0 =>
    \A m, n \in Nodes : ota_flag[m] /\ ota_flag[n] /\ Served(m) /\ Served(n)
                         => ota_data_sn[m] = ota_data_sn[n]

\* The host gets a reply to each command, also if the CN is not to be updated.
HostAnswered == host.waits ~> ~host.waits

(***************************************************************************)
(* "Data serial number error, abort" (sysres.c:2713): a node that a block  *)
(* did not reach leaves the update.  So a node about to reboot into the    *)
(* new image ("ota finish, reboot", sysres.c:2749) has all of it.          *)
(***************************************************************************)
RebootsComplete ==
  \A n \in Nodes : reboot_delay[n] => \A i \in Area : flash[n][i] = i
=============================================================================
