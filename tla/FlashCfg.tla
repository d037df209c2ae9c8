------------------------------ MODULE FlashCfg ------------------------------
(***************************************************************************)
(* The configuration in flash (atbui.c:540-1010) and the thread that loads *)
(* it at the start (tty_mux): the bus parameters (atb), the resources      *)
(* (res), the reservation (pre) and the settings of devices (dev), each in *)
(* a sector of its own that is erased before it is written.                *)
(*                                                                         *)
(* The UI thread saves for the command line and for the CN's own host, and *)
(* sysm for the hosts of TNs.  Power may fail between any two operations   *)
(* on the flash and in the middle of a write.  Flash and driver are        *)
(* external.                                                               *)
(***************************************************************************)
EXTENDS Naturals, Sequences

CONSTANTS
  Devs,       \* what a host sets for the devices of this node
  Resources,  \* the resources [pos, len] that a host sets
  End,        \* 61: where the resources of mode 3 are cut
  Width,      \* 256: the range of len, a uint8_t
  MaxOps      \* bound: what hosts and the command line ask between two starts

ASSUME FlashCfgAssumption ==
  /\ End \in Nat /\ Width \in Nat \ {0}
  /\ Resources \subseteq [pos : Nat, len : 0..(Width - 1)]
  /\ MaxOps \in Nat

VARIABLES
  flash,      \* the content of each sector: nothing, or one value
  torn,       \* sectors of which only the first part was written
  todo,       \* what each thread still has to do
  up,         \* sysm has been started
  atb, res, dev, reserved,   \* atbcfg, resmgr, devcfg, pre_res.state
  setbuf,     \* dev_set_buf
  msgs,       \* messages to the UI thread that it holds settings
  ops,        \* what was asked since the start
  last,       \* history: what was saved since the sector was erased
  shared,     \* history: sectors that both threads were at
  given,      \* history: as what a host set the resource in memory and the one in flash
  since,      \* history: the reservation was saved after the parameters were saved or loaded
  mistaken    \* history: sectors whose content was not taken for what it was

Sectors == {"atb", "res", "pre", "dev"}
Threads == {"ui", "sysm"}

\* Of the parameters: msp is 3, dynband is 1.  A node without any has neither.
Params == [three : BOOLEAN, dynamic : BOOLEAN]
NoParams == [three |-> FALSE, dynamic |-> FALSE]
NoDevs == "default"

ram == <<atb, res, dev, reserved>>
history == <<last, shared, given, since, mistaken>>
cfgvars == <<flash, torn, todo, up, ram, setbuf, msgs, ops, history>>

Load(s)  == << <<"load", s>> >>
Erase(s) == << <<"erase", s>> >>
Save(s)  == << <<"erase", s>>, <<"write", s>> >>
SaveAtb  == Save("atb") \o << <<"drop", "atb">> >>

\* tty_mux
Boot == Load("dev") \o Load("pre") \o Load("atb") \o Load("res") \o << <<"start", "sysm">> >>
AtBoot == [t \in Threads |-> IF t = "ui" THEN Boot ELSE <<>>]

CfgInit ==
  /\ flash = [s \in Sectors |-> <<>>] /\ torn = {}
  /\ todo = AtBoot /\ up = FALSE
  /\ atb = NoParams /\ res = <<>> /\ dev = NoDevs /\ reserved = FALSE
  /\ setbuf = NoDevs /\ msgs = 0 /\ ops = 0
  /\ last = flash /\ shared = {} /\ since = FALSE /\ mistaken = {}
  /\ given = [memory |-> <<>>, flash |-> <<>>]

-----------------------------------------------------------------------------
(* What the operations do. *)

\* Mutant: every resource is shortened.
CutAlways(r) == atb.three

Cut(r) == atb.three /\ r.pos + r.len >= End

\* In mode 3 a resource that reaches the end of the frame is one symbol shorter.
Shorten(table) ==
  IF table # <<>> /\ Cut(table[1])
  THEN <<[table[1] EXCEPT !.len = (@ + Width - 1) % Width]>>
  ELSE table

\* What a write takes from memory; of the reservation only that there is one.
Memory(s) ==
  CASE s = "atb" -> <<atb>> [] s = "res" -> res [] s = "dev" -> <<dev>> [] s = "pre" -> <<"set">>

\* Mutant: the mark is at the beginning.
MarkedBeginning(s) == flash[s] # <<>>

\* The mark of parameters and devices is at their end, and that of the reservation behind
\* all that is used of it.
Marked(s) == flash[s] # <<>> /\ s \notin torn

Done(t) == todo' = [todo EXCEPT ![t] = Tail(@)]
Then(t, more) == todo' = [todo EXCEPT ![t] = more \o Tail(@)]

\* What is taken is what was saved since the sector was erased, or the default.
Taken(s, content, default) ==
  mistaken' = IF s \in shared \/ content = (IF last[s] = <<>> THEN default ELSE last[s][1])
              THEN mistaken ELSE mistaken \cup {s}

\* flash_load_devcfg: the default is saved and loaded again.
LoadDev(t) ==
  /\ dev' = IF Marked("dev") THEN flash["dev"][1] ELSE NoDevs
  /\ Taken("dev", dev', NoDevs)
  /\ IF Marked("dev") THEN Done(t) ELSE Then(t, Save("dev") \o Load("dev"))
  /\ UNCHANGED <<atb, res, reserved, given, since>>

LoadPre(t) ==
  /\ reserved' = Marked("pre")
  /\ Done(t)
  /\ UNCHANGED <<atb, res, dev, given, since, mistaken>>

\* Mutant: only a save looks after the reservation.
LoadAtbKeepsPre(t) ==
  /\ atb' = IF Marked("atb") THEN flash["atb"][1] ELSE NoParams
  /\ Taken("atb", atb', NoParams)
  /\ since' = FALSE
  /\ Done(t)
  /\ UNCHANGED <<res, dev, reserved, given>>

\* flash_load_atbcfg: dynamic bandwidth has no reservation.
LoadAtb(t) ==
  /\ atb' = IF Marked("atb") THEN flash["atb"][1] ELSE NoParams
  /\ Taken("atb", atb', NoParams)
  /\ since' = FALSE
  /\ IF atb'.dynamic THEN Then(t, Erase("pre")) ELSE Done(t)
  /\ UNCHANGED <<res, dev, reserved, given>>

\* flash_load_rescfg: the mark is the first entry, the part of a table passes for a table
\* in which the resource is configured or not.
LoadRes(t) ==
  /\ res' \in {Shorten(flash["res"])} \cup (IF "res" \in torn THEN {<<>>} ELSE {})
  /\ given' = [given EXCEPT !.memory = IF "res" \in shared THEN <<>> ELSE given.flash]
  /\ Done(t)
  /\ UNCHANGED <<atb, dev, reserved, since, mistaken>>

LoadStep(t, s) ==
  /\ \/ s = "dev" /\ LoadDev(t)
     \/ s = "pre" /\ LoadPre(t)
     \/ s = "atb" /\ LoadAtb(t)
     \/ s = "res" /\ LoadRes(t)
  /\ UNCHANGED <<flash, torn, up, last, shared>>

AtSector(t, s) == \E i \in 1..Len(todo[t]) : todo[t][i][2] = s

EraseStep(t, s) ==
  /\ flash' = [flash EXCEPT ![s] = <<>>]
  /\ torn' = torn \ {s}
  /\ last' = [last EXCEPT ![s] = <<>>]
  /\ shared' = IF \E u \in Threads \ {t} : AtSector(u, s) THEN shared \cup {s} ELSE shared \ {s}
  /\ Done(t)
  /\ UNCHANGED <<up, ram, given, since, mistaken>>

\* A write over what is not erased leaves bits of both: such a sector is shared.
WriteStep(t, s) ==
  /\ flash' = [flash EXCEPT ![s] = Memory(s)]
  /\ last' = [last EXCEPT ![s] = Memory(s)]
  /\ since' = IF s \in {"pre", "atb"} THEN s = "pre" ELSE since
  /\ given' = IF s = "res" THEN [given EXCEPT !.flash = given.memory] ELSE given
  /\ Done(t)
  /\ UNCHANGED <<torn, up, ram, shared, mistaken>>

\* The end of flash_save_atbcfg: dynamic bandwidth has neither reservation nor resources.
DropStep(t) ==
  /\ IF atb.dynamic THEN Then(t, Erase("pre") \o Erase("res")) ELSE Done(t)
  /\ UNCHANGED <<flash, torn, up, ram, history>>

\* debug_cmd_role, after it has loaded the parameters.
RoleStep(t, mode) ==
  /\ atb' = [atb EXCEPT !.three = (mode = "three")]
  /\ Then(t, SaveAtb)
  /\ UNCHANGED <<flash, torn, up, res, dev, reserved, history>>

StartStep(t) ==
  /\ up' = TRUE
  /\ Done(t)
  /\ UNCHANGED <<flash, torn, ram, history>>

Step(t) ==
  /\ todo[t] # <<>>
  /\ LET do == Head(todo[t])[1]
         s  == Head(todo[t])[2]
     IN \/ do = "load" /\ LoadStep(t, s)
        \/ do = "erase" /\ EraseStep(t, s)
        \/ do = "write" /\ WriteStep(t, s)
        \/ do = "drop" /\ DropStep(t)
        \/ do = "role" /\ RoleStep(t, s)
        \/ do = "start" /\ StartStep(t)
  /\ UNCHANGED <<setbuf, msgs, ops>>

-----------------------------------------------------------------------------
(* What makes a thread save. *)

Asked == up /\ ops < MaxOps /\ ops' = ops + 1

Begins(t, what) == todo[t] = <<>> /\ todo' = [todo EXCEPT ![t] = what]

\* SET_ATB_CFG of a host, at the CN in the UI thread, at a TN in sysm.
SetAtbCfg(t, params) ==
  /\ Asked
  /\ Begins(t, SaveAtb)
  /\ atb' = params
  /\ UNCHANGED <<flash, torn, up, res, dev, reserved, setbuf, msgs, history>>

\* SET_RES_CONFIG; flash_save_rescfg begins in memory.
SetResConfig(t, r) ==
  /\ Asked
  /\ Begins(t, Save("res"))
  /\ res' = Shorten(<<r>>)
  /\ given' = [given EXCEPT !.memory = <<r>>]
  /\ UNCHANGED <<flash, torn, up, atb, dev, reserved, setbuf, msgs, last, shared, since, mistaken>>

\* saveres
SaveRes ==
  /\ Asked
  /\ Begins("ui", Save("res"))
  /\ res' = Shorten(res)
  /\ UNCHANGED <<flash, torn, up, atb, dev, reserved, setbuf, msgs, history>>

\* role <mode>, role; setpre, clrpre
Command ==
  /\ Asked
  /\ \E what \in {Load("atb") \o << <<"role", mode>> >> : mode \in {"three", "plain"}}
                 \cup {Load("atb"), Save("pre"), Erase("pre")} : Begins("ui", what)
  /\ UNCHANGED <<flash, torn, up, ram, setbuf, msgs, history>>

\* sysres_srv_device_set leaves the settings to the UI thread, which takes what the buffer
\* holds by then (uimsg_proc, "svd").
DeviceSet(d) ==
  /\ Asked
  /\ todo["sysm"] = <<>>
  /\ setbuf' = d
  /\ msgs' = msgs + 1
  /\ UNCHANGED <<flash, torn, todo, up, ram, history>>

\* Mutant: what is in flash is loaded before the settings are saved.
UimsgProcLoadsFirst ==
  /\ up /\ msgs > 0
  /\ Begins("ui", Load("dev") \o Save("dev"))
  /\ dev' = setbuf
  /\ msgs' = msgs - 1
  /\ UNCHANGED <<flash, torn, up, atb, res, reserved, setbuf, ops, history>>

UimsgProc ==
  /\ up /\ msgs > 0
  /\ Begins("ui", Save("dev") \o Load("dev"))
  /\ dev' = setbuf
  /\ msgs' = msgs - 1
  /\ UNCHANGED <<flash, torn, up, atb, res, reserved, setbuf, ops, history>>

\* A write that was under way leaves the first part or nothing.
Writing == {s \in Sectors : \E t \in Threads : todo[t] # <<>> /\ Head(todo[t]) = <<"write", s>>}

PowerFails ==
  /\ \E part \in SUBSET {s \in Writing : Memory(s) # <<>>} :
       /\ flash' = [s \in Sectors |-> IF s \in part THEN Memory(s) ELSE flash[s]]
       /\ torn' = torn \cup part
       /\ given' = [memory |-> <<>>, flash |-> IF "res" \in part THEN given.memory ELSE given.flash]
  /\ todo' = AtBoot
  /\ up' = FALSE
  /\ atb' = NoParams /\ res' = <<>> /\ dev' = NoDevs /\ reserved' = FALSE
  /\ setbuf' = NoDevs /\ msgs' = 0 /\ ops' = 0
  /\ UNCHANGED <<last, shared, since, mistaken>>

CfgNext ==
  \/ \E t \in Threads :
       \/ Step(t)
       \/ \E params \in Params : SetAtbCfg(t, params)
       \/ \E r \in Resources : SetResConfig(t, r)
  \/ SaveRes \/ Command
  \/ \E d \in Devs : DeviceSet(d)
  \/ UimsgProc
  \/ PowerFails

CfgSpec == CfgInit /\ [][CfgNext]_cfgvars

-----------------------------------------------------------------------------
(* Properties *)

Entries == [pos : Nat, len : 0..(Width - 1)]
Values(s) ==
  CASE s = "atb" -> Params [] s = "res" -> Entries
    [] s = "dev" -> Devs \cup {NoDevs} [] s = "pre" -> {"set"}
AtMostOne(S) == {table \in Seq(S) : Len(table) <= 1}

Steps == ({"load", "erase", "write"} \X Sectors) \cup ({"role"} \X {"three", "plain"})
         \cup {<<"drop", "atb">>, <<"start", "sysm">>}

CfgTypeOK ==
  /\ \A f \in {flash, last} : f = [s \in Sectors |-> f[s]]
  /\ \A s \in Sectors : {flash[s], last[s]} \subseteq AtMostOne(Values(s))
  /\ torn \subseteq Sectors /\ shared \subseteq Sectors /\ mistaken \subseteq Sectors
  /\ todo \in [Threads -> Seq(Steps)] /\ up \in BOOLEAN
  /\ atb \in Params /\ res \in AtMostOne(Entries)
  /\ {dev, setbuf} \subseteq Devs \cup {NoDevs} /\ reserved \in BOOLEAN
  /\ msgs \in Nat /\ ops \in Nat
  /\ given \in [memory : AtMostOne(Entries), flash : AtMostOne(Entries)] /\ since \in BOOLEAN

Idle == up /\ \A t \in Threads : todo[t] = <<>>

\* flash_load_atbcfg, flash_load_devcfg: whenever power fails, what is taken from flash is
\* what was saved last, or the default if the last save did not come to its end, as long as
\* the two threads did not save at the same time.
TakenIsSaved == mistaken = {}

\* The resource is the one that was set, shortened only as far as it reaches over the end;
\* one that starts at the end or behind it is not meant.
KeepsLength(table, as) ==
  table # <<>> /\ as # <<>> =>
    /\ table[1].pos = as[1].pos
    /\ as[1].pos < End =>
         /\ table[1].len <= as[1].len
         /\ table[1].len < as[1].len => table[1].pos + table[1].len + 1 >= End

\* flash_save_rescfg, flash_load_rescfg: however often a table is saved and loaded, in
\* whatever mode and however many were set meanwhile, its resource is never shortened past
\* the end, as long as the two threads did not save at the same time.
LengthKept == KeepsLength(res, given.memory)

\* flash_save_atbcfg, flash_load_atbcfg: when the parameters in flash are those of dynamic
\* bandwidth the next start finds no reservation, unless it was saved afterwards, whatever
\* was cut off in between.
DynamicIsFree ==
  Idle /\ "atb" \notin shared /\ Marked("atb") /\ flash["atb"][1].dynamic =>
    ~Marked("pre") \/ since

\* sysres_srv_device_set, uimsg_proc: when all is done, what was set for the devices last
\* is in force and in flash, however many messages read the one buffer.
SettingKept ==
  Idle /\ msgs = 0 /\ setbuf # NoDevs => dev = setbuf /\ flash["dev"] = <<setbuf>>
=============================================================================
