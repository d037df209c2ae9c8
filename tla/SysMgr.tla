------------------------------- MODULE SysMgr -------------------------------
(***************************************************************************)
(* Control messages between sysm and the modem (sysm/sysmgr.c) and the     *)
(* start of the node, which is made of them (sysm/sysent.c): set mac, set  *)
(* parameters, start the network, each sent by the callback of the one     *)
(* before.  A request is registered with a timer; an answer names only the *)
(* type of its request and goes to the oldest one that is registered.      *)
(*                                                                         *)
(* Requests are numbered in the order in which they are sent.  The list of *)
(* registered ones grows at its end and is searched from its head, so that *)
(* it is a set of numbers, searched from the least.  The modem is outside  *)
(* src/: it takes messages in order and answers them, late or not at all.  *)
(***************************************************************************)
EXTENDS Order, Sequences

CONSTANTS MaxThis,    \* bound: "this" commands on the terminal
          MaxOther,   \* bound: reports, and messages without a callback
          MaxFault    \* bound: sends that fail, rejections, missing answers

ASSUME SysMgrAssumption ==
  MaxThis \in Nat /\ MaxOther \in Nat /\ MaxFault \in Nat

VARIABLES
  started,      \* whether the node has been started
  sent,         \* requests with a callback so far
  type,         \* the type of each
  sysm_head,    \* those that are registered
  timers,       \* those whose timer runs
  told,         \* what the callback of each was called with, over time
  toModem,      \* /dpctrl, to the modem
  toSysm,       \* /dpctrl, from the modem
  accepted,     \* what the modem has accepted
  thises, others, faults  \* what the bounds count

list == <<sent, type, sysm_head, timers, told>>
vars == <<started, list, toModem, toSysm, accepted, thises, others, faults>>

StartChain == <<"SET_MAC", "SET_PARAM", "STT_NETWORK">>
Types  == {"SET_MAC", "SET_PARAM", "STT_NETWORK", "GET_THIS"}
MaxReq == 3 + MaxThis
Reqs   == 1..MaxReq

\* A message; "of" is the request that it answers, which the program does not see.
Messages == [type : Types \cup {"OTHER"}, of : 0..MaxReq, ok : BOOLEAN]
Other    == [type |-> "OTHER", of |-> 0, ok |-> TRUE]

\* What a callback gets: an answer, or NULL.
TimeOut == [of |-> 0, ok |-> FALSE]
Replies == [of : 0..MaxReq, ok : BOOLEAN]

Init ==
  /\ started = FALSE
  /\ sent = 0 /\ type = [r \in Reqs |-> "NONE"]
  /\ sysm_head = {} /\ timers = {}
  /\ told = [r \in Reqs |-> <<>>]
  /\ toModem = <<>> /\ toSysm = <<>> /\ accepted = {}
  /\ thises = 0 /\ others = 0 /\ faults = 0

Fault == faults < MaxFault /\ faults' = faults + 1

-----------------------------------------------------------------------------
\* sysmgr_send with a callback, while "head" is registered and the timers "run".

\* Nothing is started for a request.
SendUntimed(t, head, run) ==
  /\ sent' = sent + 1
  /\ type' = [type EXCEPT ![sent + 1] = t]
  /\ toModem' = Append(toModem, [type |-> t, of |-> sent + 1, ok |-> TRUE])
  /\ sysm_head' = head \cup {sent + 1}
  /\ timers' = run

Send(t, head, run) ==
  /\ sent' = sent + 1
  /\ type' = [type EXCEPT ![sent + 1] = t]
  /\ toModem' = Append(toModem, [type |-> t, of |-> sent + 1, ok |-> TRUE])
  /\ sysm_head' = head \cup {sent + 1}
  /\ timers' = run \cup {sent + 1}

NothingSent(head, run) ==
  /\ sysm_head' = head /\ timers' = run
  /\ UNCHANGED <<sent, type, toModem>>

\* No memory, or the message cannot be written: what was made is freed again.
SysmgrSend(t, head, run) ==
  \/ Send(t, head, run) /\ UNCHANGED faults
  \/ NothingSent(head, run) /\ Fault

\* test_setmac_action, once in entry_sysmgr; the result of the send is not looked at.
SetMac ==
  /\ ~started
  /\ started' = TRUE
  /\ SysmgrSend("SET_MAC", sysm_head, timers)
  /\ UNCHANGED <<told, toSysm, accepted, thises, others>>

\* debug_cmd_this.
This ==
  /\ thises < MaxThis
  /\ thises' = thises + 1
  /\ SysmgrSend("GET_THIS", sysm_head, timers)
  /\ UNCHANGED <<started, told, toSysm, accepted, others>>

\* sysmgr_send without a callback (resmsg_proc, update_power_ratio, record_autbus_ctrl).
Tell ==
  /\ others < MaxOther
  /\ others' = others + 1
  /\ toModem' = Append(toModem, Other)
  /\ UNCHANGED <<started, list, toSysm, accepted, thises, faults>>

-----------------------------------------------------------------------------
\* The callbacks: what each sends when it is content with the reply.

FollowingUnchecked(t, reply) ==
  IF reply = TimeOut \/ t \notin {"SET_MAC", "SET_PARAM"} THEN {}
  ELSE IF t = "SET_MAC" THEN {"SET_PARAM"} ELSE {"STT_NETWORK"}

FollowingStops(t, reply) ==
  IF reply.ok /\ t = "SET_MAC" THEN {"SET_PARAM"} ELSE {}

\* test_setmac_cbk, test_setparam_cbk, test_sttnet_cbk, test_this_cbk.
Following(t, reply) ==
  IF ~reply.ok \/ t \notin {"SET_MAC", "SET_PARAM"} THEN {}
  ELSE IF t = "SET_MAC" THEN {"SET_PARAM"} ELSE {"STT_NETWORK"}

\* A request leaves the list, its callback is called, its timer no longer runs
\* (sysmgr_timer_cbk does not delete it: its memory is lost).
Callback(r, reply) ==
  /\ told' = [told EXCEPT ![r] = Append(@, reply)]
  /\ LET head == sysm_head \ {r}
         run  == timers \ {r}
         next == Following(type[r], reply)
     IN  \/ next = {} /\ NothingSent(head, run) /\ UNCHANGED faults
         \/ \E t \in next : SysmgrSend(t, head, run)

\* sysmgr_timer_cbk.
SysmgrTimerCbk(r) ==
  /\ r \in timers
  /\ Callback(r, TimeOut)
  /\ UNCHANGED <<started, toSysm, accepted, thises, others>>

\* The search from the wrong end.
RegisteredNewest(t) ==
  {r \in sysm_head : type[r] = t /\ \A q \in sysm_head : type[q] = t => q <= r}

\* list_for_every_entry: the oldest request of the type, if there is one.
Registered(t) ==
  {r \in sysm_head : type[r] = t /\ \A q \in sysm_head : type[q] = t => r <= q}

\* The timer of an answered request goes on.
ProcEventUntimed ==
  /\ toSysm # <<>>
  /\ toSysm' = Tail(toSysm)
  /\ \E r \in Registered(Head(toSysm).type) :
       told' = [told EXCEPT ![r] = Append(@, [of |-> Head(toSysm).of, ok |-> Head(toSysm).ok])]
         /\ sysm_head' = sysm_head \ {r}
  /\ UNCHANGED <<started, sent, type, timers, toModem, faults, accepted, thises, others>>

(***************************************************************************)
(* sysmgr_proc_event, for one message: reports go to test_dump_sysm, an    *)
(* answer that no request waits for is dropped.                            *)
(***************************************************************************)
ProcEvent ==
  /\ toSysm # <<>>
  /\ toSysm' = Tail(toSysm)
  /\ LET m == Head(toSysm)
     IN  \/ /\ Registered(m.type) = {}
            /\ UNCHANGED <<list, toModem, faults>>
         \/ \E r \in Registered(m.type) : Callback(r, [of |-> m.of, ok |-> m.ok])
  /\ UNCHANGED <<started, accepted, thises, others>>

-----------------------------------------------------------------------------
\* The modem, outside src/.

Answer(m) == toSysm' = Append(toSysm, m)

\* It takes the next message and accepts it, rejects it, or does not answer.
ModemTakes ==
  /\ toModem # <<>>
  /\ toModem' = Tail(toModem)
  /\ LET m == Head(toModem)
     IN  \/ /\ Answer(m)
            /\ accepted' = accepted \cup {m.type}
            /\ UNCHANGED faults
         \/ Fault /\ Answer([m EXCEPT !.ok = FALSE]) /\ UNCHANGED accepted
         \/ Fault /\ UNCHANGED <<toSysm, accepted>>
  /\ UNCHANGED <<started, list, thises, others>>

ModemReports ==
  /\ others < MaxOther
  /\ others' = others + 1
  /\ Answer(Other)
  /\ UNCHANGED <<started, list, toModem, accepted, thises, faults>>

-----------------------------------------------------------------------------

Next ==
  \/ SetMac \/ This \/ Tell
  \/ \E r \in Reqs : SysmgrTimerCbk(r)
  \/ ProcEvent
  \/ ModemTakes \/ ModemReports

Spec == Init /\ [][Next]_vars

\* sysm starts the node and reads what comes, timers expire, the modem goes on.
Fairness ==
  /\ WF_vars(SetMac) /\ WF_vars(ProcEvent) /\ WF_vars(ModemTakes)
  /\ \A r \in Reqs : WF_vars(SysmgrTimerCbk(r))

FairSpec == Spec /\ Fairness
-----------------------------------------------------------------------------

\* Everything has its type.
TypeOK ==
  /\ started \in BOOLEAN
  /\ sent \in 0..MaxReq /\ type \in [Reqs -> Types \cup {"NONE"}]
  /\ \A r \in Reqs : type[r] = "NONE" <=> r > sent
  /\ sysm_head \subseteq 1..sent /\ timers \subseteq 1..sent
  /\ told \in [Reqs -> Seq(Replies)]
  /\ toModem \in Seq(Messages) /\ toSysm \in Seq(Messages)
  /\ accepted \subseteq Types \cup {"OTHER"}
  /\ thises \in 0..MaxThis /\ others \in 0..MaxOther /\ faults \in 0..MaxFault

(***************************************************************************)
(* A request that waits has a timer, or it could wait for ever, and a      *)
(* timer belongs to a request that waits, or its callback would work on a  *)
(* freed one (sysmgr.c:36-56, 202-218).                                    *)
(***************************************************************************)
TimerPerRequest == timers = sysm_head

(***************************************************************************)
(* Answers name a type only, and still reach their own requests.  A        *)
(* request gets the answer to an earlier one only after one at least as    *)
(* early has given up, that to a later one only if an answer is missing.   *)
(***************************************************************************)
AnswersApart ==
  \A r \in Reqs : \A i \in 1..Len(told[r]) :
    LET q == told[r][i].of
    IN  q \notin {0, r} =>
          /\ type[q] = type[r]
          /\ q < r => \E p \in 1..q : type[p] = type[r] /\ told[p] = <<TimeOut>>
          /\ q > r => faults > 0

(***************************************************************************)
(* The modem gets each message of the start only after it has accepted the *)
(* ones before, whatever else is sent, rejected or late.                   *)
(***************************************************************************)
StartInOrder ==
  \A i \in 2..3 :
    (\E m \in 1..Len(toModem) : toModem[m].type = StartChain[i]) \/ StartChain[i] \in accepted
      => StartChain[i - 1] \in accepted

\* The promise of Calls, as the callbacks show it.
Status ==
  [r \in Reqs |->
     IF Len(told[r]) > 1 THEN "again"
     ELSE IF Len(told[r]) = 1 THEN IF told[r][1] = TimeOut THEN "expired" ELSE "answered"
     ELSE IF r \in 1..sent THEN "waits" ELSE "new"]

Promise == INSTANCE Calls WITH status <- Status

\* Each accepted request is called back once (sysmgr_send), and in the end it is.
CalledBackOnce == Promise!Spec

CalledBack == Promise!FairSpec

(***************************************************************************)
(* The node starts, if nothing goes wrong: there is no second attempt.     *)
(***************************************************************************)
Undisturbed == faults = 0 /\ \A r \in Reqs : <<TimeOut>> # told[r]

NodeStarts == <>("STT_NETWORK" \in accepted \/ ~Undisturbed)
=============================================================================
