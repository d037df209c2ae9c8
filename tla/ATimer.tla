------------------------------- MODULE ATimer -------------------------------
(***************************************************************************)
(* The timers of a thread (src/apps/atimer.c): a list ordered by the tick  *)
(* at which each is due, one hardware timer that is set for the head, and  *)
(* callbacks that may start, stop or delete any timer, their own included. *)
(* Each thread has a list of its own and is the only one to use it.        *)
(*                                                                         *)
(* The hardware timer is outside src/: a write sets it (0 turns it off), a *)
(* read returns the time, and when its tick has come the thread is woken   *)
(* by it once.                                                             *)
(***************************************************************************)
EXTENDS Order, Sequences

CONSTANTS Timers,    \* timers that the thread ever has
          None,
          Itvs,      \* first intervals that are asked for
          Irts,      \* repeat intervals, 0 for none
          MaxTime,   \* bound of the clock
          MaxTick    \* bound of the ticks that timers are started for

ASSUME ATimerAssumption ==
  /\ None \notin Timers
  /\ Itvs \subseteq Nat \ {0}
  /\ Irts \subseteq Nat
  /\ MaxTime \in Nat /\ MaxTick \in Nat

VARIABLES
  now,           \* the clock, in ticks
  tmr,           \* the timers that exist
  tq_list,       \* those that run, in the order of their ticks
  tq_nxt_tick,   \* what was written to the hardware timer last
  armed,         \* whether the hardware timer still runs
  ready,         \* whether it has a wake-up for the thread
  curr,          \* the time read by timer_queue_event, 0 while it does not run
  cbk            \* the timer whose callback runs

hardware == <<tq_nxt_tick, armed, ready>>
vars == <<now, tmr, tq_list, hardware, curr, cbk>>

Flags == {"CALLBK", "DELETE", "STOPED", "RSTART"}

NoTimer == [made |-> FALSE, iflag |-> {}, irepeat |-> 0, nxt_tick |-> 0]

Init ==
  /\ now = 1
  /\ tmr = [t \in Timers |-> NoTimer]
  /\ tq_list = <<>>
  /\ tq_nxt_tick = 0 /\ armed = FALSE /\ ready = FALSE
  /\ curr = 0 /\ cbk = None

-----------------------------------------------------------------------------

InList(t) == \E i \in 1..Len(tq_list) : tq_list[i] = t

\* list_del of its node, if it is in the list.
Remove(list, t) ==
  LET at == {i \in 1..Len(list) : list[i] = t}
  IN  IF at = {} THEN list
      ELSE SubSeq(list, 1, Least(at) - 1) \o SubSeq(list, Least(at) + 1, Len(list))

\* timer_insert: before the first timer that is due later.
InsertAppends(list, tm, t) == Append(list, t)

Insert(list, tm, t) ==
  LET later == {i \in 1..Len(list) : tm[t].nxt_tick < tm[list[i]].nxt_tick}
  IN  IF later = {} THEN Append(list, t)
      ELSE SubSeq(list, 1, Least(later) - 1) \o <<t>>
             \o SubSeq(list, Least(later), Len(list))

Write(tick) == tq_nxt_tick' = tick /\ armed' = (tick # 0)

\* The hardware timer is written when the head is due at another tick.
SetForHead(list, tm) ==
  LET tick == tm[Head(list)].nxt_tick
  IN  IF tq_nxt_tick # tick THEN Write(tick) ELSE UNCHANGED <<tq_nxt_tick, armed>>

-----------------------------------------------------------------------------
\* What the thread does with its timers, in a callback or elsewhere.

Runs == curr = 0 \/ cbk # None

\* timer_create.
Create(t) ==
  /\ Runs
  /\ ~tmr[t].made
  /\ tmr' = [tmr EXCEPT ![t] = [NoTimer EXCEPT !.made = TRUE]]
  /\ UNCHANGED <<now, tq_list, hardware, curr, cbk>>

Usable(t) == tmr[t].made /\ "DELETE" \notin tmr[t].iflag

\* timer_start: in its own callback a timer is only marked.
Start(t, itv, irt) ==
  /\ Runs /\ Usable(t)
  /\ \/ /\ "CALLBK" \in tmr[t].iflag
        /\ tmr' = [tmr EXCEPT ![t].iflag = @ \cup {"RSTART"},
                              ![t].nxt_tick = @ + itv, ![t].irepeat = irt]
        /\ UNCHANGED <<tq_list, hardware>>
     \/ /\ "CALLBK" \notin tmr[t].iflag
        /\ tmr' = [tmr EXCEPT ![t].iflag = {}, ![t].nxt_tick = now + itv,
                              ![t].irepeat = irt]
        /\ tq_list' = Insert(Remove(tq_list, t), tmr', t)
        /\ SetForHead(tq_list', tmr')
        /\ UNCHANGED ready
  /\ tmr'[t].nxt_tick <= MaxTick
  /\ UNCHANGED <<now, curr, cbk>>

\* The hardware timer is not looked at when a timer leaves the list.
UnlinkOnly(t) ==
  /\ tq_list' = Remove(tq_list, t)
  /\ UNCHANGED hardware

\* A timer leaves the list; an empty list leaves the hardware timer as it is.
Unlink(t) ==
  /\ tq_list' = Remove(tq_list, t)
  /\ IF tq_list' = <<>> THEN UNCHANGED <<tq_nxt_tick, armed>>
     ELSE SetForHead(tq_list', tmr)
  /\ UNCHANGED ready

\* timer_stop.
Stop(t) ==
  /\ Runs /\ Usable(t)
  /\ \/ InList(t) /\ Unlink(t) /\ UNCHANGED tmr
     \/ /\ ~InList(t) /\ "CALLBK" \in tmr[t].iflag
        /\ tmr' = [tmr EXCEPT ![t].iflag = @ \cup {"STOPED"}]
        /\ UNCHANGED <<tq_list, hardware>>
  /\ UNCHANGED <<now, curr, cbk>>

\* timer_delete: a timer whose callback runs is freed when it returns.
DeleteAtOnce(t) ==
  /\ Runs /\ Usable(t)
  /\ IF InList(t) THEN Unlink(t) ELSE UNCHANGED <<tq_list, hardware>>
  /\ tmr' = [tmr EXCEPT ![t] = NoTimer]
  /\ UNCHANGED <<now, curr, cbk>>

Delete(t) ==
  /\ Runs /\ Usable(t)
  /\ IF InList(t) THEN Unlink(t) ELSE UNCHANGED <<tq_list, hardware>>
  /\ tmr' = IF ~InList(t) /\ "CALLBK" \in tmr[t].iflag
            THEN [tmr EXCEPT ![t].iflag = @ \cup {"DELETE"}]
            ELSE [tmr EXCEPT ![t] = NoTimer]
  /\ UNCHANGED <<now, curr, cbk>>

-----------------------------------------------------------------------------
\* timer_queue_event.

\* The thread is woken: the time is read once, for all that is due.
Begin ==
  /\ curr = 0 /\ ready
  /\ ready' = FALSE
  /\ curr' = now
  /\ UNCHANGED <<now, tmr, tq_list, tq_nxt_tick, armed, cbk>>

Due == tq_list # <<>> /\ tmr[Head(tq_list)].nxt_tick <= curr

\* The head is due: its callback starts.
Fire ==
  /\ curr # 0 /\ cbk = None /\ Due
  /\ LET t == Head(tq_list)
     IN  /\ cbk' = t
         /\ tmr' = [tmr EXCEPT ![t].iflag = {"CALLBK"}]
  /\ tq_list' = Tail(tq_list)
  /\ UNCHANGED <<now, hardware, curr>>

\* The callback returns; what it did to its own timer takes effect.
Return ==
  /\ cbk # None
  /\ LET t == cbk
         k == tmr[t]
         clear == [k EXCEPT !.iflag = {}]
         flagged(f) == f \in k.iflag
     IN  \/ /\ flagged("DELETE")
            /\ tmr' = [tmr EXCEPT ![t] = NoTimer]
            /\ UNCHANGED tq_list
         \/ /\ ~flagged("DELETE") /\ flagged("STOPED")
            /\ tmr' = [tmr EXCEPT ![t] = clear]
            /\ UNCHANGED tq_list
         \/ /\ ~flagged("DELETE") /\ ~flagged("STOPED") /\ flagged("RSTART")
            /\ tmr' = [tmr EXCEPT ![t] = clear]
            /\ tq_list' = Insert(tq_list, tmr', t)
         \/ /\ k.iflag = {"CALLBK"} /\ k.irepeat # 0
            /\ tmr' = [tmr EXCEPT ![t] = [clear EXCEPT !.nxt_tick = @ + k.irepeat]]
            /\ tq_list' = Insert(tq_list, tmr', t)
         \/ /\ k.iflag = {"CALLBK"} /\ k.irepeat = 0
            /\ tmr' = [tmr EXCEPT ![t] = clear]
            /\ UNCHANGED tq_list
  /\ cbk' = None
  /\ UNCHANGED <<now, hardware, curr>>

\* The hardware timer is set for no other timer.
EndUnset ==
  /\ curr # 0 /\ cbk = None /\ ~Due
  /\ curr' = 0
  /\ UNCHANGED <<now, tmr, tq_list, hardware, cbk>>

\* Nothing more is due: the hardware timer is set for the head, or off.
End ==
  /\ curr # 0 /\ cbk = None /\ ~Due
  /\ Write(IF tq_list = <<>> THEN 0 ELSE tmr[Head(tq_list)].nxt_tick)
  /\ curr' = 0
  /\ UNCHANGED <<now, tmr, tq_list, ready, cbk>>

-----------------------------------------------------------------------------
\* The hardware.

Tick ==
  /\ now < MaxTime
  /\ now' = now + 1
  /\ UNCHANGED <<tmr, tq_list, hardware, curr, cbk>>

Expire ==
  /\ armed /\ now >= tq_nxt_tick
  /\ armed' = FALSE /\ ready' = TRUE
  /\ UNCHANGED <<now, tmr, tq_list, tq_nxt_tick, curr, cbk>>

Event == Begin \/ Fire \/ Return \/ End

Next ==
  \/ \E t \in Timers :
       \/ Create(t) \/ Stop(t) \/ Delete(t)
       \/ \E itv \in Itvs, irt \in Irts : Start(t, itv, irt)
  \/ Event \/ Tick \/ Expire

Spec == Init /\ [][Next]_vars

\* Time passes, the hardware timer expires, and the thread handles its events.
FairSpec == Spec /\ WF_vars(Event) /\ WF_vars(Tick) /\ WF_vars(Expire)

-----------------------------------------------------------------------------

TypeOK ==
  /\ now \in Nat \ {0}
  /\ tmr \in [Timers -> [made : BOOLEAN, iflag : SUBSET Flags, irepeat : Irts \cup {0},
                         nxt_tick : Nat]]
  /\ tq_list \in Seq(Timers)
  /\ tq_nxt_tick \in Nat /\ armed \in BOOLEAN /\ ready \in BOOLEAN
  /\ curr \in 0..now
  /\ cbk \in Timers \cup {None}

(***************************************************************************)
(* The list and the callback hold each timer once, and no timer that was   *)
(* freed: a deletion in a callback, of any timer, leaves nothing dangling. *)
(***************************************************************************)
NothingDangles ==
  /\ \A i \in 1..Len(tq_list) : tmr[tq_list[i]].made /\ tq_list[i] # cbk
  /\ \A i, j \in 1..Len(tq_list) : tq_list[i] = tq_list[j] => i = j
  /\ cbk # None => tmr[cbk].made

(***************************************************************************)
(* No wake-up is lost: outside timer_queue_event, while a timer runs, the  *)
(* hardware is set for the head and has either not expired yet or left the *)
(* file readable.  timer_stop leaves the hardware alone when the list      *)
(* empties, and timer_start skips a write that would repeat the last one.  *)
(***************************************************************************)
NoLostWakeUp ==
  curr = 0 /\ tq_list # <<>> =>
    /\ tq_nxt_tick = tmr[Head(tq_list)].nxt_tick
    /\ armed \/ ready

(***************************************************************************)
(* Callbacks come in the order of their ticks, also when several are late  *)
(* and callbacks start timers: nothing in the list is due before the timer *)
(* that is called back (unless it was just given a later tick).            *)
(***************************************************************************)
NoneOvertakes ==
  cbk # None /\ "RSTART" \notin tmr[cbk].iflag =>
    \A i \in 1..Len(tq_list) : tmr[cbk].nxt_tick <= tmr[tq_list[i]].nxt_tick

\* A timer that runs is called back, or is stopped or started anew.
StartedFires ==
  \A t \in Timers : \A k \in 1..MaxTime :
    (InList(t) /\ tmr[t].nxt_tick = k) ~> ~(InList(t) /\ tmr[t].nxt_tick = k)
=============================================================================
