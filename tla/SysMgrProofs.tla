---------------------------- MODULE SysMgrProofs ----------------------------
(***************************************************************************)
(* Proofs about control messages: for any number of requests, reports and  *)
(* faults.                                                                 *)
(***************************************************************************)
EXTENDS SysMgr, WellFoundedInduction, TLAPS

\* A scan of the requests finds the one that was registered first.
LEMMA LeastOfNaturals ==
  ASSUME NEW S, S \subseteq Nat, S # {}
  PROVE  Least(S) \in S /\ \A y \in S : Least(S) <= y
<1>1. PICK x \in S : \A y \in S : <<y, x>> \notin OpToRel(<, Nat)
  BY NatLessThanWellFounded, WFMin
<1>2. \A y \in S : x \in Nat /\ y \in Nat /\ ~(y < x)
  BY <1>1 DEF OpToRel
<1>3. \A y \in S : x <= y
  BY <1>2
<1>. QED
  BY <1>1, <1>3 DEF Least

\* A request waits with a timer and has been told nothing, or has been told once.
Single ==
  /\ timers = sysm_head
  /\ \A r \in Reqs :
       /\ r \in sysm_head \/ r > sent => told[r] = <<>>
       /\ r \notin sysm_head /\ r <= sent => Len(told[r]) = 1

(***************************************************************************)
(* An answer without an error was preceded by the modem's acceptance, and  *)
(* requests of the second and third type by that of the type before.       *)
(***************************************************************************)
Chained ==
  /\ \A i \in 1..Len(toSysm) : toSysm[i].ok /\ toSysm[i].type # "OTHER" => toSysm[i].type \in accepted
  /\ \A i \in 1..Len(toModem) :
       toModem[i].type = "OTHER" \/ \E r \in 1..sent : type[r] = toModem[i].type
  /\ \A t \in accepted : t = "OTHER" \/ \E r \in 1..sent : type[r] = t
  /\ \A r \in 1..sent :
       /\ type[r] = "SET_PARAM" => "SET_MAC" \in accepted
       /\ type[r] = "STT_NETWORK" => "SET_PARAM" \in accepted

\* How far the start has come: what has been sent, and that none is sent twice.
Sent(t) == \E r \in 1..sent : type[r] = t

ChainSent == IF Sent("STT_NETWORK") THEN 3 ELSE IF Sent("SET_PARAM") THEN 2
             ELSE IF Sent("SET_MAC") THEN 1 ELSE 0

Counted ==
  /\ sent <= thises + ChainSent
  /\ Sent("SET_MAC") => started
  /\ Sent("SET_PARAM") => Sent("SET_MAC") /\ \A r \in sysm_head : type[r] # "SET_MAC"
  /\ Sent("STT_NETWORK") => Sent("SET_PARAM") /\ \A r \in sysm_head : type[r] # "SET_PARAM"
  /\ \A q, r \in 1..sent : type[q] = type[r] /\ type[r] # "GET_THIS" => q = r

IInv == TypeOK /\ Single /\ Chained /\ Counted

-----------------------------------------------------------------------------
\* Sequences of messages.

LEMMA AppendMessage ==
  ASSUME NEW q \in Seq(Messages), NEW m \in Messages
  PROVE  /\ Append(q, m) \in Seq(Messages)
         /\ Len(Append(q, m)) = Len(q) + 1
         /\ \A i \in 1..Len(q) : Append(q, m)[i] = q[i]
         /\ Append(q, m)[Len(q) + 1] = m
  BY DEF Messages

LEMMA TailOfMessages ==
  ASSUME NEW q \in Seq(Messages), q # <<>>
  PROVE  /\ Head(q) \in Messages /\ Head(q) = q[1] /\ 1 \in 1..Len(q)
         /\ Tail(q) \in Seq(Messages)
         /\ \A i \in 1..Len(Tail(q)) : i + 1 \in 1..Len(q) /\ Tail(q)[i] = q[i + 1]
  OBVIOUS

LEMMA Numbers == MaxReq \in Nat /\ MaxReq = 3 + MaxThis /\ Reqs = 1..MaxReq
  BY SysMgrAssumption DEF MaxReq, Reqs

-----------------------------------------------------------------------------
(***************************************************************************)
(* A request that is sent while "head" is what remains registered.  The    *)
(* conditions say that there is room for it and that its turn has come.    *)
(***************************************************************************)
Due(t, head) ==
  /\ t \in Types
  /\ t = "SET_MAC" => ~Sent("SET_MAC")
  /\ t = "SET_PARAM" => /\ Sent("SET_MAC") /\ ~Sent("SET_PARAM") /\ "SET_MAC" \in accepted
                        /\ \A r \in head : type[r] # "SET_MAC"
  /\ t = "STT_NETWORK" => /\ Sent("SET_PARAM") /\ ~Sent("STT_NETWORK") /\ "SET_PARAM" \in accepted
                          /\ \A r \in head : type[r] # "SET_PARAM"

LEMMA SendKeeps ==
  ASSUME IInv, NEW t, NEW head \in SUBSET sysm_head, Due(t, head), sent < MaxReq,
         Send(t, head, head)
  PROVE  /\ sent' \in 0..MaxReq /\ type' \in [Reqs -> Types \cup {"NONE"}]
         /\ \A r \in Reqs : type'[r] = "NONE" <=> r > sent'
         /\ sysm_head' \subseteq 1..sent' /\ timers' = sysm_head'
         /\ toModem' \in Seq(Messages)
         /\ sent' = sent + 1 /\ sent' \in Reqs /\ sysm_head' = head \cup {sent'}
         /\ type'[sent'] = t /\ \A r \in 1..sent : r \in Reqs /\ type'[r] = type[r]
         /\ \A i \in 1..Len(toModem') :
              toModem'[i].type = "OTHER" \/ \E r \in 1..sent' : type'[r] = toModem'[i].type
<1>. DEFINE m == [type |-> t, of |-> sent + 1, ok |-> TRUE]
<1>1. /\ sent \in 0..MaxReq /\ MaxReq \in Nat /\ sent + 1 \in Reqs
      /\ t \in Types /\ t # "NONE" /\ m \in Messages /\ m.type = t
  BY Numbers DEF IInv, TypeOK, Due, Types, Messages
<1>2. /\ type \in [Reqs -> Types \cup {"NONE"}] /\ toModem \in Seq(Messages)
      /\ sysm_head \subseteq 1..sent
      /\ \A r \in Reqs : type[r] = "NONE" <=> r > sent
  BY DEF IInv, TypeOK
<1>3. /\ sent' = sent + 1 /\ type' = [type EXCEPT ![sent + 1] = t]
      /\ toModem' = Append(toModem, m)
      /\ sysm_head' = head \cup {sent + 1} /\ timers' = sysm_head'
  BY DEF Send
<1>4. \A r \in 1..sent : r \in Reqs /\ r # sent + 1
  BY <1>1, Numbers
<1>5. /\ type' \in [Reqs -> Types \cup {"NONE"}]
      /\ type'[sent'] = t /\ \A r \in 1..sent : type'[r] = type[r]
  BY <1>1, <1>2, <1>3, <1>4
<1>6. \A r \in Reqs : type'[r] = "NONE" <=> r > sent'
  BY <1>1, <1>2, <1>3, Numbers
<1>. HIDE DEF m
<1>7. /\ toModem' \in Seq(Messages)
      /\ \A i \in 1..Len(toModem') : toModem'[i] = m \/ \E j \in 1..Len(toModem) : toModem'[i] = toModem[j]
  BY <1>1, <1>2, <1>3, AppendMessage
<1>8. \A i \in 1..Len(toModem) :
        toModem[i].type = "OTHER" \/ \E r \in 1..sent : type[r] = toModem[i].type
  BY DEF IInv, Chained
<1>9. ASSUME NEW i \in 1..Len(toModem')
      PROVE  toModem'[i].type = "OTHER" \/ \E r \in 1..sent' : type'[r] = toModem'[i].type
  <2>1. CASE toModem'[i] = m
    BY <2>1, <1>1, <1>3, <1>5
  <2>2. ASSUME NEW j \in 1..Len(toModem), toModem'[i] = toModem[j]
        PROVE  toModem'[i].type = "OTHER" \/ \E r \in 1..sent' : type'[r] = toModem'[i].type
    <3>1. CASE toModem[j].type = "OTHER"
      BY <3>1, <2>2
    <3>2. CASE \E r \in 1..sent : type[r] = toModem[j].type
      <4>1. PICK r \in 1..sent : type[r] = toModem[j].type
        BY <3>2
      <4>2. r \in 1..sent' /\ type'[r] = toModem'[i].type
        BY <4>1, <2>2, <1>1, <1>3, <1>5
      <4>. QED
        BY <4>2
    <3>. QED
      BY <3>1, <3>2, <1>8
  <2>. QED
    BY <2>1, <2>2, <1>7
<1>. QED
  BY <1>1, <1>2, <1>3, <1>4, <1>5, <1>6, <1>7, <1>9

\* There is room for a request whose turn has come.
LEMMA RoomToSend ==
  ASSUME IInv, NEW t, NEW head, Due(t, head), t = "GET_THIS" => thises < MaxThis
  PROVE  sent < MaxReq
<1>1. sent \in Nat /\ thises \in Nat /\ thises <= MaxThis /\ MaxThis \in Nat
  BY SysMgrAssumption DEF IInv, TypeOK
<1>2. ChainSent \in 0..3 /\ (ChainSent = 3 => Sent("STT_NETWORK"))
  BY DEF ChainSent
<1>3. t # "GET_THIS" => ~Sent("STT_NETWORK")
  BY DEF IInv, Counted, Due, Types
<1>4. sent <= thises + ChainSent
  BY DEF IInv, Counted
<1>. QED
  BY <1>1, <1>2, <1>3, <1>4, Numbers

\* What has been sent after a request.
LEMMA SentGrows ==
  ASSUME IInv, NEW t, NEW head \in SUBSET sysm_head, Due(t, head), sent < MaxReq,
         Send(t, head, head)
  PROVE  \A x : Sent(x)' <=> Sent(x) \/ x = t
<1>1. /\ sent \in Nat /\ sent' = sent + 1
      /\ type'[sent'] = t /\ \A r \in 1..sent : type'[r] = type[r]
  BY SendKeeps DEF IInv, TypeOK
<1>. QED
  BY <1>1 DEF Sent

\* The start advances by one request, and no request of it is repeated.
LEMMA SendCounts ==
  ASSUME IInv, NEW t, NEW head \in SUBSET sysm_head, Due(t, head), sent < MaxReq,
         Send(t, head, head),
         t = "GET_THIS" => thises' = thises + 1, t # "GET_THIS" => thises' = thises,
         started \/ t = "SET_MAC" => started'
  PROVE  Counted'
<1>. DEFINE mac == Sent("SET_MAC")
            par == Sent("SET_PARAM")
            net == Sent("STT_NETWORK")
<1>1. /\ sent \in Nat /\ sent' = sent + 1 /\ sysm_head' = head \cup {sent'}
      /\ type'[sent'] = t /\ \A r \in 1..sent : type'[r] = type[r]
      /\ thises \in Nat /\ head \subseteq 1..sent
  BY SendKeeps DEF IInv, TypeOK
<1>2. \A x : Sent(x)' <=> Sent(x) \/ x = t
  BY SentGrows
<1>3. /\ t \in Types
      /\ t = "SET_MAC" => ~mac
      /\ t = "SET_PARAM" => mac /\ ~par /\ \A r \in head : type[r] # "SET_MAC"
      /\ t = "STT_NETWORK" => par /\ ~net /\ \A r \in head : type[r] # "SET_PARAM"
  BY DEF Due
<1>4. /\ sent <= thises + ChainSent
      /\ mac => started
      /\ par => mac /\ \A r \in head : type[r] # "SET_MAC"
      /\ net => par /\ \A r \in head : type[r] # "SET_PARAM"
      /\ \A q, r \in 1..sent : type[q] = type[r] /\ type[r] # "GET_THIS" => q = r
  BY DEF IInv, Counted
<1>5. /\ mac' <=> mac \/ t = "SET_MAC"
      /\ par' <=> par \/ t = "SET_PARAM"
      /\ net' <=> net \/ t = "STT_NETWORK"
  BY <1>2
<1>6. ChainSent = IF net THEN 3 ELSE IF par THEN 2 ELSE IF mac THEN 1 ELSE 0
  BY DEF ChainSent
<1>7. ChainSent' = IF net' THEN 3 ELSE IF par' THEN 2 ELSE IF mac' THEN 1 ELSE 0
  BY DEF ChainSent
<1>8. t \in {"SET_MAC", "SET_PARAM", "STT_NETWORK", "GET_THIS"}
  BY <1>3 DEF Types
<1>9. \A q \in 1..sent : type[q] = t => Sent(t)
  BY DEF Sent
<1>. HIDE DEF mac, par, net
<1>10. sent' <= (thises + ChainSent)'
  <2>1. CASE t = "GET_THIS"
    BY <2>1, <1>1, <1>4, <1>5, <1>6, <1>7
  <2>2. CASE t # "GET_THIS"
    BY <2>2, <1>1, <1>3, <1>4, <1>5, <1>6, <1>7, <1>8
  <2>. QED
    BY <2>1, <2>2
<1>11. \A r \in sysm_head' : (r \in head /\ type'[r] = type[r]) \/ type'[r] = t
  BY <1>1
<1>12. /\ mac' => started'
       /\ par' => mac' /\ \A r \in sysm_head' : type'[r] # "SET_MAC"
       /\ net' => par' /\ \A r \in sysm_head' : type'[r] # "SET_PARAM"
  BY <1>3, <1>4, <1>5, <1>8, <1>11
<1>13. ASSUME NEW q \in 1..sent', NEW r \in 1..sent', type'[q] = type'[r], type'[r] # "GET_THIS"
       PROVE  q = r
  <2>1. t # "GET_THIS" => ~Sent(t)
    BY DEF Due, Types
  <2>2. \A x \in 1..sent' : x \in 1..sent \/ x = sent'
    BY <1>1
  <2>. QED
    BY <2>1, <2>2, <1>1, <1>4, <1>9, <1>13
<1>. QED
  BY <1>10, <1>12, <1>13 DEF Counted, mac, par, net

-----------------------------------------------------------------------------
(***************************************************************************)
(* What a step of sysm keeps.  "head" is what remains registered, "given"  *)
(* what the callbacks have been told after the step.                       *)
(***************************************************************************)
Kept(head, given) ==
  /\ head \subseteq sysm_head
  /\ given \in [Reqs -> Seq(Replies)]
  /\ \A r \in Reqs : /\ r \in head \/ r > sent => given[r] = <<>>
                     /\ r \notin head /\ r <= sent => Len(given[r]) = 1

Received(q) ==
  /\ q \in Seq(Messages)
  /\ \A i \in 1..Len(q) : q[i].ok /\ q[i].type # "OTHER" => q[i].type \in accepted

LEMMA SentKeepsInvariant ==
  ASSUME IInv, NEW t, NEW head, Due(t, head), Send(t, head, head),
         Kept(head, told'), Received(toSysm'), accepted' = accepted,
         IF t = "GET_THIS" THEN thises < MaxThis /\ thises' = thises + 1 ELSE thises' = thises,
         started' \in BOOLEAN, started \/ t = "SET_MAC" => started',
         UNCHANGED <<others, faults>>
  PROVE  IInv'
<1>1. sent < MaxReq
  BY RoomToSend
<1>2. head \in SUBSET sysm_head
  BY DEF Kept
<1>3. Counted'
  BY <1>1, <1>2, SendCounts
<1>4. /\ sent' \in 0..MaxReq /\ type' \in [Reqs -> Types \cup {"NONE"}]
      /\ \A r \in Reqs : type'[r] = "NONE" <=> r > sent'
      /\ sysm_head' \subseteq 1..sent' /\ timers' = sysm_head'
      /\ toModem' \in Seq(Messages)
      /\ sent' = sent + 1 /\ sent' \in Reqs /\ sysm_head' = head \cup {sent'}
      /\ type'[sent'] = t /\ \A r \in 1..sent : r \in Reqs /\ type'[r] = type[r]
      /\ \A i \in 1..Len(toModem') :
           toModem'[i].type = "OTHER" \/ \E r \in 1..sent' : type'[r] = toModem'[i].type
  BY <1>1, <1>2, SendKeeps
<1>5. sent \in Nat /\ accepted \subseteq Types \cup {"OTHER"} /\ others \in 0..MaxOther
      /\ faults \in 0..MaxFault /\ thises \in 0..MaxThis /\ MaxThis \in Nat
  BY SysMgrAssumption DEF IInv, TypeOK
<1>6. TypeOK'
  BY <1>4, <1>5 DEF TypeOK, Kept, Received
<1>7. Single'
  <2>1. ASSUME NEW r \in Reqs
        PROVE  /\ r \in sysm_head' \/ r > sent' => told'[r] = <<>>
               /\ r \notin sysm_head' /\ r <= sent' => Len(told'[r]) = 1
    BY <1>4, <1>5, Numbers DEF Kept
  <2>. QED
    BY <2>1, <1>4 DEF Single
<1>8. Chained'
  <2>1. \A a \in accepted' : a = "OTHER" \/ \E r \in 1..sent' : type'[r] = a
    <3>1. \A a \in accepted : a = "OTHER" \/ \E r \in 1..sent : type[r] = a
      BY DEF IInv, Chained
    <3>2. \A r \in 1..sent : r \in 1..sent' /\ type'[r] = type[r]
      BY <1>4, <1>5
    <3>. QED
      BY <3>1, <3>2
  <2>2. \A r \in 1..sent' : /\ type'[r] = "SET_PARAM" => "SET_MAC" \in accepted'
                            /\ type'[r] = "STT_NETWORK" => "SET_PARAM" \in accepted'
    <3>1. \A r \in 1..sent' : r \in 1..sent \/ r = sent'
      BY <1>4, <1>5
    <3>. QED
      BY <3>1, <1>4 DEF IInv, Chained, Due
  <2>3. \A i \in 1..Len(toSysm') :
          toSysm'[i].ok /\ toSysm'[i].type # "OTHER" => toSysm'[i].type \in accepted'
    BY DEF Received
  <2>. QED
    BY <2>1, <2>2, <2>3, <1>4 DEF Chained
<1>. QED
  BY <1>3, <1>6, <1>7, <1>8 DEF IInv

\* A step of sysm that sends nothing.
LEMMA NothingSentKeepsInvariant ==
  ASSUME IInv, NEW head, NothingSent(head, head),
         Kept(head, told'), Received(toSysm'), accepted' = accepted,
         thises' \in 0..MaxThis, thises <= thises',
         started' \in BOOLEAN, started => started',
         others' = others, faults' \in 0..MaxFault
  PROVE  IInv'
<1>1. /\ sysm_head' = head /\ timers' = head /\ head \subseteq sysm_head
      /\ sent' = sent /\ type' = type /\ toModem' = toModem
      /\ sent \in Nat /\ thises \in Nat /\ thises' \in Nat
  BY SysMgrAssumption DEF NothingSent, Kept, IInv, TypeOK
<1>2. TypeOK'
  BY <1>1 DEF IInv, TypeOK, Kept, Received
<1>3. Single'
  BY <1>1 DEF Single, Kept
<1>4. Chained'
  BY <1>1 DEF IInv, Chained, Received
<1>5. Counted'
  <2>1. \A x : Sent(x)' <=> Sent(x)
    BY <1>1 DEF Sent
  <2>2. ChainSent' = ChainSent /\ ChainSent \in Nat
    BY <2>1 DEF ChainSent
  <2>3. sent <= thises + ChainSent
    BY DEF IInv, Counted
  <2>4. sent' <= thises' + ChainSent'
    <3>1. ASSUME NEW a \in Nat, NEW b \in Nat, NEW c \in Nat, NEW d \in Nat, a <= b + d, b <= c
          PROVE  a <= c + d
      BY <3>1
    <3>. QED
      BY <3>1, <2>2, <2>3, <1>1
  <2>. QED
    BY <2>1, <2>4, <1>1 DEF IInv, Counted
<1>. QED
  BY <1>2, <1>3, <1>4, <1>5 DEF IInv

\* Nobody has been told anything new.
LEMMA NoneTold == ASSUME IInv PROVE Kept(sysm_head, told)
  BY DEF IInv, TypeOK, Single, Kept

-----------------------------------------------------------------------------
\* The callback of a registered request.
LEMMA CallbackKeeps ==
  ASSUME IInv, NEW r \in sysm_head, NEW reply \in Replies,
         reply.ok => type[r] = "GET_THIS" \/ type[r] \in accepted,
         Callback(r, reply), Received(toSysm'),
         UNCHANGED <<started, accepted, thises, others>>
  PROVE  IInv'
<1>. DEFINE head == sysm_head \ {r}
            next == Following(type[r], reply)
<1>1. timers = sysm_head /\ r \in 1..sent /\ r \in Reqs /\ sent \in Nat
      /\ told \in [Reqs -> Seq(Replies)] /\ faults \in 0..MaxFault /\ MaxFault \in Nat
      /\ thises \in 0..MaxThis /\ thises \in Nat /\ started \in BOOLEAN
  BY SysMgrAssumption, Numbers DEF IInv, TypeOK, Single
<1>2. /\ told' = [told EXCEPT ![r] = Append(@, reply)]
      /\ \/ next = {} /\ NothingSent(head, head) /\ UNCHANGED faults
         \/ \E t \in next : SysmgrSend(t, head, head)
  BY <1>1 DEF Callback
<1>3. Kept(head, told')
  <2>1. told[r] = <<>>
    BY <1>1 DEF IInv, Single
  <2>2. Append(told[r], reply) \in Seq(Replies) /\ Len(Append(told[r], reply)) = 1
    BY <2>1
  <2>3. \A q \in Reqs : q # r => told'[q] = told[q]
    BY <1>1, <1>2
  <2>4. told'[r] = Append(told[r], reply) /\ told' \in [Reqs -> Seq(Replies)]
    BY <1>1, <1>2, <2>2
  <2>5. ASSUME NEW q \in Reqs
        PROVE  /\ q \in head \/ q > sent => told'[q] = <<>>
               /\ q \notin head /\ q <= sent => Len(told'[q]) = 1
    <3>1. CASE q = r
      BY <3>1, <1>1, <2>2, <2>4
    <3>2. CASE q # r
      BY <3>2, <2>3 DEF IInv, Single
    <3>. QED
      BY <3>1, <3>2
  <2>. QED
    BY <2>4, <2>5 DEF Kept
<1>4. ASSUME NEW t \in next PROVE Due(t, head) /\ t \notin {"GET_THIS", "SET_MAC"}
  <2>1. reply.ok /\ type[r] \in {"SET_MAC", "SET_PARAM"} /\ type[r] \in accepted
        /\ t = (IF type[r] = "SET_MAC" THEN "SET_PARAM" ELSE "STT_NETWORK")
    BY DEF Following
  <2>2. Sent(type[r])
    BY <1>1 DEF Sent
  <2>3. \A q \in head : type[q] # type[r]
    BY <2>1, <1>1 DEF IInv, TypeOK, Counted
  <2>4. ~Sent(t)
    BY <2>1 DEF IInv, Counted
  <2>. QED
    BY <2>1, <2>2, <2>3, <2>4 DEF Due, Types
<1>. HIDE DEF head, next
<1>5. CASE NothingSent(head, head) /\ UNCHANGED faults
  BY <1>5, <1>1, <1>3, NothingSentKeepsInvariant
<1>6. ASSUME NEW t \in next, SysmgrSend(t, head, head) PROVE IInv'
  <2>1. CASE Send(t, head, head) /\ UNCHANGED faults
    BY <2>1, <1>1, <1>3, <1>4, SentKeepsInvariant
  <2>2. CASE NothingSent(head, head) /\ Fault
    <3>1. faults' \in 0..MaxFault
      BY <2>2, <1>1 DEF Fault
    <3>. QED
      BY <2>2, <3>1, <1>1, <1>3, NothingSentKeepsInvariant
  <2>. QED
    BY <1>6, <2>1, <2>2 DEF SysmgrSend
<1>. QED
  BY <1>2, <1>5, <1>6

\* A request of entry_sysmgr or of a terminal command.
LEMMA SysmgrSendKeeps ==
  ASSUME IInv, NEW t, SysmgrSend(t, sysm_head, timers), Due(t, sysm_head),
         UNCHANGED <<told, toSysm, accepted, others>>,
         IF t = "GET_THIS" THEN thises < MaxThis /\ thises' = thises + 1 ELSE thises' = thises,
         started' \in BOOLEAN, started \/ t = "SET_MAC" => started'
  PROVE  IInv'
<1>1. /\ timers = sysm_head /\ Kept(sysm_head, told') /\ Received(toSysm')
      /\ faults \in 0..MaxFault /\ MaxFault \in Nat /\ thises \in 0..MaxThis /\ MaxThis \in Nat
  BY SysMgrAssumption, NoneTold DEF IInv, TypeOK, Single, Chained, Received
<1>2. CASE Send(t, sysm_head, timers) /\ UNCHANGED faults
  BY <1>1, <1>2, SentKeepsInvariant
<1>3. CASE NothingSent(sysm_head, timers) /\ Fault
  <2>1. faults' \in 0..MaxFault /\ thises' \in 0..MaxThis /\ thises <= thises'
    BY <1>1, <1>3 DEF Fault
  <2>. QED
    BY <1>1, <1>3, <2>1, NothingSentKeepsInvariant
<1>. QED
  BY <1>2, <1>3 DEF SysmgrSend

-----------------------------------------------------------------------------
LEMMA InitInvariant == Init => IInv
<1>. SUFFICES ASSUME Init PROVE IInv
  OBVIOUS
<1>1. \A t : ~Sent(t)
  BY DEF Init, Sent
<1>2. TypeOK
  <2>1. type \in [Reqs -> Types \cup {"NONE"}] /\ \A r \in Reqs : type[r] = "NONE" /\ r > sent
    BY Numbers DEF Init
  <2>2. told \in [Reqs -> Seq(Replies)]
    BY DEF Init
  <2>3. toModem \in Seq(Messages) /\ toSysm \in Seq(Messages)
    BY DEF Init
  <2>4. sent \in 0..MaxReq /\ thises \in 0..MaxThis /\ others \in 0..MaxOther
        /\ faults \in 0..MaxFault
    BY SysMgrAssumption, Numbers DEF Init
  <2>. QED
    BY <2>1, <2>2, <2>3, <2>4 DEF Init, TypeOK
<1>3. Single /\ Chained
  BY Numbers DEF Init, Single, Chained
<1>4. Counted
  BY <1>1 DEF Init, Counted, ChainSent
<1>. QED
  BY <1>2, <1>3, <1>4 DEF IInv

\* Steps that leave the requests alone and change the queues.
LEMMA QueuesKeep ==
  ASSUME IInv, UNCHANGED <<started, list, thises>>,
         toModem' \in Seq(Messages), others' \in 0..MaxOther, faults' \in 0..MaxFault,
         accepted \subseteq accepted', accepted' \subseteq Types \cup {"OTHER"},
         Received(toSysm)',
         \A i \in 1..Len(toModem') :
           toModem'[i].type = "OTHER" \/ \E r \in 1..sent : type[r] = toModem'[i].type,
         \A t \in accepted' : t = "OTHER" \/ \E r \in 1..sent : type[r] = t
  PROVE  IInv'
<1>1. /\ started' = started /\ sent' = sent /\ type' = type /\ sysm_head' = sysm_head
      /\ timers' = timers /\ told' = told /\ thises' = thises
  BY DEF list
<1>2. TypeOK' /\ Single'
  BY <1>1 DEF IInv, TypeOK, Single, Received
<1>3. Chained'
  BY <1>1 DEF IInv, Chained, Received
<1>4. Counted'
  BY <1>1 DEF IInv, Counted, ChainSent, Sent
<1>. QED
  BY <1>2, <1>3, <1>4 DEF IInv

LEMMA ModemTakesKeeps == ASSUME IInv, ModemTakes PROVE IInv'
<1>. DEFINE m == Head(toModem)
<1>1. /\ toModem \in Seq(Messages) /\ toSysm \in Seq(Messages) /\ others \in 0..MaxOther
      /\ accepted \subseteq Types \cup {"OTHER"} /\ faults \in 0..MaxFault /\ MaxFault \in Nat
      /\ \A i \in 1..Len(toSysm) :
           toSysm[i].ok /\ toSysm[i].type # "OTHER" => toSysm[i].type \in accepted
  BY SysMgrAssumption DEF IInv, TypeOK, Chained
<1>2. /\ toModem # <<>> /\ toModem' = Tail(toModem)
      /\ UNCHANGED <<started, list, thises>> /\ others' = others
  BY DEF ModemTakes
<1>3. /\ m \in Messages /\ m = toModem[1] /\ 1 \in 1..Len(toModem)
      /\ Tail(toModem) \in Seq(Messages)
      /\ \A i \in 1..Len(Tail(toModem)) : i + 1 \in 1..Len(toModem) /\ Tail(toModem)[i] = toModem[i + 1]
  BY <1>1, <1>2, TailOfMessages
<1>4. \A i \in 1..Len(toModem') :
        toModem'[i].type = "OTHER" \/ \E r \in 1..sent : type[r] = toModem'[i].type
  BY <1>2, <1>3 DEF IInv, Chained
<1>5. \A t \in accepted \cup {m.type} : t = "OTHER" \/ \E r \in 1..sent : type[r] = t
  BY <1>3 DEF IInv, Chained
<1>6. m.type \in Types \cup {"OTHER"} /\ [m EXCEPT !.ok = FALSE] \in Messages
      /\ ~[m EXCEPT !.ok = FALSE].ok
  BY <1>3 DEF Messages
<1>. HIDE DEF m
<1>7. CASE Answer(m) /\ accepted' = accepted \cup {m.type} /\ UNCHANGED faults
  <2>1. Received(toSysm)'
    <3>1. toSysm' = Append(toSysm, m)
      BY <1>7 DEF Answer
    <3>. QED
      BY <3>1, <1>1, <1>3, <1>7, AppendMessage DEF Received
  <2>. QED
    BY <2>1, <1>1, <1>2, <1>3, <1>4, <1>5, <1>6, <1>7, QueuesKeep
<1>8. CASE Fault /\ Answer([m EXCEPT !.ok = FALSE]) /\ UNCHANGED accepted
  <2>1. Received(toSysm)'
    <3>1. toSysm' = Append(toSysm, [m EXCEPT !.ok = FALSE])
      BY <1>8 DEF Answer
    <3>. QED
      BY <3>1, <1>1, <1>6, <1>8, AppendMessage DEF Received
  <2>2. faults' \in 0..MaxFault
    BY <1>1, <1>8 DEF Fault
  <2>. QED
    BY <2>1, <2>2, <1>1, <1>2, <1>3, <1>4, <1>5, <1>8, QueuesKeep
<1>9. CASE Fault /\ UNCHANGED <<toSysm, accepted>>
  <2>1. Received(toSysm)'
    BY <1>1, <1>9 DEF Received
  <2>2. faults' \in 0..MaxFault
    BY <1>1, <1>9 DEF Fault
  <2>. QED
    BY <2>1, <2>2, <1>1, <1>2, <1>3, <1>4, <1>5, <1>9, QueuesKeep
<1>. QED
  BY <1>7, <1>8, <1>9 DEF ModemTakes, m

LEMMA ProcEventKeeps == ASSUME IInv, ProcEvent PROVE IInv'
<1>. DEFINE m == Head(toSysm)
<1>1. /\ toSysm # <<>> /\ toSysm' = Tail(toSysm)
      /\ UNCHANGED <<started, accepted, thises, others>>
  BY DEF ProcEvent
<1>2. toSysm \in Seq(Messages)
  BY DEF IInv, TypeOK
<1>3. /\ m \in Messages /\ m = toSysm[1] /\ 1 \in 1..Len(toSysm)
      /\ Tail(toSysm) \in Seq(Messages)
      /\ \A i \in 1..Len(Tail(toSysm)) : i + 1 \in 1..Len(toSysm) /\ Tail(toSysm)[i] = toSysm[i + 1]
  BY <1>1, <1>2, TailOfMessages
<1>4. Received(toSysm')
  BY <1>1, <1>3 DEF IInv, Chained, Received
<1>5. m.ok /\ m.type # "OTHER" => m.type \in accepted
  BY <1>3 DEF IInv, Chained
<1>6. CASE UNCHANGED <<list, toModem, faults>>
  <2>1. NothingSent(sysm_head, sysm_head) /\ Kept(sysm_head, told')
    BY <1>6, NoneTold DEF NothingSent, list, IInv, Single
  <2>2. /\ thises \in 0..MaxThis /\ MaxThis \in Nat /\ faults \in 0..MaxFault
        /\ started \in BOOLEAN
    BY SysMgrAssumption DEF IInv, TypeOK
  <2>. QED
    BY <2>1, <2>2, <1>1, <1>4, <1>6, NothingSentKeepsInvariant
<1>7. ASSUME NEW r \in Registered(m.type), Callback(r, [of |-> m.of, ok |-> m.ok])
      PROVE  IInv'
  <2>1. r \in sysm_head /\ type[r] = m.type
    BY DEF Registered
  <2>2. type[r] \in Types
    <3>1. sent \in 0..MaxReq /\ r \in 1..sent
      BY <2>1 DEF IInv, TypeOK
    <3>2. r \in Reqs /\ ~(r > sent)
      BY <3>1, Numbers
    <3>. QED
      BY <3>2 DEF IInv, TypeOK
  <2>3. m.type # "OTHER"
    BY <2>1, <2>2 DEF Types
  <2>4. [of |-> m.of, ok |-> m.ok] \in Replies
    BY <1>3 DEF Messages, Replies
  <2>. QED
    BY <2>1, <2>3, <2>4, <1>1, <1>4, <1>5, <1>7, CallbackKeeps
<1>. QED
  BY <1>6, <1>7 DEF ProcEvent

LEMMA NextInvariant == IInv /\ [Next]_vars => IInv'
<1>. SUFFICES ASSUME IInv, [Next]_vars PROVE IInv'
  OBVIOUS
<1>1. CASE SetMac
  <2>1. Due("SET_MAC", sysm_head)
    BY <1>1 DEF SetMac, Due, Types, IInv, Counted
  <2>. QED
    BY <1>1, <2>1, SysmgrSendKeeps DEF SetMac
<1>2. CASE This
  <2>1. Due("GET_THIS", sysm_head)
    BY DEF Due, Types
  <2>2. started \in BOOLEAN
    BY DEF IInv, TypeOK
  <2>. QED
    BY <1>2, <2>1, <2>2, SysmgrSendKeeps DEF This
<1>3. CASE Tell
  <2>1. Other \in Messages /\ Other.type = "OTHER"
    BY Numbers DEF Other, Messages
  <2>2. /\ toModem' = Append(toModem, Other) /\ toModem \in Seq(Messages)
        /\ others' \in 0..MaxOther /\ faults' \in 0..MaxFault
        /\ accepted' = accepted /\ toSysm' = toSysm /\ accepted \subseteq Types \cup {"OTHER"}
        /\ toSysm \in Seq(Messages)
    BY <1>3, SysMgrAssumption DEF Tell, IInv, TypeOK
  <2>3. \A i \in 1..Len(toModem') :
          toModem'[i].type = "OTHER" \/ \E r \in 1..sent : type[r] = toModem'[i].type
    BY <2>1, <2>2, AppendMessage DEF IInv, Chained
  <2>4. Received(toSysm)' /\ \A t \in accepted' : t = "OTHER" \/ \E r \in 1..sent : type[r] = t
    BY <2>2 DEF IInv, Chained, Received
  <2>5. toModem' \in Seq(Messages)
    BY <2>1, <2>2
  <2>. QED
    BY <1>3, <2>2, <2>3, <2>4, <2>5, QueuesKeep DEF Tell
<1>4. ASSUME NEW r \in Reqs, SysmgrTimerCbk(r) PROVE IInv'
  <2>1. r \in sysm_head /\ TimeOut \in Replies /\ ~TimeOut.ok
    BY <1>4, Numbers DEF SysmgrTimerCbk, IInv, Single, TimeOut, Replies
  <2>2. Received(toSysm') /\ UNCHANGED <<started, accepted, thises, others>>
    BY <1>4 DEF SysmgrTimerCbk, IInv, TypeOK, Chained, Received
  <2>. QED
    BY <1>4, <2>1, <2>2, CallbackKeeps DEF SysmgrTimerCbk
<1>5. CASE ProcEvent
  BY <1>5, ProcEventKeeps
<1>6. CASE ModemTakes
  BY <1>6, ModemTakesKeeps
<1>7. CASE ModemReports
  <2>1. Other \in Messages /\ Other.type = "OTHER"
    BY Numbers DEF Other, Messages
  <2>2. /\ toSysm' = Append(toSysm, Other) /\ toModem' = toModem /\ toModem \in Seq(Messages)
        /\ others' \in 0..MaxOther /\ faults' \in 0..MaxFault
        /\ accepted' = accepted /\ accepted \subseteq Types \cup {"OTHER"}
        /\ toSysm \in Seq(Messages)
    BY <1>7, SysMgrAssumption DEF ModemReports, Answer, IInv, TypeOK
  <2>3. Received(toSysm)'
    BY <2>1, <2>2, AppendMessage DEF IInv, Chained, Received
  <2>4. /\ \A t \in accepted' : t = "OTHER" \/ \E r \in 1..sent : type[r] = t
        /\ \A i \in 1..Len(toModem') :
             toModem'[i].type = "OTHER" \/ \E r \in 1..sent : type[r] = toModem'[i].type
    BY <2>2 DEF IInv, Chained
  <2>. QED
    BY <1>7, <2>2, <2>3, <2>4, QueuesKeep DEF ModemReports
<1>8. CASE UNCHANGED vars
  <2>1. /\ UNCHANGED <<started, list, thises, toModem, toSysm, accepted, others, faults>>
    BY <1>8 DEF vars
  <2>2. /\ others \in 0..MaxOther /\ faults \in 0..MaxFault /\ toModem \in Seq(Messages)
        /\ accepted \subseteq Types \cup {"OTHER"} /\ Received(toSysm)
    BY DEF IInv, TypeOK, Chained, Received
  <2>. QED
    BY <2>1, <2>2, QueuesKeep DEF IInv, Chained, Received
<1>. QED
  BY <1>1, <1>2, <1>3, <1>4, <1>5, <1>6, <1>7, <1>8 DEF Next

(***************************************************************************)
(* A request that waits has its timer and has been told nothing; the start *)
(* sends each of its messages once, when the one before is accepted.       *)
(***************************************************************************)
THEOREM RequestsInvariant == Spec => []IInv
  BY InitInvariant, NextInvariant, PTL DEF Spec

\* The state of sysmgr.c and of the queues has its type; sends stay within the bound.
THEOREM RequestsTypes == Spec => []TypeOK
<1>1. IInv => TypeOK
  BY DEF IInv
<1>. QED
  BY RequestsInvariant, <1>1, PTL

\* No timer without a registered request and no request without a timer.
THEOREM TimersMatchRequests == Spec => []TimerPerRequest
<1>1. IInv => TimerPerRequest
  BY DEF IInv, Single, TimerPerRequest
<1>. QED
  BY RequestsInvariant, <1>1, PTL

\* The modem is not told to start before it has taken its address and its parameters.
THEOREM StartIsInOrder == Spec => []StartInOrder
<1>1. IInv => StartInOrder
  <2>. SUFFICES ASSUME IInv, NEW i \in 2..3,
                       (\E m \in 1..Len(toModem) : toModem[m].type = StartChain[i])
                         \/ StartChain[i] \in accepted
                PROVE  StartChain[i - 1] \in accepted
    BY DEF StartInOrder
  <2>1. /\ StartChain[i] \in {"SET_PARAM", "STT_NETWORK"}
        /\ StartChain[i] = "SET_PARAM" => StartChain[i - 1] = "SET_MAC"
        /\ StartChain[i] = "STT_NETWORK" => StartChain[i - 1] = "SET_PARAM"
    <3>1. i = 2 \/ i = 3
      OBVIOUS
    <3>. QED
      BY <3>1 DEF StartChain
  <2>2. \E r \in 1..sent : type[r] = StartChain[i]
    BY <2>1 DEF IInv, Chained
  <2>. QED
    BY <2>1, <2>2 DEF IInv, Chained
<1>. QED
  BY RequestsInvariant, <1>1, PTL

-----------------------------------------------------------------------------
\* The refinement: what the callbacks have been told is what Calls promises.

\* The state of a call, from what is registered.
LEMMA StatusOfRequest ==
  ASSUME IInv
  PROVE  /\ DOMAIN Status = Reqs
         /\ \A r \in Reqs :
              /\ r > sent => Status[r] = "new"
              /\ r \in sysm_head => Status[r] = "waits"
              /\ told[r] = <<>> /\ r <= sent => Status[r] = "waits"
<1>1. sent \in 0..MaxReq /\ sysm_head \subseteq 1..sent
  BY DEF IInv, TypeOK
<1>2. ASSUME NEW r \in Reqs
      PROVE  /\ r > sent => Status[r] = "new"
             /\ r \in sysm_head => Status[r] = "waits"
             /\ told[r] = <<>> /\ r <= sent => Status[r] = "waits"
  <2>1. r > sent \/ r \in sysm_head => told[r] = <<>>
    BY DEF IInv, Single
  <2>2. told[r] = <<>> => Status[r] = IF r \in 1..sent THEN "waits" ELSE "new"
    BY DEF Status
  <2>3. (r > sent => r \notin 1..sent) /\ (r <= sent => r \in 1..sent)
    BY <1>1, Numbers
  <2>. QED
    BY <2>1, <2>2, <2>3, <1>1
<1>. QED
  BY <1>2 DEF Status

\* A request is accepted or not, and nobody is told anything.
LEMMA SendImplements ==
  ASSUME IInv, IInv', NEW t, SysmgrSend(t, sysm_head, timers), told' = told
  PROVE  Promise!Next \/ Status' = Status
<1>1. sent \in 0..MaxReq /\ sent' \in 0..MaxReq /\ MaxReq \in Nat
  BY Numbers DEF IInv, TypeOK
<1>2. CASE sent' = sent
  BY <1>2 DEF Status
<1>3. CASE sent' = sent + 1
  <2>1. sent' \in Reqs /\ told[sent'] = <<>> /\ Status[sent'] = "new" /\ Status'[sent'] = "waits"
    <3>1. sent' \in Reqs /\ sent' > sent /\ sent' <= sent'
      BY <1>1, <1>3, Numbers
    <3>2. told[sent'] = <<>>
      BY <3>1 DEF IInv, Single
    <3>3. Status[sent'] = "new"
      BY <3>1, StatusOfRequest
    <3>4. told'[sent'] = <<>> /\ sent' \in 1..sent'
      BY <3>2, <1>1, <1>3
    <3>5. Status'[sent'] = "waits"
      BY <3>1, <3>4 DEF Status
    <3>. QED
      BY <3>1, <3>2, <3>3, <3>5
  <2>2. \A r \in Reqs : r # sent' => Status'[r] = Status[r]
    BY <1>1, <1>3, Numbers DEF Status
  <2>3. Status' = [Status EXCEPT ![sent'] = "waits"]
    BY <2>1, <2>2 DEF Status
  <2>4. Promise!Ask(sent')
    BY <2>1, <2>3 DEF Promise!Ask, Promise!New
  <2>. QED
    BY <2>1, <2>4 DEF Promise!Next
<1>. QED
  BY <1>2, <1>3 DEF SysmgrSend, Send, NothingSent

\* A callback, with the request that it may make.
LEMMA CallbackImplements ==
  ASSUME IInv, IInv', NEW r \in sysm_head, NEW reply \in Replies, Callback(r, reply)
  PROVE  Promise!Next
<1>1. /\ sent \in 0..MaxReq /\ sent' \in 0..MaxReq /\ MaxReq \in Nat
      /\ r \in Reqs /\ r \in 1..sent /\ told \in [Reqs -> Seq(Replies)] /\ told[r] = <<>>
  BY Numbers DEF IInv, TypeOK, Single
<1>2. told' = [told EXCEPT ![r] = Append(@, reply)] /\ sent' \in {sent, sent + 1}
  BY DEF Callback, SysmgrSend, Send, NothingSent
<1>3. told'[r] = <<reply>> /\ \A q \in Reqs : q # r => told'[q] = told[q]
  BY <1>1, <1>2
<1>4. Status'[r] \in {"answered", "expired"}
  <2>1. Len(told'[r]) = 1
    BY <1>3
  <2>. DEFINE end == IF told'[r][1] = TimeOut THEN "expired" ELSE "answered"
  <2>2. Status'[r] = IF Len(told'[r]) > 1 THEN "again"
                     ELSE IF Len(told'[r]) = 1 THEN end
                     ELSE IF r \in 1..sent' THEN "waits" ELSE "new"
    BY <1>1, Zenon DEF Status
  <2>3. end \in {"answered", "expired"}
    OBVIOUS
  <2>. HIDE DEF end
  <2>. QED
    BY <2>1, <2>2, <2>3
<1>5. Status[r] = "waits"
  BY <1>1, StatusOfRequest
<1>. DEFINE asked == {q \in Reqs : q = sent + 1 /\ sent' = sent + 1}
<1>6. asked \in SUBSET Promise!New
  <2>1. \A q \in asked : q \in Reqs /\ q > sent
    BY <1>1, Numbers
  <2>. QED
    BY <2>1, StatusOfRequest DEF Promise!New
<1>7. ASSUME NEW q \in Reqs
      PROVE  Status'[q] = IF q = r THEN Status'[r] ELSE IF q \in asked THEN "waits" ELSE Status[q]
  <2>1. CASE q = r
    BY <2>1
  <2>2. CASE q # r /\ q \in asked
    <3>1. q = sent' /\ q > sent /\ q \in 1..sent'
      BY <2>2, <1>1
    <3>2. told'[q] = <<>>
      BY <3>1, <2>2, <1>3 DEF IInv, Single
    <3>3. Len(told'[q]) = 0
      BY <3>2
    <3>4. Status'[q] = IF q \in 1..sent' THEN "waits" ELSE "new"
      BY <3>3 DEF Status
    <3>. QED
      BY <2>2, <3>1, <3>4
  <2>3. CASE q # r /\ q \notin asked
    <3>1. q \in 1..sent' <=> q \in 1..sent
      BY <2>3, <1>1, <1>2, Numbers
    <3>2. told'[q] = told[q]
      BY <2>3, <1>3
    <3>3. Status'[q] = Status[q]
      BY <3>1, <3>2 DEF Status
    <3>. QED
      BY <2>3, <3>3
  <2>. QED
    BY <2>1, <2>2, <2>3
<1>. HIDE DEF asked
<1>8. Status' = [q \in Reqs |-> IF q = r THEN Status'[r]
                                ELSE IF q \in asked THEN "waits" ELSE Status[q]]
  <2>1. Status' = [q \in Reqs |-> Status'[q]]
    BY DEF Status
  <2>. QED
    BY <2>1, <1>7
<1>9. Promise!End(r, Status'[r], asked)
  BY <1>5, <1>8 DEF Promise!End
<1>10. Promise!Called(r)
  BY <1>4, <1>6, <1>9 DEF Promise!Called
<1>. QED
  BY <1>1, <1>10 DEF Promise!Next

(***************************************************************************)
(* sysmgr.c keeps the promise of Calls: an accepted request is called back *)
(* at most once, by an answer or by its timer, whatever the modem does.    *)
(***************************************************************************)
THEOREM RequestsKeepThePromise == Spec => CalledBackOnce
<1>1. Init => Promise!Init
  BY Numbers DEF Init, Status, Promise!Init
<1>2. IInv /\ IInv' /\ [Next]_vars => [Promise!Next]_Status
  <2>. SUFFICES ASSUME IInv, IInv', [Next]_vars PROVE Promise!Next \/ Status' = Status
    OBVIOUS
  <2>1. CASE SetMac
    BY <2>1, SendImplements DEF SetMac
  <2>2. CASE This
    BY <2>2, SendImplements DEF This
  <2>3. ASSUME NEW r \in Reqs, SysmgrTimerCbk(r) PROVE Promise!Next
    <3>1. r \in sysm_head /\ TimeOut \in Replies
      BY <2>3, Numbers DEF SysmgrTimerCbk, IInv, Single, TimeOut, Replies
    <3>. QED
      BY <2>3, <3>1, CallbackImplements DEF SysmgrTimerCbk
  <2>4. CASE ProcEvent
    <3>1. CASE UNCHANGED <<list, toModem, faults>>
      BY <3>1 DEF list, Status
    <3>2. ASSUME NEW r \in Registered(Head(toSysm).type),
                 Callback(r, [of |-> Head(toSysm).of, ok |-> Head(toSysm).ok])
          PROVE  Promise!Next
      <4>1. r \in sysm_head
        BY DEF Registered
      <4>2. [of |-> Head(toSysm).of, ok |-> Head(toSysm).ok] \in Replies
        <5>1. toSysm \in Seq(Messages) /\ toSysm # <<>>
          BY <2>4 DEF ProcEvent, IInv, TypeOK
        <5>2. Head(toSysm) \in Messages
          BY <5>1, TailOfMessages
        <5>. QED
          BY <5>2 DEF Messages, Replies
      <4>. QED
        BY <3>2, <4>1, <4>2, CallbackImplements
    <3>. QED
      BY <2>4, <3>1, <3>2 DEF ProcEvent
  <2>5. CASE Tell \/ ModemTakes \/ ModemReports \/ UNCHANGED vars
    BY <2>5 DEF Tell, ModemTakes, ModemReports, vars, list, Status
  <2>. QED
    BY <2>1, <2>2, <2>3, <2>4, <2>5 DEF Next
<1>. QED
  BY <1>1, <1>2, RequestsInvariant, PTL DEF Spec, CalledBackOnce, Promise!Spec

-----------------------------------------------------------------------------
(***************************************************************************)
(* Answers and requests keep their order, so that whatever is on its way   *)
(* is later than what callbacks have got, and answers on their way from    *)
(* the modem are earlier than the messages that it has not taken.  As long *)
(* as nothing goes wrong the message or the answer of a request that waits *)
(* is on its way.                                                          *)
(***************************************************************************)
Before(a, msgs) == \A j \in 1..Len(msgs) : msgs[j].of # 0 => a < msgs[j].of

InLine(msgs) ==
  \A i, j \in 1..Len(msgs) : i < j /\ msgs[j].of # 0 => msgs[i].of < msgs[j].of

InOrder ==
  /\ InLine(toSysm) /\ InLine(toModem)
  /\ \A i \in 1..Len(toSysm) : Before(toSysm[i].of, toModem)
  /\ \A r \in Reqs : \A i \in 1..Len(told[r]) :
       Before(told[r][i].of, toSysm) /\ Before(told[r][i].of, toModem)

OfRequests(msgs) ==
  \A i \in 1..Len(msgs) :
    /\ msgs[i].of = 0 <=> msgs[i].type = "OTHER"
    /\ msgs[i].of # 0 => msgs[i].of <= sent /\ type[msgs[i].of] = msgs[i].type

Named ==
  /\ OfRequests(toSysm) /\ OfRequests(toModem)
  /\ \A r \in Reqs : \A i \in 1..Len(told[r]) :
       told[r][i].of <= sent /\ (told[r][i].of = 0 => told[r][i] = TimeOut)

In(r, msgs) == \E i \in 1..Len(msgs) : msgs[i].of = r

Answering == faults = 0 => \A r \in sysm_head : In(r, toSysm) \/ In(r, toModem)

InTurn == Named /\ InOrder /\ Answering /\ AnswersApart

LEMMA NumbersOfMessages ==
  ASSUME NEW q \in Seq(Messages)
  PROVE  \A i \in 1..Len(q) : q[i].of \in Nat
<1>1. ASSUME NEW i \in 1..Len(q) PROVE q[i].of \in Nat
  <2>1. q[i] \in Messages
    OBVIOUS
  <2>. QED
    BY <2>1, Numbers DEF Messages
<1>. QED
  BY <1>1

\* A message that is added at the end, later than the others.
LEMMA AppendInLine ==
  ASSUME NEW q \in Seq(Messages), NEW m \in Messages, InLine(q),
         m.of # 0 => \A i \in 1..Len(q) : q[i].of < m.of
  PROVE  InLine(Append(q, m))
<1>. DEFINE p == Append(q, m)
<1>1. Len(p) = Len(q) + 1 /\ p[Len(q) + 1] = m /\ \A i \in 1..Len(q) : p[i] = q[i]
  BY AppendMessage
<1>2. Len(q) \in Nat
  OBVIOUS
<1>. HIDE DEF p
<1>3. ASSUME NEW i \in 1..Len(p), NEW j \in 1..Len(p), i < j, p[j].of # 0
      PROVE  p[i].of < p[j].of
  <2>1. i \in 1..Len(q)
    BY <1>1, <1>2, <1>3
  <2>2. CASE j \in 1..Len(q)
    BY <2>1, <2>2, <1>1, <1>3 DEF InLine
  <2>3. CASE j = Len(q) + 1
    BY <2>1, <2>3, <1>1, <1>3
  <2>. QED
    BY <2>2, <2>3, <1>1, <1>2
<1>. QED
  BY <1>3 DEF InLine, p

LEMMA AppendBefore ==
  ASSUME NEW q \in Seq(Messages), NEW m \in Messages, NEW a, Before(a, q),
         m.of # 0 => a < m.of
  PROVE  Before(a, Append(q, m))
<1>. DEFINE p == Append(q, m)
<1>1. Len(p) = Len(q) + 1 /\ p[Len(q) + 1] = m /\ \A i \in 1..Len(q) : p[i] = q[i]
  BY AppendMessage
<1>2. Len(q) \in Nat
  OBVIOUS
<1>. HIDE DEF p
<1>3. \A j \in 1..Len(p) : j \in 1..Len(q) \/ j = Len(q) + 1
  BY <1>1, <1>2
<1>4. \A j \in 1..Len(p) : p[j].of # 0 => a < p[j].of
  BY <1>1, <1>3 DEF Before
<1>. QED
  BY <1>4 DEF Before, p

LEMMA AppendIn ==
  ASSUME NEW q \in Seq(Messages), NEW m \in Messages
  PROVE  /\ In(m.of, Append(q, m))
         /\ \A r : In(r, q) => In(r, Append(q, m))
<1>. DEFINE p == Append(q, m)
<1>1. Len(p) = Len(q) + 1 /\ p[Len(q) + 1] = m /\ \A i \in 1..Len(q) : p[i] = q[i]
  BY AppendMessage
<1>2. Len(q) \in Nat
  OBVIOUS
<1>. HIDE DEF p
<1>3. Len(q) + 1 \in 1..Len(p) /\ \A i \in 1..Len(q) : i \in 1..Len(p)
  BY <1>1, <1>2
<1>4. In(m.of, p) /\ \A r : In(r, q) => In(r, p)
  BY <1>1, <1>3 DEF In
<1>. QED
  BY <1>4 DEF p

\* The first message is taken.
LEMMA TailInLine ==
  ASSUME NEW q \in Seq(Messages), q # <<>>, InLine(q)
  PROVE  /\ InLine(Tail(q)) /\ Before(Head(q).of, Tail(q))
         /\ \A a : Before(a, q) => Before(a, Tail(q))
         /\ \A r : In(r, q) => r = Head(q).of \/ In(r, Tail(q))
<1>. DEFINE p == Tail(q)
<1>1. /\ Head(q) = q[1] /\ 1 \in 1..Len(q) /\ Len(q) = Len(p) + 1 /\ Len(p) \in Nat
      /\ \A i \in 1..Len(p) : i + 1 \in 1..Len(q) /\ p[i] = q[i + 1]
  BY TailOfMessages
<1>. HIDE DEF p
<1>2. \A i \in 1..Len(p) : 1 < i + 1 /\ \A j \in 1..Len(p) : i < j => i + 1 < j + 1
  BY <1>1
<1>3. InLine(p) /\ Before(q[1].of, p) /\ \A a : Before(a, q) => Before(a, p)
  BY <1>1, <1>2 DEF InLine, Before
<1>4. ASSUME NEW r, In(r, q) PROVE r = q[1].of \/ In(r, p)
  <2>1. PICK i \in 1..Len(q) : q[i].of = r
    BY <1>4 DEF In
  <2>2. i = 1 \/ (i - 1 \in 1..Len(p) /\ (i - 1) + 1 = i)
    BY <1>1
  <2>. QED
    BY <2>1, <2>2, <1>1 DEF In
<1>. QED
  BY <1>1, <1>3, <1>4 DEF p

-----------------------------------------------------------------------------
(***************************************************************************)
(* What a step of sysm does: it reads the first answer or none, a callback *)
(* of one request or none is called, and a request is sent or none.        *)
(***************************************************************************)
ReadsOne == toSysm # <<>> /\ toSysm' = Tail(toSysm)

SendsOne ==
  /\ sent' = sent + 1 /\ sent' \in Reqs /\ sent' \in sysm_head'
  /\ type'[sent'] \in Types /\ \A r \in 1..sent : type'[r] = type[r]
  /\ toModem' = Append(toModem, [type |-> type'[sent'], of |-> sent', ok |-> TRUE])
SendsNone == UNCHANGED <<sent, type, toModem>>

TellsOne(r, reply) ==
  /\ r \in sysm_head /\ reply \in Replies
  /\ told' = [told EXCEPT ![r] = <<reply>>]
  /\ r \notin sysm_head' /\ sysm_head' \subseteq sysm_head \cup {sent'}

\* The callback of a request gets an answer to its type, or none.
Gets(r, reply) ==
  \/ reply = TimeOut /\ toSysm' = toSysm
  \/ /\ ReadsOne /\ r \in Registered(Head(toSysm).type)
     /\ reply = [of |-> Head(toSysm).of, ok |-> Head(toSysm).ok]

TellsNone ==
  /\ told' = told /\ sysm_head' \subseteq sysm_head \cup {sent'}
  /\ \/ toSysm' = toSysm
     \/ ReadsOne /\ Registered(Head(toSysm).type) = {}

SysmStep ==
  /\ SendsOne \/ (SendsNone /\ sysm_head' \subseteq sysm_head)
  /\ TellsNone \/ \E r, reply : TellsOne(r, reply) /\ Gets(r, reply)
  /\ faults' \in {faults, faults + 1}

\* What is known of the variables in these proofs.
LEMMA KnownTypes ==
  ASSUME IInv
  PROVE  /\ toSysm \in Seq(Messages) /\ toModem \in Seq(Messages)
         /\ sent \in 0..MaxReq /\ sent \in Nat /\ faults \in Nat
         /\ sysm_head \subseteq 1..sent /\ 1..sent \subseteq Reqs
         /\ told \in [Reqs -> Seq(Replies)]
         /\ \A r \in sysm_head : r \in Reqs /\ told[r] = <<>>
         /\ \A r \in Reqs : r \notin sysm_head /\ r <= sent => Len(told[r]) = 1
         /\ \A r \in Reqs : told[r] # <<>> => r \notin sysm_head /\ r <= sent /\ Len(told[r]) = 1
<1>1. /\ toSysm \in Seq(Messages) /\ toModem \in Seq(Messages)
      /\ sent \in 0..MaxReq /\ sent \in Nat /\ faults \in Nat
      /\ sysm_head \subseteq 1..sent /\ 1..sent \subseteq Reqs
      /\ told \in [Reqs -> Seq(Replies)]
  BY Numbers, SysMgrAssumption DEF IInv, TypeOK
<1>2. /\ \A r \in Reqs : r \in sysm_head \/ r > sent => told[r] = <<>>
      /\ \A r \in Reqs : r \notin sysm_head /\ r <= sent => Len(told[r]) = 1
  BY DEF IInv, Single
<1>3. \A r \in Reqs : r > sent \/ r <= sent
  BY <1>1, Numbers
<1>. QED
  BY <1>1, <1>2, <1>3

\* A request that is sent is later than everything else.
LEMMA SendsInTurn ==
  ASSUME IInv, Named, InOrder, SendsOne \/ SendsNone, Named'
  PROVE  /\ sent <= sent' /\ \A r \in 1..sent : r \in 1..sent' /\ type'[r] = type[r]
         /\ InLine(toModem')
         /\ \A a \in 0..sent : Before(a, toModem) => Before(a, toModem')
         /\ \A r : In(r, toModem) => In(r, toModem')
         /\ sent' # sent => In(sent', toModem')
<1>1. toModem \in Seq(Messages) /\ sent \in Nat
  BY KnownTypes
<1>2. CASE SendsNone
  BY <1>1, <1>2 DEF SendsNone, InOrder
<1>3. CASE SendsOne
  <2>. DEFINE m == [type |-> type'[sent'], of |-> sent', ok |-> TRUE]
  <2>1. m \in Messages /\ m.of = sent' /\ toModem' = Append(toModem, m)
    BY <1>3, Numbers DEF SendsOne, Messages
  <2>2. /\ sent' = sent + 1
        /\ \A r \in 1..sent : r \in 1..sent' /\ type'[r] = type[r]
    BY <1>1, <1>3 DEF SendsOne
  <2>. HIDE DEF m
  <2>3. \A i \in 1..Len(toModem) : toModem[i].of < m.of
    <3>1. \A i \in 1..Len(toModem) : toModem[i].of = 0 \/ toModem[i].of <= sent
      BY DEF Named, OfRequests
    <3>2. \A i \in 1..Len(toModem) : toModem[i].of \in Nat
      BY <1>1, NumbersOfMessages
    <3>. QED
      BY <1>1, <2>1, <2>2, <3>1, <3>2
  <2>4. InLine(toModem')
    BY <1>1, <2>1, <2>3, AppendInLine DEF InOrder
  <2>5. \A a \in 0..sent : Before(a, toModem) => Before(a, toModem')
    <3>1. \A a \in 0..sent : a < m.of
      BY <1>1, <2>1, <2>2
    <3>. QED
      BY <1>1, <2>1, <3>1, AppendBefore
  <2>6. In(sent', toModem') /\ \A r : In(r, toModem) => In(r, toModem')
    BY <1>1, <2>1, AppendIn
  <2>. QED
    BY <1>1, <2>2, <2>4, <2>5, <2>6
<1>. QED
  BY <1>2, <1>3

LEMMA SysmNamed ==
  ASSUME IInv, Named, SysmStep
  PROVE  Named'
<1>1. /\ toSysm \in Seq(Messages) /\ toModem \in Seq(Messages) /\ sent \in Nat
      /\ told \in [Reqs -> Seq(Replies)] /\ sysm_head \subseteq 1..sent /\ 1..sent \subseteq Reqs
  BY KnownTypes
<1>2. SendsOne \/ SendsNone
  BY DEF SysmStep
<1>3. sent' \in Nat /\ sent <= sent' /\ \A r \in 1..sent : r \in 1..sent' /\ type'[r] = type[r]
  BY <1>1, <1>2 DEF SendsOne, SendsNone
<1>4. ASSUME NEW q \in Seq(Messages), OfRequests(q), NEW i \in 1..Len(q)
      PROVE  /\ q[i].of = 0 <=> q[i].type = "OTHER"
             /\ q[i].of # 0 => q[i].of <= sent' /\ type'[q[i].of] = q[i].type
  <2>1. q[i].of \in Nat
    BY NumbersOfMessages
  <2>2. /\ q[i].of = 0 <=> q[i].type = "OTHER"
        /\ q[i].of # 0 => q[i].of <= sent /\ type[q[i].of] = q[i].type
    BY <1>4 DEF OfRequests
  <2>3. CASE q[i].of = 0
    BY <2>2, <2>3
  <2>4. CASE q[i].of # 0
    <3>1. q[i].of \in 1..sent
      BY <1>1, <2>1, <2>2, <2>4
    <3>2. q[i].of \in 1..sent' /\ type'[q[i].of] = type[q[i].of]
      BY <1>3, <3>1
    <3>. QED
      BY <1>3, <2>2, <2>4, <3>1, <3>2
  <2>. QED
    BY <2>3, <2>4
<1>5. OfRequests(toModem)'
  <2>1. CASE SendsNone
    <3>1. toModem' = toModem
      BY <2>1 DEF SendsNone
    <3>. QED
      BY <1>1, <1>4, <3>1 DEF Named, OfRequests
  <2>2. CASE SendsOne
    <3>. DEFINE m == [type |-> type'[sent'], of |-> sent', ok |-> TRUE]
    <3>1. /\ m \in Messages /\ toModem' = Append(toModem, m)
          /\ m.of = sent' /\ m.type = type'[sent'] /\ m.type # "OTHER" /\ sent' # 0
      BY <1>1, <2>2, Numbers DEF SendsOne, Messages, Types
    <3>. HIDE DEF m
    <3>2. /\ Len(toModem') = Len(toModem) + 1 /\ toModem'[Len(toModem) + 1] = m
          /\ \A i \in 1..Len(toModem) : toModem'[i] = toModem[i]
      BY <1>1, <3>1, AppendMessage
    <3>3. ASSUME NEW i \in 1..Len(toModem')
          PROVE  /\ toModem'[i].of = 0 <=> toModem'[i].type = "OTHER"
                 /\ toModem'[i].of # 0 => toModem'[i].of <= sent' /\ type'[toModem'[i].of] = toModem'[i].type
      <4>1. CASE i \in 1..Len(toModem)
        BY <1>1, <1>4, <3>2, <4>1 DEF Named
      <4>2. CASE i = Len(toModem) + 1
        BY <1>3, <3>1, <3>2, <4>2
      <4>. QED
        BY <1>1, <3>2, <4>1, <4>2
    <3>. QED
      BY <3>3 DEF OfRequests
  <2>. QED
    BY <1>2, <2>1, <2>2
<1>6. OfRequests(toSysm)'
  <2>1. CASE toSysm' = toSysm
    BY <1>1, <1>4, <2>1 DEF Named, OfRequests
  <2>2. CASE ReadsOne
    <3>1. \A i \in 1..Len(toSysm') : i + 1 \in 1..Len(toSysm) /\ toSysm'[i] = toSysm[i + 1]
      BY <1>1, <2>2, TailOfMessages DEF ReadsOne
    <3>2. OfRequests(toSysm)
      BY DEF Named
    <3>3. ASSUME NEW i \in 1..Len(toSysm')
          PROVE  /\ toSysm'[i].of = 0 <=> toSysm'[i].type = "OTHER"
                 /\ toSysm'[i].of # 0 => toSysm'[i].of <= sent' /\ type'[toSysm'[i].of] = toSysm'[i].type
      BY <1>1, <1>4, <3>1, <3>2
    <3>. QED
      BY <3>3 DEF OfRequests
  <2>. QED
    BY <2>1, <2>2 DEF SysmStep, TellsNone, Gets
<1>7. ASSUME NEW x \in Reqs, NEW i \in 1..Len(told'[x])
      PROVE  told'[x][i].of <= sent' /\ (told'[x][i].of = 0 => told'[x][i] = TimeOut)
  <2>1. ASSUME told'[x] = told[x]
        PROVE  told'[x][i].of <= sent' /\ (told'[x][i].of = 0 => told'[x][i] = TimeOut)
    <3>1. told[x][i].of <= sent /\ (told[x][i].of = 0 => told[x][i] = TimeOut)
      BY <2>1 DEF Named
    <3>2. told[x][i].of \in Nat
      <4>1. told[x][i] \in Replies
        BY <1>1, <2>1
      <4>. QED
        BY <4>1, Numbers DEF Replies
    <3>. QED
      BY <1>1, <1>3, <2>1, <3>1, <3>2
  <2>2. CASE TellsNone
    BY <2>1, <2>2 DEF TellsNone
  <2>3. ASSUME NEW r, NEW reply, TellsOne(r, reply), Gets(r, reply)
        PROVE  told'[x][i].of <= sent' /\ (told'[x][i].of = 0 => told'[x][i] = TimeOut)
    <3>1. CASE x # r
      BY <1>1, <2>1, <2>3, <3>1 DEF TellsOne
    <3>2. CASE x = r
      <4>1. told'[x][i] = reply
        BY <1>1, <2>3, <3>2 DEF TellsOne
      <4>2. CASE reply = TimeOut
        BY <1>3, <4>1, <4>2 DEF TimeOut
      <4>3. CASE /\ ReadsOne /\ r \in Registered(Head(toSysm).type)
                 /\ reply = [of |-> Head(toSysm).of, ok |-> Head(toSysm).ok]
        <5>1. Head(toSysm) = toSysm[1] /\ 1 \in 1..Len(toSysm)
          BY <1>1, <4>3, TailOfMessages DEF ReadsOne
        <5>2. type[r] = Head(toSysm).type /\ r \in 1..sent
          BY <1>1, <4>3 DEF Registered
        <5>3. type[r] # "OTHER"
          <6>1. type[r] \in Types \cup {"NONE"}
            BY <1>1, <5>2 DEF IInv, TypeOK
          <6>. QED
            BY <6>1 DEF Types
        <5>4. reply.of # 0 /\ reply.of <= sent'
          BY <1>1, <1>4, <4>3, <5>1, <5>2, <5>3 DEF Named
        <5>. QED
          BY <4>1, <5>4
      <4>. QED
        BY <2>3, <4>2, <4>3 DEF Gets
    <3>. QED
      BY <3>1, <3>2
  <2>. QED
    BY <2>2, <2>3 DEF SysmStep
<1>. QED
  BY <1>5, <1>6, <1>7 DEF Named

LEMMA SysmInOrder ==
  ASSUME IInv, Named, InOrder, SysmStep, Named'
  PROVE  InOrder'
<1>1. /\ toSysm \in Seq(Messages) /\ toModem \in Seq(Messages) /\ sent \in Nat
      /\ told \in [Reqs -> Seq(Replies)]
      /\ \A i \in 1..Len(toSysm) : toSysm[i].of \in 0..sent
  <2>1. \A i \in 1..Len(toSysm) : toSysm[i].of = 0 \/ toSysm[i].of <= sent
    BY DEF Named, OfRequests
  <2>. QED
    BY <2>1, KnownTypes, NumbersOfMessages
<1>2. /\ InLine(toModem')
      /\ \A a \in 0..sent : Before(a, toModem) => Before(a, toModem')
  BY SendsInTurn DEF SysmStep
<1>3. toSysm' = toSysm \/ ReadsOne
  BY DEF SysmStep, TellsNone, Gets
<1>4. /\ InLine(toSysm') /\ \A a : Before(a, toSysm) => Before(a, toSysm')
      /\ \A i \in 1..Len(toSysm') : \E j \in 1..Len(toSysm) : toSysm'[i] = toSysm[j]
  <2>1. CASE toSysm' = toSysm
    BY <2>1 DEF InOrder
  <2>2. CASE ReadsOne
    BY <1>1, <2>2, TailInLine, TailOfMessages DEF ReadsOne, InOrder
  <2>. QED
    BY <1>3, <2>1, <2>2
<1>5. \A i \in 1..Len(toSysm') : Before(toSysm'[i].of, toModem')
  BY <1>1, <1>2, <1>4 DEF InOrder
<1>6. ASSUME NEW x \in Reqs, NEW i \in 1..Len(told'[x])
      PROVE  Before(told'[x][i].of, toSysm') /\ Before(told'[x][i].of, toModem')
  <2>1. ASSUME told'[x] = told[x]
        PROVE  Before(told'[x][i].of, toSysm') /\ Before(told'[x][i].of, toModem')
    <3>1. told[x][i].of \in 0..sent
      <4>1. told[x][i] \in Replies /\ told[x][i].of <= sent
        BY <1>1, <2>1 DEF Named
      <4>. QED
        BY <1>1, <4>1, Numbers DEF Replies
    <3>2. Before(told[x][i].of, toSysm) /\ Before(told[x][i].of, toModem)
      BY <2>1 DEF InOrder
    <3>. QED
      BY <1>2, <1>4, <2>1, <3>1, <3>2
  <2>2. CASE TellsNone
    BY <2>1, <2>2 DEF TellsNone
  <2>3. ASSUME NEW r, NEW reply, TellsOne(r, reply), Gets(r, reply)
        PROVE  Before(told'[x][i].of, toSysm') /\ Before(told'[x][i].of, toModem')
    <3>1. CASE x # r
      BY <1>1, <2>1, <2>3, <3>1 DEF TellsOne
    <3>2. CASE x = r
      <4>1. told'[x][i] = reply
        BY <1>1, <2>3, <3>2 DEF TellsOne
      <4>2. CASE reply = TimeOut /\ toSysm' = toSysm
        <5>1. reply.of = 0
          BY <4>2 DEF TimeOut
        <5>2. /\ \A j \in 1..Len(toSysm) : toSysm[j].of \in Nat
              /\ \A j \in 1..Len(toModem) : toModem[j].of \in Nat
          BY <1>1, NumbersOfMessages
        <5>3. Before(0, toSysm) /\ Before(0, toModem)
          BY <5>2 DEF Before
        <5>. QED
          BY <1>1, <1>2, <1>4, <4>1, <5>1, <5>3
      <4>3. CASE /\ ReadsOne /\ r \in Registered(Head(toSysm).type)
                 /\ reply = [of |-> Head(toSysm).of, ok |-> Head(toSysm).ok]
        <5>1. Head(toSysm) = toSysm[1] /\ 1 \in 1..Len(toSysm) /\ Before(Head(toSysm).of, toSysm')
          BY <1>1, <4>3, TailOfMessages, TailInLine DEF ReadsOne, InOrder
        <5>2. Before(Head(toSysm).of, toModem')
          BY <1>1, <1>2, <5>1 DEF InOrder
        <5>. QED
          BY <4>1, <4>3, <5>1, <5>2
      <4>. QED
        BY <2>3, <4>2, <4>3 DEF Gets
    <3>. QED
      BY <3>1, <3>2
  <2>. QED
    BY <2>2, <2>3 DEF SysmStep
<1>. QED
  BY <1>2, <1>4, <1>5, <1>6 DEF InOrder

\* The oldest request of a type, if there is one.
LEMMA RegisteredIsOldest ==
  ASSUME IInv, NEW x \in sysm_head
  PROVE  /\ Registered(type[x]) # {}
         /\ \A r \in Registered(type[x]) : r \in sysm_head /\ type[r] = type[x] /\ r <= x
<1>. DEFINE S == {r \in sysm_head : type[r] = type[x]}
<1>1. S \subseteq Nat /\ x \in S
  BY KnownTypes
<1>2. Least(S) \in S /\ \A y \in S : Least(S) <= y
  BY <1>1, LeastOfNaturals
<1>3. Least(S) \in Registered(type[x])
  BY <1>2 DEF Registered
<1>. QED
  BY <1>3 DEF Registered

\* Without a fault the answer that is read is not that of a request that goes on waiting.
LEMMA SysmAnswering ==
  ASSUME IInv, Named, InOrder, Answering, SysmStep, Named'
  PROVE  Answering'
<1>1. /\ toSysm \in Seq(Messages) /\ toModem \in Seq(Messages) /\ sent \in Nat
      /\ faults \in Nat /\ sysm_head \subseteq 1..sent
  BY KnownTypes
<1>2. SUFFICES ASSUME faults' = 0, NEW x \in sysm_head'
               PROVE  In(x, toSysm') \/ In(x, toModem')
  BY DEF Answering
<1>3. /\ \A r : In(r, toModem) => In(r, toModem')
      /\ sent' # sent => In(sent', toModem')
  BY SendsInTurn DEF SysmStep
<1>4. faults = 0 /\ \A r \in sysm_head : In(r, toSysm) \/ In(r, toModem)
  BY <1>1, <1>2 DEF SysmStep, Answering
<1>5. CASE x \notin sysm_head
  <2>1. x = sent' /\ sent' # sent
    <3>1. sysm_head' \subseteq sysm_head \cup {sent'}
      BY DEF SysmStep, TellsNone, TellsOne
    <3>2. SendsOne
      BY <1>2, <1>5 DEF SysmStep
    <3>. QED
      BY <1>1, <1>2, <1>5, <3>1, <3>2 DEF SendsOne
  <2>. QED
    BY <1>3, <2>1
<1>6. CASE x \in sysm_head
  <2>1. CASE toSysm' = toSysm
    BY <1>3, <1>4, <1>6, <2>1
  <2>2. CASE ReadsOne
    <3>. DEFINE m == Head(toSysm)
    <3>1. /\ m = toSysm[1] /\ 1 \in 1..Len(toSysm) /\ toSysm' = Tail(toSysm)
          /\ \A r : In(r, toSysm) => r = m.of \/ In(r, toSysm')
          /\ Before(m.of, toSysm')
      BY <1>1, <2>2, TailOfMessages, TailInLine DEF ReadsOne, InOrder
    <3>2. SUFFICES ASSUME x = m.of PROVE In(x, toSysm') \/ In(x, toModem')
      BY <1>3, <1>4, <1>6, <3>1
    <3>3. type[x] = m.type
      BY <1>1, <1>6, <3>1, <3>2 DEF Named, OfRequests
    <3>4. PICK r \in Registered(m.type) : \E reply : TellsOne(r, reply) /\ Gets(r, reply)
      <4>1. Registered(m.type) # {} /\ ~(toSysm' = toSysm)
        <5>1. Len(Tail(toSysm)) # Len(toSysm)
          BY <1>1, <2>2 DEF ReadsOne
        <5>. QED
          BY <1>6, <3>1, <3>3, <5>1, RegisteredIsOldest
      <4>. QED
        BY <4>1 DEF SysmStep, TellsNone, Gets
    <3>5. r \in sysm_head /\ r <= x /\ r # x
      <4>1. r \in sysm_head /\ r <= x
        BY <1>6, <3>3, RegisteredIsOldest
      <4>2. r \notin sysm_head'
        BY <3>4 DEF TellsOne
      <4>. QED
        BY <1>2, <4>1, <4>2
    <3>51. r \in Nat /\ x \in Nat /\ r # 0 /\ r < x
      BY <1>1, <1>6, <3>5
    <3>6. In(r, toSysm) \/ In(r, toModem)
      BY <1>4, <3>5
    <3>7. CASE In(r, toSysm')
      <4>1. PICK i \in 1..Len(toSysm') : toSysm'[i].of = r
        BY <3>7 DEF In
      <4>2. x < r
        BY <3>1, <3>2, <3>51, <4>1 DEF Before
      <4>. QED
        BY <3>51, <4>2
    <3>8. CASE In(r, toModem)
      <4>1. Before(x, toModem)
        BY <3>1, <3>2 DEF InOrder
      <4>. QED
        <5>1. PICK i \in 1..Len(toModem) : toModem[i].of = r
          BY <3>8 DEF In
        <5>2. x < r
          BY <3>51, <4>1, <5>1 DEF Before
        <5>. QED
          BY <3>51, <5>2
    <3>. QED
      BY <3>1, <3>2, <3>5, <3>6, <3>7, <3>8
  <2>. QED
    BY <2>1, <2>2 DEF SysmStep, TellsNone, Gets
<1>. QED
  BY <1>5, <1>6

\* Answers reach their requests, or one has given up before, or one is missing.
LEMMA SysmAnswersApart ==
  ASSUME IInv, InTurn, SysmStep, Named'
  PROVE  AnswersApart'
<1>. DEFINE Apart(r, q) ==
              q \notin {0, r} =>
                /\ type[q] = type[r]
                /\ q < r => \E p \in 1..q : type[p] = type[r] /\ told[p] = <<TimeOut>>
                /\ q > r => faults > 0
            Later(r, q) ==
              q \notin {0, r} =>
                /\ type'[q] = type'[r]
                /\ q < r => \E p \in 1..q : type'[p] = type'[r] /\ told'[p] = <<TimeOut>>
                /\ q > r => faults' > 0
<1>1. /\ toSysm \in Seq(Messages) /\ toModem \in Seq(Messages) /\ sent \in Nat
      /\ told \in [Reqs -> Seq(Replies)] /\ faults \in Nat /\ sysm_head \subseteq 1..sent
      /\ 1..sent \subseteq Reqs /\ Reqs \subseteq Nat
      /\ \A r \in sysm_head : told[r] = <<>>
      /\ \A r \in Reqs : told[r] # <<>> => r \notin sysm_head /\ r <= sent /\ Len(told[r]) = 1
  BY KnownTypes, Numbers
<1>2. \A r \in Reqs : \A i \in 1..Len(told[r]) :
        /\ told[r][i].of \in 0..sent /\ told[r][i] \in Replies
        /\ told[r][i].of = 0 => told[r][i] = TimeOut
        /\ Before(told[r][i].of, toSysm)
        /\ Apart(r, told[r][i].of)
  <2>1. \A r \in Reqs : \A i \in 1..Len(told[r]) : told[r][i] \in Replies
    BY <1>1
  <2>2. \A r \in Reqs : \A i \in 1..Len(told[r]) :
          told[r][i].of <= sent /\ (told[r][i].of = 0 => told[r][i] = TimeOut)
    BY DEF InTurn, Named
  <2>3. \A r \in Reqs : \A i \in 1..Len(told[r]) : told[r][i].of \in Nat
    BY <2>1, Numbers DEF Replies
  <2>4. \A r \in Reqs : \A i \in 1..Len(told[r]) : Before(told[r][i].of, toSysm)
    BY DEF InTurn, InOrder
  <2>5. \A r \in Reqs : \A i \in 1..Len(told[r]) : Apart(r, told[r][i].of)
    BY DEF InTurn, AnswersApart
  <2>. HIDE DEF Apart
  <2>. QED
    BY <1>1, <2>1, <2>2, <2>3, <2>4, <2>5
<1>3. /\ \A r \in 1..sent : type'[r] = type[r]
      /\ faults' >= faults /\ faults' \in Nat
      /\ \A p \in Reqs : told[p] # <<>> => told'[p] = told[p]
  <2>1. \A r \in 1..sent : type'[r] = type[r]
    BY <1>1, SendsInTurn DEF SysmStep, InTurn
  <2>2. \A p \in Reqs : told[p] # <<>> => told'[p] = told[p]
    BY <1>1 DEF SysmStep, TellsNone, TellsOne
  <2>. QED
    BY <1>1, <2>1, <2>2 DEF SysmStep
\* What was given before remains as it was.
<1>4. ASSUME NEW r \in 1..sent, NEW q \in 0..sent, Apart(r, q)
      PROVE  Later(r, q)
  <2>1. SUFFICES ASSUME q \notin {0, r} PROVE Later(r, q)
    OBVIOUS
  <2>2. q \in 1..sent /\ type'[q] = type'[r]
    BY <1>1, <1>3, <1>4, <2>1
  <2>3. ASSUME q < r PROVE \E p \in 1..q : type'[p] = type'[r] /\ told'[p] = <<TimeOut>>
    <3>1. PICK p \in 1..q : type[p] = type[r] /\ told[p] = <<TimeOut>>
      BY <1>4, <2>1, <2>3
    <3>2. p \in 1..sent /\ p \in Reqs /\ told[p] # <<>>
      BY <1>1, <3>1
    <3>. QED
      BY <1>3, <3>1, <3>2
  <2>4. q > r => faults' > 0
    BY <1>1, <1>3, <1>4, <2>1
  <2>. QED
    BY <2>2, <2>3, <2>4
<1>5. ASSUME NEW r, ReadsOne, r \in Registered(Head(toSysm).type)
      PROVE  Apart(r, Head(toSysm).of)
  <2>. DEFINE m == Head(toSysm)
              q == m.of
  <2>1. /\ m = toSysm[1] /\ 1 \in 1..Len(toSysm) /\ Before(q, toModem)
        /\ \A x : In(x, toSysm) => x = q \/ In(x, Tail(toSysm))
        /\ Before(q, Tail(toSysm))
    BY <1>1, <1>5, TailOfMessages, TailInLine DEF ReadsOne, InTurn, InOrder
  <2>2. /\ q \in Nat /\ (q # 0 => q <= sent /\ type[q] = m.type)
    BY <1>1, <2>1, NumbersOfMessages DEF InTurn, Named, OfRequests
  <2>3. /\ r \in sysm_head /\ type[r] = m.type /\ r \in 1..sent
        /\ \A y \in sysm_head : type[y] = m.type => r <= y
    BY <1>1, <1>5 DEF Registered
  <2>4. SUFFICES ASSUME q # 0, q # r PROVE Apart(r, q)
    OBVIOUS
  <2>5. q \in 1..sent /\ q \in Reqs /\ type[q] = type[r]
    BY <1>1, <2>2, <2>3, <2>4
  <2>6. ASSUME q < r PROVE \E p \in 1..q : type[p] = type[r] /\ told[p] = <<TimeOut>>
    <3>1. q \notin sysm_head /\ ~(q > sent)
      BY <1>1, <2>2, <2>3, <2>4, <2>5, <2>6
    <3>2. Len(told[q]) = 1 /\ 1 \in 1..Len(told[q])
      BY <3>1, <2>5, <2>2 DEF IInv, Single
    <3>. DEFINE x == told[q][1].of
    <3>3. /\ x \in 0..sent /\ (x = 0 => told[q][1] = TimeOut)
          /\ Before(x, toSysm) /\ Apart(q, x)
      BY <1>2, <2>5, <3>2
    <3>4. x < q
      BY <2>1, <2>4, <3>3 DEF Before
    <3>5. CASE x = 0
      <4>1. told[q] = <<TimeOut>>
        BY <1>1, <2>5, <3>2, <3>3, <3>5
      <4>. QED
        BY <2>5, <4>1
    <3>6. CASE x # 0
      <4>1. \E p \in 1..x : type[p] = type[q] /\ told[p] = <<TimeOut>>
        BY <2>2, <3>3, <3>4, <3>6
      <4>. QED
        BY <1>1, <2>5, <3>3, <3>4, <4>1
    <3>. QED
      BY <3>5, <3>6
  <2>7. ASSUME q > r PROVE faults > 0
    <3>1. SUFFICES ASSUME faults = 0 PROVE FALSE
      BY <1>1
    <3>2. In(r, Tail(toSysm)) \/ In(r, toModem)
      BY <2>1, <2>3, <2>4, <3>1 DEF InTurn, Answering
    <3>3. q < r
      <4>1. r # 0
        BY <2>3
      <4>. QED
        BY <2>1, <3>2, <4>1 DEF Before, In
    <3>. QED
      BY <1>1, <2>2, <2>3, <2>7, <3>3
  <2>. QED
    BY <2>5, <2>6, <2>7
<1>6. ASSUME NEW r \in Reqs, NEW i \in 1..Len(told'[r])
      PROVE  Later(r, told'[r][i].of)
  <2>1. ASSUME told'[r] = told[r] PROVE Later(r, told'[r][i].of)
    <3>1. r \in 1..sent
      <4>1. told[r] # <<>>
        BY <1>6, <2>1
      <4>. QED
        BY <1>1, <4>1, Numbers
    <3>2. told[r][i].of \in 0..sent /\ Apart(r, told[r][i].of)
      BY <1>2, <2>1
    <3>. QED
      BY <1>4, <2>1, <3>1, <3>2
  <2>2. CASE TellsNone
    BY <2>1, <2>2 DEF TellsNone
  <2>3. ASSUME NEW x, NEW reply, TellsOne(x, reply), Gets(x, reply)
        PROVE  Later(r, told'[r][i].of)
    <3>1. CASE r # x
      BY <1>1, <2>1, <2>3, <3>1 DEF TellsOne
    <3>2. CASE r = x
      <4>1. told'[r][i] = reply /\ r \in 1..sent
        BY <1>1, <2>3, <3>2 DEF TellsOne
      <4>2. CASE reply = TimeOut /\ toSysm' = toSysm
        BY <4>1, <4>2 DEF TimeOut
      <4>3. CASE /\ ReadsOne /\ r \in Registered(Head(toSysm).type)
                 /\ reply = [of |-> Head(toSysm).of, ok |-> Head(toSysm).ok]
        <5>1. reply.of \in 0..sent /\ Apart(r, reply.of)
          <6>1. Head(toSysm) = toSysm[1] /\ 1 \in 1..Len(toSysm)
            BY <1>1, <4>3, TailOfMessages DEF ReadsOne
          <6>2. toSysm[1].of \in Nat /\ (toSysm[1].of # 0 => toSysm[1].of <= sent)
            BY <1>1, <6>1, NumbersOfMessages DEF InTurn, Named, OfRequests
          <6>3. reply.of \in 0..sent
            BY <1>1, <4>3, <6>1, <6>2
          <6>4. Apart(r, Head(toSysm).of) /\ reply.of = Head(toSysm).of
            BY <1>5, <4>3
          <6>. QED
            BY <6>3, <6>4
        <5>. QED
          BY <1>4, <4>1, <5>1
      <4>. QED
        BY <2>3, <3>2, <4>2, <4>3 DEF Gets
    <3>. QED
      BY <3>1, <3>2
  <2>. QED
    BY <2>2, <2>3 DEF SysmStep
<1>. QED
  BY <1>6 DEF AnswersApart

\* The modem takes a message, and answers it or not; others are added to the queues.
LEMMA ModemInTurn ==
  ASSUME IInv, InTurn, UNCHANGED list,
         \/ ModemTakes
         \/ toModem' = Append(toModem, Other) /\ UNCHANGED <<toSysm, faults>>
         \/ toSysm' = Append(toSysm, Other) /\ UNCHANGED <<toModem, faults>>
  PROVE  InTurn'
<1>1. /\ toSysm \in Seq(Messages) /\ toModem \in Seq(Messages) /\ sent \in Nat
      /\ faults \in Nat /\ \A r \in sysm_head : r \in Nat /\ r # 0
      /\ Other \in Messages /\ Other.of = 0 /\ Other.type = "OTHER"
  BY KnownTypes, Numbers DEF Other, Messages
<1>2. sent' = sent /\ type' = type /\ told' = told /\ sysm_head' = sysm_head
  BY DEF list
\* A message that is added belongs to a request, or to none.
<1>3. ASSUME NEW q \in Seq(Messages), NEW m \in Messages, OfRequests(q),
             (m.of = 0 <=> m.type = "OTHER") /\ (m.of # 0 => m.of <= sent /\ type[m.of] = m.type)
      PROVE  OfRequests(Append(q, m))
  <2>. DEFINE p == Append(q, m)
  <2>1. Len(p) = Len(q) + 1 /\ p[Len(q) + 1] = m /\ \A i \in 1..Len(q) : p[i] = q[i]
    BY AppendMessage
  <2>2. Len(q) \in Nat
    OBVIOUS
  <2>. HIDE DEF p
  <2>3. \A j \in 1..Len(p) : j \in 1..Len(q) \/ j = Len(q) + 1
    BY <2>1, <2>2
  <2>4. \A j \in 1..Len(p) :
          /\ p[j].of = 0 <=> p[j].type = "OTHER"
          /\ p[j].of # 0 => p[j].of <= sent /\ type[p[j].of] = p[j].type
    BY <1>3, <2>1, <2>3 DEF OfRequests
  <2>. QED
    BY <2>4 DEF OfRequests, p
<1>4. CASE toModem' = Append(toModem, Other) /\ UNCHANGED <<toSysm, faults>>
  <2>1. OfRequests(toModem') /\ InLine(toModem')
        /\ (\A a : Before(a, toModem) => Before(a, toModem'))
        /\ \A r : In(r, toModem) => In(r, toModem')
    BY <1>1, <1>3, <1>4, AppendInLine, AppendBefore, AppendIn DEF InTurn, Named, InOrder
  <2>2. Named' /\ InOrder'
    BY <1>2, <1>4, <2>1 DEF InTurn, Named, InOrder, OfRequests
  <2>3. Answering'
    BY <1>2, <1>4, <2>1 DEF InTurn, Answering
  <2>4. AnswersApart'
    BY <1>2, <1>4 DEF InTurn, AnswersApart
  <2>. QED
    BY <2>2, <2>3, <2>4 DEF InTurn
<1>5. CASE toSysm' = Append(toSysm, Other) /\ UNCHANGED <<toModem, faults>>
  <2>1. OfRequests(toSysm') /\ InLine(toSysm')
        /\ (\A a : Before(a, toSysm) => Before(a, toSysm'))
        /\ \A r : In(r, toSysm) => In(r, toSysm')
    BY <1>1, <1>3, <1>5, AppendInLine, AppendBefore, AppendIn DEF InTurn, Named, InOrder
  <2>2. \A i \in 1..Len(toSysm') : Before(toSysm'[i].of, toModem)
    <3>1. /\ Len(toSysm') = Len(toSysm) + 1 /\ toSysm'[Len(toSysm) + 1] = Other
          /\ \A i \in 1..Len(toSysm) : toSysm'[i] = toSysm[i]
      BY <1>1, <1>5, AppendMessage
    <3>2. Before(0, toModem)
      BY <1>1, NumbersOfMessages DEF Before
    <3>3. \A i \in 1..Len(toSysm') : i \in 1..Len(toSysm) \/ i = Len(toSysm) + 1
      BY <1>1, <3>1
    <3>. QED
      BY <1>1, <3>1, <3>2, <3>3 DEF InTurn, InOrder
  <2>3. Named' /\ InOrder'
    BY <1>2, <1>5, <2>1, <2>2 DEF InTurn, Named, InOrder, OfRequests
  <2>4. Answering'
    BY <1>2, <1>5, <2>1 DEF InTurn, Answering
  <2>5. AnswersApart'
    BY <1>2, <1>5 DEF InTurn, AnswersApart
  <2>. QED
    BY <2>3, <2>4, <2>5 DEF InTurn
<1>6. CASE ModemTakes
  <2>. DEFINE m == Head(toModem)
  <2>1. /\ toModem # <<>> /\ toModem' = Tail(toModem)
        /\ \/ \E n \in {m, [m EXCEPT !.ok = FALSE]} : toSysm' = Append(toSysm, n)
           \/ toSysm' = toSysm /\ faults' # 0
        /\ faults' \in {faults, faults + 1}
    BY <1>1, <1>6 DEF ModemTakes, Answer, Fault
  <2>2. /\ m = toModem[1] /\ 1 \in 1..Len(toModem) /\ m \in Messages
        /\ \A i \in 1..Len(toModem') : i + 1 \in 1..Len(toModem) /\ toModem'[i] = toModem[i + 1]
    BY <1>1, <2>1, TailOfMessages
  <2>3. /\ InLine(toModem') /\ Before(m.of, toModem')
        /\ \A a : Before(a, toModem) => Before(a, toModem')
        /\ \A r : In(r, toModem) => r = m.of \/ In(r, toModem')
    BY <1>1, <2>1, TailInLine DEF InTurn, InOrder
  <2>4. /\ m.of = 0 <=> m.type = "OTHER"
        /\ m.of # 0 => m.of <= sent /\ type[m.of] = m.type
    BY <2>2 DEF InTurn, Named, OfRequests
  <2>5. OfRequests(toModem')
    <3>1. OfRequests(toModem)
      BY DEF InTurn, Named
    <3>. QED
      BY <2>2, <3>1 DEF OfRequests
  <2>6. CASE toSysm' = toSysm /\ faults' # 0
    <3>1. Named' /\ InOrder' /\ Answering'
      BY <1>2, <2>3, <2>5, <2>6 DEF InTurn, Named, InOrder, OfRequests, Answering
    <3>2. AnswersApart'
      <4>1. faults > 0 => faults' > 0
        BY <1>1, <2>1
      <4>. QED
        BY <1>2, <4>1 DEF InTurn, AnswersApart
    <3>. QED
      BY <3>1, <3>2 DEF InTurn
  <2>7. ASSUME NEW n \in {m, [m EXCEPT !.ok = FALSE]}, toSysm' = Append(toSysm, n)
        PROVE  InTurn'
    <3>1. n \in Messages /\ n.of = m.of /\ n.type = m.type
      BY <2>2 DEF Messages
    <3>. HIDE DEF m
    <3>2. \A i \in 1..Len(toSysm) : n.of # 0 => toSysm[i].of < n.of
      BY <2>2, <3>1 DEF InTurn, InOrder, Before
    <3>3. /\ OfRequests(toSysm') /\ InLine(toSysm')
          /\ \A a : Before(a, toSysm) /\ Before(a, toModem) => Before(a, toSysm')
          /\ In(m.of, toSysm') /\ \A r : In(r, toSysm) => In(r, toSysm')
      <4>1. OfRequests(toSysm')
        BY <1>1, <1>3, <2>4, <2>7, <3>1 DEF InTurn, Named
      <4>2. InLine(toSysm')
        BY <1>1, <2>7, <3>1, <3>2, AppendInLine DEF InTurn, InOrder
      <4>3. ASSUME NEW a, Before(a, toSysm), Before(a, toModem) PROVE Before(a, toSysm')
        <5>1. n.of # 0 => a < n.of
          BY <2>2, <3>1, <4>3 DEF Before
        <5>. QED
          BY <1>1, <2>7, <3>1, <4>3, <5>1, AppendBefore
      <4>4. In(n.of, toSysm') /\ \A r : In(r, toSysm) => In(r, toSysm')
        BY <1>1, <2>7, <3>1, AppendIn
      <4>. QED
        BY <3>1, <4>1, <4>2, <4>3, <4>4
    <3>4. \A i \in 1..Len(toSysm') : Before(toSysm'[i].of, toModem')
      <4>1. /\ Len(toSysm') = Len(toSysm) + 1 /\ toSysm'[Len(toSysm) + 1] = n
            /\ \A i \in 1..Len(toSysm) : toSysm'[i] = toSysm[i]
        BY <1>1, <2>7, <3>1, AppendMessage
      <4>2. \A i \in 1..Len(toSysm') : i \in 1..Len(toSysm) \/ i = Len(toSysm) + 1
        BY <1>1, <4>1
      <4>. QED
        BY <2>3, <3>1, <4>1, <4>2 DEF InTurn, InOrder
    <3>5. Named'
      BY <1>2, <2>5, <3>3 DEF InTurn, Named, OfRequests
    <3>6. InOrder'
      BY <1>2, <2>3, <3>3, <3>4 DEF InTurn, InOrder
    <3>7. Answering'
      <4>1. faults' = 0 => faults = 0
        BY <1>1, <2>1
      <4>. QED
        BY <1>2, <2>3, <3>3, <4>1 DEF InTurn, Answering
    <3>8. AnswersApart'
      <4>1. faults > 0 => faults' > 0
        BY <1>1, <2>1
      <4>. QED
        BY <1>2, <4>1 DEF InTurn, AnswersApart
    <3>. QED
      BY <3>5, <3>6, <3>7, <3>8 DEF InTurn
  <2>. QED
    BY <2>1, <2>6, <2>7
<1>. QED
  BY <1>4, <1>5, <1>6

\* The steps of sysm are such steps.
LEMMA SendIsSysmStep ==
  ASSUME IInv, NEW t \in Types, NEW head \in SUBSET sysm_head,
         IInv', SysmgrSend(t, head, head)
  PROVE  /\ SendsOne \/ (SendsNone /\ sysm_head' \subseteq sysm_head)
         /\ sysm_head' \subseteq head \cup {sent + 1}
         /\ faults' \in {faults, faults + 1}
<1>1. sent \in 0..MaxReq /\ type \in [Reqs -> Types \cup {"NONE"}]
      /\ sysm_head \subseteq 1..sent /\ 1..sent \subseteq Reqs
  BY Numbers DEF IInv, TypeOK
<1>2. CASE Send(t, head, head) /\ UNCHANGED faults
  <2>1. sent' = sent + 1 /\ sent' \in Reqs
    BY <1>1, <1>2, Numbers DEF Send, IInv, TypeOK
  <2>2. type'[sent'] = t /\ \A r \in 1..sent : type'[r] = type[r]
    BY <1>1, <1>2, <2>1 DEF Send
  <2>3. /\ toModem' = Append(toModem, [type |-> type'[sent'], of |-> sent', ok |-> TRUE])
        /\ sysm_head' = head \cup {sent'} /\ sent' = sent + 1 /\ UNCHANGED faults
    BY <1>2, <2>1, <2>2 DEF Send
  <2>4. SendsOne
    BY <2>1, <2>2, <2>3 DEF SendsOne
  <2>5. sysm_head' \subseteq head \cup {sent + 1}
    BY <2>3
  <2>6. faults' \in {faults, faults + 1}
    BY <1>2
  <2>. QED
    BY <2>4, <2>5, <2>6
<1>3. CASE NothingSent(head, head) /\ Fault
  BY <1>3 DEF NothingSent, SendsNone, Fault
<1>. QED
  BY <1>2, <1>3 DEF SysmgrSend

LEMMA CallbackIsSysmStep ==
  ASSUME IInv, IInv', NEW r \in sysm_head, NEW reply \in Replies, Callback(r, reply),
         Gets(r, reply)
  PROVE  SysmStep
<1>. DEFINE head == sysm_head \ {r}
            next == Following(type[r], reply)
<1>1. /\ timers = sysm_head /\ told \in [Reqs -> Seq(Replies)] /\ r \in Reqs /\ told[r] = <<>>
      /\ sysm_head \subseteq 1..sent /\ sent \in Nat
  BY KnownTypes DEF IInv, Single
<1>2. /\ told' = [told EXCEPT ![r] = Append(@, reply)]
      /\ \/ NothingSent(head, head) /\ UNCHANGED faults
         \/ \E t \in next : SysmgrSend(t, head, head)
  BY <1>1 DEF Callback
<1>3. next \subseteq Types
  BY DEF Following, Types
<1>. HIDE DEF next
<1>4. /\ SendsOne \/ (SendsNone /\ sysm_head' \subseteq sysm_head)
      /\ sysm_head' \subseteq head \cup {sent'} /\ r \notin sysm_head'
      /\ faults' \in {faults, faults + 1}
  <2>1. CASE NothingSent(head, head) /\ UNCHANGED faults
    BY <2>1 DEF NothingSent, SendsNone
  <2>2. ASSUME NEW t \in next, SysmgrSend(t, head, head)
        PROVE  /\ SendsOne \/ (SendsNone /\ sysm_head' \subseteq sysm_head)
               /\ sysm_head' \subseteq head \cup {sent'} /\ r \notin sysm_head'
               /\ faults' \in {faults, faults + 1}
    <3>1. /\ SendsOne \/ (SendsNone /\ sysm_head' \subseteq sysm_head)
          /\ sysm_head' \subseteq head \cup {sent + 1}
          /\ faults' \in {faults, faults + 1}
      BY <1>3, <2>2, SendIsSysmStep
    <3>2. r # sent + 1 /\ sent + 1 \notin sysm_head
      BY <1>1
    <3>3. SendsOne => sent' = sent + 1
      BY DEF SendsOne
    <3>4. SendsNone /\ sysm_head' \subseteq sysm_head => sysm_head' \subseteq head
      BY <3>1, <3>2
    <3>. QED
      BY <3>1, <3>2, <3>3, <3>4
  <2>. QED
    BY <1>2, <2>1, <2>2
<1>5. TellsOne(r, reply)
  <2>1. Append(told[r], reply) = <<reply>>
    BY <1>1
  <2>2. told' = [told EXCEPT ![r] = <<reply>>]
    BY <1>1, <1>2, <2>1
  <2>. QED
    BY <1>4, <2>2 DEF TellsOne
<1>. QED
  BY <1>4, <1>5 DEF SysmStep

LEMMA SysmInTurn ==
  ASSUME IInv, IInv', InTurn, SysmStep
  PROVE  InTurn'
<1>1. Named'
  BY SysmNamed DEF InTurn
<1>. QED
  BY <1>1, SysmInOrder, SysmAnswering, SysmAnswersApart DEF InTurn

LEMMA NextInTurn == IInv /\ IInv' /\ InTurn /\ [Next]_vars => InTurn'
<1>. SUFFICES ASSUME IInv, IInv', InTurn, [Next]_vars PROVE InTurn'
  OBVIOUS
<1>1. ASSUME NEW t \in Types, SysmgrSend(t, sysm_head, timers), UNCHANGED <<told, toSysm>>
      PROVE  InTurn'
  <2>1. timers = sysm_head
    BY DEF IInv, Single
  <2>2. SendsOne => sent' = sent + 1
    BY DEF SendsOne
  <2>3. /\ SendsOne \/ (SendsNone /\ sysm_head' \subseteq sysm_head)
        /\ sysm_head' \subseteq sysm_head \cup {sent + 1}
        /\ faults' \in {faults, faults + 1}
    BY <1>1, <2>1, SendIsSysmStep
  <2>4. SysmStep
    BY <1>1, <2>2, <2>3 DEF SysmStep, TellsNone
  <2>. QED
    BY <2>4, SysmInTurn
<1>2. CASE SetMac
  BY <1>1, <1>2 DEF SetMac, Types
<1>3. CASE This
  BY <1>1, <1>3 DEF This, Types
<1>4. CASE Tell
  BY <1>4, ModemInTurn DEF Tell
<1>5. ASSUME NEW r \in Reqs, SysmgrTimerCbk(r) PROVE InTurn'
  <2>1. r \in sysm_head /\ TimeOut \in Replies /\ Gets(r, TimeOut)
    BY <1>5, Numbers DEF SysmgrTimerCbk, IInv, Single, TimeOut, Replies, Gets
  <2>. QED
    BY <1>5, <2>1, CallbackIsSysmStep, SysmInTurn DEF SysmgrTimerCbk
<1>6. CASE ProcEvent
  <2>. DEFINE m == Head(toSysm)
  <2>1. ReadsOne
    BY <1>6 DEF ProcEvent, ReadsOne
  <2>2. CASE Registered(m.type) = {} /\ UNCHANGED <<list, toModem, faults>>
    <3>1. SysmStep
      BY <2>1, <2>2 DEF SysmStep, TellsNone, SendsNone, list
    <3>. QED
      BY <3>1, SysmInTurn
  <2>3. ASSUME NEW r \in Registered(m.type), Callback(r, [of |-> m.of, ok |-> m.ok])
        PROVE  InTurn'
    <3>1. r \in sysm_head
      BY DEF Registered
    <3>2. [of |-> m.of, ok |-> m.ok] \in Replies
      <4>1. toSysm \in Seq(Messages) /\ toSysm # <<>>
        BY <2>1, KnownTypes DEF ReadsOne
      <4>2. m \in Messages
        BY <4>1, TailOfMessages
      <4>. QED
        BY <4>2 DEF Messages, Replies
    <3>3. Gets(r, [of |-> m.of, ok |-> m.ok])
      BY <2>1 DEF Gets
    <3>. QED
      BY <2>3, <3>1, <3>2, <3>3, CallbackIsSysmStep, SysmInTurn
  <2>. QED
    BY <1>6, <2>2, <2>3 DEF ProcEvent
<1>7. CASE ModemTakes
  BY <1>7, ModemInTurn DEF ModemTakes
<1>8. CASE ModemReports
  BY <1>8, ModemInTurn DEF ModemReports, Answer
<1>9. CASE UNCHANGED vars
  BY <1>9 DEF vars, list, InTurn, Named, OfRequests, InOrder, Answering, AnswersApart
<1>. QED
  BY <1>2, <1>3, <1>4, <1>5, <1>6, <1>7, <1>8, <1>9 DEF Next

(***************************************************************************)
(* Answers that name a type only reach their own requests unless an        *)
(* earlier request of the type has given up or an answer is missing: for   *)
(* any number of requests and faults (sysmgr_proc_event, the search by     *)
(* type from the head of the list).                                        *)
(***************************************************************************)
THEOREM RequestsGetTheirAnswers == Spec => []AnswersApart
<1>1. Init => InTurn
  BY DEF Init, InTurn, Named, OfRequests, InOrder, InLine, Before, Answering, AnswersApart
<1>2. InTurn => AnswersApart
  BY DEF InTurn
<1>. QED
  BY <1>1, <1>2, NextInTurn, RequestsInvariant, PTL DEF Spec
=============================================================================
