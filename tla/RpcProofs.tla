----------------------------- MODULE RpcProofs -----------------------------
(***************************************************************************)
(* Proofs about remote calls: for any nodes, calls, threads and services,  *)
(* and any packets lost or sends refused.                                  *)
(***************************************************************************)
EXTENDS Rpc, FiniteSetTheorems, TLAPS

\* The requests in the list of a node are its own, wait, and are there once.
Listed ==
  \A n \in Nodes :
    /\ \A i \in 1..Len(list[n]) : pc[list[n][i]] = "listed" /\ From[list[n][i]] = n
    /\ \A i, j \in 1..Len(list[n]) : list[n][i] = list[n][j] => i = j

\* What a node that was called with a service and a number has in its memory or answers.
Bears(q, srv, number) == Srv[q] = srv /\ sessn[q] = number /\ Numbered(q)
RanOne(n, srv, number) == \E r \in Reqs : Bears(r, srv, number) /\ ran[n][r] > 0
Told(n, srv, number, body) ==
  /\ body # None => body \in Reqs /\ Bears(body, srv, number) /\ ran[n][body] > 0
  /\ srv \in Serves[n] => RanOne(n, srv, number)

\* Somebody was called with the service and the number, and answers with the body.
Caused(srv, number, body) ==
  \E q \in Reqs : \E n \in To[q] : Bears(q, srv, number) /\ Told(n, srv, number, body)

\* A packet on its way to a node is a call that was sent to it, or an answer with a cause.
Sound(n, p) ==
  /\ p.type = "req" => p.body \in Reqs /\ p = Request(p.body) /\ Sent(p.body) /\ n \in To[p.body]
  /\ p.type = "resp" => Caused(p.srv, p.sessn, p.body)
Carried == \A n \in Nodes : \A i \in 1..Len(bus[n]) : Sound(n, bus[n][i])

\* What a node remembers of a call is what it told.
Remembers ==
  \A n \in Nodes :
    session[n] = NoSession \/ Told(n, session[n].srv, session[n].sessn, session[n].body)

\* A call that was run is the one that is remembered, unless another came in between.
Other(n, r) == \E q \in Reqs : Sent(q) /\ n \in To[q] /\ ~SameCall(r, q)
IsRemembered(n, r) == session[n].srv = Srv[r] /\ session[n].sessn = sessn[r]
Reruns ==
  \A n \in Nodes, r \in Reqs :
    /\ ran[n][r] > 0 => Numbered(r) /\ (IsRemembered(n, r) \/ Other(n, r))
    /\ ran[n][r] > 1 => Other(n, r)

\* What a callback was given.
Answers ==
  \A r \in Reqs :
    /\ result[r] # None => result[r] \in Reqs /\ Numbered(r) /\ SameCall(r, result[r])
    /\ pc[r] = "answered" => Caused(Srv[r], sessn[r], result[r])

IInv == TypeOK /\ Listed /\ Carried /\ Remembers /\ Reruns /\ Answers

\* A step takes no number, no send and no run of a service back.
Grows ==
  /\ \A q \in Reqs : Numbered(q) => Numbered(q)' /\ sessn'[q] = sessn[q]
  /\ \A q \in Reqs : Sent(q) => Sent(q)'
  /\ \A n \in Nodes, r \in Reqs : ran[n][r] > 0 => ran'[n][r] > 0

-----------------------------------------------------------------------------
\* Sequences and counts.

LEMMA FunctionIsSequence ==
  ASSUME NEW S, NEW m \in Nat, NEW w \in [1..m -> S]
  PROVE  w \in Seq(S) /\ Len(w) = m
  OBVIOUS

LEMMA WithoutDropsOne ==
  ASSUME NEW S, NEW s \in Seq(S), NEW i \in 1..Len(s)
  PROVE  /\ Without(s, i) \in Seq(S)
         /\ Len(Without(s, i)) = Len(s) - 1
         /\ \A j \in 1..Len(Without(s, i)) :
              Without(s, i)[j] = IF j < i THEN s[j] ELSE s[j + 1]
<1>1. Len(s) \in Nat /\ Len(s) - 1 \in Nat /\ s \in [1..Len(s) -> S]
  OBVIOUS
<1>2. \A j \in 1..(Len(s) - 1) : j \in 1..Len(s) /\ j + 1 \in 1..Len(s)
  BY <1>1
<1>3. Without(s, i) \in [1..(Len(s) - 1) -> S]
  BY <1>1, <1>2 DEF Without
<1>4. Without(s, i) \in Seq(S) /\ Len(Without(s, i)) = Len(s) - 1
  BY <1>1, <1>3, FunctionIsSequence
<1>. QED
  BY <1>4 DEF Without

LEMMA TailOfPackets ==
  ASSUME NEW S, NEW s \in Seq(S), s # <<>>
  PROVE  /\ Head(s) \in S /\ Head(s) = s[1] /\ 1 \in 1..Len(s)
         /\ Tail(s) \in Seq(S)
         /\ \A i \in 1..Len(Tail(s)) : i + 1 \in 1..Len(s) /\ Tail(s)[i] = s[i + 1]
  OBVIOUS

LEMMA AppendPacket ==
  ASSUME NEW S, NEW s \in Seq(S), NEW e \in S
  PROVE  /\ Append(s, e) \in Seq(S) /\ Len(Append(s, e)) = Len(s) + 1
         /\ \A i \in 1..Len(s) : Append(s, e)[i] = s[i]
         /\ Append(s, e)[Len(s) + 1] = e
  OBVIOUS

\* What is on the bus after a packet was sent.
LEMMA TransmitSends ==
  ASSUME NEW packet \in Packets, NEW addressees, IsFiniteSet(addressees),
         NEW pending \in [Nodes -> Seq(Packets)], faults \in 0..MaxFault,
         Transmit(packet, addressees, pending)
  PROVE  /\ faults' \in 0..MaxFault
         /\ bus' \in [Nodes -> Seq(Packets)]
         /\ \A n \in Nodes : \A i \in 1..Len(bus'[n]) :
              \/ n \in addressees /\ bus'[n][i] = packet
              \/ \E j \in 1..Len(pending[n]) : bus'[n][i] = pending[n][j]
<1>1. PICK reached \in SUBSET addressees :
        /\ faults' = faults + Cardinality(addressees \ reached)
        /\ faults' <= MaxFault
        /\ bus' = [n \in Nodes |-> IF n \in reached THEN Append(pending[n], packet) ELSE pending[n]]
  BY DEF Transmit
<1>2. Cardinality(addressees \ reached) \in Nat
  <2>1. IsFiniteSet(addressees \ reached)
    BY FS_Subset
  <2>. QED
    BY <2>1, FS_CardinalityType
<1>3. faults' \in 0..MaxFault
  BY <1>1, <1>2, RpcAssumption
<1>4. \A n \in Nodes : Append(pending[n], packet) \in Seq(Packets)
  BY AppendPacket
<1>5. bus' \in [Nodes -> Seq(Packets)]
  BY <1>1, <1>4
<1>6. ASSUME NEW n \in Nodes, NEW i \in 1..Len(bus'[n])
      PROVE  \/ n \in addressees /\ bus'[n][i] = packet
             \/ \E j \in 1..Len(pending[n]) : bus'[n][i] = pending[n][j]
  <2>1. CASE n \notin reached
    BY <2>1, <1>1, <1>6
  <2>2. CASE n \in reached
    <3>1. bus'[n] = Append(pending[n], packet) /\ n \in addressees
      BY <2>2, <1>1
    <3>2. Len(pending[n]) \in Nat /\ (i \in 1..Len(pending[n]) \/ i = Len(pending[n]) + 1)
      BY <3>1, <1>6, AppendPacket
    <3>3. CASE i \in 1..Len(pending[n])
      BY <3>1, <3>3, AppendPacket
    <3>4. CASE i = Len(pending[n]) + 1
      BY <3>1, <3>4, AppendPacket
    <3>. QED
      BY <3>2, <3>3, <3>4
  <2>. QED
    BY <2>1, <2>2
<1>. QED
  BY <1>3, <1>5, <1>6

\* The bus without the packet that a node takes.
LEMMA TakenDropsOne ==
  ASSUME bus \in [Nodes -> Seq(Packets)], NEW n \in Nodes, bus[n] # <<>>
  PROVE  /\ Taken(n) \in [Nodes -> Seq(Packets)]
         /\ \A m \in Nodes : \A i \in 1..Len(Taken(n)[m]) :
              \E j \in 1..Len(bus[m]) : Taken(n)[m][i] = bus[m][j]
         /\ Head(bus[n]) \in Packets /\ 1 \in 1..Len(bus[n]) /\ Head(bus[n]) = bus[n][1]
<1>1. /\ Tail(bus[n]) \in Seq(Packets) /\ Head(bus[n]) \in Packets
      /\ Head(bus[n]) = bus[n][1] /\ 1 \in 1..Len(bus[n])
      /\ \A i \in 1..Len(Tail(bus[n])) : i + 1 \in 1..Len(bus[n]) /\ Tail(bus[n])[i] = bus[n][i + 1]
  BY TailOfPackets
<1>2. Taken(n) = [bus EXCEPT ![n] = Tail(bus[n])]
  BY DEF Taken
<1>3. Taken(n) \in [Nodes -> Seq(Packets)]
  BY <1>1, <1>2
<1>4. ASSUME NEW m \in Nodes, NEW i \in 1..Len(Taken(n)[m])
      PROVE  \E j \in 1..Len(bus[m]) : Taken(n)[m][i] = bus[m][j]
  BY <1>1, <1>2, <1>4
<1>. QED
  BY <1>1, <1>3, <1>4

-----------------------------------------------------------------------------
\* Types of what the steps put together.

LEMMA NobodyIsNoCall == None \notin Reqs
  BY RpcAssumption

LEMMA RequestType ==
  ASSUME TypeOK, NEW r \in Reqs
  PROVE  /\ Request(r) \in Packets /\ Request(r).type = "req" /\ Request(r).body = r
         /\ Request(r).srv = Srv[r] /\ Request(r).sessn = sessn[r]
         /\ IsFiniteSet(To[r]) /\ From[r] \in Nodes
<1>1. Srv[r] \in Services /\ From[r] \in Nodes /\ sessn[r] \in Nat /\ r \in Bodies
  BY RpcAssumption DEF TypeOK, Services, Bodies
<1>2. Request(r) \in Packets
  BY <1>1 DEF Request, Packets
<1>3. IsFiniteSet(To[r])
  BY RpcAssumption, FS_Subset
<1>. QED
  BY <1>1, <1>2, <1>3 DEF Request

Memory == [srv : Services, sessn : Nat, body : Bodies]

LEMMA ResponseType ==
  ASSUME NEW s \in Memory
  PROVE  /\ Response(s) \in Packets /\ Response(s).type = "resp"
         /\ Response(s).srv = s.srv /\ Response(s).sessn = s.sessn /\ Response(s).body = s.body
  BY DEF Response, Packets, Memory

\* What a node that serves a call does: it answers from memory, or remembers the call anew,
\* with the body of the call that it ran or none.
Answering(n, p, s) ==
  \/ bus' = Taken(n) /\ UNCHANGED faults
  \/ Transmit(Response(s), {p.peer}, Taken(n))
Fresh(p, body) == [srv |-> p.srv, sessn |-> p.sessn, body |-> body]

LEMMA ServeEffect ==
  ASSUME NEW n \in Nodes, ServeRequest(n)
  PROVE  /\ bus[n] # <<>> /\ Head(bus[n]).type = "req"
         /\ UNCHANGED <<pc, sessn, retry, counter, list, result>>
         /\ \/ /\ IsRepeat(n, Head(bus[n]))
               /\ Transmit(Response(session[n]), {Head(bus[n]).peer}, Taken(n))
               /\ UNCHANGED <<session, ran>>
            \/ /\ ~IsRepeat(n, Head(bus[n]))
               /\ \E body \in {Head(bus[n]).body, None} :
                    /\ session' = [session EXCEPT ![n] = Fresh(Head(bus[n]), body)]
                    /\ body # None => Head(bus[n]).srv \in Serves[n]
                    /\ \/ bus' = Taken(n) /\ UNCHANGED faults
                       \/ Transmit(Response(session'[n]), {Head(bus[n]).peer}, Taken(n))
               /\ \/ /\ Head(bus[n]).srv \in Serves[n]
                     /\ ran' = [ran EXCEPT ![n][Head(bus[n]).body] = @ + 1]
                  \/ /\ Head(bus[n]).srv \notin Serves[n]
                     /\ UNCHANGED ran
<1>. DEFINE p == Head(bus[n])
<1>1. /\ bus[n] # <<>> /\ p.type = "req"
      /\ RespondAgain(n, p) \/ CallService(n, p) \/ NoService(n, p)
      /\ UNCHANGED <<pc, sessn, retry, counter, list, result>>
  BY DEF ServeRequest
<1>. HIDE DEF p
<1>2. CASE RespondAgain(n, p)
  BY <1>1, <1>2 DEF RespondAgain, p
<1>3. CASE CallService(n, p)
  BY <1>1, <1>3 DEF CallService, Registered, Fresh, p
<1>4. CASE NoService(n, p)
  BY <1>1, <1>4 DEF NoService, Registered, Fresh, p
<1>. QED
  BY <1>1, <1>2, <1>3, <1>4

LEMMA RunCounts ==
  ASSUME ran \in [Nodes -> [Reqs -> Nat]], NEW n \in Nodes, NEW r \in Reqs,
         ran' = [ran EXCEPT ![n][r] = @ + 1]
  PROVE  /\ ran' \in [Nodes -> [Reqs -> Nat]]
         /\ \A m \in Nodes, q \in Reqs :
              ran'[m][q] = IF m = n /\ q = r THEN ran[n][r] + 1 ELSE ran[m][q]
<1>1. ran[n][r] + 1 \in Nat
  OBVIOUS
<1>. QED
  BY <1>1

\* The packet that a node takes next.
LEMMA HeadIsSound ==
  ASSUME TypeOK, Carried, NEW n \in Nodes, bus[n] # <<>>
  PROVE  /\ Head(bus[n]) \in Packets /\ Sound(n, Head(bus[n]))
         /\ Head(bus[n]).type = "req" =>
              /\ Head(bus[n]).body \in Reqs /\ Sent(Head(bus[n]).body) /\ n \in To[Head(bus[n]).body]
              /\ Head(bus[n]).srv = Srv[Head(bus[n]).body]
              /\ Head(bus[n]).sessn = sessn[Head(bus[n]).body]
<1>. DEFINE p == Head(bus[n])
<1>1. p \in Packets /\ Sound(n, p)
  <2>1. p \in Packets /\ 1 \in 1..Len(bus[n]) /\ p = bus[n][1]
    BY TakenDropsOne DEF TypeOK
  <2>. QED
    BY <2>1 DEF Carried
<1>. HIDE DEF p
<1>2. p.type = "req" => /\ p.body \in Reqs /\ Sent(p.body) /\ n \in To[p.body]
                        /\ p.srv = Srv[p.body] /\ p.sessn = sessn[p.body]
  BY <1>1, RequestType DEF Sound
<1>. QED
  BY <1>1, <1>2 DEF p

LEMMA FreshType ==
  ASSUME NEW p \in Packets, NEW body \in {p.body, None}
  PROVE  /\ Fresh(p, body) \in Memory
         /\ Fresh(p, body).srv = p.srv /\ Fresh(p, body).sessn = p.sessn
         /\ Fresh(p, body).body = body
  BY DEF Fresh, Packets, Memory, Bodies

\* An answer goes to one node, in a set of its own.
LEMMA OneIsFinite == ASSUME NEW x PROVE IsFiniteSet({x})
  BY FS_Singleton

-----------------------------------------------------------------------------
\* The list of requests.

LEMMA SendKeepsList ==
  ASSUME IInv, NEW r \in Reqs, pc[r] = "made", pc' = [pc EXCEPT ![r] = "listed"],
         list' = [list EXCEPT ![From[r]] = Append(@, r)]
  PROVE  list' \in [Nodes -> Seq(Reqs)] /\ Listed'
<1>1. /\ pc \in [Reqs -> {"new", "drawn", "made", "refused", "listed", "answered", "expired"}]
      /\ list \in [Nodes -> Seq(Reqs)] /\ From[r] \in Nodes
  BY RpcAssumption DEF IInv, TypeOK
<1>2. /\ Append(list[From[r]], r) \in Seq(Reqs)
      /\ Len(Append(list[From[r]], r)) = Len(list[From[r]]) + 1
      /\ \A i \in 1..Len(list[From[r]]) : Append(list[From[r]], r)[i] = list[From[r]][i]
      /\ Append(list[From[r]], r)[Len(list[From[r]]) + 1] = r
  BY <1>1, AppendPacket
<1>3. list' \in [Nodes -> Seq(Reqs)]
  BY <1>1, <1>2
<1>4. ASSUME NEW n \in Nodes
      PROVE  /\ \A i \in 1..Len(list'[n]) : pc'[list'[n][i]] = "listed" /\ From[list'[n][i]] = n
             /\ \A i, j \in 1..Len(list'[n]) : list'[n][i] = list'[n][j] => i = j
  <2>1. /\ \A i \in 1..Len(list[n]) :
             list[n][i] \in Reqs /\ pc[list[n][i]] = "listed" /\ From[list[n][i]] = n /\ list[n][i] # r
        /\ \A i, j \in 1..Len(list[n]) : list[n][i] = list[n][j] => i = j
    BY <1>1 DEF IInv, Listed
  <2>2. CASE n # From[r]
    BY <1>1, <2>1, <2>2
  <2>3. CASE n = From[r]
    <3>1. list'[n] = Append(list[n], r) /\ Len(list[n]) \in Nat
      BY <1>1, <2>3
    <3>2. \A i \in 1..Len(list'[n]) :
            \/ i \in 1..Len(list[n]) /\ list'[n][i] = list[n][i]
            \/ i = Len(list[n]) + 1 /\ list'[n][i] = r
      BY <3>1, <1>2, <2>3
    <3>3. pc'[r] = "listed" /\ \A q \in Reqs : q # r => pc'[q] = pc[q]
      BY <1>1
    <3>. QED
      BY <2>1, <2>3, <3>2, <3>3
  <2>. QED
    BY <2>2, <2>3
<1>. QED
  BY <1>3, <1>4 DEF Listed

LEMMA FinishKeepsList ==
  ASSUME IInv, NEW r \in Reqs, NEW how \in {"answered", "expired"}, Finish(r, how)
  PROVE  /\ pc[r] = "listed" /\ pc' = [pc EXCEPT ![r] = how]
         /\ list' \in [Nodes -> Seq(Reqs)] /\ Listed'
<1>1. /\ pc \in [Reqs -> {"new", "drawn", "made", "refused", "listed", "answered", "expired"}]
      /\ list \in [Nodes -> Seq(Reqs)] /\ From[r] \in Nodes
  BY RpcAssumption DEF IInv, TypeOK
<1>2. PICK k \in 1..Len(list[From[r]]) :
        /\ list[From[r]][k] = r
        /\ list' = [list EXCEPT ![From[r]] = Without(@, k)]
  BY DEF Finish
<1>3. pc[r] = "listed" /\ pc' = [pc EXCEPT ![r] = how]
  BY <1>1, <1>2 DEF IInv, Listed, Finish
<1>4. /\ Without(list[From[r]], k) \in Seq(Reqs)
      /\ Len(Without(list[From[r]], k)) = Len(list[From[r]]) - 1
      /\ \A j \in 1..Len(Without(list[From[r]], k)) :
           Without(list[From[r]], k)[j] = IF j < k THEN list[From[r]][j] ELSE list[From[r]][j + 1]
  BY <1>1, <1>2, WithoutDropsOne
<1>5. list' \in [Nodes -> Seq(Reqs)]
  BY <1>1, <1>2, <1>4
<1>6. ASSUME NEW n \in Nodes
      PROVE  /\ \A i \in 1..Len(list'[n]) : pc'[list'[n][i]] = "listed" /\ From[list'[n][i]] = n
             /\ \A i, j \in 1..Len(list'[n]) : list'[n][i] = list'[n][j] => i = j
  <2>1. /\ \A i \in 1..Len(list[n]) :
             list[n][i] \in Reqs /\ pc[list[n][i]] = "listed" /\ From[list[n][i]] = n
        /\ \A i, j \in 1..Len(list[n]) : list[n][i] = list[n][j] => i = j
    <3>1. list[n] \in Seq(Reqs)
      BY <1>1
    <3>2. \A i \in 1..Len(list[n]) : list[n][i] \in Reqs
      BY <3>1
    <3>. QED
      BY <3>2 DEF IInv, Listed
  <2>2. \A q \in Reqs : q # r => pc'[q] = pc[q]
    BY <1>1, <1>3
  <2>3. CASE n # From[r]
    <3>1. list'[n] = list[n] /\ \A i \in 1..Len(list[n]) : list[n][i] # r
      BY <1>1, <1>2, <2>1, <2>3
    <3>. QED
      BY <2>1, <2>2, <3>1
  <2>4. CASE n = From[r]
    <3>. DEFINE from(i) == IF i < k THEN i ELSE i + 1
    <3>1. /\ list'[n] = Without(list[n], k) /\ Len(list[n]) \in Nat /\ k \in 1..Len(list[n])
          /\ list[n][k] = r
      BY <1>1, <1>2, <2>4
    <3>2. Len(list'[n]) = Len(list[n]) - 1
      BY <3>1, <1>4, <2>4
    <3>3. ASSUME NEW i \in 1..Len(list'[n])
          PROVE  from(i) \in 1..Len(list[n]) /\ from(i) # k /\ list'[n][i] = list[n][from(i)]
      <4>1. list'[n][i] = IF i < k THEN list[n][i] ELSE list[n][i + 1]
        BY <3>1, <3>3, <1>4, <2>4
      <4>2. from(i) \in 1..Len(list[n]) /\ from(i) # k
        BY <3>1, <3>2, <3>3
      <4>. QED
        BY <4>1, <4>2
    <3>4. \A i, j \in 1..Len(list'[n]) : from(i) = from(j) => i = j
      BY <3>1, <3>2
    <3>. HIDE DEF from
    <3>5. \A i \in 1..Len(list'[n]) : list'[n][i] # r
      BY <2>1, <3>1, <3>3
    <3>6. \A i \in 1..Len(list'[n]) : pc'[list'[n][i]] = "listed" /\ From[list'[n][i]] = n
      BY <2>1, <2>2, <3>3, <3>5
    <3>7. \A i, j \in 1..Len(list'[n]) : list'[n][i] = list'[n][j] => i = j
      BY <2>1, <3>3, <3>4
    <3>. QED
      BY <3>6, <3>7
  <2>. QED
    BY <2>3, <2>4
<1>. QED
  BY <1>3, <1>5, <1>6 DEF Listed

-----------------------------------------------------------------------------
\* What the other steps do.

LEMMA TakeEffect ==
  ASSUME IInv, NEW n \in Nodes, TakeResponse(n)
  PROVE  /\ bus[n] # <<>> /\ Head(bus[n]).type = "resp"
         /\ bus' = Taken(n) /\ UNCHANGED <<sessn, retry, counter, session, faults, ran>>
         /\ \/ UNCHANGED <<pc, list, result>>
            \/ \E r \in Reqs :
                 /\ pc[r] = "listed" /\ Srv[r] = Head(bus[n]).srv /\ sessn[r] = Head(bus[n]).sessn
                 /\ result' = [result EXCEPT ![r] = Head(bus[n]).body]
                 /\ Finish(r, "answered") \/ UNCHANGED <<pc, list>>
<1>1. /\ bus[n] # <<>> /\ Head(bus[n]).type = "resp"
      /\ bus' = Taken(n) /\ UNCHANGED <<sessn, retry, counter, session, faults, ran>>
      /\ \/ \E i \in Newest(Fits(n, Head(bus[n]))) : CallBack(list[n][i], Head(bus[n]))
         \/ UNCHANGED <<pc, list, result>>
  BY DEF TakeResponse
<1>2. ASSUME NEW i \in Newest(Fits(n, Head(bus[n]))), CallBack(list[n][i], Head(bus[n]))
      PROVE  \E r \in Reqs :
               /\ pc[r] = "listed" /\ Srv[r] = Head(bus[n]).srv /\ sessn[r] = Head(bus[n]).sessn
               /\ result' = [result EXCEPT ![r] = Head(bus[n]).body]
               /\ Finish(r, "answered") \/ UNCHANGED <<pc, list>>
  <2>1. /\ i \in 1..Len(list[n])
        /\ Srv[list[n][i]] = Head(bus[n]).srv /\ sessn[list[n][i]] = Head(bus[n]).sessn
    BY <1>2 DEF Newest, Fits
  <2>2. list[n] \in Seq(Reqs)
    BY DEF IInv, TypeOK
  <2>3. list[n][i] \in Reqs
    BY <2>1, <2>2
  <2>4. pc[list[n][i]] = "listed"
    BY <2>1 DEF IInv, Listed
  <2>. QED
    BY <1>2, <2>1, <2>3, <2>4 DEF CallBack
<1>. QED
  BY <1>1, <1>2

\* A timeout ends the request or repeats it.
LEMMA TimeoutEffect ==
  ASSUME IInv, NEW r \in Reqs, Timeout(r)
  PROVE  /\ pc[r] = "listed" /\ UNCHANGED <<sessn, counter, session, ran, result>>
         /\ retry' \in [Reqs -> Nat]
         /\ Finish(r, "expired") \/ UNCHANGED <<pc, list>>
         /\ \/ Transmit(Request(r), To[r], bus)
            \/ bus' = bus /\ faults' \in 0..MaxFault
<1>1. /\ retry \in [Reqs -> Nat] /\ faults \in 0..MaxFault /\ MaxFault \in Nat
  BY RpcAssumption DEF IInv, TypeOK
<1>2. CASE retry[r] = 0
  BY <1>1, <1>2 DEF Timeout
<1>3. CASE retry[r] > 0
  <2>1. /\ pc[r] = "listed" /\ UNCHANGED <<sessn, counter, session, ran, result>>
        /\ retry' = [retry EXCEPT ![r] = @ - 1]
        /\ \/ Transmit(Request(r), To[r], bus) /\ UNCHANGED <<pc, list>>
           \/ Refuse /\ Finish(r, "expired") /\ UNCHANGED bus
    BY <1>1, <1>3 DEF Timeout
  <2>2. retry' \in [Reqs -> Nat]
    BY <1>1, <1>3, <2>1
  <2>3. Refuse => faults' \in 0..MaxFault
    BY <1>1 DEF Refuse
  <2>. QED
    BY <2>1, <2>2, <2>3
<1>. QED
  BY <1>1, <1>2, <1>3 DEF Timeout

LEMMA SendEffect ==
  ASSUME IInv, NEW r \in Reqs, SendRequest(r)
  PROVE  /\ pc[r] = "made" /\ UNCHANGED <<sessn, retry, counter, session, ran, result>>
         /\ \/ /\ Transmit(Request(r), To[r], bus)
               /\ pc' = [pc EXCEPT ![r] = "listed"]
               /\ list' = [list EXCEPT ![From[r]] = Append(@, r)]
            \/ /\ pc' = [pc EXCEPT ![r] = "refused"]
               /\ UNCHANGED <<list, bus>> /\ faults' \in 0..MaxFault
<1>1. faults \in 0..MaxFault /\ MaxFault \in Nat
  BY RpcAssumption DEF IInv, TypeOK
<1>2. Refuse => faults' \in 0..MaxFault
  BY <1>1 DEF Refuse
<1>. QED
  BY <1>2 DEF SendRequest

\* The place of a call in its life moves forward only.
LEMMA PcGoesOn ==
  ASSUME IInv, NEW r \in Reqs,
         \/ pc[r] = "new" /\ pc' = [pc EXCEPT ![r] = "drawn"]
         \/ pc[r] = "drawn" /\ pc' = [pc EXCEPT ![r] = "made"]
         \/ pc[r] = "made" /\ pc' = [pc EXCEPT ![r] = "listed"]
         \/ pc[r] = "made" /\ pc' = [pc EXCEPT ![r] = "refused"]
         \/ pc[r] = "listed" /\ pc' = [pc EXCEPT ![r] = "answered"]
         \/ pc[r] = "listed" /\ pc' = [pc EXCEPT ![r] = "expired"]
         \/ pc' = pc
  PROVE  /\ pc' \in [Reqs -> {"new", "drawn", "made", "refused", "listed", "answered", "expired"}]
         /\ \A q \in Reqs : Numbered(q) => Numbered(q)'
         /\ \A q \in Reqs : Sent(q) => Sent(q)'
<1>1. pc \in [Reqs -> {"new", "drawn", "made", "refused", "listed", "answered", "expired"}]
  BY DEF IInv, TypeOK
<1>. QED
  BY <1>1 DEF Numbered, Sent

-----------------------------------------------------------------------------
\* What a step that takes nothing back leaves true.

LEMMA CausesRemain ==
  ASSUME IInv, Grows, NEW srv, NEW number
  PROVE  /\ \A q \in Reqs : Bears(q, srv, number) =>
              Srv[q] = srv /\ sessn'[q] = number /\ Numbered(q)'
         /\ \A n \in Nodes : RanOne(n, srv, number) =>
              \E r \in Reqs : Srv[r] = srv /\ sessn'[r] = number /\ Numbered(r)' /\ ran'[n][r] > 0
<1>1. ASSUME NEW q \in Reqs, Bears(q, srv, number)
      PROVE  Srv[q] = srv /\ sessn'[q] = number /\ Numbered(q)'
  BY <1>1 DEF Bears, Grows
<1>2. ASSUME NEW n \in Nodes, RanOne(n, srv, number)
      PROVE  \E r \in Reqs : Srv[r] = srv /\ sessn'[r] = number /\ Numbered(r)' /\ ran'[n][r] > 0
  <2>1. PICK r \in Reqs : Bears(r, srv, number) /\ ran[n][r] > 0
    BY <1>2 DEF RanOne
  <2>2. ran'[n][r] > 0
    BY <2>1 DEF Grows
  <2>. QED
    BY <2>1, <2>2, <1>1
<1>. QED
  BY <1>1, <1>2

LEMMA ToldRemains ==
  ASSUME IInv, Grows, NEW n \in Nodes, NEW srv, NEW number, NEW body, Told(n, srv, number, body)
  PROVE  Told(n, srv, number, body)'
<1>1. body # None => body \in Reqs /\ Bears(body, srv, number)' /\ ran'[n][body] > 0
  BY CausesRemain DEF Told, Bears, Grows
<1>2. srv \in Serves[n] => RanOne(n, srv, number)'
  BY CausesRemain DEF Told, RanOne, Bears
<1>. QED
  BY <1>1, <1>2 DEF Told

LEMMA CausedRemains ==
  ASSUME IInv, Grows, NEW srv, NEW number, NEW body, Caused(srv, number, body)
  PROVE  Caused(srv, number, body)'
<1>0. PICK q \in Reqs : \E n \in To[q] : Bears(q, srv, number) /\ Told(n, srv, number, body)
  BY DEF Caused
<1>1. PICK n \in To[q] : Bears(q, srv, number) /\ Told(n, srv, number, body)
  BY <1>0
<1>2. n \in Nodes
  BY RpcAssumption
<1>3. Bears(q, srv, number)'
  BY <1>1, CausesRemain DEF Bears
<1>4. Told(n, srv, number, body)'
  BY <1>1, <1>2, ToldRemains
<1>. QED
  BY <1>3, <1>4 DEF Caused

LEMMA SoundRemains ==
  ASSUME IInv, Grows, NEW n \in Nodes, NEW p, Sound(n, p)
  PROVE  Sound(n, p)'
<1>1. CASE p.type = "req"
  <2>1. p.body \in Reqs /\ p = Request(p.body) /\ Sent(p.body) /\ n \in To[p.body]
    BY <1>1 DEF Sound
  <2>2. Sent(p.body)' /\ sessn'[p.body] = sessn[p.body]
    BY <2>1 DEF Grows, Sent, Numbered
  <2>3. p = Request(p.body)'
    BY <2>1, <2>2 DEF Request
  <2>. QED
    BY <1>1, <2>1, <2>2, <2>3 DEF Sound
<1>2. CASE p.type = "resp"
  BY <1>2, CausedRemains DEF Sound
<1>3. CASE p.type # "req" /\ p.type # "resp"
  BY <1>3 DEF Sound
<1>. QED
  BY <1>1, <1>2, <1>3

\* What is on the bus was on its way before, or is a packet that was just sent.
Arrives(addressees, packet) ==
  \A n \in Nodes : \A i \in 1..Len(bus'[n]) :
    \/ n \in addressees /\ bus'[n][i] = packet
    \/ \E j \in 1..Len(bus[n]) : bus'[n][i] = bus[n][j]

LEMMA CarriedAgain ==
  ASSUME IInv, Grows, NEW addressees, NEW packet, Arrives(addressees, packet),
         \A n \in Nodes : n \in addressees => Sound(n, packet)'
  PROVE  Carried'
<1>1. ASSUME NEW n \in Nodes, NEW i \in 1..Len(bus'[n])
      PROVE  Sound(n, bus[n][i])'
  <2>. DEFINE p == bus'[n][i]
  <2>1. CASE n \in addressees /\ p = packet
    BY <2>1 DEF Sound
  <2>2. ASSUME NEW j \in 1..Len(bus[n]), p = bus[n][j]
        PROVE  Sound(n, bus[n][i])'
    <3>1. Sound(n, bus[n][j])
      BY DEF IInv, Carried
    <3>2. PICK x : x = bus[n][j]
      OBVIOUS
    <3>3. Sound(n, x)
      BY <3>1, <3>2
    <3>4. Sound(n, x)'
      BY <3>3, SoundRemains
    <3>. QED
      BY <2>2, <3>2, <3>4
  <2>. QED
    BY <2>1, <2>2 DEF Arrives
<1>. QED
  BY <1>1 DEF Carried

\* Nothing is sent.
LEMMA CarriedStays ==
  ASSUME IInv, Grows, Arrives({}, None)
  PROVE  Carried'
<1>1. \A n \in Nodes : n \in {} => Sound(n, None)'
  OBVIOUS
<1>. QED
  BY <1>1, CarriedAgain

LEMMA OtherRemains ==
  ASSUME IInv, Grows, NEW n \in Nodes, NEW r \in Reqs, Numbered(r), Other(n, r)
  PROVE  Other(n, r)'
<1>1. PICK q \in Reqs : Sent(q) /\ n \in To[q] /\ ~SameCall(r, q)
  BY DEF Other
<1>2. Numbered(q) /\ Sent(q)' /\ sessn'[q] = sessn[q] /\ sessn'[r] = sessn[r]
  BY <1>1 DEF Grows, Sent, Numbered
<1>3. ~SameCall(r, q)'
  BY <1>1, <1>2 DEF SameCall
<1>. QED
  BY <1>1, <1>2, <1>3 DEF Other

LEMMA MemoryRemains ==
  ASSUME IInv, Grows, NEW n \in Nodes, session'[n] = session[n]
  PROVE  \/ session'[n] = NoSession
         \/ Told(n, session[n].srv, session[n].sessn, session[n].body)'
<1>1. PICK s : s = session[n]
  OBVIOUS
<1>2. s = NoSession \/ Told(n, s.srv, s.sessn, s.body)
  BY <1>1 DEF IInv, Remembers
<1>3. Told(n, s.srv, s.sessn, s.body) => Told(n, s.srv, s.sessn, s.body)'
  BY ToldRemains
<1>. QED
  BY <1>1, <1>2, <1>3 DEF Told

LEMMA RunsRemain ==
  ASSUME IInv, Grows, NEW n \in Nodes, NEW r \in Reqs, session'[n] = session[n],
         ran'[n][r] = ran[n][r]
  PROVE  /\ ran'[n][r] > 0 => Numbered(r)' /\ (IsRemembered(n, r)' \/ Other(n, r)')
         /\ ran'[n][r] > 1 => Other(n, r)'
<1>1. /\ ran[n][r] > 0 => Numbered(r) /\ (IsRemembered(n, r) \/ Other(n, r))
      /\ ran[n][r] > 1 => Other(n, r)
      /\ ran[n][r] \in Nat
  BY DEF IInv, TypeOK, Reruns
<1>2. Numbered(r) => /\ Numbered(r)' /\ sessn'[r] = sessn[r]
                     /\ Other(n, r) => Other(n, r)'
  BY OtherRemains DEF Grows
<1>3. Numbered(r) /\ IsRemembered(n, r) => IsRemembered(n, r)'
  BY <1>2 DEF IsRemembered
<1>. QED
  BY <1>1, <1>2, <1>3

LEMMA QuietKeeps ==
  ASSUME IInv, Grows, UNCHANGED <<session, ran>>
  PROVE  Remembers' /\ Reruns'
<1>1. ASSUME NEW n \in Nodes
      PROVE  \/ session'[n] = NoSession'
             \/ Told(n, session[n].srv, session[n].sessn, session[n].body)'
  BY MemoryRemains DEF NoSession
<1>2. ASSUME NEW n \in Nodes, NEW r \in Reqs
      PROVE  /\ ran'[n][r] > 0 => Numbered(r)' /\ (IsRemembered(n, r)' \/ Other(n, r)')
             /\ ran'[n][r] > 1 => Other(n, r)'
  BY RunsRemain
<1>. QED
  BY <1>1, <1>2 DEF Remembers, Reruns

\* The result of a call that is not called back in this step.
LEMMA AnswerRemains ==
  ASSUME IInv, Grows, NEW r \in Reqs, result'[r] = result[r],
         pc'[r] = "answered" => pc[r] = "answered"
  PROVE  /\ result'[r] # None => result'[r] \in Reqs /\ Numbered(r)' /\ SameCall(r, result[r])'
         /\ pc'[r] = "answered" => Caused(Srv[r], sessn[r], result[r])'
<1>1. PICK b, number : b = result[r] /\ number = sessn[r]
  OBVIOUS
<1>2. b # None => b \in Reqs /\ Numbered(r)' /\ Srv[r] = Srv[b] /\ sessn'[r] = sessn'[b] /\ Numbered(b)'
  BY <1>1 DEF IInv, Answers, SameCall, Grows
<1>3. pc[r] = "answered" => Caused(Srv[r], number, b)' /\ sessn'[r] = number
  <2>1. pc[r] = "answered" => Caused(Srv[r], number, b) /\ Numbered(r)
    BY <1>1 DEF IInv, Answers, Numbered
  <2>2. Caused(Srv[r], number, b) => Caused(Srv[r], number, b)'
    BY CausedRemains
  <2>. QED
    BY <1>1, <2>1, <2>2 DEF Grows
<1>. QED
  BY <1>1, <1>2, <1>3 DEF SameCall

-----------------------------------------------------------------------------
\* Each step keeps the invariant.

LEMMA LoadKeeps ==
  ASSUME IInv, NEW r \in Reqs, LoadNumber(r) \/ StoreNumber(r)
  PROVE  IInv'
<1>1. /\ sessn \in [Reqs -> Nat] /\ counter \in [Nodes -> Nat] /\ From[r] \in Nodes
      /\ pc \in [Reqs -> {"new", "drawn", "made", "refused", "listed", "answered", "expired"}]
      /\ list \in [Nodes -> Seq(Reqs)] /\ bus \in [Nodes -> Seq(Packets)]
  BY RpcAssumption DEF IInv, TypeOK
<1>2. /\ UNCHANGED <<retry, list, session, bus, faults, ran, result>>
      /\ \/ /\ pc[r] = "new" /\ pc' = [pc EXCEPT ![r] = "drawn"]
            /\ sessn' = [sessn EXCEPT ![r] = counter[From[r]]] /\ counter' = counter
         \/ /\ pc[r] = "drawn" /\ pc' = [pc EXCEPT ![r] = "made"]
            /\ sessn' = sessn /\ counter' = [counter EXCEPT ![From[r]] = sessn[r] + 1]
  BY DEF LoadNumber, StoreNumber
<1>3. /\ pc' \in [Reqs -> {"new", "drawn", "made", "refused", "listed", "answered", "expired"}]
      /\ \A q \in Reqs : Numbered(q) => Numbered(q)'
      /\ \A q \in Reqs : Sent(q) => Sent(q)'
  BY <1>2, PcGoesOn
<1>4. /\ sessn' \in [Reqs -> Nat] /\ counter' \in [Nodes -> Nat]
      /\ \A q \in Reqs : pc[q] # "new" => sessn'[q] = sessn[q]
  <2>1. CASE pc[r] = "new" /\ sessn' = [sessn EXCEPT ![r] = counter[From[r]]] /\ counter' = counter
    BY <1>1, <2>1
  <2>2. CASE sessn' = sessn /\ counter' = [counter EXCEPT ![From[r]] = sessn[r] + 1]
    BY <1>1, <2>2
  <2>. QED
    BY <1>2, <2>1, <2>2
<1>5. TypeOK'
  BY <1>2, <1>3, <1>4 DEF IInv, TypeOK
<1>6. Grows
  BY <1>2, <1>3, <1>4 DEF Grows, Numbered
<1>7. Listed'
  <2>1. \A q \in Reqs : pc[q] = "listed" => pc'[q] = "listed"
    BY <1>1, <1>2
  <2>2. \A n \in Nodes : \A i \in 1..Len(list[n]) : list[n][i] \in Reqs
    BY <1>1
  <2>. QED
    BY <1>2, <2>1, <2>2 DEF IInv, Listed
<1>8. Carried'
  <2>1. Arrives({}, None)
    BY <1>2 DEF Arrives
  <2>. QED
    BY <1>6, <2>1, CarriedStays
<1>9. Remembers' /\ Reruns'
  BY <1>2, <1>6, QuietKeeps
<1>10. Answers'
  <2>1. \A q \in Reqs : result'[q] = result[q] /\ (pc'[q] = "answered" => pc[q] = "answered")
    BY <1>1, <1>2
  <2>. QED
    BY <2>1, <1>6, AnswerRemains DEF Answers
<1>. QED
  BY <1>5, <1>7, <1>8, <1>9, <1>10 DEF IInv

\* A request that is put on the bus is one that was sent.
LEMMA RequestIsSound ==
  ASSUME IInv, NEW r \in Reqs, Sent(r)', sessn'[r] = sessn[r]
  PROVE  \E packet \in Packets :
           packet = Request(r) /\ \A n \in Nodes : n \in To[r] => Sound(n, packet)'
<1>1. PICK packet : packet = Request(r)
  OBVIOUS
<1>2. packet \in Packets /\ packet.type = "req" /\ packet.body = r
  BY <1>1, RequestType DEF IInv
<1>3. packet = Request(r)'
  BY <1>1 DEF Request
<1>4. \A n \in Nodes : n \in To[r] => Sound(n, packet)'
  BY <1>2, <1>3 DEF Sound
<1>. QED
  BY <1>1, <1>2, <1>4

LEMMA RequestKeepsBus ==
  ASSUME IInv, Grows, NEW r \in Reqs, Sent(r)', sessn'[r] = sessn[r],
         Transmit(Request(r), To[r], bus)
  PROVE  faults' \in 0..MaxFault /\ bus' \in [Nodes -> Seq(Packets)] /\ Carried'
<1>1. PICK packet \in Packets :
        packet = Request(r) /\ \A n \in Nodes : n \in To[r] => Sound(n, packet)'
  BY RequestIsSound
<1>2. faults' \in 0..MaxFault /\ bus' \in [Nodes -> Seq(Packets)] /\ Arrives(To[r], packet)
  <2>1. /\ IsFiniteSet(To[r]) /\ bus \in [Nodes -> Seq(Packets)] /\ faults \in 0..MaxFault
        /\ Transmit(packet, To[r], bus)
    BY <1>1, RequestType DEF IInv, TypeOK
  <2>. QED
    BY <2>1, TransmitSends DEF Arrives
<1>3. Carried'
  BY <1>1, <1>2, CarriedAgain
<1>. QED
  BY <1>2, <1>3

\* A step of the caller that answers nothing.
LEMMA CallerKeeps ==
  ASSUME IInv, NEW r \in Reqs, UNCHANGED <<sessn, counter, session, ran, result>>,
         \/ pc[r] = "made" /\ pc' = [pc EXCEPT ![r] = "listed"]
         \/ pc[r] = "made" /\ pc' = [pc EXCEPT ![r] = "refused"]
         \/ pc[r] = "listed" /\ pc' = [pc EXCEPT ![r] = "expired"]
         \/ pc' = pc,
         retry' \in [Reqs -> Nat], list' \in [Nodes -> Seq(Reqs)], Listed',
         \/ Sent(r)' /\ Transmit(Request(r), To[r], bus)
         \/ bus' = bus /\ faults' \in 0..MaxFault
  PROVE  IInv'
<1>1. /\ pc' \in [Reqs -> {"new", "drawn", "made", "refused", "listed", "answered", "expired"}]
      /\ \A q \in Reqs : Numbered(q) => Numbered(q)'
      /\ \A q \in Reqs : Sent(q) => Sent(q)'
  BY PcGoesOn
<1>2. Grows
  BY <1>1 DEF Grows
<1>3. faults' \in 0..MaxFault /\ bus' \in [Nodes -> Seq(Packets)] /\ Carried'
  <2>1. CASE Sent(r)' /\ Transmit(Request(r), To[r], bus)
    BY <1>2, <2>1, RequestKeepsBus
  <2>2. CASE bus' = bus /\ faults' \in 0..MaxFault
    <3>1. bus' \in [Nodes -> Seq(Packets)] /\ Arrives({}, None)
      BY <2>2 DEF IInv, TypeOK, Arrives
    <3>. QED
      BY <1>2, <2>2, <3>1, CarriedStays
  <2>. QED
    BY <2>1, <2>2
<1>4. TypeOK'
  BY <1>1, <1>3 DEF IInv, TypeOK
<1>5. Remembers' /\ Reruns'
  BY <1>2, QuietKeeps
<1>6. Answers'
  <2>1. pc \in [Reqs -> {"new", "drawn", "made", "refused", "listed", "answered", "expired"}]
    BY DEF IInv, TypeOK
  <2>2. \A q \in Reqs : result'[q] = result[q] /\ (pc'[q] = "answered" => pc[q] = "answered")
    BY <2>1
  <2>. QED
    BY <2>2, <1>2, AnswerRemains DEF Answers
<1>. QED
  BY <1>3, <1>4, <1>5, <1>6 DEF IInv

LEMMA SendKeeps ==
  ASSUME IInv, NEW r \in Reqs, SendRequest(r)
  PROVE  IInv'
<1>1. /\ pc[r] = "made" /\ UNCHANGED <<sessn, retry, counter, session, ran, result>>
      /\ \/ /\ Transmit(Request(r), To[r], bus)
            /\ pc' = [pc EXCEPT ![r] = "listed"]
            /\ list' = [list EXCEPT ![From[r]] = Append(@, r)]
         \/ /\ pc' = [pc EXCEPT ![r] = "refused"]
            /\ UNCHANGED <<list, bus>> /\ faults' \in 0..MaxFault
  BY SendEffect
<1>2. /\ pc \in [Reqs -> {"new", "drawn", "made", "refused", "listed", "answered", "expired"}]
      /\ retry \in [Reqs -> Nat] /\ list \in [Nodes -> Seq(Reqs)]
  BY DEF IInv, TypeOK
<1>3. CASE /\ Transmit(Request(r), To[r], bus)
           /\ pc' = [pc EXCEPT ![r] = "listed"]
           /\ list' = [list EXCEPT ![From[r]] = Append(@, r)]
  <2>1. list' \in [Nodes -> Seq(Reqs)] /\ Listed'
    BY <1>1, <1>3, SendKeepsList
  <2>2. Sent(r)'
    BY <1>2, <1>3 DEF Sent
  <2>. QED
    BY <1>1, <1>2, <1>3, <2>1, <2>2, CallerKeeps
<1>4. CASE /\ pc' = [pc EXCEPT ![r] = "refused"]
           /\ UNCHANGED <<list, bus>> /\ faults' \in 0..MaxFault
  <2>1. \A q \in Reqs : pc[q] = "listed" => pc'[q] = "listed"
    BY <1>1, <1>2, <1>4
  <2>2. \A n \in Nodes : \A i \in 1..Len(list[n]) : list[n][i] \in Reqs
    BY <1>2
  <2>3. Listed'
    BY <1>4, <2>1, <2>2 DEF IInv, Listed
  <2>. QED
    BY <1>1, <1>2, <1>4, <2>3, CallerKeeps
<1>. QED
  BY <1>1, <1>3, <1>4

LEMMA TimeoutKeeps ==
  ASSUME IInv, NEW r \in Reqs, Timeout(r)
  PROVE  IInv'
<1>1. /\ pc[r] = "listed" /\ UNCHANGED <<sessn, counter, session, ran, result>>
      /\ retry' \in [Reqs -> Nat]
      /\ Finish(r, "expired") \/ UNCHANGED <<pc, list>>
      /\ \/ Transmit(Request(r), To[r], bus)
         \/ bus' = bus /\ faults' \in 0..MaxFault
  BY TimeoutEffect
<1>2. /\ pc \in [Reqs -> {"new", "drawn", "made", "refused", "listed", "answered", "expired"}]
      /\ list \in [Nodes -> Seq(Reqs)]
  BY DEF IInv, TypeOK
<1>3. /\ pc' = [pc EXCEPT ![r] = "expired"] \/ pc' = pc
      /\ list' \in [Nodes -> Seq(Reqs)] /\ Listed'
  <2>1. CASE Finish(r, "expired")
    BY <2>1, FinishKeepsList
  <2>2. CASE UNCHANGED <<pc, list>>
    BY <1>2, <2>2 DEF IInv, Listed
  <2>. QED
    BY <1>1, <2>1, <2>2
<1>4. Sent(r)'
  BY <1>1, <1>2, <1>3 DEF Sent
<1>. QED
  BY <1>1, <1>3, <1>4, CallerKeeps

\* The result of a call that is called back.
LEMMA TakeKeeps ==
  ASSUME IInv, NEW n \in Nodes, TakeResponse(n)
  PROVE  IInv'
<1>1. PICK p \in Packets : p = Head(bus[n]) /\ Sound(n, p)
  BY HeadIsSound, TakeEffect DEF IInv
<1>2. /\ bus[n] # <<>> /\ p.type = "resp"
      /\ bus' = Taken(n) /\ UNCHANGED <<sessn, retry, counter, session, faults, ran>>
      /\ \/ UNCHANGED <<pc, list, result>>
         \/ \E r \in Reqs :
              /\ pc[r] = "listed" /\ Srv[r] = p.srv /\ sessn[r] = p.sessn
              /\ result' = [result EXCEPT ![r] = p.body]
              /\ Finish(r, "answered") \/ UNCHANGED <<pc, list>>
  BY <1>1, TakeEffect
<1>3. /\ pc \in [Reqs -> {"new", "drawn", "made", "refused", "listed", "answered", "expired"}]
      /\ list \in [Nodes -> Seq(Reqs)] /\ bus \in [Nodes -> Seq(Packets)]
      /\ result \in [Reqs -> Bodies] /\ p.body \in Bodies
  BY <1>1 DEF IInv, TypeOK, Packets
<1>4. bus' \in [Nodes -> Seq(Packets)] /\ Arrives({}, None)
  <2>1. /\ Taken(n) \in [Nodes -> Seq(Packets)]
        /\ \A m \in Nodes : \A i \in 1..Len(Taken(n)[m]) :
             \E j \in 1..Len(bus[m]) : Taken(n)[m][i] = bus[m][j]
    BY <1>2, <1>3, TakenDropsOne
  <2>. QED
    BY <1>2, <2>1 DEF Arrives
<1>5. /\ pc' \in [Reqs -> {"new", "drawn", "made", "refused", "listed", "answered", "expired"}]
      /\ \A q \in Reqs : Numbered(q) => Numbered(q)'
      /\ \A q \in Reqs : Sent(q) => Sent(q)'
      /\ list' \in [Nodes -> Seq(Reqs)] /\ Listed'
  <2>1. CASE UNCHANGED <<pc, list, result>>
    BY <1>3, <2>1 DEF IInv, Listed, Numbered, Sent
  <2>2. ASSUME NEW r \in Reqs, Finish(r, "answered") \/ UNCHANGED <<pc, list>>
        PROVE  /\ (pc' = [pc EXCEPT ![r] = "answered"] /\ pc[r] = "listed") \/ pc' = pc
               /\ list' \in [Nodes -> Seq(Reqs)] /\ Listed'
    <3>1. CASE Finish(r, "answered")
      BY <3>1, FinishKeepsList
    <3>2. CASE UNCHANGED <<pc, list>>
      BY <1>3, <3>2 DEF IInv, Listed
    <3>. QED
      BY <2>2, <3>1, <3>2
  <2>3. ASSUME NEW r \in Reqs, Finish(r, "answered") \/ UNCHANGED <<pc, list>>
        PROVE  /\ pc' \in [Reqs -> {"new", "drawn", "made", "refused", "listed", "answered", "expired"}]
               /\ \A q \in Reqs : Numbered(q) => Numbered(q)'
               /\ \A q \in Reqs : Sent(q) => Sent(q)'
    BY <2>2, <2>3, PcGoesOn
  <2>. QED
    BY <1>2, <2>1, <2>2, <2>3
<1>6. Grows
  BY <1>2, <1>5 DEF Grows
<1>7. Carried'
  BY <1>4, <1>6, CarriedStays
<1>8. Remembers' /\ Reruns'
  BY <1>2, <1>6, QuietKeeps
<1>9. result' \in [Reqs -> Bodies]
  BY <1>2, <1>3
<1>10. TypeOK'
  BY <1>2, <1>4, <1>5, <1>9 DEF IInv, TypeOK
<1>11. Answers'
  <2>1. CASE UNCHANGED <<pc, list, result>>
    BY <2>1, <1>6, AnswerRemains DEF Answers
  <2>2. ASSUME NEW r \in Reqs, pc[r] = "listed", Srv[r] = p.srv, sessn[r] = p.sessn,
               result' = [result EXCEPT ![r] = p.body],
               Finish(r, "answered") \/ UNCHANGED <<pc, list>>
        PROVE  Answers'
    <3>1. result'[r] = p.body /\ \A q \in Reqs : q # r => result'[q] = result[q]
      BY <1>3, <2>2
    <3>2. \A q \in Reqs : q # r => (pc'[q] = "answered" => pc[q] = "answered")
      <4>1. pc' = [pc EXCEPT ![r] = "answered"] \/ pc' = pc
        BY <2>2, FinishKeepsList
      <4>. QED
        BY <1>3, <4>1
    <3>3. Caused(p.srv, p.sessn, p.body)
      BY <1>1, <1>2 DEF Sound
    <3>4. Caused(p.srv, p.sessn, p.body)'
      BY <3>3, <1>6, CausedRemains
    <3>5. /\ p.body # None => p.body \in Reqs /\ Bears(p.body, p.srv, p.sessn)
          /\ Numbered(r) /\ sessn' = sessn
      BY <1>2, <2>2, <3>3 DEF Caused, Told, Numbered
    <3>6. /\ result'[r] # None => result'[r] \in Reqs /\ Numbered(r)' /\ SameCall(r, result[r])'
          /\ pc'[r] = "answered" => Caused(Srv[r], sessn[r], result[r])'
      <4>1. p.body # None => p.body \in Reqs /\ Numbered(r)' /\ Srv[r] = Srv[p.body]
                             /\ sessn'[r] = sessn'[p.body] /\ Numbered(p.body)'
        BY <3>5, <2>2, <1>6 DEF Bears, Grows
      <4>2. PICK srv, number, b : srv = p.srv /\ number = p.sessn /\ b = p.body
        OBVIOUS
      <4>3. Caused(srv, number, b)' /\ result'[r] = b /\ sessn'[r] = number /\ Srv[r] = srv
        BY <4>2, <3>4, <3>1, <3>5, <2>2
      <4>. QED
        BY <4>1, <4>2, <4>3 DEF SameCall
    <3>7. \A q \in Reqs : q # r =>
            /\ result'[q] # None => result'[q] \in Reqs /\ Numbered(q)' /\ SameCall(q, result[q])'
            /\ pc'[q] = "answered" => Caused(Srv[q], sessn[q], result[q])'
      BY <3>1, <3>2, <1>6, AnswerRemains
    <3>. QED
      BY <3>6, <3>7 DEF Answers
  <2>. QED
    BY <1>2, <2>1, <2>2
<1>. QED
  BY <1>5, <1>7, <1>8, <1>10, <1>11 DEF IInv

\* A service that is run: what the node can tell of the call, and what it ran before.
LEMMA RunIsTold ==
  ASSUME IInv, NEW n \in Nodes, NEW p \in Packets, p = Head(bus[n]), bus[n] # <<>>,
         p.type = "req", NEW body \in {p.body, None},
         UNCHANGED <<pc, sessn>>, body # None => p.srv \in Serves[n],
         \/ p.srv \in Serves[n] /\ ran' = [ran EXCEPT ![n][p.body] = @ + 1]
         \/ p.srv \notin Serves[n] /\ UNCHANGED ran
  PROVE  /\ ran' \in [Nodes -> [Reqs -> Nat]] /\ Grows
         /\ Told(n, p.srv, p.sessn, body)'
         /\ \A m \in Nodes, q \in Reqs : ran'[m][q] # ran[m][q] => m = n /\ q = p.body
         /\ p.body \in Reqs => ran'[n][p.body] <= ran[n][p.body] + 1
<1>1. /\ p.body \in Reqs /\ Sent(p.body) /\ n \in To[p.body]
      /\ p.srv = Srv[p.body] /\ p.sessn = sessn[p.body]
  BY HeadIsSound DEF IInv
<1>2. ran \in [Nodes -> [Reqs -> Nat]]
  BY DEF IInv, TypeOK
<1>3. /\ ran' \in [Nodes -> [Reqs -> Nat]]
      /\ \A m \in Nodes, q \in Reqs : ran'[m][q] = ran[m][q] \/ (m = n /\ q = p.body /\ ran'[m][q] = ran[m][q] + 1)
  <2>1. CASE ran' = [ran EXCEPT ![n][p.body] = @ + 1]
    BY <1>1, <1>2, <2>1, RunCounts
  <2>2. CASE UNCHANGED ran
    BY <1>2, <2>2
  <2>. QED
    BY <2>1, <2>2
<1>4. Grows
  <2>1. \A m \in Nodes, q \in Reqs : ran[m][q] \in Nat
    BY <1>2
  <2>2. \A m \in Nodes, q \in Reqs : ran[m][q] > 0 => ran'[m][q] > 0
    BY <1>3, <2>1
  <2>. QED
    BY <2>2 DEF Grows, Numbered, Sent
<1>5. Bears(p.body, p.srv, p.sessn)'
  BY <1>1 DEF Bears, Numbered, Sent
<1>6. p.srv \in Serves[n] => ran'[n][p.body] > 0
  <2>1. ran[n][p.body] \in Nat
    BY <1>1, <1>2
  <2>. QED
    BY <1>1, <1>2, <2>1, RunCounts
<1>7. Told(n, p.srv, p.sessn, body)'
  <2>1. PICK srv, number, b : srv = p.srv /\ number = p.sessn /\ b = p.body
    OBVIOUS
  <2>2. Bears(b, srv, number)' /\ b \in Reqs /\ (srv \in Serves[n] => ran'[n][b] > 0)
    BY <2>1, <1>1, <1>5, <1>6
  <2>3. body # None => body = b /\ srv \in Serves[n]
    BY <2>1
  <2>4. Told(n, srv, number, body)'
    BY <2>2, <2>3 DEF Told, RanOne
  <2>. QED
    BY <2>1, <2>4
<1>8. ran'[n][p.body] <= ran[n][p.body] + 1
  <2>1. ran[n][p.body] \in Nat
    BY <1>1, <1>2
  <2>. QED
    BY <1>1, <1>3, <2>1
<1>. QED
  BY <1>3, <1>4, <1>7, <1>8

\* An answer that is sent has a cause.
LEMMA ResponseKeepsBus ==
  ASSUME IInv, Grows, NEW n \in Nodes, bus[n] # <<>>, NEW s \in Memory, NEW peer,
         Caused(s.srv, s.sessn, s.body)',
         \/ bus' = Taken(n) /\ UNCHANGED faults
         \/ Transmit(Response(s), {peer}, Taken(n))
  PROVE  faults' \in 0..MaxFault /\ bus' \in [Nodes -> Seq(Packets)] /\ Carried'
<1>1. /\ Taken(n) \in [Nodes -> Seq(Packets)]
      /\ \A m \in Nodes : \A i \in 1..Len(Taken(n)[m]) :
           \E j \in 1..Len(bus[m]) : Taken(n)[m][i] = bus[m][j]
      /\ faults \in 0..MaxFault
  BY TakenDropsOne DEF IInv, TypeOK
<1>2. CASE bus' = Taken(n) /\ UNCHANGED faults
  <2>1. Arrives({}, None)
    BY <1>1, <1>2 DEF Arrives
  <2>. QED
    BY <1>1, <1>2, <2>1, CarriedStays
<1>3. CASE Transmit(Response(s), {peer}, Taken(n))
  <2>1. PICK packet : packet = Response(s)
    OBVIOUS
  <2>2. /\ packet \in Packets /\ packet.type = "resp"
        /\ packet.srv = s.srv /\ packet.sessn = s.sessn /\ packet.body = s.body
    BY <2>1, ResponseType
  <2>3. /\ faults' \in 0..MaxFault /\ bus' \in [Nodes -> Seq(Packets)]
        /\ \A m \in Nodes : \A i \in 1..Len(bus'[m]) :
             \/ m \in {peer} /\ bus'[m][i] = packet
             \/ \E j \in 1..Len(Taken(n)[m]) : bus'[m][i] = Taken(n)[m][j]
    BY <1>1, <1>3, <2>1, <2>2, OneIsFinite, TransmitSends
  <2>4. Arrives({peer}, packet)
    <3>. SUFFICES ASSUME NEW m \in Nodes, NEW i \in 1..Len(bus'[m])
                  PROVE  \/ m \in {peer} /\ bus'[m][i] = packet
                         \/ \E j \in 1..Len(bus[m]) : bus'[m][i] = bus[m][j]
      BY DEF Arrives
    <3>1. CASE m \in {peer} /\ bus'[m][i] = packet
      BY <3>1
    <3>2. ASSUME NEW j \in 1..Len(Taken(n)[m]), bus'[m][i] = Taken(n)[m][j]
          PROVE  \E k \in 1..Len(bus[m]) : bus'[m][i] = bus[m][k]
      BY <3>2, <1>1
    <3>. QED
      BY <2>3, <3>1, <3>2
  <2>5. Caused(packet.srv, packet.sessn, packet.body)'
    BY <2>2
  <2>6. \A m \in Nodes : m \in {peer} => Sound(m, packet)'
    BY <2>2, <2>5 DEF Sound
  <2>. QED
    BY <2>3, <2>4, <2>6, CarriedAgain
<1>. QED
  BY <1>2, <1>3

\* A repetition is answered from memory: with what was told of the call it repeats.
LEMMA AgainKeeps ==
  ASSUME IInv, NEW n \in Nodes, NEW p \in Packets, p = Head(bus[n]), bus[n] # <<>>,
         p.type = "req", IsRepeat(n, p), UNCHANGED <<pc, sessn, session, ran>>,
         Transmit(Response(session[n]), {p.peer}, Taken(n))
  PROVE  /\ Grows
         /\ faults' \in 0..MaxFault /\ bus' \in [Nodes -> Seq(Packets)] /\ Carried'
<1>1. /\ p.body \in Reqs /\ Sent(p.body) /\ n \in To[p.body]
      /\ p.srv = Srv[p.body] /\ p.sessn = sessn[p.body]
  BY HeadIsSound DEF IInv
<1>2. Grows
  BY DEF Grows, Numbered, Sent
<1>3. PICK s \in Memory : s = session[n]
  BY DEF IInv, TypeOK, Memory
<1>4. s.srv = p.srv /\ s.sessn = p.sessn /\ s # NoSession
  <2>1. s.srv = p.srv /\ s.sessn = p.sessn
    BY <1>3 DEF IsRepeat
  <2>2. p.srv # None
    BY <1>1, RpcAssumption
  <2>. QED
    BY <2>1, <2>2 DEF NoSession
<1>5. Told(n, s.srv, s.sessn, s.body)
  BY <1>3, <1>4 DEF IInv, Remembers
<1>6. Bears(p.body, s.srv, s.sessn)
  BY <1>1, <1>4 DEF Bears, Numbered, Sent
<1>7. Caused(s.srv, s.sessn, s.body)
  BY <1>1, <1>5, <1>6 DEF Caused
<1>8. Caused(s.srv, s.sessn, s.body)'
  BY <1>2, <1>7, CausedRemains
<1>9. Transmit(Response(s), {p.peer}, Taken(n))
  BY <1>3
<1>. QED
  BY <1>2, <1>8, <1>9, ResponseKeepsBus

\* A call that is run or has no service takes the place of the one that was remembered.
LEMMA MemoryIsFresh ==
  ASSUME IInv, NEW n \in Nodes, NEW p \in Packets, p = Head(bus[n]), bus[n] # <<>>,
         p.type = "req", ~IsRepeat(n, p), NEW body \in {p.body, None},
         session' = [session EXCEPT ![n] = Fresh(p, body)], UNCHANGED <<pc, sessn>>,
         body # None => p.srv \in Serves[n],
         \/ p.srv \in Serves[n] /\ ran' = [ran EXCEPT ![n][p.body] = @ + 1]
         \/ p.srv \notin Serves[n] /\ UNCHANGED ran
  PROVE  /\ Grows /\ ran' \in [Nodes -> [Reqs -> Nat]] /\ session' \in [Nodes -> Memory]
         /\ Caused(p.srv, p.sessn, body)' /\ Remembers' /\ Reruns'
<1>1. /\ p.body \in Reqs /\ Sent(p.body) /\ n \in To[p.body]
      /\ p.srv = Srv[p.body] /\ p.sessn = sessn[p.body]
  BY HeadIsSound DEF IInv
<1>2. /\ ran' \in [Nodes -> [Reqs -> Nat]] /\ Grows
      /\ Told(n, p.srv, p.sessn, body)'
      /\ \A m \in Nodes, q \in Reqs : ran'[m][q] # ran[m][q] => m = n /\ q = p.body
      /\ ran'[n][p.body] <= ran[n][p.body] + 1
  BY <1>1, RunIsTold
<1>3. /\ Fresh(p, body) \in Memory /\ Fresh(p, body).srv = p.srv
      /\ Fresh(p, body).sessn = p.sessn /\ Fresh(p, body).body = body
  BY FreshType
<1>4. /\ session \in [Nodes -> Memory] /\ ran \in [Nodes -> [Reqs -> Nat]]
  BY DEF IInv, TypeOK, Memory
<1>5. /\ session' \in [Nodes -> Memory] /\ session'[n] = Fresh(p, body)
      /\ \A m \in Nodes : m # n => session'[m] = session[m]
  BY <1>3, <1>4
<1>6. PICK srv, number, b : srv = p.srv /\ number = p.sessn /\ b = p.body
  OBVIOUS
<1>7. Bears(b, srv, number)' /\ Sent(b)' /\ Told(n, srv, number, body)'
  BY <1>1, <1>2, <1>6 DEF Bears, Numbered, Sent
<1>8. Caused(srv, number, body)'
  BY <1>1, <1>6, <1>7 DEF Caused
<1>9. Remembers'
  <2>1. Told(n, session[n].srv, session[n].sessn, session[n].body)'
    BY <1>3, <1>5, <1>6, <1>7 DEF Told
  <2>2. ASSUME NEW m \in Nodes, m # n
        PROVE  \/ session'[m] = NoSession'
               \/ Told(m, session[m].srv, session[m].sessn, session[m].body)'
    <3>1. session'[m] = session[m]
      BY <1>5, <2>2
    <3>2. \/ session'[m] = NoSession
          \/ Told(m, session[m].srv, session[m].sessn, session[m].body)'
      BY <1>2, <3>1, MemoryRemains
    <3>. QED
      BY <3>2 DEF NoSession
  <2>. QED
    BY <2>1, <2>2 DEF Remembers
<1>10. Reruns'
  <2>. SUFFICES ASSUME NEW m \in Nodes, NEW q \in Reqs
                PROVE  /\ ran'[m][q] > 0 => Numbered(q)' /\ (IsRemembered(m, q)' \/ Other(m, q)')
                       /\ ran'[m][q] > 1 => Other(m, q)'
    BY DEF Reruns
  <2>1. CASE m # n
    BY <1>2, <1>5, <2>1, RunsRemain
  <2>2. CASE m = n
    <3>1. /\ ran[n][q] > 0 => Numbered(q) /\ (IsRemembered(n, q) \/ Other(n, q))
          /\ ran[n][q] > 1 => Other(n, q)
          /\ ran[n][q] \in Nat /\ ran'[n][q] \in Nat
      BY <1>2, <1>4 DEF IInv, Reruns
    <3>2. Numbered(q) /\ Other(n, q) => Other(n, q)'
      BY <1>2, OtherRemains
    <3>3. Numbered(b) /\ sessn' = sessn /\ pc' = pc
      BY <1>1, <1>6 DEF Numbered, Sent
    <3>4. ran'[n][q] > 0 => Numbered(q)
      <4>1. q = b \/ ran'[n][q] = ran[n][q]
        BY <1>2, <1>6
      <4>. QED
        BY <4>1, <3>1, <3>3
    <3>5. IsRemembered(n, q)' \/ Other(n, q)'
      <4>1. CASE Srv[q] = srv /\ sessn[q] = number
        BY <4>1, <1>3, <1>5, <1>6, <3>3 DEF IsRemembered
      <4>2. CASE ~(Srv[q] = srv /\ sessn[q] = number)
        <5>1. ~SameCall(q, b)'
          BY <4>2, <1>1, <1>6, <3>3 DEF SameCall
        <5>. QED
          BY <5>1, <1>1, <1>6, <1>7 DEF Other
      <4>. QED
        BY <4>1, <4>2
    <3>6. ASSUME ran'[n][q] > 1
          PROVE  Numbered(q) /\ Other(n, q)
      <4>1. CASE q # b
        BY <4>1, <3>1, <3>4, <3>6, <1>2, <1>6
      <4>2. CASE q = b
        <5>1. ~IsRemembered(n, q)
          BY <4>2, <1>1, <1>6 DEF IsRepeat, IsRemembered
        <5>2. ran[n][q] > 0
          BY <4>2, <3>1, <3>6, <1>2, <1>6
        <5>. QED
          BY <5>1, <5>2, <3>1
      <4>. QED
        BY <4>1, <4>2
    <3>7. Numbered(q) => Numbered(q)'
      BY <3>3 DEF Numbered
    <3>. QED
      BY <2>2, <3>2, <3>4, <3>5, <3>6, <3>7
  <2>. QED
    BY <2>1, <2>2
<1>11. Caused(p.srv, p.sessn, body)'
  BY <1>6, <1>8
<1>. QED
  BY <1>2, <1>5, <1>9, <1>10, <1>11

LEMMA ServeKeeps ==
  ASSUME IInv, NEW n \in Nodes, ServeRequest(n)
  PROVE  IInv'
<1>1. PICK p \in Packets : p = Head(bus[n])
  BY HeadIsSound, ServeEffect DEF IInv
<1>2. /\ bus[n] # <<>> /\ p.type = "req"
      /\ UNCHANGED <<pc, sessn, retry, counter, list, result>>
      /\ \/ /\ IsRepeat(n, p)
            /\ Transmit(Response(session[n]), {p.peer}, Taken(n))
            /\ UNCHANGED <<session, ran>>
         \/ /\ ~IsRepeat(n, p)
            /\ \E body \in {p.body, None} :
                 /\ session' = [session EXCEPT ![n] = Fresh(p, body)]
                 /\ body # None => p.srv \in Serves[n]
                 /\ \/ bus' = Taken(n) /\ UNCHANGED faults
                    \/ Transmit(Response(session'[n]), {p.peer}, Taken(n))
            /\ \/ p.srv \in Serves[n] /\ ran' = [ran EXCEPT ![n][p.body] = @ + 1]
               \/ p.srv \notin Serves[n] /\ UNCHANGED ran
  BY <1>1, ServeEffect
<1>3. /\ session \in [Nodes -> Memory] /\ ran \in [Nodes -> [Reqs -> Nat]]
      /\ list \in [Nodes -> Seq(Reqs)]
  BY DEF IInv, TypeOK, Memory
<1>4. /\ Grows /\ session' \in [Nodes -> Memory] /\ ran' \in [Nodes -> [Reqs -> Nat]]
      /\ faults' \in 0..MaxFault /\ bus' \in [Nodes -> Seq(Packets)]
      /\ Carried' /\ Remembers' /\ Reruns'
  <2>1. CASE /\ IsRepeat(n, p)
             /\ Transmit(Response(session[n]), {p.peer}, Taken(n))
             /\ UNCHANGED <<session, ran>>
    <3>1. /\ Grows
          /\ faults' \in 0..MaxFault /\ bus' \in [Nodes -> Seq(Packets)] /\ Carried'
      BY <1>1, <1>2, <2>1, AgainKeeps
    <3>2. Remembers' /\ Reruns'
      BY <2>1, <3>1, QuietKeeps
    <3>. QED
      BY <1>3, <2>1, <3>1, <3>2
  <2>2. ASSUME NEW body \in {p.body, None}, ~IsRepeat(n, p),
               session' = [session EXCEPT ![n] = Fresh(p, body)],
               body # None => p.srv \in Serves[n],
               \/ bus' = Taken(n) /\ UNCHANGED faults
               \/ Transmit(Response(session'[n]), {p.peer}, Taken(n)),
               \/ p.srv \in Serves[n] /\ ran' = [ran EXCEPT ![n][p.body] = @ + 1]
               \/ p.srv \notin Serves[n] /\ UNCHANGED ran
        PROVE  /\ Grows /\ session' \in [Nodes -> Memory] /\ ran' \in [Nodes -> [Reqs -> Nat]]
               /\ faults' \in 0..MaxFault /\ bus' \in [Nodes -> Seq(Packets)]
               /\ Carried' /\ Remembers' /\ Reruns'
    <3>1. /\ Grows /\ ran' \in [Nodes -> [Reqs -> Nat]] /\ session' \in [Nodes -> Memory]
          /\ Caused(p.srv, p.sessn, body)' /\ Remembers' /\ Reruns'
      <4>1. /\ bus[n] # <<>> /\ p.type = "req" /\ UNCHANGED <<pc, sessn>> /\ p = Head(bus[n])
        BY <1>1, <1>2
      <4>. QED
        BY <4>1, <2>2, MemoryIsFresh
    <3>2. PICK s \in Memory : s = Fresh(p, body)
      BY FreshType
    <3>3. s = session'[n] /\ s.srv = p.srv /\ s.sessn = p.sessn /\ s.body = body
      BY <1>3, <2>2, <3>2, FreshType
    <3>4. Caused(s.srv, s.sessn, s.body)'
      BY <3>1, <3>3
    <3>5. faults' \in 0..MaxFault /\ bus' \in [Nodes -> Seq(Packets)] /\ Carried'
      BY <1>2, <2>2, <3>1, <3>3, <3>4, ResponseKeepsBus
    <3>. QED
      BY <3>1, <3>5
  <2>. QED
    BY <1>2, <2>1, <2>2
<1>5. TypeOK'
  BY <1>2, <1>4 DEF IInv, TypeOK, Memory
<1>6. Listed'
  BY <1>2 DEF IInv, Listed
<1>7. Answers'
  <2>1. \A q \in Reqs : result'[q] = result[q] /\ (pc'[q] = "answered" => pc[q] = "answered")
    BY <1>2
  <2>. QED
    BY <2>1, <1>4, AnswerRemains DEF Answers
<1>. QED
  BY <1>4, <1>5, <1>6, <1>7 DEF IInv

-----------------------------------------------------------------------------
\* The theorems.

LEMMA Starts == Init => IInv
<1>. SUFFICES ASSUME Init PROVE IInv
  OBVIOUS
<1>1. /\ pc = [r \in Reqs |-> "new"] /\ sessn = [r \in Reqs |-> 0] /\ retry = Retry
      /\ counter = [n \in Nodes |-> 0] /\ list = [n \in Nodes |-> <<>>]
      /\ session = [n \in Nodes |-> NoSession] /\ bus = [n \in Nodes |-> <<>>]
      /\ faults = 0 /\ ran = [n \in Nodes |-> [r \in Reqs |-> 0]]
      /\ result = [r \in Reqs |-> None]
  BY DEF Init
<1>2. TypeOK
  <2>1. NoSession \in Memory
    BY DEF NoSession, Memory, Services, Bodies
  <2>2. session \in [Nodes -> Memory]
    BY <1>1, <2>1
  <2>3. /\ pc \in [Reqs -> {"new", "drawn", "made", "refused", "listed", "answered", "expired"}]
        /\ sessn \in [Reqs -> Nat] /\ retry \in [Reqs -> Nat] /\ counter \in [Nodes -> Nat]
        /\ result \in [Reqs -> Bodies] /\ faults \in 0..MaxFault
        /\ ran \in [Nodes -> [Reqs -> Nat]]
    BY <1>1, RpcAssumption DEF Bodies
  <2>4. list \in [Nodes -> Seq(Reqs)] /\ bus \in [Nodes -> Seq(Packets)]
    BY <1>1
  <2>. QED
    BY <2>2, <2>3, <2>4 DEF TypeOK, Memory
<1>3. Listed /\ Carried
  BY <1>1 DEF Listed, Carried
<1>4. Remembers /\ Reruns
  BY <1>1 DEF Remembers, Reruns
<1>5. Answers
  BY <1>1 DEF Answers
<1>. QED
  BY <1>2, <1>3, <1>4, <1>5 DEF IInv

LEMMA Keeps == IInv /\ [Next]_vars => IInv'
<1>. SUFFICES ASSUME IInv, [Next]_vars PROVE IInv'
  OBVIOUS
<1>1. ASSUME NEW r \in Reqs, LoadNumber(r) \/ StoreNumber(r)
      PROVE  IInv'
  BY <1>1, LoadKeeps
<1>2. ASSUME NEW r \in Reqs, SendRequest(r)
      PROVE  IInv'
  BY <1>2, SendKeeps
<1>3. ASSUME NEW r \in Reqs, Timeout(r)
      PROVE  IInv'
  BY <1>3, TimeoutKeeps
<1>4. ASSUME NEW n \in Nodes, ServeRequest(n)
      PROVE  IInv'
  BY <1>4, ServeKeeps
<1>5. ASSUME NEW n \in Nodes, TakeResponse(n)
      PROVE  IInv'
  BY <1>5, TakeKeeps
<1>6. CASE UNCHANGED vars
  <2>1. /\ pc' = pc /\ sessn' = sessn /\ retry' = retry /\ counter' = counter /\ list' = list
        /\ session' = session /\ bus' = bus /\ faults' = faults /\ ran' = ran /\ result' = result
    BY <1>6 DEF vars
  <2>2. Grows
    BY <2>1 DEF Grows, Numbered, Sent
  <2>3. TypeOK' /\ Listed'
    BY <2>1 DEF IInv, TypeOK, Listed
  <2>4. Carried'
    <3>1. Arrives({}, None)
      BY <2>1 DEF Arrives
    <3>. QED
      BY <2>2, <3>1, CarriedStays
  <2>5. Remembers' /\ Reruns'
    BY <2>1, <2>2, QuietKeeps
  <2>6. Answers'
    BY <2>1, <2>2, AnswerRemains DEF Answers
  <2>. QED
    BY <2>3, <2>4, <2>5, <2>6 DEF IInv
<1>. QED
  BY <1>1, <1>2, <1>3, <1>4, <1>5, <1>6 DEF Next

\* The inductive invariant: what is on the bus, remembered by a server and given to a
\* callback goes back to a call that was made, with its service and number.
THEOREM RpcInvariant == Spec => []IInv
<1>1. Init => IInv
  BY Starts
<1>2. IInv /\ [Next]_vars => IInv'
  BY Keeps
<1>. QED
  BY <1>1, <1>2, PTL DEF Spec

\* The variables keep their types.
THEOREM RpcTypes == Spec => []TypeOK
<1>1. IInv => TypeOK
  BY DEF IInv
<1>. QED
  BY <1>1, RpcInvariant, PTL

\* An answer, whatever the numbers, is one to a call with the same service and number,
\* which a node that was called with it has run.
THEOREM RpcCause == Spec => []AnswerHasCause
<1>1. IInv => AnswerHasCause
  <2>. SUFFICES ASSUME IInv, NEW r \in Reqs, pc[r] = "answered"
                PROVE  \E q \in Reqs : \E n \in To[q] :
                         /\ SameCall(r, q)
                         /\ result[r] # None => SameCall(r, result[r]) /\ ran[n][result[r]] > 0
    BY DEF AnswerHasCause
  <2>1. PICK q \in Reqs : \E n \in To[q] :
          Bears(q, Srv[r], sessn[r]) /\ Told(n, Srv[r], sessn[r], result[r])
    BY DEF IInv, Answers, Caused
  <2>2. PICK n \in To[q] : Bears(q, Srv[r], sessn[r]) /\ Told(n, Srv[r], sessn[r], result[r])
    BY <2>1
  <2>. QED
    BY <2>2 DEF Bears, Told, SameCall
<1>. QED
  BY <1>1, RpcInvariant, PTL

\* A call that shares its service and number with no other is given its own answer or an
\* empty one, and was run by a node it was addressed to.
THEOREM RpcOwn == Spec => []AnswerIsOwn
<1>1. IInv => AnswerIsOwn
  <2>. SUFFICES ASSUME IInv, NEW r \in Reqs, Unshared(r)
                PROVE  /\ result[r] \in {None, r}
                       /\ pc[r] = "answered" => \E n \in To[r] : Srv[r] \in Serves[n] => ran[n][r] > 0
    BY DEF AnswerIsOwn
  <2>1. result[r] \in {None, r}
    BY DEF IInv, Answers, Unshared
  <2>2. ASSUME pc[r] = "answered"
        PROVE  \E n \in To[r] : Srv[r] \in Serves[n] => ran[n][r] > 0
    <3>1. PICK q \in Reqs : \E n \in To[q] :
            Bears(q, Srv[r], sessn[r]) /\ Told(n, Srv[r], sessn[r], result[r])
      BY <2>2 DEF IInv, Answers, Caused
    <3>2. PICK n \in To[q] : Bears(q, Srv[r], sessn[r]) /\ Told(n, Srv[r], sessn[r], result[r])
      BY <3>1
    <3>3. \A x \in Reqs : Bears(x, Srv[r], sessn[r]) => x = r
      BY DEF Bears, Unshared, SameCall
    <3>4. Srv[r] \in Serves[n] => ran[n][r] > 0
      BY <3>2, <3>3 DEF Told, RanOne
    <3>. QED
      BY <3>2, <3>3, <3>4
  <2>. QED
    BY <2>1, <2>2
<1>. QED
  BY <1>1, RpcInvariant, PTL

\* A server runs a call more often than once only if it was sent another one as well.
THEOREM RpcReruns == Spec => []RunAgainAfterAnother
<1>1. IInv => RunAgainAfterAnother
  BY DEF IInv, Reruns, Other, RunAgainAfterAnother
<1>. QED
  BY <1>1, RpcInvariant, PTL

\* A step moves at most one call, and no further than to the next place in its life.
LEMMA PcSteps ==
  ASSUME IInv, [Next]_vars
  PROVE  \/ pc' = pc
         \/ \E r \in Reqs :
              \/ pc[r] \in {"new", "drawn", "made"} /\ pc' = [pc EXCEPT ![r] = "drawn"]
              \/ pc[r] \in {"new", "drawn", "made"} /\ pc' = [pc EXCEPT ![r] = "made"]
              \/ pc[r] \in {"new", "drawn", "made"} /\ pc' = [pc EXCEPT ![r] = "refused"]
              \/ pc[r] = "made" /\ pc' = [pc EXCEPT ![r] = "listed"]
              \/ pc[r] = "listed" /\ pc' = [pc EXCEPT ![r] = "answered"]
              \/ pc[r] = "listed" /\ pc' = [pc EXCEPT ![r] = "expired"]
<1>1. ASSUME NEW r \in Reqs, LoadNumber(r) \/ StoreNumber(r)
      PROVE  \/ pc[r] \in {"new", "drawn", "made"} /\ pc' = [pc EXCEPT ![r] = "drawn"]
             \/ pc[r] \in {"new", "drawn", "made"} /\ pc' = [pc EXCEPT ![r] = "made"]
  BY <1>1 DEF LoadNumber, StoreNumber
<1>2. ASSUME NEW r \in Reqs, SendRequest(r)
      PROVE  \/ pc[r] = "made" /\ pc' = [pc EXCEPT ![r] = "listed"]
             \/ pc[r] \in {"new", "drawn", "made"} /\ pc' = [pc EXCEPT ![r] = "refused"]
  BY <1>2, SendEffect
<1>3. ASSUME NEW r \in Reqs, Timeout(r)
      PROVE  pc' = pc \/ (pc[r] = "listed" /\ pc' = [pc EXCEPT ![r] = "expired"])
  BY <1>3, TimeoutEffect, FinishKeepsList
<1>4. ASSUME NEW n \in Nodes, ServeRequest(n)
      PROVE  pc' = pc
  BY <1>4, ServeEffect
<1>5. ASSUME NEW n \in Nodes, TakeResponse(n)
      PROVE  pc' = pc \/ \E r \in Reqs : pc[r] = "listed" /\ pc' = [pc EXCEPT ![r] = "answered"]
  BY <1>5, TakeEffect, FinishKeepsList
<1>6. CASE UNCHANGED vars
  BY <1>6 DEF vars
<1>. QED
  BY <1>1, <1>2, <1>3, <1>4, <1>5, <1>6 DEF Next

\* What the caller sees of such a step.
LEMMA StatusSteps ==
  ASSUME IInv, [Next]_vars
  PROVE  \/ Status' = Status
         \/ \E r \in Reqs : Promise!Ask(r) \/ Promise!Called(r)
<1>1. /\ pc \in [Reqs -> {"new", "drawn", "made", "refused", "listed", "answered", "expired"}]
      /\ DOMAIN Status = Reqs
  BY DEF IInv, TypeOK, Status
<1>2. CASE pc' = pc
  BY <1>2 DEF Status
<1>3. ASSUME NEW r \in Reqs, pc[r] \in {"new", "drawn", "made"},
             NEW how \in {"drawn", "made", "refused"}, pc' = [pc EXCEPT ![r] = how]
      PROVE  Status' = Status
  BY <1>1, <1>3 DEF Status
<1>4. ASSUME NEW r \in Reqs, pc[r] = "made", pc' = [pc EXCEPT ![r] = "listed"]
      PROVE  Promise!Ask(r)
  <2>1. Status[r] = "new"
    BY <1>4 DEF Status
  <2>2. Status' = [Status EXCEPT ![r] = "waits"]
    BY <1>1, <1>4 DEF Status
  <2>. QED
    BY <2>1, <2>2 DEF Promise!Ask, Promise!New
<1>5. ASSUME NEW r \in Reqs, pc[r] = "listed", NEW how \in {"answered", "expired"},
             pc' = [pc EXCEPT ![r] = how]
      PROVE  Promise!Called(r)
  <2>1. Status[r] = "waits"
    BY <1>5 DEF Status
  <2>2. Status' = [q \in Reqs |-> IF q = r THEN how ELSE IF q \in {} THEN "waits" ELSE Status[q]]
    BY <1>1, <1>5 DEF Status
  <2>3. Promise!End(r, how, {})
    BY <2>1, <2>2 DEF Promise!End
  <2>. QED
    BY <2>3 DEF Promise!Called
<1>. QED
  BY <1>2, <1>3, <1>4, <1>5, PcSteps

\* A call that was accepted is called back for the last time once, one that was refused never.
THEOREM RpcCalledBackOnce == Spec => CalledBackOnce
<1>1. Init => Promise!Init
  BY DEF Init, Promise!Init, Status
<1>2. IInv /\ [Next]_vars => [Promise!Next]_Status
  BY StatusSteps DEF Promise!Next
<1>. QED
  BY <1>1, <1>2, RpcInvariant, PTL DEF Spec, CalledBackOnce, Promise!Spec
=============================================================================
