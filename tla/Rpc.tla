--------------------------------- MODULE Rpc ---------------------------------
(***************************************************************************)
(* Remote calls (sysrpc.c).  Every node numbers its calls with a counter   *)
(* that two threads share, repeats a call until it is answered, and as a   *)
(* server remembers one call, which it knows by service and number alone.  *)
(* The bus keeps the order of what arrives and may lose packets.           *)
(***************************************************************************)
EXTENDS Naturals, Sequences, FiniteSets

CONSTANTS
  Nodes,
  Reqs,       \* the calls that are made
  From, To,   \* the caller of a call and the nodes it is addressed to
  Thread,     \* the thread that makes it; "sysm" also takes what arrives
  Earlier,    \* the calls that this thread makes before
  Srv,        \* the service it is for
  Serves,     \* the services that each node registers
  Patient,    \* calls whose callback waits for the answers of several nodes
  Retry,      \* how often each call is repeated
  MaxFault,   \* bound: packets lost and sends refused
  None

ASSUME RpcAssumption ==
  /\ IsFiniteSet(Nodes) /\ MaxFault \in Nat
  /\ None \notin Reqs /\ None \notin Nodes
  /\ From \in [Reqs -> Nodes] /\ To \in [Reqs -> SUBSET Nodes]
  /\ \A r \in Reqs : From[r] \notin To[r] /\ Srv[r] # None
  /\ Retry \in [Reqs -> Nat]
  /\ Patient \subseteq Reqs

VARIABLES
  pc,        \* new, drawn (number loaded), made, refused, listed, answered, expired
  sessn,     \* the number of a call
  retry,
  counter,   \* req_sessn of every node
  list,      \* req_list; the newest, which a search meets first, is the last
  session,   \* srv_session
  bus,       \* the packets on their way to each node, in order
  faults,
  ran,       \* history: how often a server ran a call
  result     \* history: the body its callback was given last

vars == <<pc, sessn, retry, counter, list, session, bus, faults, ran, result>>

Request(r) == [type |-> "req", srv |-> Srv[r], sessn |-> sessn[r], peer |-> From[r], body |-> r]
Response(s) == [type |-> "resp", srv |-> s.srv, sessn |-> s.sessn, peer |-> None, body |-> s.body]
NoSession == [srv |-> None, sessn |-> 0, body |-> None]

Init ==
  /\ pc = [r \in Reqs |-> "new"]
  /\ sessn = [r \in Reqs |-> 0]
  /\ retry = Retry
  /\ counter = [n \in Nodes |-> 0]
  /\ list = [n \in Nodes |-> <<>>]
  /\ session = [n \in Nodes |-> NoSession]
  /\ bus = [n \in Nodes |-> <<>>]
  /\ faults = 0
  /\ ran = [n \in Nodes |-> [r \in Reqs |-> 0]]
  /\ result = [r \in Reqs |-> None]

\* The packet reaches some of its addressees; pending is the bus without what was taken off.
Transmit(packet, addressees, pending) ==
  \E reached \in SUBSET addressees :
    /\ faults' = faults + Cardinality(addressees \ reached)
    /\ faults' <= MaxFault
    /\ bus' = [n \in Nodes |-> IF n \in reached THEN Append(pending[n], packet) ELSE pending[n]]

Refuse ==
  /\ faults < MaxFault
  /\ faults' = faults + 1

-----------------------------------------------------------------------------
(* The caller. *)

\* A thread creates and sends a call in one go.
UnderWay(r) == pc[r] \in {"drawn", "made"}
SysmFree(n) == \A r \in Reqs : From[r] = n /\ Thread[r] = "sysm" => ~UnderWay(r)

\* req_sessn++ is a load and a store.
LoadNumber(r) ==
  /\ pc[r] = "new"
  /\ \A q \in Earlier[r] : pc[q] # "new" /\ ~UnderWay(q)
  /\ sessn' = [sessn EXCEPT ![r] = counter[From[r]]]
  /\ pc' = [pc EXCEPT ![r] = "drawn"]
  /\ UNCHANGED <<retry, counter, list, session, bus, faults, ran, result>>

StoreNumber(r) ==
  /\ pc[r] = "drawn"
  /\ counter' = [counter EXCEPT ![From[r]] = sessn[r] + 1]
  /\ pc' = [pc EXCEPT ![r] = "made"]
  /\ UNCHANGED <<sessn, retry, list, session, bus, faults, ran, result>>

\* A send that fails leaves the request behind, without a callback.
SendRequest(r) ==
  /\ pc[r] = "made"
  /\ \/ /\ Transmit(Request(r), To[r], bus)
        /\ pc' = [pc EXCEPT ![r] = "listed"]
        /\ list' = [list EXCEPT ![From[r]] = Append(@, r)]
     \/ /\ Refuse
        /\ pc' = [pc EXCEPT ![r] = "refused"]
        /\ UNCHANGED <<list, bus>>
  /\ UNCHANGED <<sessn, retry, counter, session, ran, result>>

\* Mutant: the deleted request stays in the list, where an answer still finds it.
FinishListed(r, how) ==
  /\ pc' = [pc EXCEPT ![r] = how]
  /\ UNCHANGED list

\* The last callback of a request, which is then deleted.
Without(s, i) == [j \in 1..(Len(s) - 1) |-> IF j < i THEN s[j] ELSE s[j + 1]]

Finish(r, how) ==
  /\ pc' = [pc EXCEPT ![r] = how]
  /\ \E i \in 1..Len(list[From[r]]) :
       /\ list[From[r]][i] = r
       /\ list' = [list EXCEPT ![From[r]] = Without(@, i)]

Timeout(r) ==
  /\ pc[r] = "listed" /\ SysmFree(From[r])
  /\ \/ /\ retry[r] = 0
        /\ Finish(r, "expired")
        /\ UNCHANGED <<retry, bus, faults>>
     \/ /\ retry[r] > 0
        /\ retry' = [retry EXCEPT ![r] = @ - 1]
        /\ \/ /\ Transmit(Request(r), To[r], bus)
              /\ UNCHANGED <<pc, list>>
           \/ /\ Refuse
              /\ Finish(r, "expired")
              /\ UNCHANGED bus
  /\ UNCHANGED <<sessn, counter, session, ran, result>>

-----------------------------------------------------------------------------
(* rpc_proc_input *)

Taken(n) == [bus EXCEPT ![n] = Tail(@)]

\* Mutant: every request is run.
NeverRepeat(n, p) == FALSE

\* The packet repeats the call that is remembered.
IsRepeat(n, p) == session[n].srv = p.srv /\ session[n].sessn = p.sessn

RespondAgain(n, p) ==
  /\ IsRepeat(n, p)
  /\ Transmit(Response(session[n]), {p.peer}, Taken(n))
  /\ UNCHANGED <<session, ran>>

\* rpc_srv_search in what rpc_service_register has listed.
Registered(n, srv) == srv \in Serves[n]

\* Mutant: the length of the remembered answer is not reset before the service runs.
CallServiceStale(n, p) ==
  /\ ~IsRepeat(n, p)
  /\ Registered(n, p.srv)
  /\ ran' = [ran EXCEPT ![n][p.body] = @ + 1]
  /\ LET old == session[n].body
         body == IF old = None THEN p.body ELSE old
     IN session' = [session EXCEPT ![n] = [srv |-> p.srv, sessn |-> p.sessn, body |-> body]]
  /\ IF session[n].body # None
     THEN bus' = Taken(n) /\ UNCHANGED faults
     ELSE Transmit(Response(session'[n]), {p.peer}, Taken(n))

\* The service answers, with what belongs to the call it runs, or leaves the call unanswered.
CallService(n, p) ==
  /\ ~IsRepeat(n, p)
  /\ Registered(n, p.srv)
  /\ ran' = [ran EXCEPT ![n][p.body] = @ + 1]
  /\ \E body \in {p.body, None} :
       /\ session' = [session EXCEPT ![n] = [srv |-> p.srv, sessn |-> p.sessn, body |-> body]]
       /\ IF body = None
          THEN bus' = Taken(n) /\ UNCHANGED faults
          ELSE Transmit(Response(session'[n]), {p.peer}, Taken(n))

NoService(n, p) ==
  /\ ~IsRepeat(n, p)
  /\ ~Registered(n, p.srv)
  /\ session' = [session EXCEPT ![n] = [srv |-> p.srv, sessn |-> p.sessn, body |-> None]]
  /\ Transmit(Response(session'[n]), {p.peer}, Taken(n))
  /\ UNCHANGED ran

ServeRequest(n) ==
  /\ bus[n] # <<>> /\ SysmFree(n)
  /\ Head(bus[n]).type = "req"
  /\ \/ RespondAgain(n, Head(bus[n]))
     \/ CallService(n, Head(bus[n]))
     \/ NoService(n, Head(bus[n]))
  /\ UNCHANGED <<pc, sessn, retry, counter, list, result>>

\* Mutant: the number is not compared.
FitsService(n, p) == {i \in 1..Len(list[n]) : Srv[list[n][i]] = p.srv}

\* The requests of a node that a response fits, and the one that the search meets.
Fits(n, p) == {i \in 1..Len(list[n]) : Srv[list[n][i]] = p.srv /\ sessn[list[n][i]] = p.sessn}
Newest(places) == {i \in places : \A j \in places : j <= i}

\* A patient callback may keep its request for now.
CallBack(r, p) ==
  /\ result' = [result EXCEPT ![r] = p.body]
  /\ \/ Finish(r, "answered")
     \/ /\ r \in Patient
        /\ UNCHANGED <<pc, list>>

TakeResponse(n) ==
  /\ bus[n] # <<>> /\ SysmFree(n)
  /\ LET p == Head(bus[n]) IN
       /\ p.type = "resp"
       /\ bus' = Taken(n)
       /\ \/ \E i \in Newest(Fits(n, p)) : CallBack(list[n][i], p)
          \/ Fits(n, p) = {} /\ UNCHANGED <<pc, list, result>>
  /\ UNCHANGED <<sessn, retry, counter, session, faults, ran>>

Next ==
  \/ \E r \in Reqs : LoadNumber(r) \/ StoreNumber(r) \/ SendRequest(r) \/ Timeout(r)
  \/ \E n \in Nodes : ServeRequest(n) \/ TakeResponse(n)

Spec == Init /\ [][Next]_vars

\* A thread goes on with the call that it makes, the timers of sysm run out.
FairSpec == Spec /\ \A r \in Reqs : WF_vars(StoreNumber(r) \/ SendRequest(r)) /\ WF_vars(Timeout(r))

-----------------------------------------------------------------------------
(* Properties *)

\* Types of the variables.
Services == {Srv[r] : r \in Reqs} \cup {None}
Bodies   == Reqs \cup {None}
Packets  == [type : {"req", "resp"}, srv : Services, sessn : Nat, peer : Nodes \cup {None}, body : Bodies]

TypeOK ==
  /\ pc \in [Reqs -> {"new", "drawn", "made", "refused", "listed", "answered", "expired"}]
  /\ sessn \in [Reqs -> Nat] /\ retry \in [Reqs -> Nat] /\ counter \in [Nodes -> Nat]
  /\ list \in [Nodes -> Seq(Reqs)]
  /\ session \in [Nodes -> [srv : Services, sessn : Nat, body : Bodies]]
  /\ bus \in [Nodes -> Seq(Packets)]
  /\ faults \in 0..MaxFault
  /\ ran \in [Nodes -> [Reqs -> Nat]]
  /\ result \in [Reqs -> Bodies]

\* A call that was accepted is called back for the last time exactly once, with an
\* answer or when its repetitions are used up; one that was refused never is.
Status == [r \in Reqs |->
  IF pc[r] = "listed" THEN "waits"
  ELSE IF pc[r] \in {"answered", "expired"} THEN pc[r] ELSE "new"]
Promise == INSTANCE Calls WITH status <- Status
CalledBackOnce == Promise!Spec
CalledBack == Promise!FairSpec

Numbered(r) == pc[r] \notin {"new"}
SameCall(r, q) == Srv[r] = Srv[q] /\ sessn[r] = sessn[q] /\ Numbered(q)
Unshared(r) == \A q \in Reqs : SameCall(r, q) => q = r

\* A call whose service and number no other call bears (the counters of several
\* nodes and threads do not see to that) and which was answered was run by a node
\* it was addressed to, if they have the service, and its callback was given its own
\* answer or the empty one of a server that had not answered it the first time:
\* rpc_proc_input never answers with what it remembers of another call.
AnswerIsOwn ==
  \A r \in Reqs : Unshared(r) =>
    /\ result[r] \in {None, r}
    /\ pc[r] = "answered" => \E n \in To[r] : Srv[r] \in Serves[n] => ran[n][r] > 0

\* Whatever the numbers, an answer is the one to a call with the same service and
\* number, and that call was run before by a node it was addressed to.
AnswerHasCause ==
  \A r \in Reqs : pc[r] = "answered" =>
    \E q \in Reqs : \E n \in To[q] :
      /\ SameCall(r, q)
      /\ result[r] # None => SameCall(r, result[r]) /\ ran[n][result[r]] > 0

\* A server runs a call again only if it was sent another one: repetitions of the
\* remembered call are answered from memory, however often they come.
Sent(r) == pc[r] \in {"listed", "answered", "expired"}
RunAgainAfterAnother ==
  \A n \in Nodes, r \in Reqs :
    ran[n][r] > 1 => \E q \in Reqs : Sent(q) /\ n \in To[q] /\ ~SameCall(r, q)
=============================================================================
