----------------------------- MODULE SysResProofs -----------------------------
(***************************************************************************)
(* Proofs about the distribution of resources.                             *)
(***************************************************************************)
EXTENDS SysRes, WellFoundedInduction, FiniteSetTheorems, SequenceTheorems, TLAPS

\* A scan of an array stops at the least place that fits.
LEMMA LeastOfNaturals ==
  ASSUME NEW S, S \subseteq Nat, S # {}
  PROVE  Least(S) \in S /\ \A y \in S : Least(S) <= y
<1>1. PICK x \in S : \A y \in S : <<y, x>> \notin OpToRel(<, Nat)
  BY NatLessThanWellFounded, WFMin
<1>2. \A y \in S : x \in Nat /\ y \in Nat /\ ~(y < x)
  BY <1>1 DEF OpToRel
<1>3. \A y \in S : x <= y
  BY <1>2
<1>. QED
  BY <1>1, <1>3 DEF Least

-----------------------------------------------------------------------------
\* Queues and lists.

LEMMA Dequeued ==
  ASSUME NEW S, NEW s \in Seq(S), s # <<>>
  PROVE  /\ Tail(s) \in Seq(S)
         /\ Len(s) \in Nat /\ 1 \in 1..Len(s)
         /\ Head(s) \in S /\ Head(s) = s[1]
         /\ Len(Tail(s)) = Len(s) - 1
         /\ \A i \in 1..Len(Tail(s)) : i + 1 \in 1..Len(s) /\ Tail(s)[i] = s[i + 1]
         /\ \A i \in 1..Len(s) : i = 1 \/ (i - 1 \in 1..Len(Tail(s)) /\ Tail(s)[i - 1] = s[i])
<1>1. /\ Tail(s) \in Seq(S) /\ Len(Tail(s)) = Len(s) - 1 /\ Head(s) \in S
      /\ \A i \in 1..Len(Tail(s)) : Tail(s)[i] = s[i + 1]
  BY HeadTailProperties
<1>2. Len(s) \in Nat /\ Len(s) # 0
  BY EmptySeq, LenProperties
<1>3. Head(s) = s[1]
  BY SMT
<1>. QED
  BY <1>1, <1>2, <1>3, SMT

LEMMA Enqueued ==
  ASSUME NEW S, NEW s \in Seq(S), NEW e \in S
  PROVE  /\ Append(s, e) \in Seq(S)
         /\ Len(s) \in Nat /\ Len(Append(s, e)) = Len(s) + 1
         /\ \A i \in 1..Len(s) : i \in 1..Len(Append(s, e)) /\ Append(s, e)[i] = s[i]
         /\ \A i \in 1..Len(Append(s, e)) :
              (i \in 1..Len(s) /\ Append(s, e)[i] = s[i]) \/ (i = Len(s) + 1 /\ Append(s, e)[i] = e)
         /\ Len(s) + 1 \in 1..Len(Append(s, e)) /\ Append(s, e)[Len(s) + 1] = e
<1>1. /\ Append(s, e) \in Seq(S) /\ Len(Append(s, e)) = Len(s) + 1
      /\ \A i \in 1..Len(s) : Append(s, e)[i] = s[i]
      /\ Append(s, e)[Len(s) + 1] = e
  BY AppendProperties
<1>2. Len(s) \in Nat
  BY LenProperties
<1>. QED
  BY <1>1, <1>2, SMT

\* A finite set can be listed, every element once.
LEMMA InSomeOrderLists ==
  ASSUME NEW S, IsFiniteSet(S)
  PROVE  /\ Cardinality(S) \in Nat
         /\ InSomeOrder(S) \in [1..Cardinality(S) -> S]
         /\ \A i, j \in 1..Cardinality(S) : InSomeOrder(S)[i] = InSomeOrder(S)[j] => i = j
         /\ \A x \in S : \E i \in 1..Cardinality(S) : InSomeOrder(S)[i] = x
<1>. DEFINE C == 1..Cardinality(S)
            One(list) == \A i, j \in C : list[i] = list[j] => i = j
<1>1. Cardinality(S) \in Nat /\ ExistsBijection(C, S)
  BY FS_CardinalityType
<1>2. PICK f : f \in [C -> S] /\ One(f)
  <2>1. PICK f : f \in Bijection(C, S)
    BY <1>1 DEF ExistsBijection
  <2>2. f \in [C -> S] /\ IsInjective(f)
    BY <2>1 DEF Bijection, Injection
  <2>3. DOMAIN f = C
    BY <2>2
  <2>4. One(f)
    BY <2>2, <2>3, Zenon DEF IsInjective
  <2>. QED
    BY <2>2, <2>4
<1>3. InSomeOrder(S) \in [C -> S] /\ One(InSomeOrder(S))
  BY <1>2, Zenon DEF InSomeOrder
<1>4. \A x \in S : \E i \in C : InSomeOrder(S)[i] = x
  <2>. DEFINE g == InSomeOrder(S)
  <2>1. g \in Injection(C, S)
    BY <1>3, Zenon DEF Injection, IsInjective
  <2>2. IsFiniteSet(C) /\ Cardinality(C) = Cardinality(S)
    BY <1>1, FS_Interval, SMT
  <2>3. g \in Surjection(C, S)
    <3>. HIDE DEF g, C
    <3>. QED
      BY <2>1, <2>2, FS_Injection
  <2>. QED
    BY <2>3, Zenon DEF Surjection
<1>. QED
  BY <1>1, <1>3, <1>4

LEMMA ImageIsFinite ==
  ASSUME NEW S, IsFiniteSet(S), NEW f
  PROVE  IsFiniteSet({f[x] : x \in S})
<1>. DEFINE T == {f[x] : x \in S}
            g == [x \in S |-> f[x]]
<1>1. g \in Surjection(S, T)
  BY Zenon DEF Surjection
<1>. QED
  BY <1>1, FS_Surjection

LEMMA SendsIsFinite ==
  ASSUME NEW n \in Nodes \cup {0}
  PROVE  /\ Trs[n] \in Seq(Res) /\ Len(Trs[n]) \in Nat
         /\ \A i \in 1..Len(Trs[n]) : Trs[n][i] \in Res
         /\ Sends(n) \subseteq Res /\ IsFiniteSet(Sends(n))
<1>1. Trs[n] \in Seq(Res)
  BY SysResAssumption DEF SysResAssumption
<1>2. Len(Trs[n]) \in Nat /\ \A i \in 1..Len(Trs[n]) : Trs[n][i] \in Res
  BY <1>1, LenProperties, ElementOfSeq
<1>3. IsFiniteSet(1..Len(Trs[n]))
  BY <1>2, FS_Interval, SMT
<1>4. IsFiniteSet({Trs[n][i] : i \in 1..Len(Trs[n])})
  BY <1>3, ImageIsFinite
<1>. QED
  BY <1>1, <1>2, <1>4 DEF Sends

LEMMA CellsAreFinite ==
  ASSUME NEW rs, IsFiniteSet(rs), NEW where
  PROVE  IsFiniteSet(Cells(rs, where))
<1>. DEFINE f == [r \in rs |-> <<r, where[r]>>]
<1>1. IsFiniteSet({f[r] : r \in rs})
  <2>. HIDE DEF f
  <2>. QED
    BY ImageIsFinite
<1>2. {f[r] : r \in rs} = Cells(rs, where)
  BY DEF Cells
<1>. QED
  BY <1>1, <1>2

\* A message for every cell, and no other.
LEMMA LocalLists ==
  ASSUME NEW type, NEW cells, IsFiniteSet(cells)
  PROVE  /\ Local(type, cells) \in Seq([type : {type}, cell : cells])
         /\ Len(Local(type, cells)) \in Nat
         /\ \A i \in 1..Len(Local(type, cells)) :
              Local(type, cells)[i].type = type /\ Local(type, cells)[i].cell \in cells
         /\ \A c \in cells : \E i \in 1..Len(Local(type, cells)) :
              Local(type, cells)[i].type = type /\ Local(type, cells)[i].cell = c
<1>. DEFINE N == Cardinality(cells)
            o == InSomeOrder(cells)
            l == Local(type, cells)
<1>1. /\ N \in Nat /\ o \in [1..N -> cells]
      /\ \A x \in cells : \E i \in 1..N : o[i] = x
  BY InSomeOrderLists, Zenon
<1>2. l = [i \in 1..N |-> [type |-> type, cell |-> o[i]]]
  BY DEF Local
<1>. HIDE DEF o, N, l
<1>3. l \in [1..N -> [type : {type}, cell : cells]]
  BY <1>1, <1>2
<1>4. l \in Seq([type : {type}, cell : cells]) /\ Len(l) = N
  <2>1. l \in Seq([type : {type}, cell : cells])
    <3>. DEFINE M == [type : {type}, cell : cells]
    <3>0. l \in [1..N -> M]
      BY <1>3
    <3>1. l \in UNION {[1..n -> M] : n \in Nat}
      <4>. HIDE DEF M
      <4>. QED
        BY <1>1, <3>0, Zenon
    <3>. HIDE DEF M
    <3>2. l \in Seq(M)
      BY <3>1, SeqDef, Zenon
    <3>. QED
      BY <3>2 DEF M
  <2>2. DOMAIN l = 1..N /\ DOMAIN l = 1..Len(l) /\ Len(l) \in Nat
    BY <1>3, <2>1, LenProperties
  <2>. QED
    BY <1>1, <2>1, <2>2, SMT
<1>5. \A i \in 1..N : l[i].type = type /\ l[i].cell = o[i] /\ o[i] \in cells
  BY <1>1, <1>2
<1>6. /\ l \in Seq([type : {type}, cell : cells])
      /\ Len(l) \in Nat
      /\ \A i \in 1..Len(l) : l[i].type = type /\ l[i].cell \in cells
      /\ \A c \in cells : \E i \in 1..Len(l) : l[i].type = type /\ l[i].cell = c
  BY <1>1, <1>4, <1>5
<1>. QED
  BY <1>6 DEF l

LEMMA LocalNames ==
  ASSUME NEW type, NEW cells, IsFiniteSet(cells)
  PROVE  \A c \in cells : \E i \in 1..Len(Local(type, cells)) :
           Local(type, cells)[i].type = type /\ Local(type, cells)[i].cell = c
<1>. DEFINE list == Local(type, cells)
<1>1. /\ list \in Seq([type : {type}, cell : cells])
      /\ Len(list) \in Nat
      /\ \A i \in 1..Len(list) : list[i].type = type /\ list[i].cell \in cells
      /\ \A c \in cells : \E i \in 1..Len(list) : list[i].type = type /\ list[i].cell = c
  BY LocalLists
<1>. HIDE DEF list
<1>2. \A c \in cells : \E i \in 1..Len(list) : list[i].type = type /\ list[i].cell = c
  BY <1>1
<1>. QED
  BY <1>2 DEF list

-----------------------------------------------------------------------------
\* A number for a call that is not in use.

LEMMA SessnInUseIsFinite ==
  ASSUME TypeOK
  PROVE  IsFiniteSet(SessnInUse)
<1>. DEFINE A == {e.req.sessn : e \in req_list}
            X(n) == {calls[n][i].sessn : i \in 1..Len(calls[n])}
            B == {X(n) : n \in Nodes}
            C == {a.sessn : a \in answers}
            D == {tn[n].sessn : n \in Nodes}
            J == {j \in 1..Len(resmsg) : resmsg[j].type = "r"}
            E == {resmsg[i].req.sessn : i \in J}
<1>0. IsFiniteSet(Nodes)
  BY SysResAssumption DEF SysResAssumption
<1>1. IsFiniteSet(A)
  <2>. DEFINE f == [e \in req_list |-> e.req.sessn]
  <2>0. IsFiniteSet(req_list)
    BY DEF TypeOK
  <2>1. IsFiniteSet({f[e] : e \in req_list})
    <3>. HIDE DEF f
    <3>. QED
      BY <2>0, ImageIsFinite
  <2>2. {f[e] : e \in req_list} = A
    OBVIOUS
  <2>. QED
    BY <2>1, <2>2
<1>2. IsFiniteSet(UNION B)
  <2>1. IsFiniteSet(B)
    <3>. DEFINE f == [n \in Nodes |-> X(n)]
    <3>1. IsFiniteSet({f[n] : n \in Nodes})
      <4>. HIDE DEF f
      <4>. QED
        BY <1>0, ImageIsFinite
    <3>2. {f[n] : n \in Nodes} = B
      BY Zenon
    <3>. QED
      BY <3>1, <3>2
  <2>2. ASSUME NEW n \in Nodes PROVE IsFiniteSet(X(n))
    <3>. DEFINE q == calls[n]
                f == [i \in 1..Len(q) |-> q[i].sessn]
    <3>1. Len(q) \in Nat
      BY LenProperties DEF TypeOK
    <3>2. IsFiniteSet({f[i] : i \in 1..Len(q)})
      <4>. HIDE DEF f, q
      <4>1. IsFiniteSet(1..Len(q))
        BY <3>1, FS_Interval, SMT
      <4>. QED
        BY <4>1, ImageIsFinite
    <3>3. {f[i] : i \in 1..Len(q)} = X(n)
      BY Zenon
    <3>. QED
      BY <3>2, <3>3
  <2>3. \A T \in B : IsFiniteSet(T)
    <3>. HIDE DEF X
    <3>. QED
      BY <2>2
  <2>. HIDE DEF B
  <2>. QED
    BY <2>1, <2>3, FS_UNION
<1>3. IsFiniteSet(C)
  <2>. DEFINE f == [e \in answers |-> e.sessn]
  <2>0. IsFiniteSet(answers)
    BY DEF TypeOK
  <2>1. IsFiniteSet({f[e] : e \in answers})
    <3>. HIDE DEF f
    <3>. QED
      BY <2>0, ImageIsFinite
  <2>2. {f[e] : e \in answers} = C
    OBVIOUS
  <2>. QED
    BY <2>1, <2>2
<1>4. IsFiniteSet(D)
  <2>. DEFINE f == [n \in Nodes |-> tn[n].sessn]
  <2>1. IsFiniteSet({f[n] : n \in Nodes})
    <3>. HIDE DEF f
    <3>. QED
      BY <1>0, ImageIsFinite
  <2>2. {f[n] : n \in Nodes} = D
    OBVIOUS
  <2>. QED
    BY <2>1, <2>2
<1>5. IsFiniteSet(E)
  <2>1. IsFiniteSet(J)
    <3>1. Len(resmsg) \in Nat
      BY LenProperties DEF TypeOK
    <3>2. IsFiniteSet(1..Len(resmsg))
      BY <3>1, FS_Interval, SMT
    <3>3. J \in SUBSET (1..Len(resmsg))
      OBVIOUS
    <3>. HIDE DEF J
    <3>. QED
      BY <3>2, <3>3, FS_Subset
  <2>. DEFINE f == [i \in J |-> resmsg[i].req.sessn]
  <2>2. IsFiniteSet({f[i] : i \in J})
    <3>. HIDE DEF f, J
    <3>. QED
      BY <2>1, ImageIsFinite
  <2>3. {f[i] : i \in J} = E
    <3>. HIDE DEF J
    <3>. QED
      OBVIOUS
  <2>. QED
    BY <2>2, <2>3
<1>6. SessnInUse = A \cup (UNION B) \cup C \cup D \cup E
  BY Zenon DEF SessnInUse
<1>. DEFINE AB == A \cup (UNION B)
            ABC == AB \cup C
            ABCD == ABC \cup D
            ABCDE == ABCD \cup E
<1>. HIDE DEF A, B, C, D, E
<1>7. IsFiniteSet(AB)
  BY <1>1, <1>2, FS_Union
<1>8. IsFiniteSet(ABC)
  <2>. HIDE DEF AB
  <2>. QED
    BY <1>3, <1>7, FS_Union
<1>9. IsFiniteSet(ABCD)
  <2>. HIDE DEF ABC
  <2>. QED
    BY <1>4, <1>8, FS_Union
<1>10. IsFiniteSet(ABCDE)
  <2>. HIDE DEF ABCD
  <2>. QED
    BY <1>5, <1>9, FS_Union
<1>11. SessnInUse = ABCDE
  BY <1>6
<1>. HIDE DEF ABCDE
<1>. QED
  BY <1>10, <1>11

\* Whatever is in use, one of one number more is not.
LEMMA FreshIsNew ==
  ASSUME TypeOK
  PROVE  Fresh \in Nat \ {0} /\ Fresh \notin SessnInUse
<1>. DEFINE U == SessnInUse
            N == Cardinality(U) + 1
            F == {k \in 1..N : k \notin U}
<1>1. IsFiniteSet(U) /\ Cardinality(U) \in Nat
  BY SessnInUseIsFinite, FS_CardinalityType
<1>2. F # {}
  <2>. HIDE DEF U
  <2>1. SUFFICES ASSUME F = {} PROVE FALSE
    OBVIOUS
  <2>2. 1..N \in SUBSET U
    BY <2>1
  <2>3. Cardinality(1..N) <= Cardinality(U)
    BY <1>1, <2>2, FS_Subset
  <2>4. Cardinality(1..N) = N
    BY <1>1, FS_Interval, SMT
  <2>. QED
    BY <1>1, <2>3, <2>4, SMT
<1>3. F \subseteq Nat \ {0}
  <2>. HIDE DEF U
  <2>. QED
    BY <1>1, SMT
<1>4. Least(F) \in F
  <2>. HIDE DEF F
  <2>1. F \subseteq Nat
    BY <1>3
  <2>. QED
    BY <1>2, <2>1, LeastOfNaturals
<1>5. Fresh = Least(F)
  BY DEF Fresh
<1>. QED
  BY <1>3, <1>4, <1>5

-----------------------------------------------------------------------------
\* What resfrm_alloc grants: free places, a different one to each.

LEMMA Granted ==
  ASSUME NEW n \in Nodes \cup {0}, place \in [Res -> Places \cup {0}]
  PROVE  /\ Grant(n) \in [Res -> Places \cup {0}]
         /\ \A r \in Res : r \notin Sends(n) => Grant(n)[r] = place[r]
         /\ \A r \in Res : Grant(n)[r] = place[r] \/ Grant(n)[r] \in FreePlaces
         /\ \A r, s \in Res :
              Grant(n)[r] = Grant(n)[s] /\ Grant(n)[r] \in FreePlaces => r = s
         /\ \A i \in 1..Len(Trs[n]) :
              Grant(n)[Trs[n][i]] \in FreePlaces <=> i \in Placed(n)
<1>. DEFINE F == FreePlaces
            P == Placed(n)
            o == InSomeOrder(F)
            T == Trs[n]
            at(r) == CHOOSE i \in P : T[i] = r
            g == Grant(n)
<1>1. F \subseteq Places /\ IsFiniteSet(F) /\ 0 \notin F
  <2>1. IsFiniteSet(Places) /\ F \in SUBSET Places /\ 0 \notin Places
    BY SysResAssumption DEF SysResAssumption, FreePlaces
  <2>. QED
    BY <2>1, FS_Subset
<1>2. /\ Cardinality(F) \in Nat /\ o \in [1..Cardinality(F) -> F]
      /\ \A i, j \in 1..Cardinality(F) : o[i] = o[j] => i = j
  BY <1>1, InSomeOrderLists
<1>3. /\ Len(T) \in Nat /\ \A i \in 1..Len(T) : T[i] \in Res
      /\ \A i, j \in 1..Len(T) : T[i] = T[j] => i = j
  BY SendsIsFinite, SysResAssumption DEF SysResAssumption
<1>4. P = {i \in 1..Len(T) : i <= Cardinality(F)}
  BY DEF Placed
<1>5. P \subseteq 1..Len(T) /\ P \subseteq 1..Cardinality(F)
  <2>. HIDE DEF F, T, P
  <2>. QED
    BY <1>2, <1>3, <1>4, SMT
<1>6. \A r \in Res : place[r] \notin F
  BY DEF FreePlaces
<1>7. g = [r \in Res |-> IF \E i \in P : T[i] = r THEN o[at(r)] ELSE place[r]]
  BY DEF Grant
<1>8. \A r \in Res : (\E i \in P : T[i] = r) => at(r) \in P /\ T[at(r)] = r
  <2>. HIDE DEF P, T
  <2>. QED
    BY Zenon
<1>9. \A i \in P : at(T[i]) = i
  <2>. HIDE DEF P, T, at
  <2>. QED
    BY <1>3, <1>5, <1>8
<1>. HIDE DEF F, P, o, T, at, g
<1>10. ASSUME NEW r \in Res
       PROVE  /\ (\E i \in P : T[i] = r) => g[r] = o[at(r)] /\ g[r] \in F
              /\ ~(\E i \in P : T[i] = r) => g[r] = place[r] /\ g[r] \notin F
  BY <1>2, <1>5, <1>6, <1>7, <1>8
<1>11. g \in [Res -> Places \cup {0}]
  <2>1. \A r \in Res : g[r] \in Places \cup {0}
    BY <1>1, <1>10
  <2>. QED
    BY <1>7, <2>1
<1>12. \A r \in Res : r \notin Sends(n) => g[r] = place[r]
  BY <1>5, <1>10 DEF Sends, T
<1>13. \A r \in Res : g[r] = place[r] \/ g[r] \in F
  BY <1>10
<1>14. ASSUME NEW r \in Res, NEW s \in Res, g[r] = g[s], g[r] \in F
       PROVE  r = s
  <2>1. (\E i \in P : T[i] = r) /\ (\E i \in P : T[i] = s)
    BY <1>10, <1>14
  <2>2. o[at(r)] = o[at(s)] /\ at(r) \in P /\ at(s) \in P
    BY <1>8, <1>10, <1>14, <2>1
  <2>3. at(r) = at(s)
    BY <1>2, <1>5, <2>2
  <2>. QED
    BY <1>8, <2>1, <2>3
<1>15. ASSUME NEW i \in 1..Len(T)
       PROVE  g[T[i]] \in F <=> i \in P
  <2>1. T[i] \in Res
    BY <1>3
  <2>2. (\E j \in P : T[j] = T[i]) <=> i \in P
    BY <1>3, <1>5
  <2>. QED
    BY <1>10, <2>1, <2>2
<1>. QED
  BY <1>11, <1>12, <1>13, <1>14, <1>15 DEF F, P, T, g

-----------------------------------------------------------------------------
\* The pieces of the actions.

Scanning ==
  /\ scan.hit => scan.i \in 1..Len(ncn)
  /\ scan.i # 0 => cur # 0

TypeInv == TypeOK /\ Scanning

LEMMA Requested ==
  ASSUME TypeOK, NEW kind \in Kinds, NEW n \in Nodes, NEW cells \in SUBSET (Res \X Places)
  PROVE  /\ Request(kind, n, cells) \in Messages
         /\ Request(kind, n, cells).type = "r"
         /\ Request(kind, n, cells).req \in Requests
         /\ Request(kind, n, cells).req =
              [sessn |-> Fresh, kind |-> kind, node |-> n, cells |-> cells]
BY FreshIsNew DEF Request, Requests, Messages

LEMMA Transmitted ==
  ASSUME TypeOK, NEW q \in Requests, NEW late \in {0, 1}, Transmit(q, late)
  PROVE  /\ calls' \in [Nodes -> Seq(Requests)]
         /\ faults' \in Nat
         /\ \A n \in Nodes : \/ calls'[n] = calls[n]
                             \/ n \in Targets(q) /\ calls'[n] = Append(calls[n], q)
<1>1. PICK lost \in SUBSET Targets(q) :
        /\ calls' = [n \in Nodes |-> IF n \in Targets(q) \ lost THEN Append(calls[n], q)
                                     ELSE calls[n]]
        /\ faults' = faults + late + Cardinality(lost)
  BY DEF Transmit
<1>2. Cardinality(lost) \in Nat
  <2>1. IsFiniteSet(Nodes) /\ lost \in SUBSET Nodes
    BY SysResAssumption DEF SysResAssumption, Targets
  <2>. QED
    BY <2>1, FS_Subset, FS_CardinalityType
<1>3. faults' \in Nat
  BY <1>1, <1>2, SMT DEF TypeOK
<1>4. calls' \in [Nodes -> Seq(Requests)]
  BY <1>1, AppendProperties DEF TypeOK
<1>. QED
  BY <1>1, <1>3, <1>4

LEMMA AwaitingIsFinite ==
  ASSUME NEW answ, IsFiniteSet(answ), NEW reqs
  PROVE  Awaiting(answ, reqs) \subseteq answ /\ IsFiniteSet(Awaiting(answ, reqs))
<1>1. Awaiting(answ, reqs) \in SUBSET answ
  BY DEF Awaiting
<1>. QED
  BY <1>1, FS_Subset

LEMMA Replied ==
  ASSUME TypeOK, NEW n \in Nodes, NEW q \in Requests, NEW tlen \in {0, 1}, Reply(n, q, tlen)
  PROVE  /\ answers' \subseteq Answers /\ IsFiniteSet(answers')
         /\ faults' \in Nat
         /\ \A a \in answers' :
              \/ a \in answers
              \/ /\ a = [sessn |-> q.sessn, kind |-> q.kind, from |-> n, tlen |-> tlen]
                 /\ \E e \in req_list : e.req.sessn = a.sessn
<1>. DEFINE a0 == [sessn |-> q.sessn, kind |-> q.kind, from |-> n, tlen |-> tlen]
<1>1. a0 \in Answers
  BY DEF Requests, Answers
<1>2. IsFiniteSet(answers) /\ answers \subseteq Answers /\ faults \in Nat
  BY DEF TypeOK
<1>3. CASE answers' = Awaiting(answers \cup {a0}, req_list) /\ UNCHANGED faults
  <2>. HIDE DEF a0
  <2>1. IsFiniteSet(answers \cup {a0})
    BY <1>2, FS_AddElement
  <2>2. answers' \subseteq answers \cup {a0} /\ IsFiniteSet(answers')
    BY <1>3, <2>1, AwaitingIsFinite
  <2>3. \A a \in answers' : \E e \in req_list : e.req.sessn = a.sessn
    BY <1>3 DEF Awaiting
  <2>. QED
    BY <1>1, <1>2, <1>3, <2>2, <2>3 DEF a0
<1>4. CASE faults' = faults + 1 /\ UNCHANGED answers
  BY <1>2, <1>4
<1>. QED
  BY <1>3, <1>4 DEF Reply

LEMMA StateAfterIsAState ==
  ASSUME NEW kind, NEW acks, NEW failed, NEW old \in NodeStates
  PROVE  StateAfter(kind, acks, failed, old) \in NodeStates
BY DEF StateAfter, Finish, NodeStates

LEMMA ConfiguredTyped ==
  ASSUME TypeOK, NEW n \in Nodes, NEW q \in Requests
  PROVE  /\ Configured(n, q) \in
              [state : {"CFG"}, sessn : {q.sessn}, tlen : {1},
               trs : SUBSET (Res \X Places), rcv : SUBSET (Res \X Places)]
         /\ Configured(n, q).trs =
              IF q.node = n /\ q.kind = "trs" THEN tn[n].trs \cup Mine(n, q.cells)
              ELSE IF q.node = n /\ q.kind = "del" THEN tn[n].trs \ Mine(n, q.cells)
              ELSE tn[n].trs
         /\ Configured(n, q).rcv =
              IF q.kind = "rcv" THEN tn[n].rcv \cup q.cells
              ELSE IF q.node # n /\ q.kind = "trs" THEN tn[n].rcv \cup Heard(n, q.cells)
              ELSE IF q.node # n /\ q.kind = "del"
              THEN {c \in tn[n].rcv : c[2] \notin At(Heard(n, q.cells))}
              ELSE tn[n].rcv
<1>1. /\ tn[n] \in Tables
      /\ q.kind \in Kinds /\ q.cells \subseteq Res \X Places
  BY DEF TypeOK, Requests, Tables
<1>2. Mine(n, q.cells) \subseteq Res \X Places /\ Heard(n, q.cells) \subseteq Res \X Places
  BY <1>1 DEF Mine, Heard
<1>. DEFINE H == Heard(n, q.cells)
            M == Mine(n, q.cells)
<1>3. {c \in tn[n].rcv : c[2] \notin At(H)} \subseteq Res \X Places
  BY <1>1 DEF Tables
<1>. HIDE DEF H, M
<1>. QED
  BY <1>1, <1>2, <1>3 DEF Configured, Kinds, Tables, H, M

LEMMA LocalTyped ==
  ASSUME TypeOK, NEW type \in {"ADD_RCV_FIXS", "DEL_RCV_FIXS"},
         NEW cells \in SUBSET (Res \X Places), IsFiniteSet(cells), resmsg = <<>>
  PROVE  /\ resmsg \o Local(type, cells) = Local(type, cells)
         /\ Local(type, cells) \in Seq(Messages)
<1>. DEFINE l == Local(type, cells)
            M == [type : {type}, cell : cells]
<1>1. l \in Seq(M)
  BY LocalLists
<1>2. M \subseteq Messages
  BY DEF Messages
<1>3. l \in Seq(Messages)
  <2>. HIDE DEF l, M
  <2>. QED
    BY <1>1, <1>2, SeqMonotonic
<1>4. <<>> \o l = l
  <2>. HIDE DEF l
  <2>. QED
    BY <1>3, ConcatEmptySeq
<1>. QED
  BY <1>3, <1>4

\* The cells of the active resources among some that a node sends.
LEMMA CellsTyped ==
  ASSUME NEW n \in Nodes \cup {0}, NEW rs \in SUBSET Sends(n),
         NEW where \in [Res -> Places \cup {0}], \A r \in rs : where[r] # 0
  PROVE  Cells(rs, where) \in SUBSET (Res \X Places) /\ IsFiniteSet(Cells(rs, where))
<1>1. IsFiniteSet(rs) /\ rs \subseteq Res
  BY SendsIsFinite, FS_Subset
<1>2. Cells(rs, where) \in SUBSET (Res \X Places)
  BY <1>1 DEF Cells
<1>. QED
  BY <1>1, <1>2, CellsAreFinite

LEMMA AllGranted ==
  ASSUME NEW n \in Nodes \cup {0}, place \in [Res -> Places \cup {0}],
         Placed(n) = DOMAIN Trs[n]
  PROVE  \A r \in Sends(n) : Grant(n)[r] \in FreePlaces /\ Grant(n)[r] # 0
<1>1. DOMAIN Trs[n] = 1..Len(Trs[n])
  BY SendsIsFinite, LenProperties
<1>2. \A i \in 1..Len(Trs[n]) : Grant(n)[Trs[n][i]] \in FreePlaces
  BY <1>1, Granted
<1>3. 0 \notin FreePlaces
  BY SysResAssumption DEF SysResAssumption, FreePlaces
<1>. QED
  BY <1>2, <1>3 DEF Sends

-----------------------------------------------------------------------------
\* Every step keeps the types.

LEMMA StateTyped ==
  ASSUME TypeOK, NEW n \in Nodes, NEW s \in NodeStates, NodeState(n, s)
  PROVE  pnd' \in [Nodes -> Entries]
BY DEF TypeOK, NodeState, Entries

LEMMA ScanStepped ==
  ASSUME NEW s \in Scans
  PROVE  /\ [s EXCEPT !.hit = TRUE] \in Scans
         /\ [s EXCEPT !.i = @ + 1] \in Scans
         /\ [s EXCEPT !.i = @ + 1, !.hit = FALSE] \in Scans
<1>1. s.i \in Nat /\ s.hit \in BOOLEAN /\ s.cells \in SUBSET (Res \X Places)
      /\ s = [i |-> s.i, hit |-> s.hit, cells |-> s.cells]
  BY DEF Scans
<1>. DEFINE k == s.i + 1
<1>2. k \in Nat
  BY <1>1
<1>. HIDE DEF k
<1>3. [s EXCEPT !.hit = TRUE] \in Scans
  BY <1>1 DEF Scans
<1>4. [s EXCEPT !.i = k] \in Scans
  BY <1>1, <1>2 DEF Scans
<1>5. [s EXCEPT !.i = k, !.hit = FALSE] \in Scans
  BY <1>1, <1>2 DEF Scans
<1>. QED
  BY <1>3, <1>4, <1>5 DEF k

LEMMA TypeResm ==
  ASSUME TypeInv, Resm
  PROVE  TypeInv'
<1>0. TypeOK /\ Scanning /\ resmsg = <<>>
  BY DEF TypeInv, Resm
<1>a. {"DOWNLOAD_RES_ID", "DEL_RES", "WAIT_ACK", "ADD_TRS_RES", "ADD_FINISH", "DEL_FINISH"}
        \subseteq NodeStates
  BY DEF NodeStates
<1>b. 0 \notin Nodes
  BY SysResAssumption DEF SysResAssumption
<1>1. CASE AddCn
  <2>1. place' \in [Res -> Places \cup {0}]
    BY <1>0, <1>1, Granted DEF AddCn, TypeOK
  <2>. QED
    BY <1>0, <1>1, <2>1 DEF AddCn, TypeInv, TypeOK, Scanning, bounds
<1>2. ASSUME NEW n \in Nodes, PickOnline(n) \/ PickOffline(n) PROVE TypeInv'
  <2>1. pnd' \in [Nodes -> Entries]
    <3>1. CASE PickOnline(n)
      BY <1>0, <1>a, <3>1 DEF PickOnline, TypeOK, Entries
    <3>2. CASE PickOffline(n)
      BY <1>0, <1>a, <3>2 DEF PickOffline, TypeOK, Entries
    <3>. QED
      BY <1>2, <3>1, <3>2
  <2>. QED
    BY <1>0, <1>b, <1>2, <2>1 DEF PickOnline, PickOffline, TypeInv, TypeOK, Scanning, bounds
<1>3. CASE PushCommit
  <2>1. [type |-> "COMMIT_FIXS"] \in Messages
    BY DEF Messages
  <2>2. resmsg' \in Seq(Messages)
    BY <1>0, <1>3, <2>1, AppendProperties DEF PushCommit, TypeOK
  <2>. QED
    BY <1>0, <1>3, <2>2 DEF PushCommit, TypeInv, TypeOK, Scanning, bounds
<1>4. CASE DownloadResId
  <2>1. cur \in Nodes
    BY <1>0, <1>4 DEF DownloadResId, Serving, TypeOK
  <2>2. Request("id", cur, {}) \in Messages
    BY <1>0, <2>1, Requested DEF Kinds
  <2>3. resmsg' \in Seq(Messages)
    BY <1>0, <1>4, <2>2, AppendProperties DEF DownloadResId, TypeOK
  <2>4. pnd' \in [Nodes -> Entries]
    BY <1>0, <1>a, <1>4, <2>1, StateTyped DEF DownloadResId
  <2>. QED
    BY <1>0, <1>4, <2>3, <2>4 DEF DownloadResId, TypeInv, TypeOK, Scanning, bounds
<1>5. CASE AddRcvRes
  <2>1. cur \in Nodes
    BY <1>0, <1>5 DEF AddRcvRes, Serving, TypeOK
  <2>2. Cells(Rcv[cur] \cap Active, place) \in SUBSET (Res \X Places)
    BY <1>0 DEF Cells, Active, TypeOK
  <2>3. Request("rcv", cur, Cells(Rcv[cur] \cap Active, place)) \in Messages
    BY <1>0, <2>1, <2>2, Requested DEF Kinds
  <2>4. resmsg' \in Seq(Messages)
    <3>1. \/ UNCHANGED resmsg
          \/ resmsg' = Append(resmsg, Request("rcv", cur, Cells(Rcv[cur] \cap Active, place)))
      BY <1>5 DEF AddRcvRes
    <3>. QED
      <4>. DEFINE m == Request("rcv", cur, Cells(Rcv[cur] \cap Active, place))
      <4>1. resmsg \in Seq(Messages) /\ m \in Messages
        BY <1>0, <2>3 DEF TypeOK
      <4>2. UNCHANGED resmsg \/ resmsg' = Append(resmsg, m)
        BY <3>1
      <4>. HIDE DEF m
      <4>. QED
        BY <4>1, <4>2, AppendProperties
  <2>5. pnd' \in [Nodes -> Entries]
    BY <1>0, <1>a, <1>5, <2>1, StateTyped DEF AddRcvRes
  <2>. QED
    BY <1>0, <1>5, <2>4, <2>5 DEF AddRcvRes, TypeInv, TypeOK, Scanning, bounds
<1>6. CASE AddTrsRes
  <2>1. cur \in Nodes
    BY <1>0, <1>6 DEF AddTrsRes, Serving, TypeOK
  <2>2. place' = Grant(cur) /\ place' \in [Res -> Places \cup {0}]
    BY <1>0, <1>6, <2>1, Granted DEF AddTrsRes, TypeOK
  <2>3. pnd' \in [Nodes -> Entries]
    BY <1>0, <1>a, <1>6, <2>1, StateTyped DEF AddTrsRes
  <2>4. CASE UNCHANGED <<ack_flag, scan, resmsg>>
    BY <1>0, <1>6, <2>1, <2>2, <2>3, <2>4 DEF AddTrsRes, TypeInv, TypeOK, Scanning, bounds
  <2>5. CASE /\ Placed(cur) = DOMAIN Trs[cur]
             /\ resmsg' = resmsg \o Local("ADD_RCV_FIXS", Cells(Sends(cur) \cap Rcv[0], place'))
             /\ ack_flag' = {}
             /\ scan' = [i |-> 1, hit |-> FALSE, cells |-> Cells(Sends(cur), place')]
    <3>1. \A r \in Sends(cur) : place'[r] # 0
      BY <1>0, <2>1, <2>2, <2>5, AllGranted DEF TypeOK
    <3>2. Cells(Sends(cur), place') \in SUBSET (Res \X Places)
      BY <2>1, <2>2, <3>1, CellsTyped
    <3>3. /\ Cells(Sends(cur) \cap Rcv[0], place') \in SUBSET (Res \X Places)
          /\ IsFiniteSet(Cells(Sends(cur) \cap Rcv[0], place'))
      BY <2>1, <2>2, <3>1, CellsTyped
    <3>4. resmsg' \in Seq(Messages)
      BY <1>0, <2>5, <3>3, LocalTyped
    <3>5. scan' \in Scans /\ scan'.hit = FALSE
      BY <2>5, <3>2 DEF Scans
    <3>. QED
      BY <1>0, <1>b, <1>6, <2>1, <2>2, <2>3, <2>5, <3>4, <3>5
         DEF AddTrsRes, TypeInv, TypeOK, Scanning, bounds
  <2>. QED
    BY <1>6, <2>4, <2>5 DEF AddTrsRes
<1>7. CASE DeleteNode
  <2>. DEFINE gone == Sends(cur) \cap Active
  <2>1. cur \in Nodes
    BY <1>0, <1>7 DEF DeleteNode, Serving, TypeOK
  <2>2. pnd' \in [Nodes -> Entries]
    BY <1>0, <1>a, <1>7, <2>1, StateTyped DEF DeleteNode
  <2>3. CASE UNCHANGED <<place, ack_flag, scan, resmsg>>
    BY <1>0, <1>7, <2>1, <2>2, <2>3 DEF DeleteNode, TypeInv, TypeOK, Scanning, bounds
  <2>4. CASE /\ place' = [r \in Res |-> IF r \in Sends(cur) THEN 0 ELSE place[r]]
             /\ resmsg' = resmsg \o Local("DEL_RCV_FIXS", Cells(gone \cap Rcv[0], place))
             /\ ack_flag' = {}
             /\ scan' = [i |-> 1, hit |-> FALSE, cells |-> Cells(gone, place)]
    <3>1. \A r \in gone : place[r] # 0
      BY DEF Active
    <3>2. Cells(gone, place) \in SUBSET (Res \X Places)
      BY <1>0, <2>1, <3>1, CellsTyped DEF TypeOK
    <3>3. /\ Cells(gone \cap Rcv[0], place) \in SUBSET (Res \X Places)
          /\ IsFiniteSet(Cells(gone \cap Rcv[0], place))
      BY <1>0, <2>1, <3>1, CellsTyped DEF TypeOK
    <3>4. resmsg' \in Seq(Messages)
      BY <1>0, <2>4, <3>3, LocalTyped
    <3>5. scan' \in Scans /\ scan'.hit = FALSE
      BY <2>4, <3>2 DEF Scans
    <3>6. place' \in [Res -> Places \cup {0}]
      BY <1>0, <2>4 DEF TypeOK
    <3>. QED
      BY <1>0, <1>b, <1>7, <2>1, <2>2, <2>4, <3>4, <3>5, <3>6
         DEF DeleteNode, TypeInv, TypeOK, Scanning, bounds
  <2>. QED
    BY <1>7, <2>3, <2>4 DEF DeleteNode
<1>8. CASE ScanTest
  <2>0. scan \in Scans /\ ncn \in Seq(Nodes) /\ Len(ncn) \in Nat
    BY <1>0, LenProperties DEF TypeOK
  <2>1. scan' \in Scans
    <3>1. \/ scan' = [scan EXCEPT !.hit = TRUE]
          \/ scan' = [scan EXCEPT !.i = @ + 1]
      BY <1>8 DEF ScanTest
    <3>. QED
      BY <2>0, <3>1, ScanStepped
  <2>2. (scan'.hit => scan'.i \in 1..Len(ncn)) /\ scan.i # 0
    BY <1>8, <2>0 DEF ScanTest, Scans
  <2>. QED
    BY <1>0, <1>8, <2>1, <2>2 DEF ScanTest, TypeInv, TypeOK, Scanning, bounds
<1>9. CASE ScanSet
  <2>0. scan \in Scans /\ ncn \in Seq(Nodes) /\ Len(ncn) \in Nat
    BY <1>0, LenProperties DEF TypeOK
  <2>1. scan' \in Scans /\ scan'.hit = FALSE
    <3>1. scan' = [scan EXCEPT !.i = @ + 1, !.hit = FALSE]
      BY <1>9 DEF ScanSet
    <3>2. scan'.hit = FALSE
      BY <2>0, <3>1 DEF Scans
    <3>. QED
      BY <2>0, <3>1, <3>2, ScanStepped
  <2>2. ncn[scan.i] \in Nodes /\ scan.i # 0
    BY <1>0, <1>9, <2>0, ElementOfSeq DEF ScanSet, Scanning
  <2>. QED
    BY <1>0, <1>9, <2>1, <2>2 DEF ScanSet, TypeInv, TypeOK, Scanning, bounds
<1>10. CASE ScanEnd
  <2>0. scan \in Scans /\ ncn \in Seq(Nodes) /\ Len(ncn) \in Nat
    BY <1>0, LenProperties DEF TypeOK
  <2>1. scan' \in Scans /\ scan'.hit = FALSE /\ scan'.i = 0
    BY <1>10 DEF ScanEnd, NoScan, Scans
  <2>2. cur \in Nodes /\ scan.cells \in SUBSET (Res \X Places)
    BY <1>0, <1>10, <2>0, SMT DEF ScanEnd, Scanning, Scans, TypeOK
  <2>3. CASE NodeState(cur, "DEL_FINISH") /\ UNCHANGED resmsg
    <3>1. pnd' \in [Nodes -> Entries]
      BY <1>0, <1>a, <2>2, <2>3, StateTyped
    <3>. QED
      BY <1>0, <1>10, <2>1, <2>3, <3>1 DEF ScanEnd, TypeInv, TypeOK, Scanning, bounds
  <2>4. CASE /\ resmsg' = Append(resmsg, Request(IF state = "ONLINE" THEN "trs" ELSE "del",
                                                 cur, scan.cells))
             /\ UNCHANGED pnd
    <3>1. resmsg' \in Seq(Messages)
      <4>1. Request(IF state = "ONLINE" THEN "trs" ELSE "del", cur, scan.cells) \in Messages
        BY <1>0, <2>2, Requested DEF Kinds
      <4>. QED
        BY <1>0, <2>4, <4>1, AppendProperties DEF TypeOK
    <3>. QED
      BY <1>0, <1>10, <2>1, <2>4, <3>1 DEF ScanEnd, TypeInv, TypeOK, Scanning, bounds
  <2>. QED
    BY <1>10, <2>3, <2>4 DEF ScanEnd
<1>11. CASE EndServe
  <2>1. scan.i = 0 /\ scan.hit = FALSE
    BY <1>11 DEF EndServe, Serving, NoScan
  <2>. QED
    BY <1>0, <1>11, <2>1 DEF EndServe, TypeInv, TypeOK, Scanning, bounds
<1>. QED
  BY <1>1, <1>2, <1>3, <1>4, <1>5, <1>6, <1>7, <1>8, <1>9, <1>10, <1>11 DEF Resm

LEMMA TypeBus ==
  ASSUME TypeInv, NEW n \in Nodes, Join(n) \/ Leave(n) \/ Serve(n)
  PROVE  TypeInv'
<1>0. /\ TypeOK /\ Scanning
      /\ tn \in [Nodes -> Tables] /\ calls \in [Nodes -> Seq(Requests)]
      /\ rpt \in Seq(Reports)
  BY DEF TypeInv, TypeOK
<1>a. Off \in Tables /\ [Off EXCEPT !.state = "ONLINE"] \in Tables
  BY DEF Off, Tables
<1>b. /\ [type |-> "NWNODE", nodeid |-> n] \in Reports
      /\ [type |-> "LSNODE", nodeid |-> n] \in Reports
  BY DEF Reports
<1>1. CASE Join(n)
  <2>1. tn' \in [Nodes -> Tables]
    BY <1>0, <1>1, <1>a DEF Join
  <2>2. rpt' \in Seq(Reports)
    BY <1>0, <1>1, <1>b, AppendProperties DEF Join
  <2>3. joins' \in [Nodes -> Nat]
    BY <1>0, <1>1 DEF Join, TypeOK
  <2>. QED
    BY <1>0, <1>1, <2>1, <2>2, <2>3 DEF Join, TypeInv, TypeOK, Scanning
<1>2. CASE Leave(n)
  <2>1. tn' \in [Nodes -> Tables]
    BY <1>0, <1>2, <1>a DEF Leave
  <2>2. rpt' \in Seq(Reports)
    BY <1>0, <1>2, <1>b, AppendProperties DEF Leave
  <2>3. calls' \in [Nodes -> Seq(Requests)]
    <3>1. <<>> \in Seq(Requests)
      BY EmptySeq
    <3>. QED
      BY <1>0, <1>2, <3>1 DEF Leave
  <2>. QED
    BY <1>0, <1>2, <2>1, <2>2, <2>3 DEF Leave, TypeInv, TypeOK, Scanning, bounds
<1>3. CASE Serve(n)
  <2>. DEFINE q == Head(calls[n])
              again   == tn[n].sessn = q.sessn
              ignored == q.kind # "id" /\ tn[n].state # "CFG"
  <2>1. /\ calls[n] # <<>> /\ calls' = [calls EXCEPT ![n] = Tail(@)]
        /\ \/ again /\ UNCHANGED tn /\ Reply(n, q, tn[n].tlen)
           \/ /\ ~again /\ ignored
              /\ tn' = [tn EXCEPT ![n].sessn = q.sessn, ![n].tlen = 0]
              /\ UNCHANGED <<answers, faults>>
           \/ /\ ~again /\ ~ignored
              /\ tn' = [tn EXCEPT ![n] = Configured(n, q)]
              /\ Reply(n, q, 1)
    BY <1>3 DEF Serve
  <2>2. q \in Requests /\ Tail(calls[n]) \in Seq(Requests)
    BY <1>0, <2>1, HeadTailProperties
  <2>. HIDE DEF q
  <2>3. tn[n] \in Tables /\ tn[n].tlen \in {0, 1} /\ q.sessn \in Nat
    BY <1>0, <2>2 DEF Tables, Requests
  <2>4. tn' \in [Nodes -> Tables]
    <3>1. Configured(n, q) \in Tables
      <4>. DEFINE t == Configured(n, q)
      <4>1. t \in [state : {"CFG"}, sessn : {q.sessn}, tlen : {1},
                   trs : SUBSET (Res \X Places), rcv : SUBSET (Res \X Places)]
        BY <1>0, <2>2, ConfiguredTyped
      <4>2. t \in Tables
        <5>. HIDE DEF t
        <5>. QED
          BY <2>3, <4>1 DEF Tables
      <4>. QED
        BY <4>2
    <3>2. [tn[n] EXCEPT !.sessn = q.sessn, !.tlen = 0] \in Tables
      BY <2>3 DEF Tables
    <3>3. CASE UNCHANGED tn
      BY <1>0, <3>3
    <3>4. CASE tn' = [tn EXCEPT ![n] = Configured(n, q)]
      BY <1>0, <3>1, <3>4
    <3>5. CASE tn' = [tn EXCEPT ![n].sessn = q.sessn, ![n].tlen = 0]
      BY <1>0, <3>2, <3>5
    <3>. QED
      BY <2>1, <3>3, <3>4, <3>5
  <2>5. answers' \subseteq Answers /\ IsFiniteSet(answers') /\ faults' \in Nat
    <3>1. CASE \E tlen \in {0, 1} : Reply(n, q, tlen)
      BY <1>0, <2>2, <3>1, Replied
    <3>2. CASE UNCHANGED <<answers, faults>>
      BY <1>0, <3>2 DEF TypeOK
    <3>. QED
      BY <2>1, <2>3, <3>1, <3>2
  <2>6. calls' \in [Nodes -> Seq(Requests)]
    BY <1>0, <2>1, <2>2
  <2>. QED
    BY <1>0, <1>3, <2>4, <2>5, <2>6 DEF Serve, TypeInv, TypeOK, Scanning, cnvars
<1>. QED
  BY <1>1, <1>2, <1>3

LEMMA TypeSysm ==
  ASSUME TypeInv, Sysm
  PROVE  TypeInv'
<1>0. /\ TypeOK /\ Scanning
      /\ rpt \in Seq(Reports) /\ ncn \in Seq(Nodes) /\ Len(ncn) \in Nat
      /\ resmsg \in Seq(Messages)
      /\ pnd \in [Nodes -> Entries]
      /\ req_list \subseteq [req : Requests, retry : 0..Retry] /\ IsFiniteSet(req_list)
      /\ answers \subseteq Answers /\ IsFiniteSet(answers)
  BY LenProperties DEF TypeInv, TypeOK
<1>1. ASSUME NewTn \/ DeleteTn PROVE TypeInv'
  <2>. DEFINE n == Head(rpt).nodeid
  <2>1. n \in Nodes /\ Tail(rpt) \in Seq(Reports)
    <3>1. rpt # <<>>
      BY <1>1 DEF NewTn, DeleteTn
    <3>2. Head(rpt) \in Reports /\ Tail(rpt) \in Seq(Reports)
      BY <1>0, <3>1, HeadTailProperties
    <3>. QED
      BY <3>2 DEF Reports
  <2>2. pnd' \in [Nodes -> Entries]
    <3>. HIDE DEF n
    <3>1. pnd[n] \in Entries
      BY <1>0, <2>1
    <3>2. CASE pnd' = [pnd EXCEPT ![n].offline = TRUE]
      BY <1>0, <2>1, <3>1, <3>2 DEF Entries
    <3>3. CASE pnd' = [pnd EXCEPT ![n].online = TRUE,
                                  ![n].state = IF @ = "DEL_FINISH" THEN "INIT" ELSE @]
      BY <1>0, <2>1, <3>1, <3>3 DEF Entries, NodeStates
    <3>. QED
      BY <1>1, <3>2, <3>3 DEF NewTn, DeleteTn, n
  <2>3. ncn' \in Seq(Nodes) /\ (scan.hit => scan.i \in 1..Len(ncn'))
    <3>1. UNCHANGED ncn \/ ncn' = Append(ncn, n)
      BY <1>1 DEF NewTn, DeleteTn
    <3>2. /\ Append(ncn, n) \in Seq(Nodes)
          /\ \A i \in 1..Len(ncn) : i \in 1..Len(Append(ncn, n))
      <4>. HIDE DEF n
      <4>. QED
        BY <1>0, <2>1, Enqueued
    <3>. QED
      BY <1>0, <3>1, <3>2 DEF Scanning
  <2>. QED
    BY <1>0, <1>1, <2>1, <2>2, <2>3 DEF NewTn, DeleteTn, TypeInv, TypeOK, Scanning, bounds
<1>2. CASE ResmsgProc
  <2>. DEFINE m == Head(resmsg)
  <2>1. m \in Messages /\ Tail(resmsg) \in Seq(Messages)
    BY <1>0, <1>2, HeadTailProperties DEF ResmsgProc
  <2>2. CASE /\ m.type = "r"
             /\ req_list' = req_list \cup {[req |-> m.req, retry |-> Retry]}
             /\ Transmit(m.req, 0)
             /\ UNCHANGED cnrcv
    <3>. DEFINE e == [req |-> m.req, retry |-> Retry]
    <3>1. m.req \in Requests
      BY <2>1, <2>2 DEF Messages
    <3>2. e \in [req : Requests, retry : 0..Retry]
      BY <3>1, SysResAssumption DEF SysResAssumption
    <3>3. /\ req_list' \subseteq [req : Requests, retry : 0..Retry]
          /\ IsFiniteSet(req_list')
      <4>. HIDE DEF e
      <4>1. req_list' = req_list \cup {e}
        BY <2>2 DEF e
      <4>. QED
        BY <1>0, <3>2, <4>1, FS_AddElement
    <3>4. calls' \in [Nodes -> Seq(Requests)] /\ faults' \in Nat
      BY <1>0, <2>2, <3>1, Transmitted
    <3>. QED
      BY <1>0, <1>2, <2>1, <2>2, <3>3, <3>4 DEF ResmsgProc, TypeInv, TypeOK, Scanning
  <2>3. CASE /\ m.type \in {"ADD_RCV_FIXS", "DEL_RCV_FIXS", "COMMIT_FIXS"}
             /\ cnrcv' \subseteq Res \X Places
             /\ UNCHANGED <<req_list, calls, faults>>
    BY <1>0, <1>2, <2>1, <2>3 DEF ResmsgProc, TypeInv, TypeOK, Scanning
  <2>4. /\ m.type = "ADD_RCV_FIXS" => m.cell \in Res \X Places
        /\ cnrcv \subseteq Res \X Places
    BY <1>0, <2>1 DEF Messages, TypeOK
  <2>. QED
    BY <1>2, <2>2, <2>3, <2>4 DEF ResmsgProc
<1>3. ASSUME NEW e \in req_list, Timeout(e) PROVE TypeInv'
  <2>1. e.req \in Requests /\ e.retry \in 0..Retry /\ e.req.node \in Nodes
    BY <1>0 DEF Requests
  <2>2. IsFiniteSet(req_list \ {e}) /\ IsFiniteSet(answers')
    BY <1>0, <1>3, FS_RemoveElement, AwaitingIsFinite DEF Timeout
  <2>3. answers' \subseteq Answers
    BY <1>0, <1>3, AwaitingIsFinite DEF Timeout
  <2>. DEFINE late == IF OnTheBus(e.req) THEN 1 ELSE 0
  <2>4. CASE /\ ~GivenUp(e)
             /\ req_list' = (req_list \ {e}) \cup {[e EXCEPT !.retry = @ - 1]}
             /\ Transmit(e.req, late)
             /\ UNCHANGED pnd
    <3>. DEFINE f == [e EXCEPT !.retry = @ - 1]
    <3>1. f \in [req : Requests, retry : 0..Retry]
      <4>1. Retry \in Nat
        BY SysResAssumption DEF SysResAssumption
      <4>2. e.retry - 1 \in 0..Retry
        BY <2>1, <2>4, <4>1, SMT DEF GivenUp
      <4>. QED
        BY <1>0, <4>2
    <3>2. req_list' \subseteq [req : Requests, retry : 0..Retry] /\ IsFiniteSet(req_list')
      <4>. HIDE DEF f
      <4>1. req_list' = (req_list \ {e}) \cup {f}
        BY <2>4 DEF f
      <4>. QED
        BY <1>0, <2>2, <3>1, <4>1, FS_AddElement
    <3>3. calls' \in [Nodes -> Seq(Requests)] /\ faults' \in Nat
      BY <1>0, <2>1, <2>4, Transmitted
    <3>. QED
      BY <1>0, <1>3, <2>2, <2>3, <2>4, <3>2, <3>3 DEF Timeout, TypeInv, TypeOK, Scanning
  <2>5. CASE /\ faults' = faults + late
             /\ req_list' = req_list \ {e}
             /\ pnd' = [pnd EXCEPT ![e.req.node].state =
                                     StateAfter(e.req.kind, ack_flag, TRUE, @)]
             /\ UNCHANGED calls
    <3>1. faults' \in Nat
      BY <1>0, <2>5 DEF TypeOK
    <3>2. pnd' \in [Nodes -> Entries]
      BY <1>0, <2>1, <2>5, StateAfterIsAState DEF Entries
    <3>. QED
      BY <1>0, <1>3, <2>2, <2>3, <2>5, <3>1, <3>2 DEF Timeout, TypeInv, TypeOK, Scanning
  <2>. QED
    BY <1>3, <2>4, <2>5 DEF Timeout
<1>4. ASSUME NEW e \in req_list, NEW a \in answers, Answer(e, a) PROVE TypeInv'
  <2>1. e.req.node \in Nodes
    BY <1>0 DEF Requests
  <2>2. req_list' \subseteq req_list /\ IsFiniteSet(req_list')
    <3>1. req_list' = req_list \/ req_list' = req_list \ {e}
      BY <1>4 DEF Answer
    <3>. QED
      BY <1>0, <3>1, FS_RemoveElement
  <2>3. answers' \subseteq Answers /\ IsFiniteSet(answers')
    <3>1. IsFiniteSet(answers \ {a})
      BY <1>0, FS_RemoveElement
    <3>. QED
      BY <1>0, <1>4, <3>1, AwaitingIsFinite DEF Answer
  <2>4. ack_flag' \subseteq Nodes
    BY <1>0, <1>4 DEF Answer, Acks, TypeOK
  <2>5. pnd' \in [Nodes -> Entries]
    <3>1. pnd' = [pnd EXCEPT ![e.req.node].state =
                    StateAfter(a.kind, ack_flag', a.kind = "trs" /\ a.tlen = 0, @)]
      BY <1>4 DEF Answer
    <3>. QED
      BY <1>0, <2>1, <3>1, StateAfterIsAState DEF Entries
  <2>. QED
    BY <1>0, <1>4, <2>2, <2>3, <2>4, <2>5 DEF Answer, TypeInv, TypeOK, Scanning, bounds
<1>. QED
  BY <1>1, <1>2, <1>3, <1>4 DEF Sysm

LEMMA TypeInit == Init => TypeInv
<1>. SUFFICES ASSUME Init PROVE TypeInv
  OBVIOUS
<1>1. NoNode \in Entries /\ NoScan \in Scans /\ Off \in Tables
  BY DEF NoNode, Entries, NodeStates, NoScan, Scans, Off, Tables
<1>2. <<>> \in Seq(Reports) /\ <<>> \in Seq(Nodes) /\ <<>> \in Seq(Messages) /\ <<>> \in Seq(Requests)
  BY EmptySeq
<1>3. IsFiniteSet({})
  BY FS_EmptySet
<1>4. NoScan.hit = FALSE /\ NoScan.i = 0
  BY DEF NoScan
<1>5. 0 \notin Nodes
  BY SysResAssumption DEF SysResAssumption
<1>. QED
  BY <1>1, <1>2, <1>3, <1>4, <1>5 DEF Init, TypeInv, TypeOK, Scanning

LEMMA TypeStep == TypeInv /\ [Next]_vars => TypeInv'
<1>. SUFFICES ASSUME TypeInv, [Next]_vars PROVE TypeInv'
  OBVIOUS
<1>1. CASE UNCHANGED vars
  BY <1>1 DEF TypeInv, TypeOK, Scanning, vars, cnvars, bounds
<1>. QED
  BY <1>1, TypeBus, TypeSysm, TypeResm DEF Next

(***************************************************************************)
(* Everything has its type, the messages and calls on their way included,  *)
(* and a scan of ncn is of some node.                                      *)
(***************************************************************************)
THEOREM DistributionTyped == Spec => []TypeInv
<1>. QED
  BY TypeInit, TypeStep, PTL DEF Spec

-----------------------------------------------------------------------------
\* The calls that are under way, those that sysm has yet to make included.

Called == {e.req : e \in req_list}
Queued == {resmsg[i].req : i \in {j \in 1..Len(resmsg) : resmsg[j].type = "r"}}
Opened == Called \cup Queued

LEMMA OpenedTyped ==
  ASSUME TypeOK
  PROVE  Opened \subseteq Requests
<1>1. Called \subseteq Requests
  BY DEF TypeOK, Called
<1>2. ASSUME NEW i \in 1..Len(resmsg), resmsg[i].type = "r" PROVE resmsg[i].req \in Requests
  <2>1. resmsg[i] \in Messages
    BY ElementOfSeq DEF TypeOK
  <2>. QED
    BY <1>2, <2>1 DEF Messages
<1>. QED
  BY <1>1, <1>2 DEF Opened, Queued

LEMMA OpenedKept ==
  ASSUME UNCHANGED <<req_list, resmsg>>
  PROVE  Opened' = Opened /\ Called' = Called /\ Queued' = Queued
BY DEF Opened, Called, Queued

LEMMA OpenedWhenRead ==
  ASSUME resmsg = <<>>
  PROVE  Queued = {} /\ Opened = Called
<1>1. 1..Len(resmsg) = {}
  BY SMT
<1>. QED
  BY <1>1 DEF Opened, Queued

LEMMA OpenedByProc ==
  ASSUME TypeOK, ResmsgProc
  PROVE  /\ Opened' = Opened
         /\ Queued' \subseteq Queued
<1>. DEFINE m == Head(resmsg)
<1>1. /\ resmsg \in Seq(Messages) /\ resmsg # <<>> /\ resmsg' = Tail(resmsg)
      /\ Len(resmsg') = Len(resmsg) - 1 /\ 1 \in 1..Len(resmsg) /\ m = resmsg[1]
      /\ \A i \in 1..Len(resmsg') : i + 1 \in 1..Len(resmsg) /\ resmsg'[i] = resmsg[i + 1]
      /\ \A i \in 1..Len(resmsg) : i = 1 \/ (i - 1 \in 1..Len(resmsg') /\ resmsg'[i - 1] = resmsg[i])
  <2>1. resmsg \in Seq(Messages) /\ resmsg # <<>> /\ resmsg' = Tail(resmsg)
    BY DEF ResmsgProc, TypeOK
  <2>. QED
    BY <2>1, Dequeued
<1>2. \A q : q \in Queued <=> \E i \in 1..Len(resmsg) : resmsg[i].type = "r" /\ q = resmsg[i].req
  BY DEF Queued
<1>3. \A q : q \in Queued' <=> \E i \in 1..Len(resmsg') : resmsg'[i].type = "r" /\ q = resmsg'[i].req
  BY DEF Queued
<1>. HIDE DEF m
<1>4. Queued' \subseteq Queued
  BY <1>1, <1>2, <1>3
<1>5. ASSUME NEW q \in Queued PROVE q \in Queued' \/ (m.type = "r" /\ q = m.req)
  <2>1. PICK i \in 1..Len(resmsg) : resmsg[i].type = "r" /\ q = resmsg[i].req
    BY <1>2, <1>5
  <2>2. CASE i = 1
    BY <1>1, <2>1, <2>2
  <2>3. CASE i - 1 \in 1..Len(resmsg') /\ resmsg'[i - 1] = resmsg[i]
    BY <1>3, <2>1, <2>3
  <2>. QED
    BY <1>1, <2>2, <2>3
<1>6. m.type = "r" => m.req \in Queued
  BY <1>1, <1>2
<1>7. CASE m.type = "r" /\ req_list' = req_list \cup {[req |-> m.req, retry |-> Retry]}
  <2>. DEFINE e == [req |-> m.req, retry |-> Retry]
  <2>1. e.req = m.req
    OBVIOUS
  <2>2. req_list' = req_list \cup {e}
    BY <1>7
  <2>. HIDE DEF e
  <2>3. Called' = Called \cup {m.req}
    BY <2>1, <2>2 DEF Called
  <2>. QED
    BY <1>4, <1>5, <1>6, <1>7, <2>3 DEF Opened
<1>8. CASE m.type # "r" /\ UNCHANGED req_list
  <2>1. Called' = Called
    BY <1>8 DEF Called
  <2>. QED
    BY <1>4, <1>5, <1>8, <2>1 DEF Opened
<1>. QED
  BY <1>7, <1>8 DEF ResmsgProc, m

LEMMA OpenedByTimeout ==
  ASSUME TypeOK, NEW e \in req_list, Timeout(e)
  PROVE  /\ Opened' \subseteq Opened /\ Queued' = Queued
         /\ ~GivenUp(e) => Opened' = Opened /\ UNCHANGED pnd
         /\ GivenUp(e) =>
              /\ req_list' = req_list \ {e}
              /\ \A q \in Opened : q = e.req \/ q \in Opened'
<1>1. Queued' = Queued
  BY DEF Timeout, Queued
<1>2. CASE /\ ~GivenUp(e) /\ UNCHANGED pnd
           /\ req_list' = (req_list \ {e}) \cup {[e EXCEPT !.retry = @ - 1]}
  <2>. DEFINE f == [e EXCEPT !.retry = @ - 1]
  <2>1. f.req = e.req
    BY DEF TypeOK
  <2>2. Called' = Called
    <3>. HIDE DEF f
    <3>1. req_list' = (req_list \ {e}) \cup {f}
      BY <1>2 DEF f
    <3>. QED
      BY <2>1, <3>1 DEF Called
  <2>. QED
    BY <1>1, <1>2, <2>2 DEF Opened
<1>3. CASE GivenUp(e) /\ req_list' = req_list \ {e}
  <2>1. Called' \subseteq Called /\ \A q \in Called : q = e.req \/ q \in Called'
    BY <1>3 DEF Called
  <2>. QED
    BY <1>1, <1>3, <2>1 DEF Opened
<1>. QED
  BY <1>2, <1>3 DEF Timeout

LEMMA OpenedByAnswer ==
  ASSUME TypeOK, NEW e \in req_list, NEW a \in answers, Answer(e, a)
  PROVE  /\ Opened' \subseteq Opened /\ Queued' = Queued
         /\ req_list' = req_list => Opened' = Opened
         /\ \A q \in Opened : q = e.req \/ q \in Opened'
<1>1. Queued' = Queued
  BY DEF Answer, Queued
<1>2. req_list' = req_list \/ req_list' = req_list \ {e}
  BY DEF Answer
<1>3. Called' \subseteq Called /\ \A q \in Called : q = e.req \/ q \in Called'
  BY <1>2 DEF Called
<1>4. req_list' = req_list => Called' = Called
  BY DEF Called
<1>. QED
  BY <1>1, <1>3, <1>4 DEF Opened

LEMMA OpenedByRequest ==
  ASSUME TypeOK, resmsg = <<>>, UNCHANGED req_list, NEW m \in Messages, m.type = "r",
         resmsg' = Append(resmsg, m)
  PROVE  Opened' = Called \cup {m.req} /\ Queued' = {m.req} /\ Called' = Called
<1>1. Len(resmsg') = 1 /\ resmsg'[1] = m
  BY SMT
<1>2. Queued' = {m.req}
  BY <1>1 DEF Queued
<1>. QED
  BY <1>2 DEF Opened, Called

LEMMA OpenedByLocal ==
  ASSUME UNCHANGED req_list, resmsg = <<>>,
         \A i \in 1..Len(resmsg') : resmsg'[i].type # "r"
  PROVE  Opened' = Opened /\ Called' = Called /\ Queued' = {}
<1>1. Queued' = {}
  BY DEF Queued
<1>. QED
  BY <1>1, OpenedWhenRead DEF Opened, Called

\* A call with a new number is under way, and nothing else is queued.
Launched(kind, cells) ==
  \E q \in Requests :
    /\ q.kind = kind /\ q.node = cur /\ q.cells = cells
    /\ q.sessn \notin SessnInUse
    /\ Opened' = Called \cup {q} /\ Called' = Called
    /\ Len(resmsg') = 1 /\ \A i \in 1..Len(resmsg') : resmsg'[i].type = "r"

LEMMA RequestSent ==
  ASSUME TypeOK, resmsg = <<>>, UNCHANGED req_list, NEW kind \in Kinds, cur \in Nodes,
         NEW cells \in SUBSET (Res \X Places),
         resmsg' = Append(resmsg, Request(kind, cur, cells))
  PROVE  Launched(kind, cells)
<1>. DEFINE q == [sessn |-> Fresh, kind |-> kind, node |-> cur, cells |-> cells]
            m == Request(kind, cur, cells)
<1>1. m \in Messages /\ m.type = "r" /\ m.req \in Requests /\ m.req = q
  BY Requested
<1>2. /\ q.sessn \notin SessnInUse
      /\ q.kind = kind /\ q.node = cur /\ q.cells = cells
  BY FreshIsNew
<1>. HIDE DEF m, q
<1>3. resmsg' = Append(resmsg, m)
  BY DEF m
<1>4. Opened' = Called \cup {q} /\ Called' = Called
  BY <1>1, <1>3, OpenedByRequest
<1>5. Len(resmsg') = 1 /\ resmsg'[1] = m
  BY <1>3, SMT
<1>6. \A i \in 1..Len(resmsg') : resmsg'[i].type = "r"
  BY <1>1, <1>5, SMT
<1>. QED
  BY <1>1, <1>2, <1>4, <1>5, <1>6 DEF Launched

LEMMA StateSet ==
  ASSUME TypeOK, NEW n \in Nodes, NEW s, NodeState(n, s)
  PROVE  \A m \in Nodes : /\ pnd'[m].state = IF m = n THEN s ELSE pnd[m].state
                          /\ pnd'[m].offline = pnd[m].offline
                          /\ pnd'[m].online = pnd[m].online
BY DEF TypeOK, Entries, NodeState

\* What the reports change.
LEMMA StateByReport ==
  ASSUME TypeOK, NewTn \/ DeleteTn
  PROVE  /\ Head(rpt) \in Reports /\ rpt # <<>>
         /\ \A m \in Nodes :
              /\ \/ pnd'[m].state = pnd[m].state
                 \/ pnd[m].state = "DEL_FINISH" /\ pnd'[m].state = "INIT"
              /\ pnd[m].offline => pnd'[m].offline
              /\ pnd'[m].offline => pnd[m].offline \/ (DeleteTn /\ Head(rpt).nodeid = m)
              /\ DeleteTn /\ Head(rpt).nodeid = m => pnd'[m].offline
<1>. DEFINE n == Head(rpt).nodeid
<1>1. rpt \in Seq(Reports) /\ rpt # <<>> /\ pnd \in [Nodes -> Entries]
  BY DEF TypeOK, NewTn, DeleteTn
<1>2. Head(rpt) \in Reports
  BY <1>1, HeadTailProperties
<1>3. n \in Nodes
  BY <1>2 DEF Reports
<1>4. CASE NewTn
  <2>1. pnd' = [pnd EXCEPT ![n].online = TRUE,
                           ![n].state = IF @ = "DEL_FINISH" THEN "INIT" ELSE @]
    BY <1>4 DEF NewTn
  <2>2. ~DeleteTn
    BY <1>4 DEF NewTn, DeleteTn
  <2>. HIDE DEF n
  <2>3. \A m \in Nodes : /\ \/ pnd'[m].state = pnd[m].state
                            \/ pnd[m].state = "DEL_FINISH" /\ pnd'[m].state = "INIT"
                         /\ pnd'[m].offline = pnd[m].offline
    BY <1>1, <1>3, <2>1 DEF Entries
  <2>. QED
    BY <1>1, <1>2, <2>2, <2>3
<1>5. CASE DeleteTn
  <2>1. pnd' = [pnd EXCEPT ![n].offline = TRUE]
    BY <1>5 DEF DeleteTn
  <2>. HIDE DEF n
  <2>2. \A m \in Nodes : /\ pnd'[m].state = pnd[m].state
                         /\ m # n => pnd'[m].offline = pnd[m].offline
                         /\ m = n => pnd'[m].offline = TRUE
    BY <1>1, <1>3, <2>1 DEF Entries
  <2>. QED
    BY <1>1, <1>2, <1>5, <2>2 DEF n
<1>. QED
  BY <1>4, <1>5

\* What a callback makes of the node that the call was for.
LEMMA StateByCallback ==
  ASSUME TypeOK, NEW e \in req_list
  PROVE  /\ Timeout(e) =>
              \A m \in Nodes :
                /\ pnd'[m].offline = pnd[m].offline /\ pnd'[m].online = pnd[m].online
                /\ pnd'[m].state = IF GivenUp(e) /\ m = e.req.node
                                   THEN StateAfter(e.req.kind, ack_flag, TRUE, pnd[m].state)
                                   ELSE pnd[m].state
         /\ \A a \in answers : Answer(e, a) =>
              \A m \in Nodes :
                /\ pnd'[m].offline = pnd[m].offline /\ pnd'[m].online = pnd[m].online
                /\ pnd'[m].state = IF m = e.req.node
                                   THEN StateAfter(a.kind, ack_flag', a.kind = "trs" /\ a.tlen = 0,
                                                   pnd[m].state)
                                   ELSE pnd[m].state
<1>1. pnd \in [Nodes -> Entries] /\ e.req.node \in Nodes
  BY DEF TypeOK, Requests
<1>2. ASSUME Timeout(e), NEW m \in Nodes
      PROVE  /\ pnd'[m].offline = pnd[m].offline /\ pnd'[m].online = pnd[m].online
             /\ pnd'[m].state = IF GivenUp(e) /\ m = e.req.node
                                THEN StateAfter(e.req.kind, ack_flag, TRUE, pnd[m].state)
                                ELSE pnd[m].state
  <2>1. CASE ~GivenUp(e) /\ UNCHANGED pnd
    BY <2>1
  <2>2. CASE GivenUp(e) /\ pnd' = [pnd EXCEPT ![e.req.node].state =
                                     StateAfter(e.req.kind, ack_flag, TRUE, @)]
    BY <1>1, <2>2 DEF Entries
  <2>. QED
    BY <1>2, <2>1, <2>2 DEF Timeout
<1>3. ASSUME NEW a \in answers, Answer(e, a), NEW m \in Nodes
      PROVE  /\ pnd'[m].offline = pnd[m].offline /\ pnd'[m].online = pnd[m].online
             /\ pnd'[m].state = IF m = e.req.node
                                THEN StateAfter(a.kind, ack_flag', a.kind = "trs" /\ a.tlen = 0,
                                                pnd[m].state)
                                ELSE pnd[m].state
  <2>1. pnd' = [pnd EXCEPT ![e.req.node].state =
                  StateAfter(a.kind, ack_flag', a.kind = "trs" /\ a.tlen = 0, @)]
    BY <1>3 DEF Answer
  <2>. QED
    BY <1>1, <2>1 DEF Entries
<1>. QED
  BY <1>2, <1>3

LEMMA AwaitedIsOpened ==
  ASSUME NEW n
  PROVE  Awaited(n) <=> \E q \in Opened : q.node = n
BY DEF Awaited, Opened, Called, Queued

-----------------------------------------------------------------------------
\* resm never waits for nobody.

\* What resm asks for, step by step.
LEMMA ScanSent ==
  ASSUME TypeInv, Resm, ScanEnd
  PROVE  /\ cur \in Nodes /\ scan.i # 0
         /\ \/ /\ state = "OFFLINE" /\ ack_flag = {}
               /\ NodeState(cur, "DEL_FINISH") /\ UNCHANGED <<resmsg, req_list>>
            \/ /\ ~(state = "OFFLINE" /\ ack_flag = {})
               /\ Launched(IF state = "ONLINE" THEN "trs" ELSE "del", scan.cells)
               /\ UNCHANGED pnd
<1>. DEFINE k == IF state = "ONLINE" THEN "trs" ELSE "del"
<1>1. TypeOK /\ Scanning /\ resmsg = <<>> /\ scan \in Scans /\ Len(ncn) \in Nat
  BY LenProperties DEF TypeInv, TypeOK, Resm
<1>2. scan.i # 0 /\ scan.i \in Nat /\ scan.cells \in SUBSET (Res \X Places)
  <2>1. scan.i \in Nat /\ scan.cells \in SUBSET (Res \X Places)
    BY <1>1 DEF Scans
  <2>. QED
    BY <1>1, <2>1, SMT DEF ScanEnd
<1>3. cur \in Nodes
  BY <1>1, <1>2 DEF Scanning, TypeOK
<1>4. CASE state = "OFFLINE" /\ ack_flag = {}
  BY <1>2, <1>3, <1>4 DEF ScanEnd
<1>5. CASE ~(state = "OFFLINE" /\ ack_flag = {})
  <2>1. resmsg' = Append(resmsg, Request(k, cur, scan.cells)) /\ UNCHANGED <<pnd, req_list>>
    BY <1>5 DEF ScanEnd
  <2>2. k \in Kinds
    BY DEF Kinds
  <2>. HIDE DEF k
  <2>3. Launched(k, scan.cells)
    BY <1>1, <1>2, <1>3, <2>1, <2>2, RequestSent
  <2>. QED
    BY <1>2, <1>3, <1>5, <2>1, <2>3 DEF k
<1>. QED
  BY <1>4, <1>5

LEMMA IdSent ==
  ASSUME TypeInv, Resm, DownloadResId
  PROVE  cur \in Nodes /\ NodeState(cur, "WAIT_ACK") /\ Launched("id", {})
<1>1. TypeOK /\ resmsg = <<>> /\ cur \in Nodes
  BY DEF TypeInv, TypeOK, Resm, DownloadResId, Serving
<1>2. /\ NodeState(cur, "WAIT_ACK") /\ UNCHANGED req_list
      /\ resmsg' = Append(resmsg, Request("id", cur, {}))
  BY DEF DownloadResId
<1>3. "id" \in Kinds
  BY DEF Kinds
<1>4. {} \in SUBSET (Res \X Places)
  OBVIOUS
<1>. QED
  BY <1>1, <1>2, <1>3, <1>4, RequestSent

LEMMA RcvSent ==
  ASSUME TypeInv, Resm, AddRcvRes
  PROVE  /\ cur \in Nodes
         /\ \/ /\ Rcv[cur] \cap Active = {}
               /\ NodeState(cur, "ADD_TRS_RES") /\ UNCHANGED <<resmsg, req_list>>
            \/ /\ NodeState(cur, "WAIT_ACK")
               /\ Launched("rcv", Cells(Rcv[cur] \cap Active, place))
<1>. DEFINE cells == Cells(Rcv[cur] \cap Active, place)
<1>1. TypeOK /\ resmsg = <<>> /\ cur \in Nodes
  BY DEF TypeInv, TypeOK, Resm, AddRcvRes, Serving
<1>2. cells \in SUBSET (Res \X Places)
  BY <1>1 DEF Cells, Active, TypeOK
<1>3. CASE Rcv[cur] \cap Active = {}
  BY <1>1, <1>3 DEF AddRcvRes
<1>4. CASE Rcv[cur] \cap Active # {}
  <2>1. /\ NodeState(cur, "WAIT_ACK") /\ UNCHANGED req_list
        /\ resmsg' = Append(resmsg, Request("rcv", cur, cells))
    BY <1>4 DEF AddRcvRes
  <2>2. "rcv" \in Kinds
    BY DEF Kinds
  <2>. HIDE DEF cells
  <2>3. Launched("rcv", cells)
    BY <1>1, <1>2, <2>1, <2>2, RequestSent
  <2>. QED
    BY <1>1, <2>1, <2>3 DEF cells
<1>. QED
  BY <1>3, <1>4

\* A call that is over leaves a state other than WAIT_ACK.
LEMMA OverIsNotWaiting ==
  ASSUME NEW kind, NEW acks, NEW failed \in BOOLEAN, NEW old,
         Done(kind, acks, failed) \/ failed
  PROVE  StateAfter(kind, acks, failed, old) # "WAIT_ACK"
BY DEF StateAfter, Done, Finish

LEMMA CoveredStep ==
  ASSUME TypeInv, WaitIsCovered, [Next]_vars
  PROVE  WaitIsCovered'
<1>. DEFINE Waiting == cur # 0 /\ scan = NoScan /\ pnd[cur].state = "WAIT_ACK"
<1>0. /\ TypeOK /\ 0 \notin Nodes /\ cur \in Nodes \cup {0}
      /\ cur = 0 <=> state \in {"BOOT", "IDLE"}
      /\ scan \in Scans /\ pnd \in [Nodes -> Entries]
  BY SysResAssumption DEF TypeInv, TypeOK, SysResAssumption
<1>a. Waiting => \E q \in Opened : q.node = cur
  BY AwaitedIsOpened DEF WaitIsCovered
<1>b. WaitIsCovered' <=> (Waiting' => \E q \in Opened' : q.node = cur')
  BY DEF WaitIsCovered, Awaited, Opened, Called, Queued
<1>1. ASSUME \/ \E n \in Nodes : Join(n) \/ Leave(n) \/ Serve(n)
             \/ UNCHANGED vars
      PROVE  WaitIsCovered'
  <2>1. UNCHANGED <<cur, scan, pnd, req_list, resmsg>>
    BY <1>1 DEF Join, Leave, Serve, cnvars, vars
  <2>. QED
    BY <1>a, <1>b, <2>1, OpenedKept
<1>2. ASSUME NewTn \/ DeleteTn PROVE WaitIsCovered'
  <2>1. UNCHANGED <<cur, scan, req_list, resmsg>>
    BY <1>2 DEF NewTn, DeleteTn
  <2>2. Waiting' => Waiting
    BY <1>0, <1>2, <2>1, StateByReport
  <2>. QED
    BY <1>a, <1>b, <2>1, <2>2, OpenedKept
<1>3. CASE ResmsgProc
  <2>1. UNCHANGED <<cur, scan, pnd>> /\ Opened' = Opened
    BY <1>0, <1>3, OpenedByProc DEF ResmsgProc
  <2>. QED
    BY <1>a, <1>b, <2>1
<1>4. ASSUME NEW e \in req_list, Timeout(e) PROVE WaitIsCovered'
  <2>1. UNCHANGED <<cur, scan>>
    BY <1>4 DEF Timeout
  <2>2. /\ ~GivenUp(e) => Opened' = Opened /\ UNCHANGED pnd
        /\ GivenUp(e) => \A q \in Opened : q = e.req \/ q \in Opened'
    BY <1>0, <1>4, OpenedByTimeout
  <2>3. CASE ~GivenUp(e)
    BY <1>a, <1>b, <2>1, <2>2, <2>3
  <2>4. CASE GivenUp(e)
    <3>1. \A m \in Nodes : pnd'[m].state =
            IF m = e.req.node THEN StateAfter(e.req.kind, ack_flag, TRUE, pnd[m].state)
            ELSE pnd[m].state
      BY <1>0, <1>4, <2>4, StateByCallback
    <3>2. StateAfter(e.req.kind, ack_flag, TRUE, pnd[cur].state) # "WAIT_ACK"
      BY OverIsNotWaiting
    <3>. QED
      BY <1>0, <1>a, <1>b, <2>1, <2>2, <2>4, <3>1, <3>2
  <2>. QED
    BY <2>3, <2>4
<1>5. ASSUME NEW e \in req_list, NEW a \in answers, Answer(e, a) PROVE WaitIsCovered'
  <2>. DEFINE failed == a.kind = "trs" /\ a.tlen = 0
  <2>1. UNCHANGED <<cur, scan>>
    BY <1>5 DEF Answer
  <2>2. \A m \in Nodes : pnd'[m].state =
          IF m = e.req.node THEN StateAfter(a.kind, ack_flag', failed, pnd[m].state)
          ELSE pnd[m].state
    BY <1>0, <1>5, StateByCallback
  <2>3. \A q \in Opened : q = e.req \/ q \in Opened'
    BY <1>0, <1>5, OpenedByAnswer
  <2>4. CASE Done(a.kind, ack_flag', failed)
    <3>1. StateAfter(a.kind, ack_flag', failed, pnd[cur].state) # "WAIT_ACK"
      BY <2>4, OverIsNotWaiting
    <3>. QED
      BY <1>0, <1>a, <1>b, <2>1, <2>2, <2>3, <3>1
  <2>5. CASE ~Done(a.kind, ack_flag', failed)
    <3>1. req_list' = req_list
      BY <1>5, <2>5 DEF Answer
    <3>2. Opened' = Opened
      BY <1>0, <1>5, <3>1, OpenedByAnswer
    <3>3. StateAfter(a.kind, ack_flag', failed, pnd[cur].state) = "WAIT_ACK"
            => pnd[cur].state = "WAIT_ACK"
      BY DEF StateAfter, Finish
    <3>. QED
      BY <1>0, <1>a, <1>b, <2>1, <2>2, <3>2, <3>3
  <2>. QED
    BY <2>4, <2>5
<1>6. CASE Resm
  <2>0. resmsg = <<>>
    BY <1>6 DEF Resm
  <2>1. CASE AddCn \/ PushCommit \/ EndServe
    <3>1. cur' = 0
      BY <1>0, <2>1 DEF AddCn, PushCommit, EndServe
    <3>. QED
      BY <1>b, <3>1
  <2>2. ASSUME NEW n \in Nodes, PickOnline(n) \/ PickOffline(n) PROVE WaitIsCovered'
    <3>1. cur' = n /\ pnd'[n].state # "WAIT_ACK"
      BY <1>0, <2>2 DEF PickOnline, PickOffline, Entries
    <3>. QED
      BY <1>b, <3>1
  <2>3. CASE DownloadResId
    <3>1. cur' = cur
      BY <2>3 DEF DownloadResId
    <3>. QED
      BY <1>6, <1>b, <2>3, <3>1, IdSent DEF Launched
  <2>4. CASE AddRcvRes
    <3>1. cur' = cur
      BY <2>4 DEF AddRcvRes
    <3>2. CASE NodeState(cur, "ADD_TRS_RES")
      <4>1. cur \in Nodes
        BY <1>6, <2>4, RcvSent
      <4>2. pnd'[cur].state = "ADD_TRS_RES"
        BY <1>0, <3>2, <4>1, StateSet
      <4>. QED
        BY <1>b, <3>1, <4>2
    <3>3. CASE \E q \in Opened' : q.node = cur
      BY <1>b, <3>1, <3>3
    <3>. QED
      BY <1>6, <2>4, <3>2, <3>3, RcvSent DEF Launched
  <2>5. ASSUME AddTrsRes \/ DeleteNode PROVE WaitIsCovered'
    <3>1. cur \in Nodes /\ cur' = cur
      BY <1>0, <2>5 DEF AddTrsRes, DeleteNode, Serving
    <3>2. CASE scan'.i = 1
      BY <1>b, <3>2 DEF NoScan
    <3>3. CASE NodeState(cur, "ADD_FINISH") \/ NodeState(cur, "DEL_FINISH")
      <4>1. pnd'[cur].state # "WAIT_ACK"
        BY <1>0, <3>1, <3>3, StateSet
      <4>. QED
        BY <1>b, <3>1, <4>1
    <3>. QED
      BY <2>5, <3>2, <3>3 DEF AddTrsRes, DeleteNode
  <2>6. ASSUME ScanTest \/ ScanSet PROVE WaitIsCovered'
    <3>1. scan' # NoScan
      <4>1. scan.i \in Nat
        BY <1>0 DEF Scans
      <4>2. CASE scan' = [scan EXCEPT !.hit = TRUE]
        BY <1>0, <4>2 DEF Scans, NoScan
      <4>3. CASE scan'.i = scan.i + 1
        BY <4>1, <4>3, SMT DEF NoScan
      <4>. QED
        BY <1>0, <2>6, <4>2, <4>3 DEF ScanTest, ScanSet, Scans
    <3>. QED
      BY <1>b, <3>1
  <2>7. CASE ScanEnd
    <3>1. cur' = cur /\ cur \in Nodes
      BY <1>6, <2>7, ScanSent DEF ScanEnd
    <3>2. CASE NodeState(cur, "DEL_FINISH")
      <4>1. pnd'[cur].state # "WAIT_ACK"
        BY <1>0, <3>1, <3>2, StateSet
      <4>. QED
        BY <1>b, <3>1, <4>1
    <3>3. CASE \E q \in Opened' : q.node = cur
      BY <1>b, <3>1, <3>3
    <3>. QED
      BY <1>6, <2>7, <3>2, <3>3, ScanSent DEF Launched
  <2>. QED
    BY <1>6, <2>1, <2>2, <2>3, <2>4, <2>5, <2>6, <2>7 DEF Resm
<1>. QED
  BY <1>1, <1>2, <1>3, <1>4, <1>5, <1>6 DEF Next, Sysm

(***************************************************************************)
(* resm never waits for nobody: while it waits for a callback, a call for  *)
(* its node is in the queue or awaits an answer or its timeout, whatever   *)
(* is lost and whoever leaves.                                             *)
(***************************************************************************)
THEOREM DistributionWaitIsCovered == Spec => []WaitIsCovered
<1>1. Init => WaitIsCovered
  BY DEF Init, WaitIsCovered
<1>. QED
  BY <1>1, DistributionTyped, CoveredStep, PTL DEF Spec

-----------------------------------------------------------------------------
(***************************************************************************)
(* One node is served at a time, and one call is under way.  This holds as *)
(* long as no answer comes without a body: the callback of the broadcast   *)
(* 0x13 takes such an answer for a failure while acknowledgements are      *)
(* still awaited, resm goes on with the next node, and the call remains.   *)
(***************************************************************************)
Bodies == \A a \in answers : a.tlen > 0

OneRequest ==
  /\ \A e, f \in req_list : e = f
  /\ \A i \in 1..Len(resmsg) :
       resmsg[i].type = "r" => Len(resmsg) = 1 /\ req_list = {}

Resting == {"INIT", "ADD_FINISH", "DEL_FINISH", "FAIL"}
Joining == {"DOWNLOAD_RES_ID", "ADD_RCV_RES", "ADD_TRS_RES", "WAIT_ACK", "ADD_FINISH", "FAIL"}
Leaving == {"DEL_RES", "WAIT_ACK", "DEL_FINISH", "INIT", "FAIL"}

OneServed ==
  /\ \A n \in Nodes : n # cur => pnd[n].state \in Resting
  /\ state = "ONLINE"  => pnd[cur].state \in Joining
  /\ state = "OFFLINE" => pnd[cur].state \in Leaving

Waits ==
  /\ \A q \in Opened : /\ q.node = cur /\ scan = NoScan /\ pnd[cur].state = "WAIT_ACK"
                       /\ state = "OFFLINE" <=> q.kind = "del"
  /\ scan # NoScan => cur # 0 /\ pnd[cur].state = "WAIT_ACK"

Numbered ==
  /\ \A n \in Nodes : \A i \in 1..Len(calls[n]) : \A q \in Opened :
       calls[n][i].sessn = q.sessn => calls[n][i] = q
  /\ \A a \in answers : \E q \in Called : a.sessn = q.sessn /\ a.kind = q.kind

Alone == OneRequest /\ OneServed /\ Waits /\ Numbered

LEMMA OpenedOne ==
  ASSUME OneRequest
  PROVE  /\ \A p, q \in Opened : p = q
         /\ \A e \in req_list : Opened = {e.req} /\ Called = {e.req} /\ Queued = {}
<1>1. ASSUME NEW i \in 1..Len(resmsg), resmsg[i].type = "r",
             NEW j \in 1..Len(resmsg), resmsg[j].type = "r"
      PROVE  i = j /\ req_list = {}
  BY <1>1, SMT DEF OneRequest
<1>2. \A p, q \in Queued : p = q
  BY <1>1, Zenon DEF Queued
<1>3. Queued # {} => req_list = {}
  BY <1>1, Zenon DEF Queued
<1>4. \A p, q \in Called : p = q
  BY DEF OneRequest, Called
<1>5. req_list = {} => Called = {}
  BY DEF Called
<1>6. \A p, q \in Opened : p = q
  BY <1>2, <1>3, <1>4, <1>5 DEF Opened
<1>7. ASSUME NEW e \in req_list
      PROVE  Opened = {e.req} /\ Called = {e.req} /\ Queued = {}
  <2>1. Queued = {} /\ e.req \in Called
    BY <1>3 DEF Called
  <2>. QED
    BY <1>6, <2>1 DEF Opened
<1>. QED
  BY <1>6, <1>7

\* Nothing is under way while resm does not wait.
LEMMA OpenedNone ==
  ASSUME TypeInv, Alone, resmsg = <<>>,
         cur = 0 \/ scan # NoScan \/ pnd[cur].state # "WAIT_ACK"
  PROVE  req_list = {} /\ Called = {} /\ Opened = {} /\ answers = {}
<1>1. Opened = {}
  <2>1. \A q \in Opened : q.node # 0
    BY OpenedTyped, SysResAssumption DEF TypeInv, Requests, SysResAssumption
  <2>. QED
    BY <2>1 DEF Alone, Waits
<1>2. Called = {}
  BY <1>1 DEF Opened
<1>. QED
  BY <1>1, <1>2 DEF Called, Alone, Numbered

\* A copy on its way was there before, or is of a call under way.
LEMMA CopiesAreOld ==
  ASSUME TypeInv, [Next]_vars
  PROVE  \A n \in Nodes : \A i \in 1..Len(calls'[n]) :
           \/ \E j \in 1..Len(calls[n]) : calls'[n][i] = calls[n][j]
           \/ calls'[n][i] \in Opened /\ calls'[n][i] \in Opened'
<1>0. TypeOK /\ calls \in [Nodes -> Seq(Requests)]
  BY DEF TypeInv, TypeOK
<1>. SUFFICES ASSUME NEW n \in Nodes, NEW i \in 1..Len(calls'[n])
              PROVE  \/ \E j \in 1..Len(calls[n]) : calls'[n][i] = calls[n][j]
                     \/ calls'[n][i] \in Opened /\ calls'[n][i] \in Opened'
  OBVIOUS
<1>1. CASE calls'[n] = calls[n]
  BY <1>1
<1>2. CASE calls[n] # <<>> /\ calls'[n] = Tail(calls[n])
  <2>1. i + 1 \in 1..Len(calls[n]) /\ calls'[n][i] = calls[n][i + 1]
    BY <1>0, <1>2, Dequeued
  <2>. QED
    BY <2>1
<1>3. CASE calls'[n] = <<>>
  BY <1>3, SMT
<1>4. ASSUME NEW q \in Opened, q \in Opened', q \in Requests, calls'[n] = Append(calls[n], q)
      PROVE  \/ \E j \in 1..Len(calls[n]) : calls'[n][i] = calls[n][j]
             \/ calls'[n][i] \in Opened /\ calls'[n][i] \in Opened'
  <2>1. \/ i \in 1..Len(calls[n]) /\ calls'[n][i] = calls[n][i]
        \/ calls'[n][i] = q
    BY <1>0, <1>4, Enqueued
  <2>. QED
    BY <1>4, <2>1
<1>5. ASSUME NEW m \in Nodes, Leave(m) \/ Serve(m) \/ Join(m)
      PROVE  \/ calls'[n] = calls[n] \/ calls'[n] = <<>>
             \/ calls[n] # <<>> /\ calls'[n] = Tail(calls[n])
  BY <1>0, <1>5 DEF Leave, Serve, Join
<1>6. ASSUME ResmsgProc
      PROVE  \/ calls'[n] = calls[n]
             \/ \E q \in Opened \cap Requests : q \in Opened' /\ calls'[n] = Append(calls[n], q)
  <2>. DEFINE m == Head(resmsg)
  <2>1. CASE m.type = "r" /\ Transmit(m.req, 0)
    <3>1. m.req \in Opened /\ m.req \in Requests
      <4>1. resmsg \in Seq(Messages) /\ resmsg # <<>>
        BY <1>0, <1>6 DEF ResmsgProc, TypeOK
      <4>2. 1 \in 1..Len(resmsg) /\ m = resmsg[1]
        BY <4>1, Dequeued
      <4>3. m.req \in Queued
        BY <2>1, <4>2 DEF Queued
      <4>. QED
        BY <1>0, <4>3, OpenedTyped DEF Opened
    <3>2. Opened' = Opened
      BY <1>0, <1>6, OpenedByProc
    <3>. HIDE DEF m
    <3>. QED
      BY <1>0, <2>1, <3>1, <3>2, Transmitted
  <2>2. CASE UNCHANGED calls
    BY <2>2
  <2>. QED
    BY <1>6, <2>1, <2>2 DEF ResmsgProc
<1>7. ASSUME NEW e \in req_list, Timeout(e)
      PROVE  \/ calls'[n] = calls[n]
             \/ \E q \in Opened \cap Requests : q \in Opened' /\ calls'[n] = Append(calls[n], q)
  <2>1. e.req \in Opened /\ e.req \in Requests
    BY <1>0, OpenedTyped DEF Opened, Called
  <2>2. CASE ~GivenUp(e) /\ Transmit(e.req, IF OnTheBus(e.req) THEN 1 ELSE 0)
    <3>1. Opened' = Opened
      BY <1>0, <1>7, <2>2, OpenedByTimeout
    <3>. QED
      BY <1>0, <2>1, <2>2, <3>1, Transmitted
  <2>3. CASE UNCHANGED calls
    BY <2>3
  <2>. QED
    BY <1>7, <2>2, <2>3 DEF Timeout
<1>8. ASSUME \/ NewTn \/ DeleteTn \/ Resm \/ UNCHANGED vars
             \/ \E e \in req_list, a \in answers : Answer(e, a)
      PROVE  calls'[n] = calls[n]
  BY <1>8 DEF NewTn, DeleteTn, Answer, vars, Resm, AddCn, PickOnline, PickOffline, PushCommit,
       DownloadResId, AddRcvRes, AddTrsRes, DeleteNode, ScanTest, ScanSet, ScanEnd, EndServe
<1>. QED
  BY <1>1, <1>2, <1>3, <1>4, <1>5, <1>6, <1>7, <1>8 DEF Next, Sysm

\* The cells that the messages to sysm name.
LEMMA TrsPlaced ==
  ASSUME TypeInv, Resm, AddTrsRes
  PROVE  /\ cur \in Nodes /\ place' = Grant(cur)
         /\ \/ /\ Trs[cur] = <<>> \/ Placed(cur) # DOMAIN Trs[cur]
               /\ NodeState(cur, "ADD_FINISH") /\ UNCHANGED <<ack_flag, scan, resmsg>>
            \/ /\ Placed(cur) = DOMAIN Trs[cur]
               /\ \A r \in Sends(cur) : place'[r] # 0
               /\ NodeState(cur, "WAIT_ACK")
               /\ resmsg' = Local("ADD_RCV_FIXS", Cells(Sends(cur) \cap Rcv[0], place'))
               /\ IsFiniteSet(Cells(Sends(cur) \cap Rcv[0], place'))
               /\ ack_flag' = {}
               /\ scan' = [i |-> 1, hit |-> FALSE, cells |-> Cells(Sends(cur), place')]
<1>. DEFINE cells == Cells(Sends(cur) \cap Rcv[0], place')
<1>0. /\ TypeOK /\ resmsg = <<>> /\ place \in [Res -> Places \cup {0}] /\ cur \in Nodes
      /\ place' = Grant(cur)
  BY DEF TypeInv, TypeOK, Resm, AddTrsRes, Serving
<1>1. CASE Trs[cur] = <<>> \/ Placed(cur) # DOMAIN Trs[cur]
  BY <1>0, <1>1 DEF AddTrsRes
<1>2. CASE ~(Trs[cur] = <<>> \/ Placed(cur) # DOMAIN Trs[cur])
  <2>1. /\ NodeState(cur, "WAIT_ACK") /\ ack_flag' = {}
        /\ resmsg' = resmsg \o Local("ADD_RCV_FIXS", cells)
        /\ scan' = [i |-> 1, hit |-> FALSE, cells |-> Cells(Sends(cur), place')]
    BY <1>2 DEF AddTrsRes
  <2>2. \A r \in Sends(cur) : place'[r] # 0
    BY <1>0, <1>2, AllGranted
  <2>3. place' \in [Res -> Places \cup {0}]
    BY <1>0, Granted
  <2>4. cells \in SUBSET (Res \X Places) /\ IsFiniteSet(cells)
    BY <1>0, <2>2, <2>3, CellsTyped
  <2>. HIDE DEF cells
  <2>5. resmsg' = Local("ADD_RCV_FIXS", cells)
    BY <1>0, <2>1, <2>4, LocalTyped
  <2>. QED
    BY <1>0, <1>2, <2>1, <2>2, <2>4, <2>5 DEF cells
<1>. QED
  BY <1>1, <1>2

LEMMA NodeDeleted ==
  ASSUME TypeInv, Resm, DeleteNode
  PROVE  LET gone == Sends(cur) \cap Active
         IN  /\ cur \in Nodes
             /\ \/ /\ gone = {}
                   /\ NodeState(cur, "DEL_FINISH") /\ UNCHANGED <<place, ack_flag, scan, resmsg>>
                \/ /\ gone # {}
                   /\ NodeState(cur, "WAIT_ACK")
                   /\ place' = [r \in Res |-> IF r \in Sends(cur) THEN 0 ELSE place[r]]
                   /\ resmsg' = Local("DEL_RCV_FIXS", Cells(gone \cap Rcv[0], place))
                   /\ IsFiniteSet(Cells(gone \cap Rcv[0], place))
                   /\ ack_flag' = {}
                   /\ scan' = [i |-> 1, hit |-> FALSE, cells |-> Cells(gone, place)]
<1>. DEFINE gone == Sends(cur) \cap Active
            cells == Cells(gone \cap Rcv[0], place)
<1>0. /\ TypeOK /\ resmsg = <<>> /\ place \in [Res -> Places \cup {0}] /\ cur \in Nodes
  BY DEF TypeInv, TypeOK, Resm, DeleteNode, Serving
<1>1. CASE gone = {}
  BY <1>0, <1>1 DEF DeleteNode
<1>2. CASE gone # {}
  <2>1. /\ NodeState(cur, "WAIT_ACK") /\ ack_flag' = {}
        /\ place' = [r \in Res |-> IF r \in Sends(cur) THEN 0 ELSE place[r]]
        /\ resmsg' = resmsg \o Local("DEL_RCV_FIXS", cells)
        /\ scan' = [i |-> 1, hit |-> FALSE, cells |-> Cells(gone, place)]
    BY <1>2 DEF DeleteNode
  <2>2. \A r \in gone : place[r] # 0
    BY DEF Active
  <2>3. cells \in SUBSET (Res \X Places) /\ IsFiniteSet(cells)
    BY <1>0, <2>2, CellsTyped
  <2>. HIDE DEF cells
  <2>4. resmsg' = Local("DEL_RCV_FIXS", cells)
    BY <1>0, <2>1, <2>3, LocalTyped
  <2>. QED
    BY <1>0, <1>2, <2>1, <2>3, <2>4 DEF cells
<1>. QED
  BY <1>1, <1>2

LEMMA LocalIsNoCall ==
  ASSUME NEW type \in {"ADD_RCV_FIXS", "DEL_RCV_FIXS"}, NEW cells, IsFiniteSet(cells),
         resmsg' = Local(type, cells)
  PROVE  \A i \in 1..Len(resmsg') : resmsg'[i].type # "r"
<1>. DEFINE list == Local(type, cells)
<1>1. \A i \in 1..Len(list) : list[i].type = type /\ list[i].cell \in cells
  BY LocalLists
<1>. HIDE DEF list
<1>2. resmsg' = list
  BY DEF list
<1>. QED
  BY <1>1, <1>2

\* resm calls at three places only; what else it sends to sysm is no call.
LEMMA ResmSends ==
  ASSUME TypeInv, Resm
  PROVE  /\ UNCHANGED req_list
         /\ \/ /\ DownloadResId \/ AddRcvRes \/ ScanEnd
               /\ \E kind, cells : Launched(kind, cells)
            \/ /\ Opened' = Opened /\ Called' = Called
               /\ \A i \in 1..Len(resmsg') : resmsg'[i].type # "r"
<1>0. resmsg = <<>>
  BY DEF Resm
<1>1. UNCHANGED req_list
  BY DEF Resm, AddCn, PickOnline, PickOffline, PushCommit, DownloadResId, AddRcvRes, AddTrsRes,
         DeleteNode, ScanTest, ScanSet, ScanEnd, EndServe
<1>2. CASE DownloadResId
  BY <1>1, <1>2, IdSent
<1>3. ASSUME \/ AddTrsRes \/ DeleteNode \/ AddCn \/ PushCommit \/ ScanTest \/ ScanSet \/ EndServe
             \/ \E n \in Nodes : PickOnline(n) \/ PickOffline(n)
             \/ UNCHANGED resmsg
      PROVE  \A i \in 1..Len(resmsg') : resmsg'[i].type # "r"
  <2>1. CASE resmsg' = <<>>
    BY <2>1, SMT
  <2>2. CASE resmsg' = Append(resmsg, [type |-> "COMMIT_FIXS"])
    BY <1>0, <2>2, SMT
  <2>3. CASE AddTrsRes
    <3>. DEFINE cells == Cells(Sends(cur) \cap Rcv[0], place')
    <3>1. UNCHANGED resmsg \/ (resmsg' = Local("ADD_RCV_FIXS", cells) /\ IsFiniteSet(cells))
      BY <2>3, TrsPlaced
    <3>. HIDE DEF cells
    <3>2. CASE resmsg' = Local("ADD_RCV_FIXS", cells) /\ IsFiniteSet(cells)
      BY <3>2, LocalIsNoCall
    <3>. QED
      BY <1>0, <2>1, <3>1, <3>2
  <2>4. CASE DeleteNode
    <3>. DEFINE cells == Cells(Sends(cur) \cap Active \cap Rcv[0], place)
    <3>1. UNCHANGED resmsg \/ (resmsg' = Local("DEL_RCV_FIXS", cells) /\ IsFiniteSet(cells))
      BY <2>4, NodeDeleted
    <3>. HIDE DEF cells
    <3>2. CASE resmsg' = Local("DEL_RCV_FIXS", cells) /\ IsFiniteSet(cells)
      BY <3>2, LocalIsNoCall
    <3>. QED
      BY <1>0, <2>1, <3>1, <3>2
  <2>5. CASE UNCHANGED resmsg
    BY <1>0, <2>1, <2>5
  <2>. QED
    BY <1>3, <2>2, <2>3, <2>4, <2>5
       DEF AddCn, PushCommit, ScanTest, ScanSet, EndServe, PickOnline, PickOffline
<1>4. CASE AddRcvRes
  <2>1. CASE UNCHANGED resmsg
    BY <1>0, <1>1, <1>3, <2>1, OpenedByLocal
  <2>. QED
    BY <1>1, <1>4, <2>1, RcvSent
<1>5. CASE ScanEnd
  <2>1. CASE UNCHANGED resmsg
    BY <1>0, <1>1, <1>3, <2>1, OpenedByLocal
  <2>. QED
    BY <1>1, <1>5, <2>1, ScanSent
<1>. QED
  BY <1>0, <1>1, <1>2, <1>3, <1>4, <1>5, OpenedByLocal DEF Resm

LEMMA OneRequestStep ==
  ASSUME TypeInv, Alone, [Next]_vars
  PROVE  OneRequest'
<1>0. TypeOK /\ OneRequest
  BY DEF TypeInv, Alone
<1>1. CASE UNCHANGED <<req_list, resmsg>>
  BY <1>0, <1>1 DEF OneRequest
<1>2. CASE ResmsgProc
  <2>. DEFINE m == Head(resmsg)
  <2>1. /\ resmsg \in Seq(Messages) /\ resmsg # <<>> /\ resmsg' = Tail(resmsg)
    BY <1>0, <1>2 DEF ResmsgProc, TypeOK
  <2>2. /\ Len(resmsg) \in Nat /\ 1 \in 1..Len(resmsg) /\ m = resmsg[1]
        /\ \A i \in 1..Len(resmsg') : i + 1 \in 1..Len(resmsg) /\ resmsg'[i] = resmsg[i + 1]
    BY <2>1, Dequeued
  <2>3. \A i \in 1..Len(resmsg') : resmsg'[i].type # "r"
    <3>1. SUFFICES ASSUME NEW i \in 1..Len(resmsg'), resmsg'[i].type = "r" PROVE FALSE
      OBVIOUS
    <3>2. i + 1 \in 1..Len(resmsg) /\ resmsg[i + 1].type = "r"
      BY <2>2, <3>1
    <3>3. Len(resmsg) = 1
      BY <1>0, <3>2 DEF OneRequest
    <3>. QED
      BY <3>2, <3>3, SMT
  <2>4. \A e, f \in req_list' : e = f
    <3>1. CASE m.type = "r" /\ req_list' = req_list \cup {[req |-> m.req, retry |-> Retry]}
      <4>1. req_list = {}
        BY <1>0, <2>2, <3>1 DEF OneRequest
      <4>. QED
        BY <3>1, <4>1
    <3>2. CASE UNCHANGED req_list
      BY <1>0, <3>2 DEF OneRequest
    <3>. QED
      BY <1>2, <3>1, <3>2 DEF ResmsgProc
  <2>. QED
    BY <2>3, <2>4 DEF OneRequest
<1>3. ASSUME NEW e \in req_list, \/ Timeout(e) \/ \E a \in answers : Answer(e, a)
      PROVE  OneRequest'
  <2>1. req_list = {e} /\ UNCHANGED resmsg
    BY <1>0, <1>3 DEF OneRequest, Timeout, Answer
  <2>2. \A i \in 1..Len(resmsg) : resmsg[i].type # "r"
    BY <1>0, <2>1 DEF OneRequest
  <2>3. req_list' \subseteq req_list \/ \E f : req_list' = {f}
    BY <1>3, <2>1 DEF Timeout, Answer
  <2>. QED
    BY <2>1, <2>2, <2>3 DEF OneRequest
<1>4. CASE Resm
  <2>0. resmsg = <<>> /\ UNCHANGED req_list
    BY <1>4, ResmSends DEF Resm
  <2>1. CASE \A i \in 1..Len(resmsg') : resmsg'[i].type # "r"
    BY <1>0, <2>0, <2>1 DEF OneRequest
  <2>2. CASE /\ DownloadResId \/ AddRcvRes \/ ScanEnd
             /\ \E kind, cells : Launched(kind, cells)
    <3>1. req_list = {}
      <4>1. scan # NoScan \/ pnd[cur].state # "WAIT_ACK"
        <5>1. CASE DownloadResId \/ AddRcvRes
          BY <5>1 DEF DownloadResId, AddRcvRes, Serving
        <5>2. CASE ScanEnd
          BY <1>4, <5>2, ScanSent DEF NoScan
        <5>. QED
          BY <2>2, <5>1, <5>2
      <4>. QED
        BY <2>0, <4>1, OpenedNone
    <3>2. Len(resmsg') = 1
      BY <2>2 DEF Launched
    <3>. QED
      BY <2>0, <3>1, <3>2 DEF OneRequest
  <2>. QED
    BY <1>4, <2>1, <2>2, ResmSends
<1>. QED
  BY <1>1, <1>2, <1>3, <1>4
     DEF Next, Sysm, Join, Leave, Serve, NewTn, DeleteTn, vars, cnvars

\* The call that awaits an answer is the one of the node that resm serves.
LEMMA CallIsOfCur ==
  ASSUME TypeInv, Alone, NEW e \in req_list
  PROVE  /\ e.req \in Requests /\ e.req.node = cur /\ cur \in Nodes
         /\ scan = NoScan /\ pnd[cur].state = "WAIT_ACK"
         /\ state \in {"ONLINE", "OFFLINE"} /\ (state = "OFFLINE" <=> e.req.kind = "del")
         /\ Opened = {e.req} /\ Called = {e.req}
         /\ \A a \in answers : a.sessn = e.req.sessn /\ a.kind = e.req.kind
<1>0. TypeOK /\ OneRequest /\ 0 \notin Nodes
  BY SysResAssumption DEF TypeInv, Alone, SysResAssumption
<1>1. Opened = {e.req} /\ Called = {e.req}
  BY <1>0, OpenedOne
<1>2. e.req \in Requests
  BY <1>0, <1>1, OpenedTyped
<1>3. /\ e.req.node = cur /\ scan = NoScan /\ pnd[cur].state = "WAIT_ACK"
      /\ state = "OFFLINE" <=> e.req.kind = "del"
  BY <1>1 DEF Alone, Waits
<1>4. cur \in Nodes
  BY <1>2, <1>3 DEF Requests
<1>5. state \in {"ONLINE", "OFFLINE"}
  BY <1>0, <1>4 DEF TypeOK
<1>6. \A a \in answers : a.sessn = e.req.sessn /\ a.kind = e.req.kind
  BY <1>1 DEF Alone, Numbered
<1>. QED
  BY <1>1, <1>2, <1>3, <1>4, <1>5, <1>6

\* What the end of a call's time, or an answer with a body, makes of that node.
LEMMA CalledBack ==
  ASSUME TypeInv, Alone, Bodies, NEW e \in req_list,
         Timeout(e) \/ \E a \in answers : Answer(e, a)
  PROVE  /\ UNCHANGED <<state, cur, scan, resmsg, place, cnrcv, tn, ncn, rpt>>
         /\ \A m \in Nodes : /\ m # cur => pnd'[m].state = pnd[m].state
                             /\ pnd'[m].offline = pnd[m].offline
         /\ state = "ONLINE"  =>
              pnd'[cur].state \in {"ADD_RCV_RES", "ADD_TRS_RES", "WAIT_ACK", "ADD_FINISH", "FAIL"}
         /\ state = "OFFLINE" => pnd'[cur].state \in {"WAIT_ACK", "DEL_FINISH", "FAIL"}
         /\ pnd'[cur].state \in {"ADD_RCV_RES", "ADD_TRS_RES"} => e.req.kind \in {"id", "rcv"}
         /\ Opened' \subseteq Opened
         /\ Opened' = {} \/ pnd'[cur].state = "WAIT_ACK"
<1>0. TypeOK
  BY DEF TypeInv
<1>1. /\ e.req \in Requests /\ e.req.node = cur /\ cur \in Nodes /\ pnd[cur].state = "WAIT_ACK"
      /\ state \in {"ONLINE", "OFFLINE"} /\ (state = "OFFLINE" <=> e.req.kind = "del")
      /\ Opened = {e.req}
      /\ \A a \in answers : a.kind = e.req.kind
  BY CallIsOfCur
<1>2. UNCHANGED <<state, cur, scan, resmsg, place, cnrcv, tn, ncn, rpt>>
  BY DEF Timeout, Answer
<1>3. e.req.kind \in {"id", "rcv", "trs", "del"}
  BY <1>1 DEF Requests, Kinds
<1>4. CASE Timeout(e)
  <2>1. \A m \in Nodes :
          /\ pnd'[m].offline = pnd[m].offline
          /\ pnd'[m].state = IF GivenUp(e) /\ m = cur
                             THEN StateAfter(e.req.kind, ack_flag, TRUE, pnd[m].state)
                             ELSE pnd[m].state
    BY <1>0, <1>1, <1>4, StateByCallback
  <2>2. /\ Opened' \subseteq Opened
        /\ ~GivenUp(e) => Opened' = Opened
        /\ GivenUp(e) => req_list' = req_list \ {e} /\ UNCHANGED resmsg
    BY <1>0, <1>2, <1>4, OpenedByTimeout
  <2>3. GivenUp(e) => Opened' = {}
    <3>1. SUFFICES ASSUME GivenUp(e) PROVE Opened' = {}
      OBVIOUS
    <3>2. req_list' = {}
      BY <2>2, <3>1 DEF Alone, OneRequest
    <3>3. Queued' = {}
      <4>1. Queued = {}
        BY OpenedOne DEF Alone
      <4>. QED
        BY <2>2, <3>1, <4>1 DEF Queued
    <3>. QED
      BY <3>2, <3>3 DEF Opened, Called
  <2>4. CASE GivenUp(e)
    <3>1. pnd'[cur].state = StateAfter(e.req.kind, ack_flag, TRUE, "WAIT_ACK")
      BY <1>1, <2>1, <2>4
    <3>2. /\ state = "ONLINE" => pnd'[cur].state \in {"ADD_FINISH", "FAIL"}
          /\ state = "OFFLINE" => pnd'[cur].state \in {"DEL_FINISH", "FAIL"}
      BY <1>1, <1>3, <3>1 DEF StateAfter, Finish
    <3>. QED
      BY <1>1, <1>2, <2>1, <2>2, <2>3, <2>4, <3>2
  <2>5. CASE ~GivenUp(e)
    BY <1>1, <1>2, <2>1, <2>2, <2>5
  <2>. QED
    BY <2>4, <2>5
<1>5. ASSUME NEW a \in answers, Answer(e, a)
      PROVE  /\ \A m \in Nodes : /\ m # cur => pnd'[m].state = pnd[m].state
                                 /\ pnd'[m].offline = pnd[m].offline
             /\ state = "ONLINE"  =>
                  pnd'[cur].state \in
                    {"ADD_RCV_RES", "ADD_TRS_RES", "WAIT_ACK", "ADD_FINISH", "FAIL"}
             /\ state = "OFFLINE" => pnd'[cur].state \in {"WAIT_ACK", "DEL_FINISH", "FAIL"}
             /\ pnd'[cur].state \in {"ADD_RCV_RES", "ADD_TRS_RES"} => e.req.kind \in {"id", "rcv"}
             /\ Opened' \subseteq Opened
             /\ Opened' = {} \/ pnd'[cur].state = "WAIT_ACK"
  <2>1. ~(a.kind = "trs" /\ a.tlen = 0) /\ a.kind = e.req.kind
    BY <1>1, SMT DEF Bodies
  <2>2. \A m \in Nodes :
          /\ pnd'[m].offline = pnd[m].offline
          /\ pnd'[m].state = IF m = cur
                             THEN StateAfter(e.req.kind, ack_flag', FALSE, pnd[m].state)
                             ELSE pnd[m].state
    <3>1. \A m \in Nodes :
          /\ pnd'[m].offline = pnd[m].offline
          /\ pnd'[m].state = IF m = e.req.node
                             THEN StateAfter(a.kind, ack_flag', a.kind = "trs" /\ a.tlen = 0,
                                             pnd[m].state)
                             ELSE pnd[m].state
      BY <1>0, <1>5, StateByCallback
    <3>. QED
      BY <1>1, <2>1, <3>1
  <2>3. Opened' \subseteq Opened
    BY <1>0, <1>5, OpenedByAnswer
  <2>4. Done(e.req.kind, ack_flag', FALSE) => Opened' = {}
    <3>1. SUFFICES ASSUME Done(e.req.kind, ack_flag', FALSE) PROVE Opened' = {}
      OBVIOUS
    <3>2. req_list' = {}
      <4>1. req_list' = req_list \ {e}
        BY <1>5, <2>1, <3>1 DEF Answer
      <4>. QED
        BY <4>1 DEF Alone, OneRequest
    <3>3. Queued' = {}
      <4>1. Queued = {}
        BY OpenedOne DEF Alone
      <4>. QED
        BY <1>2, <4>1 DEF Queued
    <3>. QED
      BY <3>2, <3>3 DEF Opened, Called
  <2>5. pnd'[cur].state = StateAfter(e.req.kind, ack_flag', FALSE, "WAIT_ACK")
    BY <1>1, <2>2
  <2>6. /\ state = "ONLINE" =>
             pnd'[cur].state \in {"ADD_RCV_RES", "ADD_TRS_RES", "WAIT_ACK", "ADD_FINISH"}
        /\ state = "OFFLINE" => pnd'[cur].state \in {"WAIT_ACK", "DEL_FINISH"}
        /\ pnd'[cur].state \in {"ADD_RCV_RES", "ADD_TRS_RES"} => e.req.kind \in {"id", "rcv"}
        /\ pnd'[cur].state = "WAIT_ACK" \/ Done(e.req.kind, ack_flag', FALSE)
    BY <1>1, <1>3, <2>5 DEF StateAfter, Finish, Done
  <2>. QED
    BY <2>2, <2>3, <2>4, <2>6
<1>. QED
  BY <1>2, <1>4, <1>5

\* The steps of the bus and of the queue leave resm and its nodes alone.
Still == \/ ResmsgProc \/ UNCHANGED vars
         \/ \E n \in Nodes : Join(n) \/ Leave(n) \/ Serve(n)

LEMMA StillKeeps ==
  ASSUME TypeInv, Still
  PROVE  /\ UNCHANGED <<ncn, pnd, ack_flag, state, cur, scan, pushflg, place>>
         /\ Opened' = Opened
<1>0. TypeOK
  BY DEF TypeInv
<1>1. UNCHANGED <<ncn, pnd, ack_flag, state, cur, scan, pushflg, place>>
  BY DEF Still, ResmsgProc, Join, Leave, Serve, vars, cnvars
<1>2. CASE ResmsgProc
  BY <1>0, <1>1, <1>2, OpenedByProc
<1>3. CASE ~ResmsgProc
  <2>1. UNCHANGED <<req_list, resmsg>>
    BY <1>3 DEF Still, Join, Leave, Serve, vars, cnvars
  <2>. QED
    BY <1>1, <2>1, OpenedKept
<1>. QED
  BY <1>2, <1>3

\* A step is one of these.
LEMMA StepIs ==
  ASSUME [Next]_vars
  PROVE  \/ Still \/ NewTn \/ DeleteTn \/ Resm
         \/ \E e \in req_list : Timeout(e) \/ \E a \in answers : Answer(e, a)
BY DEF Next, Sysm, Still

\* resm changes the state of the node it serves and of no other.
LEMMA ServedSet ==
  ASSUME TypeInv, Alone, state \in {"ONLINE", "OFFLINE"}, UNCHANGED <<state, cur>>,
         NEW s, NodeState(cur, s),
         state = "ONLINE" => s \in Joining, state = "OFFLINE" => s \in Leaving
  PROVE  OneServed'
<1>1. cur \in Nodes /\ TypeOK
  BY DEF TypeInv, TypeOK
<1>2. \A m \in Nodes : pnd'[m].state = IF m = cur THEN s ELSE pnd[m].state
  BY <1>1, StateSet
<1>. QED
  BY <1>1, <1>2 DEF OneServed, Alone

LEMMA OneServedStep ==
  ASSUME TypeInv, Alone, Bodies, [Next]_vars
  PROVE  OneServed'
<1>0. /\ TypeOK /\ OneServed /\ 0 \notin Nodes /\ cur \in Nodes \cup {0}
      /\ cur = 0 <=> state \in {"BOOT", "IDLE"}
      /\ state \in {"BOOT", "IDLE", "ONLINE", "OFFLINE"}
      /\ pnd \in [Nodes -> Entries]
  BY SysResAssumption DEF TypeInv, TypeOK, Alone, SysResAssumption
<1>1. CASE UNCHANGED <<pnd, state, cur>>
  BY <1>0, <1>1 DEF OneServed
<1>2. CASE NewTn \/ DeleteTn
  <2>1. UNCHANGED <<state, cur>>
    BY <1>2 DEF NewTn, DeleteTn
  <2>2. \A m \in Nodes : \/ pnd'[m].state = pnd[m].state
                         \/ pnd[m].state = "DEL_FINISH" /\ pnd'[m].state = "INIT"
    BY <1>0, <1>2, StateByReport
  <2>3. \A m \in Nodes : m # cur => pnd'[m].state \in Resting
    BY <1>0, <2>2 DEF OneServed, Resting
  <2>4. state = "ONLINE" => pnd'[cur].state \in Joining
    BY <1>0, <2>2 DEF OneServed, Joining
  <2>5. state = "OFFLINE" => pnd'[cur].state \in Leaving
    BY <1>0, <2>2 DEF OneServed, Leaving
  <2>. QED
    BY <2>1, <2>3, <2>4, <2>5 DEF OneServed
<1>3. ASSUME NEW e \in req_list, \/ Timeout(e) \/ \E a \in answers : Answer(e, a)
      PROVE  OneServed'
  <2>1. /\ UNCHANGED <<state, cur>>
        /\ \A m \in Nodes : m # cur => pnd'[m].state = pnd[m].state
        /\ state = "ONLINE" => pnd'[cur].state \in
             {"ADD_RCV_RES", "ADD_TRS_RES", "WAIT_ACK", "ADD_FINISH", "FAIL"}
        /\ state = "OFFLINE" => pnd'[cur].state \in {"WAIT_ACK", "DEL_FINISH", "FAIL"}
    BY <1>3, CalledBack
  <2>. QED
    BY <1>0, <2>1 DEF OneServed, Joining, Leaving
<1>4. CASE Resm
  <2>1. CASE AddCn \/ PushCommit \/ ScanTest \/ ScanSet
    <3>1. UNCHANGED <<pnd, cur>> /\ (UNCHANGED state \/ state' = "IDLE")
      BY <2>1 DEF AddCn, PushCommit, ScanTest, ScanSet
    <3>. QED
      BY <1>0, <3>1 DEF OneServed
  <2>2. ASSUME NEW n \in Nodes, PickOnline(n) PROVE OneServed'
    <3>1. cur = 0 /\ cur' = n /\ state' = "ONLINE"
      BY <1>0, <2>2 DEF PickOnline
    <3>2. /\ pnd'[n].state = "DOWNLOAD_RES_ID"
          /\ \A m \in Nodes : m # n => pnd'[m].state = pnd[m].state
      BY <1>0, <2>2 DEF PickOnline, Entries
    <3>. QED
      BY <1>0, <3>1, <3>2 DEF OneServed, Joining
  <2>3. ASSUME NEW n \in Nodes, PickOffline(n) PROVE OneServed'
    <3>1. cur = 0 /\ cur' = n /\ state' = "OFFLINE"
      BY <1>0, <2>3 DEF PickOffline
    <3>2. /\ pnd'[n].state = "DEL_RES"
          /\ \A m \in Nodes : m # n => pnd'[m].state = pnd[m].state
      BY <1>0, <2>3 DEF PickOffline, Entries
    <3>. QED
      BY <1>0, <3>1, <3>2 DEF OneServed, Leaving
  <2>4. CASE DownloadResId
    <3>1. state = "ONLINE" /\ UNCHANGED <<state, cur>> /\ NodeState(cur, "WAIT_ACK")
      BY <2>4 DEF DownloadResId, Serving
    <3>. QED
      BY <3>1, ServedSet DEF Joining
  <2>5. CASE AddRcvRes
    <3>1. state = "ONLINE" /\ UNCHANGED <<state, cur>>
      BY <2>5 DEF AddRcvRes, Serving
    <3>2. NodeState(cur, "WAIT_ACK") \/ NodeState(cur, "ADD_TRS_RES")
      BY <2>5 DEF AddRcvRes
    <3>. QED
      BY <3>1, <3>2, ServedSet DEF Joining
  <2>6. CASE AddTrsRes
    <3>1. state = "ONLINE" /\ UNCHANGED <<state, cur>>
      BY <2>6 DEF AddTrsRes, Serving
    <3>2. NodeState(cur, "WAIT_ACK") \/ NodeState(cur, "ADD_FINISH")
      BY <2>6 DEF AddTrsRes
    <3>. QED
      BY <3>1, <3>2, ServedSet DEF Joining
  <2>7. CASE DeleteNode
    <3>1. state = "OFFLINE" /\ UNCHANGED <<state, cur>>
      BY <2>7 DEF DeleteNode, Serving
    <3>2. NodeState(cur, "WAIT_ACK") \/ NodeState(cur, "DEL_FINISH")
      BY <2>7 DEF DeleteNode
    <3>. QED
      BY <3>1, <3>2, ServedSet DEF Leaving
  <2>8. CASE ScanEnd
    <3>1. UNCHANGED <<state, cur>> /\ cur \in Nodes
      BY <1>4, <2>8, ScanSent DEF ScanEnd
    <3>2. UNCHANGED pnd \/ (state = "OFFLINE" /\ NodeState(cur, "DEL_FINISH"))
      BY <2>8 DEF ScanEnd
    <3>. QED
      BY <1>1, <3>1, <3>2, ServedSet DEF Leaving
  <2>9. CASE EndServe
    <3>1. cur' = 0 /\ state' = "IDLE" /\ UNCHANGED pnd
      BY <2>9 DEF EndServe
    <3>2. pnd[cur].state \in Resting
      BY <2>9 DEF EndServe, Serving, Resting
    <3>. QED
      BY <1>0, <3>1, <3>2 DEF OneServed
  <2>. QED
    BY <1>4, <2>1, <2>2, <2>3, <2>4, <2>5, <2>6, <2>7, <2>8, <2>9 DEF Resm
<1>5. CASE Still
  BY <1>1, <1>5, StillKeeps
<1>. QED
  BY <1>2, <1>3, <1>4, <1>5, StepIs

\* Nothing is under way when resm begins to serve, or to call.
LEMMA NothingOpened ==
  ASSUME TypeInv, Alone, Resm
  PROVE  \/ Opened = {} /\ Called = {} /\ answers = {}
         \/ cur # 0 /\ scan = NoScan /\ pnd[cur].state = "WAIT_ACK"
BY OpenedNone DEF Resm

LEMMA OpenedByResm ==
  ASSUME TypeInv, Alone, Resm
  PROVE  \/ /\ DownloadResId \/ AddRcvRes \/ ScanEnd
            /\ Opened = {} /\ Called = {} /\ Called' = {} /\ answers = {}
            /\ \E q \in Requests :
                 /\ Opened' = {q} /\ q.sessn \notin SessnInUse /\ q.node = cur
                 /\ DownloadResId => q.kind = "id" /\ q.cells = {}
                 /\ AddRcvRes => q.kind = "rcv" /\ q.cells = Cells(Rcv[cur] \cap Active, place)
                 /\ ScanEnd => /\ q.kind = IF state = "ONLINE" THEN "trs" ELSE "del"
                               /\ q.cells = scan.cells
                 /\ DownloadResId \/ AddRcvRes => NodeState(cur, "WAIT_ACK")
                 /\ ScanEnd => UNCHANGED pnd
         \/ /\ Opened' = Opened /\ Called' = Called
            /\ \A i \in 1..Len(resmsg') : resmsg'[i].type # "r"
<1>1. CASE /\ Opened' = Opened /\ Called' = Called
           /\ \A i \in 1..Len(resmsg') : resmsg'[i].type # "r"
  BY <1>1
<1>2. CASE /\ DownloadResId \/ AddRcvRes \/ ScanEnd
           /\ \E kind, cells : Launched(kind, cells)
  <2>0. Len(resmsg') = 1 /\ resmsg = <<>>
    BY <1>2 DEF Launched, Resm
  <2>1. Opened = {} /\ Called = {} /\ answers = {}
    <3>1. scan # NoScan \/ pnd[cur].state # "WAIT_ACK"
      <4>1. CASE DownloadResId \/ AddRcvRes
        BY <4>1 DEF DownloadResId, AddRcvRes, Serving
      <4>2. CASE ScanEnd
        BY <4>2, ScanSent DEF NoScan
      <4>. QED
        BY <1>2, <4>1, <4>2
    <3>. QED
      BY <3>1, NothingOpened
  <2>2. Called' = {}
    BY <1>2, <2>1 DEF Launched
  <2>3. /\ DownloadResId => scan = NoScan /\ pnd[cur].state = "DOWNLOAD_RES_ID"
        /\ AddRcvRes => scan = NoScan /\ pnd[cur].state = "ADD_RCV_RES"
        /\ ScanEnd => scan # NoScan
    BY ScanSent DEF DownloadResId, AddRcvRes, Serving, NoScan
  <2>4. CASE DownloadResId
    BY <2>1, <2>2, <2>3, <2>4, IdSent DEF Launched
  <2>5. CASE AddRcvRes
    <3>1. Launched("rcv", Cells(Rcv[cur] \cap Active, place)) /\ NodeState(cur, "WAIT_ACK")
      <4>1. resmsg' # resmsg
        BY <2>0, SMT
      <4>. QED
        BY <2>5, <4>1, RcvSent
    <3>. QED
      BY <2>1, <2>2, <2>3, <2>5, <3>1 DEF Launched
  <2>6. CASE ScanEnd
    <3>1. /\ Launched(IF state = "ONLINE" THEN "trs" ELSE "del", scan.cells)
          /\ UNCHANGED pnd
      <4>1. resmsg' # resmsg
        BY <2>0, SMT
      <4>. QED
        BY <2>6, <4>1, ScanSent
    <3>. QED
      BY <2>1, <2>2, <2>3, <2>6, <3>1 DEF Launched
  <2>. QED
    BY <1>2, <2>4, <2>5, <2>6
<1>. QED
  BY <1>1, <1>2, ResmSends

LEMMA WaitsStep ==
  ASSUME TypeInv, Alone, Bodies, [Next]_vars
  PROVE  Waits'
<1>0. /\ TypeOK /\ Waits /\ 0 \notin Nodes /\ cur \in Nodes \cup {0}
      /\ cur = 0 <=> state \in {"BOOT", "IDLE"}
      /\ state \in {"BOOT", "IDLE", "ONLINE", "OFFLINE"}
      /\ pnd \in [Nodes -> Entries] /\ scan \in Scans
      /\ \A q \in Opened : q.node \in Nodes
  BY OpenedTyped, SysResAssumption
     DEF TypeInv, TypeOK, Alone, SysResAssumption, Requests
<1>1. CASE Still
  BY <1>0, <1>1, StillKeeps DEF Waits
<1>2. CASE NewTn \/ DeleteTn
  <2>1. UNCHANGED <<state, cur, scan, req_list, resmsg>>
    BY <1>2 DEF NewTn, DeleteTn
  <2>2. Opened' = Opened
    BY <2>1, OpenedKept
  <2>3. cur # 0 /\ pnd[cur].state = "WAIT_ACK" => pnd'[cur].state = "WAIT_ACK"
    BY <1>0, <1>2, StateByReport
  <2>. QED
    BY <1>0, <2>1, <2>2, <2>3 DEF Waits
<1>3. ASSUME NEW e \in req_list, \/ Timeout(e) \/ \E a \in answers : Answer(e, a)
      PROVE  Waits'
  <2>1. /\ UNCHANGED <<state, cur, scan>> /\ Opened' \subseteq Opened
        /\ Opened' = {} \/ pnd'[cur].state = "WAIT_ACK"
    BY <1>3, CalledBack
  <2>2. scan = NoScan
    BY CallIsOfCur
  <2>. QED
    BY <1>0, <2>1, <2>2 DEF Waits
<1>4. CASE Resm
  <2>0. \/ Opened = {}
        \/ cur # 0 /\ scan = NoScan /\ pnd[cur].state = "WAIT_ACK"
    BY <1>4, NothingOpened
  <2>1. CASE AddCn \/ PushCommit \/ EndServe \/ \E n \in Nodes : PickOnline(n) \/ PickOffline(n)
    <3>1. scan' = NoScan
      <4>1. CASE state \in {"BOOT", "IDLE"} /\ UNCHANGED scan
        BY <1>0, <4>1 DEF Waits
      <4>2. CASE EndServe
        BY <4>2 DEF EndServe, Serving
      <4>. QED
        BY <2>1, <4>1, <4>2 DEF AddCn, PushCommit, PickOnline, PickOffline
    <3>2. Opened = {}
      <4>1. CASE state \in {"BOOT", "IDLE"}
        BY <1>0, <2>0, <4>1
      <4>2. CASE EndServe
        BY <2>0, <4>2 DEF EndServe, Serving
      <4>. QED
        BY <2>1, <4>1, <4>2 DEF AddCn, PushCommit, PickOnline, PickOffline
    <3>3. ~(DownloadResId \/ AddRcvRes \/ ScanEnd)
      <4>1. CASE state \in {"BOOT", "IDLE"}
        BY <1>0, <1>4, <4>1, ScanSent DEF DownloadResId, AddRcvRes, Serving
      <4>2. CASE EndServe
        BY <1>4, <4>2, ScanSent DEF EndServe, DownloadResId, AddRcvRes, Serving, NoScan
      <4>. QED
        BY <2>1, <4>1, <4>2 DEF AddCn, PushCommit, PickOnline, PickOffline
    <3>4. Opened' = {}
      BY <1>4, <3>2, <3>3, OpenedByResm
    <3>. QED
      BY <3>1, <3>4 DEF Waits
  <2>2. CASE DownloadResId \/ AddRcvRes
    <3>1. state = "ONLINE" /\ UNCHANGED <<state, cur, scan>> /\ scan = NoScan
      BY <2>2 DEF DownloadResId, AddRcvRes, Serving
    <3>2. Opened = {} /\ cur \in Nodes
      BY <1>0, <2>0, <2>2, <3>1 DEF DownloadResId, AddRcvRes, Serving
    <3>3. CASE Opened' = Opened
      BY <3>1, <3>2, <3>3 DEF Waits
    <3>4. ASSUME NEW q, Opened' = {q}, q.node = cur, q.kind \in {"id", "rcv"},
                 NodeState(cur, "WAIT_ACK")
          PROVE  Waits'
      <4>1. pnd'[cur].state = "WAIT_ACK"
        BY <1>0, <3>2, <3>4, StateSet
      <4>. QED
        BY <3>1, <3>4, <4>1 DEF Waits
    <3>5. ~ScanEnd
      BY <1>4, <3>1, ScanSent DEF NoScan
    <3>. QED
      BY <1>4, <2>2, <3>3, <3>4, <3>5, OpenedByResm
  <2>3. CASE AddTrsRes \/ DeleteNode
    <3>1. state \in {"ONLINE", "OFFLINE"} /\ UNCHANGED <<state, cur>> /\ scan = NoScan
      BY <2>3 DEF AddTrsRes, DeleteNode, Serving
    <3>2. Opened = {} /\ cur \in Nodes
      BY <1>0, <2>0, <2>3, <3>1 DEF AddTrsRes, DeleteNode, Serving
    <3>3. ~(DownloadResId \/ AddRcvRes \/ ScanEnd)
      BY <1>4, <2>3, <3>1, ScanSent
         DEF AddTrsRes, DeleteNode, DownloadResId, AddRcvRes, Serving, NoScan
    <3>4. Opened' = {}
      BY <1>4, <3>2, <3>3, OpenedByResm
    <3>5. UNCHANGED scan \/ NodeState(cur, "WAIT_ACK")
      BY <2>3 DEF AddTrsRes, DeleteNode
    <3>6. CASE UNCHANGED scan
      BY <3>1, <3>4, <3>6 DEF Waits
    <3>7. CASE NodeState(cur, "WAIT_ACK")
      <4>1. pnd'[cur].state = "WAIT_ACK"
        BY <1>0, <3>2, <3>7, StateSet
      <4>. QED
        BY <1>0, <3>1, <3>2, <3>4, <4>1 DEF Waits
    <3>. QED
      BY <3>5, <3>6, <3>7
  <2>4. CASE ScanTest \/ ScanSet
    <3>1. UNCHANGED <<state, cur, pnd, req_list, resmsg>>
      BY <2>4 DEF ScanTest, ScanSet
    <3>2. scan # NoScan
      <4>1. CASE ScanTest
        BY <4>1, SMT DEF ScanTest, NoScan
      <4>2. CASE ScanSet
        BY <4>2 DEF ScanSet, NoScan
      <4>. QED
        BY <2>4, <4>1, <4>2
    <3>3. Opened' = Opened /\ Opened = {}
      BY <2>0, <3>1, <3>2, OpenedKept
    <3>. QED
      BY <1>0, <3>1, <3>2, <3>3 DEF Waits
  <2>5. CASE ScanEnd
    <3>1. UNCHANGED <<state, cur>> /\ scan' = NoScan /\ scan # NoScan /\ cur \in Nodes
      BY <1>4, <2>5, ScanSent DEF ScanEnd, NoScan
    <3>2. Opened = {} /\ pnd[cur].state = "WAIT_ACK" /\ state \in {"ONLINE", "OFFLINE"}
      BY <1>0, <2>0, <3>1 DEF Waits
    <3>3. ~(DownloadResId \/ AddRcvRes)
      BY <3>1 DEF DownloadResId, AddRcvRes, Serving
    <3>4. CASE Opened' = Opened
      BY <3>1, <3>2, <3>4 DEF Waits
    <3>5. ASSUME NEW q, Opened' = {q}, q.node = cur, UNCHANGED pnd,
                 q.kind = IF state = "ONLINE" THEN "trs" ELSE "del"
          PROVE  Waits'
      BY <3>1, <3>2, <3>5 DEF Waits
    <3>. QED
      BY <1>4, <2>5, <3>4, <3>5, OpenedByResm
  <2>. QED
    BY <1>4, <2>1, <2>2, <2>3, <2>4, <2>5 DEF Resm
<1>. QED
  BY <1>1, <1>2, <1>3, <1>4, StepIs

\* A call under way was so before, or has a number that nobody holds.
LEMMA OpenedWasOrIsNew ==
  ASSUME TypeInv, Alone, [Next]_vars
  PROVE  \A q \in Opened' : q \in Opened \/ (Resm /\ q.sessn \notin SessnInUse)
<1>0. TypeOK
  BY DEF TypeInv
<1>1. CASE NewTn \/ DeleteTn
  <2>1. UNCHANGED <<req_list, resmsg>>
    BY <1>1 DEF NewTn, DeleteTn
  <2>. QED
    BY <2>1, OpenedKept
<1>2. CASE Resm
  BY <1>2, OpenedByResm
<1>. QED
  BY <1>0, <1>1, <1>2, StepIs, StillKeeps, OpenedByTimeout, OpenedByAnswer

LEMMA OpenedOneNext == OneRequest' => \A p, q \in Opened' : p = q
<1>1. (OneRequest => \A p, q \in Opened : p = q)'
  BY OpenedOne, PTL
<1>. QED
  BY <1>1

LEMMA NumberedStep ==
  ASSUME TypeInv, Alone, Bodies, [Next]_vars
  PROVE  Numbered'
<1>0. TypeOK /\ Numbered
  BY DEF TypeInv, Alone
<1>1. ASSUME NEW n \in Nodes, NEW i \in 1..Len(calls'[n]), NEW q \in Opened',
             calls'[n][i].sessn = q.sessn
      PROVE  calls'[n][i] = q
  <2>1. CASE calls'[n][i] \in Opened'
    BY <2>1, OneRequestStep, OpenedOneNext
  <2>2. ASSUME NEW j \in 1..Len(calls[n]), calls'[n][i] = calls[n][j]
        PROVE  calls'[n][i] = q
    <3>1. calls[n][j].sessn \in SessnInUse
      BY DEF SessnInUse
    <3>2. q \in Opened
      BY <1>1, <2>2, <3>1, OpenedWasOrIsNew
    <3>. QED
      BY <1>0, <1>1, <2>2, <3>2 DEF Numbered
  <2>. QED
    BY <2>1, <2>2, CopiesAreOld
<1>2. ASSUME NEW a \in answers'
      PROVE  \E q \in Called' : a.sessn = q.sessn /\ a.kind = q.kind
  <2>1. CASE UNCHANGED <<answers, req_list>>
    BY <1>0, <1>2, <2>1 DEF Numbered, Called
  <2>2. CASE ResmsgProc
    <3>1. UNCHANGED answers /\ req_list \subseteq req_list'
      BY <2>2 DEF ResmsgProc
    <3>. QED
      BY <1>0, <1>2, <3>1 DEF Numbered, Called
  <2>3. ASSUME NEW n \in Nodes, Serve(n)
        PROVE  \E q \in Called' : a.sessn = q.sessn /\ a.kind = q.kind
    <3>. DEFINE q == Head(calls[n])
    <3>1. q \in Requests /\ 1 \in 1..Len(calls[n]) /\ q = calls[n][1] /\ UNCHANGED req_list
      BY <1>0, <2>3, Dequeued DEF Serve, TypeOK, cnvars
    <3>2. CASE UNCHANGED answers
      BY <2>1, <3>1, <3>2
    <3>3. ASSUME NEW tlen \in {0, 1}, Reply(n, q, tlen)
          PROVE  \E p \in Called' : a.sessn = p.sessn /\ a.kind = p.kind
      <4>. HIDE DEF q
      <4>1. \/ a \in answers
            \/ /\ a = [sessn |-> q.sessn, kind |-> q.kind, from |-> n, tlen |-> tlen]
               /\ \E e \in req_list : e.req.sessn = a.sessn
        BY <1>0, <1>2, <3>1, <3>3, Replied
      <4>2. CASE a \in answers
        BY <1>0, <3>1, <4>2 DEF Numbered, Called
      <4>3. CASE /\ a = [sessn |-> q.sessn, kind |-> q.kind, from |-> n, tlen |-> tlen]
                 /\ \E e \in req_list : e.req.sessn = a.sessn
        <5>1. a.sessn = q.sessn /\ a.kind = q.kind
          BY <4>3
        <5>2. PICK e \in req_list : e.req.sessn = a.sessn
          BY <4>3
        <5>3. e.req \in Called /\ e.req \in Opened
          BY DEF Called, Opened
        <5>4. q = e.req
          BY <1>0, <3>1, <5>1, <5>2, <5>3 DEF Numbered
        <5>. QED
          BY <3>1, <5>1, <5>3, <5>4 DEF Called
      <4>. QED
        BY <4>1, <4>2, <4>3
    <3>4. tn[n].tlen \in {0, 1}
      BY <1>0 DEF TypeOK, Tables
    <3>. HIDE DEF q
    <3>5. UNCHANGED answers \/ Reply(n, q, tn[n].tlen) \/ Reply(n, q, 1)
      BY <2>3 DEF Serve, q
    <3>. QED
      BY <3>2, <3>3, <3>4, <3>5
  <2>4. ASSUME NEW e \in req_list, Timeout(e) \/ \E b \in answers : Answer(e, b)
        PROVE  \E q \in Called' : a.sessn = q.sessn /\ a.kind = q.kind
    <3>1. /\ a \in answers /\ \E f \in req_list' : f.req.sessn = a.sessn
      BY <1>2, <2>4 DEF Timeout, Answer, Awaiting
    <3>2. a.sessn = e.req.sessn /\ a.kind = e.req.kind /\ Opened = {e.req}
      BY <3>1, CallIsOfCur
    <3>3. PICK f \in req_list' : f.req.sessn = a.sessn
      BY <3>1
    <3>4. f.req \in Called' /\ f.req \in Opened'
      BY DEF Called, Opened
    <3>5. f.req = e.req
      BY <1>0, <2>4, <3>2, <3>4, OpenedByTimeout, OpenedByAnswer
    <3>. QED
      BY <3>2, <3>4, <3>5
  <2>5. CASE Resm
    <3>1. UNCHANGED answers
      BY <2>5 DEF Resm, AddCn, PickOnline, PickOffline, PushCommit, DownloadResId, AddRcvRes,
           AddTrsRes, DeleteNode, ScanTest, ScanSet, ScanEnd, EndServe
    <3>. QED
      BY <2>1, <2>5, <3>1, ResmSends
  <2>6. CASE \/ NewTn \/ DeleteTn \/ UNCHANGED vars
             \/ \E n \in Nodes : Join(n) \/ Leave(n)
    BY <2>1, <2>6 DEF NewTn, DeleteTn, Join, Leave, vars, cnvars
  <2>. QED
    BY <2>2, <2>3, <2>4, <2>5, <2>6, StepIs DEF Still
<1>. QED
  BY <1>1, <1>2 DEF Numbered

LEMMA AloneInit == Init => Alone
BY DEF Init, Alone, OneRequest, OneServed, Waits, Numbered, Opened, Called, Queued, NoScan,
       NoNode, Resting

LEMMA AloneStep ==
  ASSUME TypeInv, Alone, Bodies, [Next]_vars
  PROVE  Alone'
BY OneRequestStep, OneServedStep, WaitsStep, NumberedStep DEF Alone

(***************************************************************************)
(* resm serves one node at a time and waits for one call, as long as every *)
(* answer has a body: no other node is in the middle of its service, a     *)
(* callback changes the node that is served and no other, and a copy or    *)
(* an answer that is still on its way from an earlier call is not mistaken *)
(* for one of this call.                                                   *)
(***************************************************************************)
THEOREM DistributionAlone == Spec /\ []Bodies => []Alone
<1>. QED
  BY AloneInit, AloneStep, DistributionTyped, PTL DEF Spec

-----------------------------------------------------------------------------
(***************************************************************************)
(* Which resources are active.  Those of a node are from the time they are *)
(* placed to the time they are freed, and the states of the node and of    *)
(* resm say when that may be.                                              *)
(***************************************************************************)
Inactive(n) == Sends(n) \cap Active = {}

Released ==
  /\ \A n \in Nodes :
       Inactive(n) \/ pnd[n].state \in {"WAIT_ACK", "ADD_FINISH", "FAIL", "DEL_RES"}
  /\ \A q \in Opened : q.kind \in {"id", "rcv"} => Inactive(cur)
  /\ state = "OFFLINE" /\ pnd[cur].state # "DEL_RES" => Inactive(cur)
  /\ state = "BOOT" => Active = {}

LEMMA SendsApart ==
  ASSUME NEW m \in Nodes \cup {0}, NEW n \in Nodes \cup {0}, m # n
  PROVE  Sends(m) \cap Sends(n) = {}
BY SysResAssumption DEF SysResAssumption, Sends

\* The steps that give or take places.
LEMMA PlaceBySteps ==
  ASSUME TypeInv, [Next]_vars
  PROVE  \/ UNCHANGED place
         \/ Resm /\ AddCn /\ place' = Grant(0)
         \/ Resm /\ AddTrsRes /\ place' = Grant(cur)
         \/ /\ Resm /\ DeleteNode
            /\ place' = [r \in Res |-> IF r \in Sends(cur) THEN 0 ELSE place[r]]
<1>1. CASE Still
  BY <1>1, StillKeeps
<1>2. CASE \/ NewTn \/ DeleteTn
           \/ \E e \in req_list : Timeout(e) \/ \E a \in answers : Answer(e, a)
  BY <1>2 DEF NewTn, DeleteTn, Timeout, Answer
<1>3. CASE Resm
  BY <1>3 DEF Resm, AddCn, PickOnline, PickOffline, PushCommit, DownloadResId, AddRcvRes,
       AddTrsRes, DeleteNode, ScanTest, ScanSet, ScanEnd, EndServe
<1>. QED
  BY <1>1, <1>2, <1>3, StepIs

LEMMA GrantedOthers ==
  ASSUME TypeInv, NEW m \in Nodes \cup {0}, NEW n \in Nodes \cup {0}, m # n, place' = Grant(m)
  PROVE  /\ \A r \in Sends(n) : place'[r] = place[r]
         /\ Inactive(n) => Inactive(n)'
<1>1. place \in [Res -> Places \cup {0}] /\ place' \in [Res -> Places \cup {0}]
  BY Granted DEF TypeInv, TypeOK
<1>2. ASSUME NEW r \in Sends(n) PROVE place'[r] = place[r]
  BY <1>1, <1>2, Granted, SendsApart, SendsIsFinite
<1>. QED
  BY <1>2 DEF Inactive, Active, Sends

LEMMA FreedOthers ==
  ASSUME TypeInv, NEW m \in Nodes, NEW n \in Nodes \cup {0},
         place' = [r \in Res |-> IF r \in Sends(m) THEN 0 ELSE place[r]]
  PROVE  /\ m # n => \A r \in Sends(n) : place'[r] = place[r]
         /\ Inactive(n) => Inactive(n)'
         /\ Inactive(m)'
<1>1. \A r \in Res : place'[r] = IF r \in Sends(m) THEN 0 ELSE place[r]
  OBVIOUS
<1>2. m # n => \A r \in Sends(n) : place'[r] = place[r]
  BY <1>1, SendsApart, SendsIsFinite
<1>. QED
  BY <1>1, <1>2 DEF Inactive, Active, Sends

LEMMA NoneWhenIdle == TypeInv' /\ Alone' /\ cur' = 0 => Opened' = {}
<1>1. TypeInv /\ Alone /\ cur = 0 => Opened = {}
  BY OpenedTyped, SysResAssumption
     DEF Alone, Waits, TypeInv, Requests, SysResAssumption
<1>2. (TypeInv /\ Alone /\ cur = 0 => Opened = {})'
  BY <1>1, PTL
<1>. QED
  BY <1>2

LEMMA ReleasedStep ==
  ASSUME TypeInv, Alone, Alone', Bodies, Released, [Next]_vars
  PROVE  Released'
<1>0. /\ TypeOK /\ 0 \notin Nodes /\ cur \in Nodes \cup {0}
      /\ cur = 0 <=> state \in {"BOOT", "IDLE"}
      /\ pnd \in [Nodes -> Entries]
  BY SysResAssumption DEF TypeInv, TypeOK, SysResAssumption
<1>a. UNCHANGED place => \A n : Inactive(n)' <=> Inactive(n)
  BY DEF Inactive, Sends, Active
<1>1. CASE Still
  <2>1. UNCHANGED <<pnd, state, cur, place>> /\ Opened' = Opened
    BY <1>1, StillKeeps
  <2>2. Active' = Active
    BY <2>1 DEF Active
  <2>. QED
    BY <1>a, <2>1, <2>2 DEF Released
<1>2. CASE NewTn \/ DeleteTn
  <2>1. UNCHANGED <<state, cur, place, req_list, resmsg>>
    BY <1>2 DEF NewTn, DeleteTn
  <2>2. \A m \in Nodes : \/ pnd'[m].state = pnd[m].state
                         \/ pnd[m].state = "DEL_FINISH" /\ pnd'[m].state = "INIT"
    BY <1>0, <1>2, StateByReport
  <2>3. Active' = Active /\ Opened' = Opened
    BY <2>1, OpenedKept DEF Active
  <2>4. \A n \in Nodes :
       Inactive(n)' \/ pnd'[n].state \in {"WAIT_ACK", "ADD_FINISH", "FAIL", "DEL_RES"}
    BY <1>a, <2>1, <2>2 DEF Released
  <2>5. state = "OFFLINE" /\ pnd'[cur].state # "DEL_RES" => Inactive(cur)'
    BY <1>0, <1>a, <2>1, <2>2 DEF Released
  <2>. QED
    BY <1>a, <2>1, <2>3, <2>4, <2>5 DEF Released
<1>3. ASSUME NEW e \in req_list, \/ Timeout(e) \/ \E a \in answers : Answer(e, a)
      PROVE  Released'
  <2>1. /\ UNCHANGED <<state, cur, place>> /\ Opened' \subseteq Opened
        /\ \A m \in Nodes : m # cur => pnd'[m].state = pnd[m].state
        /\ state = "ONLINE" => pnd'[cur].state \in
             {"ADD_RCV_RES", "ADD_TRS_RES", "WAIT_ACK", "ADD_FINISH", "FAIL"}
        /\ state = "OFFLINE" => pnd'[cur].state \in {"WAIT_ACK", "DEL_FINISH", "FAIL"}
        /\ pnd'[cur].state \in {"ADD_RCV_RES", "ADD_TRS_RES"} => e.req.kind \in {"id", "rcv"}
    BY <1>3, CalledBack
  <2>2. /\ pnd[cur].state = "WAIT_ACK" /\ state \in {"ONLINE", "OFFLINE"} /\ cur \in Nodes
        /\ Opened = {e.req}
    BY CallIsOfCur
  <2>3. /\ e.req.kind \in {"id", "rcv"} => Inactive(cur)
        /\ state = "OFFLINE" => Inactive(cur)
    BY <2>2 DEF Released
  <2>4. \A n \in Nodes :
       Inactive(n)' \/ pnd'[n].state \in {"WAIT_ACK", "ADD_FINISH", "FAIL", "DEL_RES"}
    BY <1>a, <2>1, <2>2, <2>3 DEF Released
  <2>. QED
    BY <1>a, <2>1, <2>2, <2>3, <2>4 DEF Released
<1>4. CASE Resm
  <2>1. CASE AddCn
    <3>1. /\ state = "BOOT" /\ cur = 0 /\ cur' = 0 /\ state' = "IDLE" /\ place' = Grant(0)
          /\ UNCHANGED pnd
      BY <1>0, <2>1 DEF AddCn
    <3>2. \A n \in Nodes : Inactive(n)
      BY <3>1 DEF Released, Inactive
    <3>3. \A n \in Nodes : Inactive(n)'
      BY <1>0, <3>1, <3>2, GrantedOthers
    <3>4. Opened' = {}
      BY <3>1, TypeStep, NoneWhenIdle
    <3>. QED
      BY <3>1, <3>3, <3>4 DEF Released
  <2>2. ASSUME NEW n \in Nodes, PickOnline(n) PROVE Released'
    <3>1. /\ state' = "ONLINE" /\ cur' = n /\ UNCHANGED place
          /\ pnd[n].state \in {"INIT", "DEL_FINISH"}
      BY <2>2 DEF PickOnline, Comes
    <3>2. \A m \in Nodes : m # n => pnd'[m].state = pnd[m].state
      BY <1>0, <2>2 DEF PickOnline, Entries
    <3>3. Inactive(n)
      BY <3>1 DEF Released
    <3>. QED
      BY <1>a, <3>1, <3>2, <3>3 DEF Released
  <2>3. ASSUME NEW n \in Nodes, PickOffline(n) PROVE Released'
    <3>1. /\ state = "IDLE" /\ state' = "OFFLINE" /\ cur' = n /\ UNCHANGED place
      BY <2>3 DEF PickOffline
    <3>2. /\ \A m \in Nodes : m # n => pnd'[m].state = pnd[m].state
          /\ pnd'[n].state = "DEL_RES"
      BY <1>0, <2>3 DEF PickOffline, Entries
    <3>3. Opened' = {}
      BY <3>1, <3>2, Zenon DEF Alone, Waits
    <3>. QED
      BY <1>a, <3>1, <3>2, <3>3 DEF Released
  <2>4. CASE PushCommit \/ ScanTest \/ ScanSet
    <3>1. UNCHANGED <<state, cur, place, pnd>>
      BY <2>4 DEF PushCommit, ScanTest, ScanSet
    <3>2. Opened' = {} \/ Opened' = Opened
      <4>1. CASE PushCommit
        <5>1. cur' = 0
          BY <1>0, <4>1 DEF PushCommit
        <5>. QED
          BY <5>1, TypeStep, NoneWhenIdle
      <4>2. CASE ScanTest \/ ScanSet
        BY <4>2, OpenedKept DEF ScanTest, ScanSet
      <4>. QED
        BY <2>4, <4>1, <4>2
    <3>3. Active' = Active
      BY <3>1 DEF Active
    <3>. QED
      BY <1>a, <3>1, <3>2, <3>3 DEF Released
  <2>5. CASE DownloadResId \/ AddRcvRes
    <3>1. /\ UNCHANGED <<state, cur, place>> /\ cur \in Nodes /\ state = "ONLINE"
          /\ pnd[cur].state \in {"DOWNLOAD_RES_ID", "ADD_RCV_RES"}
          /\ \E s \in {"WAIT_ACK", "ADD_TRS_RES"} : NodeState(cur, s)
      BY <1>0, <2>5 DEF DownloadResId, AddRcvRes, Serving
    <3>2. Inactive(cur)
      BY <3>1 DEF Released
    <3>3. \A m \in Nodes : m # cur => pnd'[m].state = pnd[m].state
      BY <1>0, <3>1, StateSet
    <3>. QED
      BY <1>a, <3>1, <3>2, <3>3 DEF Released
  <2>6. CASE AddTrsRes
    <3>1. /\ UNCHANGED <<state, cur>> /\ cur \in Nodes /\ state = "ONLINE" /\ place' = Grant(cur)
          /\ \E s \in {"WAIT_ACK", "ADD_FINISH"} : NodeState(cur, s)
      BY <1>0, <2>6 DEF AddTrsRes, Serving
    <3>2. \A m \in Nodes : m # cur => pnd'[m].state = pnd[m].state /\ (Inactive(m) => Inactive(m)')
      BY <1>0, <3>1, StateSet, GrantedOthers
    <3>3. pnd'[cur].state \in {"WAIT_ACK", "ADD_FINISH"}
      BY <1>0, <3>1, StateSet
    <3>4. Opened' = {}
      <4>1. Opened = {}
        BY <1>4, <2>6, NothingOpened DEF AddTrsRes, Serving
      <4>2. ~(DownloadResId \/ AddRcvRes \/ ScanEnd)
        BY <1>4, <2>6, ScanSent DEF AddTrsRes, DownloadResId, AddRcvRes, Serving, NoScan
      <4>. QED
        BY <1>4, <4>1, <4>2, OpenedByResm
    <3>. QED
      BY <3>1, <3>2, <3>3, <3>4 DEF Released
  <2>7. CASE DeleteNode
    <3>1. /\ UNCHANGED <<state, cur>> /\ cur \in Nodes /\ state = "OFFLINE"
          /\ \E s \in {"WAIT_ACK", "DEL_FINISH"} : NodeState(cur, s)
      BY <1>0, <2>7 DEF DeleteNode, Serving
    <3>2. /\ Inactive(cur)'
          /\ \A m \in Nodes : Inactive(m) => Inactive(m)'
      <4>1. CASE UNCHANGED place /\ Inactive(cur)
        BY <1>a, <3>1, <4>1
      <4>2. CASE place' = [r \in Res |-> IF r \in Sends(cur) THEN 0 ELSE place[r]]
        BY <3>1, <4>2, FreedOthers
      <4>. QED
        BY <2>7, <4>1, <4>2 DEF DeleteNode, Inactive
    <3>3. \A m \in Nodes : m # cur => pnd'[m].state = pnd[m].state
      BY <1>0, <3>1, StateSet
    <3>. QED
      BY <3>1, <3>2, <3>3 DEF Released
  <2>8. CASE ScanEnd
    <3>1. /\ UNCHANGED <<state, cur, place>> /\ cur \in Nodes /\ scan # NoScan
          /\ UNCHANGED pnd \/ (state = "OFFLINE" /\ NodeState(cur, "DEL_FINISH"))
      BY <1>4, <2>8, ScanSent DEF ScanEnd, NoScan
    <3>2. pnd[cur].state = "WAIT_ACK" /\ state \in {"ONLINE", "OFFLINE"}
      BY <1>0, <3>1 DEF Alone, Waits, TypeOK
    <3>3. state = "OFFLINE" => Inactive(cur)
      BY <3>2 DEF Released
    <3>4. /\ \A m \in Nodes : m # cur => pnd'[m].state = pnd[m].state
          /\ state = "ONLINE" => pnd'[cur].state = "WAIT_ACK"
      BY <1>0, <3>1, <3>2, StateSet
    <3>5. \A q \in Opened' : q.kind \notin {"id", "rcv"}
      <4>1. ~(DownloadResId \/ AddRcvRes) /\ Opened = {}
        BY <1>4, <3>1, NothingOpened DEF DownloadResId, AddRcvRes, Serving
      <4>. QED
        BY <1>4, <4>1, OpenedByResm
    <3>. QED
      BY <1>0, <1>a, <3>1, <3>2, <3>3, <3>4, <3>5 DEF Released
  <2>9. CASE EndServe
    <3>1. /\ cur' = 0 /\ state' = "IDLE" /\ UNCHANGED <<pnd, place>>
      BY <2>9 DEF EndServe
    <3>2. Opened' = {}
      BY <3>1, TypeStep, NoneWhenIdle
    <3>. QED
      BY <1>a, <3>1, <3>2 DEF Released
  <2>. QED
    BY <1>4, <2>1, <2>2, <2>3, <2>4, <2>5, <2>6, <2>7, <2>8, <2>9 DEF Resm
<1>. QED
  BY <1>1, <1>2, <1>3, <1>4, StepIs

LEMMA ReleasedInit == Init => Released
BY DEF Init, Released, Inactive, Active, Opened, Called, Queued

(***************************************************************************)
(* "Receptions are added first, transmissions later; its own resources are *)
(* not active yet" (resmgr.c:262): when a node is told what to receive, or *)
(* its resources are placed, none of them is active, for any number of     *)
(* nodes, losses and late answers, as long as every answer has a body.     *)
(***************************************************************************)
THEOREM DistributionOwnInactive == Spec /\ []Bodies => []OwnInactive
<1>1. Released => OwnInactive
  BY DEF Released, OwnInactive, Inactive
<1>2. Spec /\ []Bodies => []Released
  BY ReleasedInit, ReleasedStep, DistributionTyped, DistributionAlone, PTL DEF Spec
<1>. QED
  BY <1>1, <1>2, PTL

-----------------------------------------------------------------------------
\* No two resources share a place.
PlacesApart == \A r, s \in Active : place[r] = place[s] => r = s

LEMMA GrantedApart ==
  ASSUME TypeInv, PlacesApart, NEW n \in Nodes \cup {0}, place' = Grant(n)
  PROVE  PlacesApart'
<1>0. place \in [Res -> Places \cup {0}]
  BY DEF TypeInv, TypeOK
<1>1. /\ \A r \in Res : place'[r] = place[r] \/ place'[r] \in FreePlaces
      /\ \A r, s \in Res : place'[r] = place'[s] /\ place'[r] \in FreePlaces => r = s
  BY <1>0, Granted
<1>2. \A r \in Res : place[r] \notin FreePlaces
  BY DEF FreePlaces
<1>3. ASSUME NEW r \in Res, NEW s \in Res, place'[r] # 0, place'[s] # 0, place'[r] = place'[s]
      PROVE  r = s
  <2>1. CASE place'[r] \in FreePlaces
    BY <1>1, <1>3, <2>1
  <2>2. CASE place'[r] \notin FreePlaces
    <3>1. place'[r] = place[r] /\ place'[s] = place[s]
      BY <1>1, <1>3, <2>2
    <3>. QED
      BY <1>3, <3>1 DEF PlacesApart, Active
  <2>. QED
    BY <2>1, <2>2
<1>. QED
  BY <1>3 DEF PlacesApart, Active

LEMMA PlacesApartStep ==
  ASSUME TypeInv, PlacesApart, [Next]_vars
  PROVE  PlacesApart'
<1>0. cur \in Nodes \cup {0}
  BY DEF TypeInv, TypeOK
<1>1. CASE UNCHANGED place
  BY <1>1 DEF PlacesApart, Active
<1>2. CASE place' = [r \in Res |-> IF r \in Sends(cur) THEN 0 ELSE place[r]]
  <2>1. \A r \in Res : place'[r] # 0 => place'[r] = place[r]
    BY <1>2
  <2>. QED
    BY <2>1 DEF PlacesApart, Active
<1>. QED
  BY <1>0, <1>1, <1>2, PlaceBySteps, GrantedApart

(***************************************************************************)
(* No two resources are in the same place: what resfrm_alloc gives is free *)
(* (sysres.c:1411), and a place is free only when its resource is not      *)
(* active.  This holds whatever is lost or answered without a body.        *)
(***************************************************************************)
THEOREM DistributionPlacesApart == Spec => []PlacesApart
<1>1. Init => PlacesApart
  BY DEF Init, PlacesApart, Active
<1>. QED
  BY <1>1, PlacesApartStep, DistributionTyped, PTL DEF Spec

-----------------------------------------------------------------------------
\* What the CN receives, the messages that are on their way to it included.
CnTold ==
  /\ \A c \in cnrcv :
       /\ c[1] \in Rcv[0]
       /\ \/ c \in Cells(Active, place)
          \/ \E i \in 1..Len(resmsg) : resmsg[i].type = "DEL_RCV_FIXS" /\ resmsg[i].cell = c
  /\ \A i \in 1..Len(resmsg) :
       resmsg[i].type = "ADD_RCV_FIXS" =>
         resmsg[i].cell \in Cells(Active, place) /\ resmsg[i].cell[1] \in Rcv[0]

LEMMA CnRead ==
  ASSUME TypeInv, CnTold, ResmsgProc
  PROVE  CnTold'
<1>. DEFINE m == Head(resmsg)
<1>0. resmsg \in Seq(Messages) /\ resmsg # <<>> /\ resmsg' = Tail(resmsg)
  BY DEF TypeInv, TypeOK, ResmsgProc
<1>1. /\ 1 \in 1..Len(resmsg) /\ m = resmsg[1]
      /\ \A i \in 1..Len(resmsg') : i + 1 \in 1..Len(resmsg) /\ resmsg'[i] = resmsg[i + 1]
      /\ \A i \in 1..Len(resmsg) :
           i = 1 \/ (i - 1 \in 1..Len(resmsg') /\ resmsg'[i - 1] = resmsg[i])
  BY <1>0, Dequeued
<1>2. UNCHANGED place
  BY DEF ResmsgProc
<1>3. Cells(Active, place)' = Cells(Active, place)
  BY <1>2 DEF Cells, Active
<1>. HIDE DEF m
<1>4. \A i \in 1..Len(resmsg') :
        resmsg'[i].type = "ADD_RCV_FIXS" =>
          resmsg'[i].cell \in Cells(Active, place) /\ resmsg'[i].cell[1] \in Rcv[0]
  BY <1>1 DEF CnTold
<1>5. ASSUME NEW c \in cnrcv, m.type = "DEL_RCV_FIXS" => c # m.cell
      PROVE  /\ c[1] \in Rcv[0]
             /\ \/ c \in Cells(Active, place)
                \/ \E i \in 1..Len(resmsg') :
                     resmsg'[i].type = "DEL_RCV_FIXS" /\ resmsg'[i].cell = c
  <2>1. CASE c \in Cells(Active, place)
    BY <2>1 DEF CnTold
  <2>2. ASSUME NEW i \in 1..Len(resmsg), resmsg[i].type = "DEL_RCV_FIXS", resmsg[i].cell = c
        PROVE  \E j \in 1..Len(resmsg') :
                 resmsg'[j].type = "DEL_RCV_FIXS" /\ resmsg'[j].cell = c
    <3>1. i # 1
      BY <1>1, <1>5, <2>2
    <3>. QED
      BY <1>1, <2>2, <3>1
  <2>. QED
    BY <2>1, <2>2 DEF CnTold
<1>6. \A c \in cnrcv' :
        /\ c[1] \in Rcv[0]
        /\ \/ c \in Cells(Active, place)
           \/ \E i \in 1..Len(resmsg') :
                resmsg'[i].type = "DEL_RCV_FIXS" /\ resmsg'[i].cell = c
  <2>1. CASE m.type = "ADD_RCV_FIXS" /\ cnrcv' = cnrcv \cup {m.cell}
    <3>1. m.cell \in Cells(Active, place) /\ m.cell[1] \in Rcv[0]
      BY <1>1, <2>1 DEF CnTold
    <3>. QED
      BY <1>5, <2>1, <3>1
  <2>2. CASE m.type = "DEL_RCV_FIXS" /\ cnrcv' = cnrcv \ {m.cell}
    BY <1>5, <2>2
  <2>3. CASE m.type \in {"r", "COMMIT_FIXS"} /\ UNCHANGED cnrcv
    BY <1>5, <2>3
  <2>. QED
    BY <2>1, <2>2, <2>3 DEF ResmsgProc, m
<1>. QED
  BY <1>3, <1>4, <1>6 DEF CnTold

\* An active cell stays, unless it is of the node that is served.
LEMMA CellsKept ==
  ASSUME NEW rs, \A r \in Active : r \notin rs => place'[r] = place[r]
  PROVE  \A c \in Cells(Active, place) : c[1] \notin rs => c \in Cells(Active, place)'
BY DEF Cells, Active

LEMMA CnTold_Resm ==
  ASSUME TypeInv, Released, CnTold, Resm
  PROVE  CnTold'
<1>0. /\ TypeOK /\ resmsg = <<>> /\ place \in [Res -> Places \cup {0}]
      /\ cnrcv \subseteq Res \X Places
  BY DEF Resm, TypeInv, TypeOK
<1>1. \A c \in cnrcv : c[1] \in Rcv[0] /\ c \in Cells(Active, place)
  BY <1>0, SMT DEF CnTold
<1>2. UNCHANGED cnrcv
  BY DEF Resm, AddCn, PickOnline, PickOffline, PushCommit, DownloadResId, AddRcvRes, AddTrsRes,
         DeleteNode, ScanTest, ScanSet, ScanEnd, EndServe
<1>3. ASSUME cnrcv \subseteq Cells(Active, place)',
             \A i \in 1..Len(resmsg') : resmsg'[i].type # "ADD_RCV_FIXS"
      PROVE  CnTold'
  BY <1>1, <1>2, <1>3 DEF CnTold
<1>4. CASE UNCHANGED place /\ (UNCHANGED resmsg \/ ~(AddTrsRes \/ DeleteNode))
  <2>1. cnrcv \subseteq Cells(Active, place)'
    BY <1>1, <1>4 DEF Cells, Active
  <2>2. CASE UNCHANGED resmsg
    BY <1>0, <1>3, <2>1, <2>2, SMT
  <2>3. CASE resmsg' = Append(resmsg, [type |-> "COMMIT_FIXS"])
    <3>1. \A i \in 1..Len(resmsg') : resmsg'[i].type # "ADD_RCV_FIXS"
      BY <1>0, <2>3, SMT
    <3>. QED
      BY <1>3, <2>1, <3>1
  <2>4. ASSUME NEW kind, NEW cells, Launched(kind, cells) PROVE CnTold'
    BY <1>3, <2>1, <2>4 DEF Launched
  <2>5. CASE DownloadResId \/ AddRcvRes \/ ScanEnd
    <3>1. UNCHANGED resmsg \/ \E kind, cells : Launched(kind, cells)
      BY <2>5, IdSent, RcvSent, ScanSent
    <3>. QED
      BY <2>2, <2>4, <3>1
  <2>. QED
    BY <1>4, <2>2, <2>3, <2>5 DEF Resm, AddCn, PickOnline, PickOffline, PushCommit,
         ScanTest, ScanSet, EndServe
<1>5. CASE AddCn /\ place' = Grant(0)
  <2>1. state = "BOOT" /\ UNCHANGED resmsg
    BY <1>5 DEF AddCn
  <2>2. cnrcv = {}
    BY <1>1, <2>1 DEF Released, Cells
  <2>. QED
    BY <1>0, <1>3, <2>1, <2>2, SMT
<1>6. CASE AddTrsRes /\ place' = Grant(cur)
  <2>. DEFINE cells == Cells(Sends(cur) \cap Rcv[0], place')
  <2>1. cur \in Nodes /\ Inactive(cur)
    BY <1>0, <1>6 DEF AddTrsRes, Serving, Released, TypeOK
  <2>2. \A r \in Active : r \notin Sends(cur) /\ place'[r] = place[r]
    BY <1>0, <1>6, <2>1, Granted DEF Inactive, Active
  <2>3. cnrcv \subseteq Cells(Active, place)'
    BY <1>1, <2>2 DEF Cells, Active
  <2>4. \/ UNCHANGED resmsg
        \/ /\ resmsg' = Local("ADD_RCV_FIXS", cells) /\ IsFiniteSet(cells)
           /\ \A r \in Sends(cur) : place'[r] # 0
    BY <1>6, TrsPlaced
  <2>5. CASE UNCHANGED resmsg
    BY <1>0, <1>3, <2>3, <2>5, SMT
  <2>6. CASE /\ resmsg' = Local("ADD_RCV_FIXS", cells) /\ IsFiniteSet(cells)
             /\ \A r \in Sends(cur) : place'[r] # 0
    <3>1. \A c \in cells : c \in Cells(Active, place)' /\ c[1] \in Rcv[0]
      BY <2>1, <2>6, SendsIsFinite DEF Cells, Active
    <3>. DEFINE list == Local("ADD_RCV_FIXS", cells)
    <3>. HIDE DEF cells
    <3>2. \A i \in 1..Len(list) :
            list[i].type = "ADD_RCV_FIXS" /\ list[i].cell \in cells
      BY <2>6, LocalLists
    <3>. HIDE DEF list
    <3>3. resmsg' = list
      BY <2>6 DEF list
    <3>. QED
      BY <1>1, <1>2, <2>3, <3>1, <3>2, <3>3 DEF CnTold
  <2>. QED
    BY <2>4, <2>5, <2>6
<1>7. CASE DeleteNode /\ place' = [r \in Res |-> IF r \in Sends(cur) THEN 0 ELSE place[r]]
  <2>. DEFINE cells == Cells(Sends(cur) \cap Active \cap Rcv[0], place)
  <2>1. \A r \in Active : r \notin Sends(cur) => place'[r] = place[r]
    BY <1>7 DEF Active
  <2>2. \A c \in Cells(Active, place) : c[1] \notin Sends(cur) => c \in Cells(Active, place)'
    BY <2>1, CellsKept
  <2>3. \A c \in cnrcv : c[1] \in Sends(cur) => c \in cells
    BY <1>1 DEF Cells
  <2>4. \/ UNCHANGED <<place, resmsg>>
        \/ resmsg' = Local("DEL_RCV_FIXS", cells) /\ IsFiniteSet(cells)
    BY <1>7, NodeDeleted
  <2>5. CASE resmsg' = Local("DEL_RCV_FIXS", cells) /\ IsFiniteSet(cells)
    <3>. DEFINE list == Local("DEL_RCV_FIXS", cells)
    <3>. HIDE DEF cells
    <3>1. \A i \in 1..Len(list) : list[i].type = "DEL_RCV_FIXS" /\ list[i].cell \in cells
      BY <2>5, LocalLists
    <3>2. \A c \in cells : \E i \in 1..Len(list) :
            list[i].type = "DEL_RCV_FIXS" /\ list[i].cell = c
      BY <2>5, LocalNames
    <3>. HIDE DEF list
    <3>3. resmsg' = list
      BY <2>5 DEF list
    <3>. QED
      BY <1>1, <1>2, <2>2, <2>3, <3>1, <3>2, <3>3 DEF CnTold
  <2>. QED
    BY <1>4, <2>4, <2>5
<1>8. CASE DeleteNode
  BY <1>4, <1>7, <1>8, NodeDeleted
<1>9. CASE AddTrsRes
  BY <1>6, <1>9, TrsPlaced
<1>. QED
  BY <1>4, <1>5, <1>8, <1>9, PlaceBySteps DEF Next

LEMMA CnToldStep ==
  ASSUME TypeInv, Released, CnTold, [Next]_vars
  PROVE  CnTold'
<1>1. CASE UNCHANGED <<resmsg, cnrcv, place>>
  <2>1. Cells(Active, place)' = Cells(Active, place)
    BY <1>1 DEF Cells, Active
  <2>. QED
    BY <1>1, <2>1 DEF CnTold
<1>2. CASE ~(Resm \/ ResmsgProc)
  <2>1. UNCHANGED <<resmsg, cnrcv, place>>
    BY <1>2 DEF Next, Sysm, Join, Leave, Serve, NewTn, DeleteTn, Timeout, Answer, vars, cnvars
  <2>. QED
    BY <1>1, <2>1
<1>. QED
  BY <1>2, CnRead, CnTold_Resm

(***************************************************************************)
(* Once resm's messages are read, what the CN receives is active, and in   *)
(* the place where its sender was granted it, as long as every answer has  *)
(* a body.                                                                 *)
(***************************************************************************)
THEOREM DistributionCnReceivesActive == Spec /\ []Bodies => []CnReceivesActive
<1>1. Init => CnTold
  BY SMT DEF Init, CnTold
<1>2. CnTold => CnReceivesActive
  BY SMT DEF CnTold, CnReceivesActive
<1>3. Spec /\ []Bodies => []Released
  BY ReleasedInit, ReleasedStep, DistributionTyped, DistributionAlone, PTL DEF Spec
<1>. QED
  BY <1>1, <1>2, <1>3, CnToldStep, DistributionTyped, PTL DEF Spec

-----------------------------------------------------------------------------
(***************************************************************************)
(* A node whose loss the CN has yet to deal with is off: it does not come  *)
(* back before (Hasty is FALSE).  Needed to know that a node has forgotten *)
(* its places before they are given away.                                  *)
(***************************************************************************)
Lost(n)     == \E i \in 1..Len(rpt) : rpt[i] = [type |-> "LSNODE", nodeid |-> n]
GoneFrom(n) == Lost(n) \/ pnd[n].offline \/ (state = "OFFLINE" /\ cur = n)

Gone ==
  /\ \A n \in Nodes : tn[n].state = "OFF" => tn[n] = Off /\ calls[n] = <<>>
  /\ \A n \in Nodes : GoneFrom(n) => tn[n].state = "OFF"

LEMMA LostByReport ==
  ASSUME TypeOK, NEW n \in Nodes, NewTn \/ DeleteTn
  PROVE  /\ Lost(n)' => Lost(n)
         /\ pnd'[n].offline => pnd[n].offline \/ Lost(n)
<1>. DEFINE h == Head(rpt)
<1>1. rpt \in Seq(Reports) /\ rpt # <<>> /\ rpt' = Tail(rpt)
  BY DEF TypeOK, NewTn, DeleteTn
<1>2. /\ 1 \in 1..Len(rpt) /\ h = rpt[1] /\ h \in Reports
      /\ \A i \in 1..Len(rpt') : i + 1 \in 1..Len(rpt) /\ rpt'[i] = rpt[i + 1]
  BY <1>1, Dequeued
<1>3. Lost(n)' => Lost(n)
  BY <1>2, Zenon DEF Lost
<1>4. pnd'[n].offline => pnd[n].offline \/ (DeleteTn /\ h.nodeid = n)
  BY StateByReport
<1>5. DeleteTn /\ h.nodeid = n => h = [type |-> "LSNODE", nodeid |-> n]
  BY <1>2 DEF DeleteTn, Reports
<1>. QED
  BY <1>2, <1>3, <1>4, <1>5 DEF Lost

LEMMA LostByJoin ==
  ASSUME TypeOK, NEW m \in Nodes, NEW n \in Nodes, Join(m) \/ Leave(m)
  PROVE  Lost(n)' => Lost(n) \/ (Leave(m) /\ m = n)
<1>1. ASSUME NEW r \in Reports, rpt' = Append(rpt, r), Lost(n)'
      PROVE  Lost(n) \/ r = [type |-> "LSNODE", nodeid |-> n]
  <2>1. \A i \in 1..Len(rpt') : (i \in 1..Len(rpt) /\ rpt'[i] = rpt[i]) \/ rpt'[i] = r
    BY <1>1, Enqueued DEF TypeOK
  <2>. QED
    BY <1>1, <2>1, Zenon DEF Lost
<1>2. CASE Join(m)
  <2>1. [type |-> "NWNODE", nodeid |-> m] \in Reports
    BY DEF Reports
  <2>2. rpt' = Append(rpt, [type |-> "NWNODE", nodeid |-> m])
    BY <1>2 DEF Join
  <2>3. [type |-> "NWNODE", nodeid |-> m] # [type |-> "LSNODE", nodeid |-> n]
    OBVIOUS
  <2>. QED
    BY <1>1, <2>1, <2>2, <2>3
<1>3. CASE Leave(m)
  <2>1. [type |-> "LSNODE", nodeid |-> m] \in Reports
    BY DEF Reports
  <2>2. rpt' = Append(rpt, [type |-> "LSNODE", nodeid |-> m])
    BY <1>3 DEF Leave
  <2>3. [type |-> "LSNODE", nodeid |-> m] = [type |-> "LSNODE", nodeid |-> n] => m = n
    OBVIOUS
  <2>. QED
    BY <1>1, <1>3, <2>1, <2>2, <2>3
<1>. QED
  BY <1>2, <1>3

\* Copies go to nodes on the bus only.
LEMMA SentToTheBus ==
  ASSUME TypeOK, NEW n \in Nodes, ResmsgProc \/ \E e \in req_list : Timeout(e)
  PROVE  calls'[n] = calls[n] \/ tn[n].state # "OFF"
<1>1. ASSUME NEW q \in Requests, NEW late \in {0, 1}, Transmit(q, late)
      PROVE  calls'[n] = calls[n] \/ tn[n].state # "OFF"
  BY <1>1, Transmitted DEF Targets
<1>2. CASE UNCHANGED calls
  BY <1>2
<1>3. CASE ResmsgProc
  <2>. DEFINE m == Head(resmsg)
  <2>1. CASE m.type = "r" /\ Transmit(m.req, 0)
    <3>1. resmsg \in Seq(Messages) /\ resmsg # <<>>
      BY <1>3 DEF ResmsgProc, TypeOK
    <3>2. 1 \in 1..Len(resmsg) /\ m = resmsg[1]
      BY <3>1, Dequeued
    <3>3. m.req \in Requests
      BY <2>1, <3>2, OpenedTyped DEF Opened, Queued
    <3>. HIDE DEF m
    <3>. QED
      BY <1>1, <2>1, <3>3
  <2>. QED
    BY <1>2, <1>3, <2>1 DEF ResmsgProc
<1>4. ASSUME NEW e \in req_list, Timeout(e)
      PROVE  calls'[n] = calls[n] \/ tn[n].state # "OFF"
  <2>1. e.req \in Requests
    BY OpenedTyped DEF Opened, Called
  <2>2. CASE Transmit(e.req, IF OnTheBus(e.req) THEN 1 ELSE 0)
    BY <1>1, <2>1, <2>2
  <2>. QED
    BY <1>2, <1>4, <2>2 DEF Timeout
<1>. QED
  BY <1>3, <1>4

\* Whom the CN takes for gone, step by step.
LEMMA GoneBySteps ==
  ASSUME TypeInv, [Next]_vars, NEW n \in Nodes, GoneFrom(n)', ~GoneFrom(n)
  PROVE  Leave(n)
<1>0. /\ TypeOK /\ pnd \in [Nodes -> Entries] /\ 0 \notin Nodes /\ cur \in Nodes \cup {0}
      /\ cur = 0 <=> state \in {"BOOT", "IDLE"}
  BY SysResAssumption DEF TypeInv, TypeOK, SysResAssumption
<1>1. CASE NewTn \/ DeleteTn
  <2>1. UNCHANGED <<state, cur>>
    BY <1>1 DEF NewTn, DeleteTn
  <2>. QED
    BY <1>0, <1>1, <2>1, LostByReport DEF GoneFrom
<1>2. ASSUME NEW m \in Nodes, Join(m) \/ Leave(m) PROVE Leave(n)
  <2>1. UNCHANGED <<pnd, state, cur>>
    BY <1>2 DEF Join, Leave
  <2>. QED
    BY <1>0, <1>2, <2>1, LostByJoin DEF GoneFrom
<1>3. CASE UNCHANGED <<rpt, pnd, state, cur>>
  BY <1>3 DEF GoneFrom, Lost
<1>4. ASSUME NEW e \in req_list, \/ Timeout(e) \/ \E a \in answers : Answer(e, a)
      PROVE  Leave(n)
  <2>1. UNCHANGED <<rpt, state, cur>>
    BY <1>4 DEF Timeout, Answer
  <2>2. pnd'[n].offline = pnd[n].offline
    BY <1>0, <1>4, StateByCallback
  <2>. QED
    BY <2>1, <2>2 DEF GoneFrom, Lost
<1>5. CASE Resm
  <2>1. UNCHANGED rpt
    BY <1>5 DEF Resm, AddCn, PickOnline, PickOffline, PushCommit, DownloadResId, AddRcvRes,
         AddTrsRes, DeleteNode, ScanTest, ScanSet, ScanEnd, EndServe
  <2>2. ASSUME UNCHANGED <<state, cur>> \/ state' # "OFFLINE",
               pnd'[n].offline = pnd[n].offline
        PROVE  Leave(n)
    BY <2>1, <2>2 DEF GoneFrom, Lost
  <2>3. ASSUME NEW m \in Nodes, PickOnline(m) PROVE Leave(n)
    <3>1. state' # "OFFLINE" /\ pnd'[n].offline = pnd[n].offline
      BY <1>0, <2>3 DEF PickOnline, Entries
    <3>. QED
      BY <2>2, <3>1
  <2>4. ASSUME NEW m \in Nodes, PickOffline(m) PROVE Leave(n)
    <3>1. /\ cur' = m /\ pnd[m].offline
          /\ n # m => pnd'[n].offline = pnd[n].offline
      BY <1>0, <2>4 DEF PickOffline, Entries, Goes
    <3>. QED
      BY <2>1, <3>1 DEF GoneFrom, Lost
  <2>5. ASSUME NEW s, NodeState(cur, s), cur \in Nodes, UNCHANGED <<state, cur>>
        PROVE  Leave(n)
    <3>1. pnd'[n].offline = pnd[n].offline
      BY <1>0, <2>5, StateSet
    <3>. QED
      BY <2>2, <2>5, <3>1
  <2>6. CASE AddCn \/ PushCommit \/ ScanTest \/ ScanSet \/ EndServe
    <3>1. UNCHANGED pnd /\ (UNCHANGED <<state, cur>> \/ state' # "OFFLINE")
      BY <2>6 DEF AddCn, PushCommit, ScanTest, ScanSet, EndServe
    <3>. QED
      BY <2>2, <3>1
  <2>7. CASE DownloadResId \/ AddRcvRes \/ AddTrsRes \/ DeleteNode
    <3>1. UNCHANGED <<state, cur>> /\ cur \in Nodes /\ \E s : NodeState(cur, s)
      BY <1>0, <2>7 DEF DownloadResId, AddRcvRes, AddTrsRes, DeleteNode, Serving
    <3>. QED
      BY <2>5, <3>1
  <2>8. CASE ScanEnd
    <3>1. UNCHANGED <<state, cur>> /\ cur \in Nodes
      BY <1>5, <2>8, ScanSent DEF ScanEnd
    <3>2. UNCHANGED pnd \/ NodeState(cur, "DEL_FINISH")
      BY <2>8 DEF ScanEnd
    <3>. QED
      BY <2>2, <2>5, <3>1, <3>2
  <2>. QED
    BY <1>5, <2>3, <2>4, <2>6, <2>7, <2>8 DEF Resm
<1>. QED
  BY <1>1, <1>2, <1>3, <1>4, <1>5
     DEF Next, Sysm, ResmsgProc, Serve, vars, cnvars

\* What a node makes of a call.
LEMMA ServedTable ==
  ASSUME TypeOK, NEW n \in Nodes, Serve(n)
  PROVE  LET q == Head(calls[n])
         IN  /\ q \in Requests /\ 1 \in 1..Len(calls[n]) /\ q = calls[n][1]
             /\ calls'[n] = Tail(calls[n])
             /\ \A m \in Nodes : m # n => tn'[m] = tn[m] /\ calls'[m] = calls[m]
             /\ \/ tn[n].sessn = q.sessn /\ tn'[n] = tn[n]
                \/ /\ tn[n].sessn # q.sessn /\ q.kind # "id" /\ tn[n].state # "CFG"
                   /\ tn'[n] = [tn[n] EXCEPT !.sessn = q.sessn, !.tlen = 0]
                \/ tn[n].sessn # q.sessn /\ tn'[n] = Configured(n, q)
<1>. DEFINE q == Head(calls[n])
<1>1. /\ q \in Requests /\ 1 \in 1..Len(calls[n]) /\ q = calls[n][1]
  BY Dequeued DEF Serve, TypeOK
<1>2. calls \in [Nodes -> Seq(Requests)] /\ tn \in [Nodes -> Tables]
  BY DEF TypeOK
<1>3. /\ calls'[n] = Tail(calls[n])
      /\ \A m \in Nodes : m # n => calls'[m] = calls[m]
  BY <1>2 DEF Serve
<1>. HIDE DEF q
<1>4. CASE tn[n].sessn = q.sessn /\ UNCHANGED tn
  BY <1>1, <1>3, <1>4 DEF q
<1>5. CASE /\ tn[n].sessn # q.sessn /\ q.kind # "id" /\ tn[n].state # "CFG"
           /\ tn' = [tn EXCEPT ![n].sessn = q.sessn, ![n].tlen = 0]
  <2>1. tn'[n] = [tn[n] EXCEPT !.sessn = q.sessn, !.tlen = 0]
    BY <1>2, <1>5
  <2>2. \A m \in Nodes : m # n => tn'[m] = tn[m]
    BY <1>2, <1>5
  <2>. QED
    BY <1>1, <1>3, <1>5, <2>1, <2>2 DEF q
<1>6. CASE tn[n].sessn # q.sessn /\ tn' = [tn EXCEPT ![n] = Configured(n, q)]
  BY <1>1, <1>2, <1>3, <1>6 DEF q
<1>. QED
  BY <1>4, <1>5, <1>6 DEF Serve, q

LEMMA GoneStep ==
  ASSUME ~Hasty, TypeInv, Gone, [Next]_vars
  PROVE  Gone'
<1>0. /\ TypeOK /\ tn \in [Nodes -> Tables] /\ calls \in [Nodes -> Seq(Requests)]
  BY DEF TypeInv, TypeOK
<1>1. ASSUME NEW n \in Nodes, GoneFrom(n)' PROVE tn'[n].state = "OFF"
  <2>1. CASE ~GoneFrom(n)
    <3>1. Leave(n)
      BY <1>1, <2>1, GoneBySteps
    <3>. QED
      BY <1>0, <3>1 DEF Leave, Off
  <2>2. CASE GoneFrom(n)
    <3>0. tn[n] = Off /\ calls[n] = <<>> /\ tn[n].state = "OFF"
      BY <2>2 DEF Gone
    <3>1. CASE UNCHANGED tn
      BY <3>0, <3>1
    <3>2. ASSUME NEW m \in Nodes, Join(m) PROVE tn'[n].state = "OFF"
      <4>1. DoneWith(m)
        BY <3>2 DEF Join
      <4>2. ~GoneFrom(m)
        BY <4>1 DEF DoneWith, GoneFrom, Lost
      <4>3. m # n
        BY <2>2, <4>2
      <4>. QED
        BY <1>0, <3>0, <3>2, <4>3 DEF Join
    <3>3. ASSUME NEW m \in Nodes, Leave(m) PROVE tn'[n].state = "OFF"
      BY <1>0, <3>0, <3>3 DEF Leave, Off
    <3>4. ASSUME NEW m \in Nodes, Serve(m) PROVE tn'[n].state = "OFF"
      <4>1. m # n
        BY <3>0, <3>4 DEF Serve
      <4>. QED
        BY <1>0, <3>0, <3>4, <4>1, ServedTable
    <3>5. CASE \/ ~(\E m \in Nodes : Join(m) \/ Leave(m) \/ Serve(m))
      <4>1. UNCHANGED tn
        BY <3>5 DEF Next, Sysm, Resm, NewTn, DeleteTn, ResmsgProc, Timeout, Answer, AddCn,
             PickOnline, PickOffline, PushCommit, DownloadResId, AddRcvRes, AddTrsRes,
             DeleteNode, ScanTest, ScanSet, ScanEnd, EndServe, vars
      <4>. QED
        BY <3>1, <4>1
    <3>. QED
      BY <3>2, <3>3, <3>4, <3>5
  <2>. QED
    BY <2>1, <2>2
<1>2. ASSUME NEW n \in Nodes, tn'[n].state = "OFF" PROVE tn'[n] = Off /\ calls'[n] = <<>>
  <2>1. CASE tn'[n] = tn[n] /\ calls'[n] = calls[n]
    BY <1>2, <2>1 DEF Gone
  <2>2. ASSUME NEW m \in Nodes, Join(m) PROVE tn'[n] = Off /\ calls'[n] = <<>>
    <3>1. m # n
      BY <1>0, <1>2, <2>2 DEF Join, Off
    <3>2. tn'[n] = tn[n] /\ calls'[n] = calls[n]
      BY <1>0, <2>2, <3>1 DEF Join
    <3>. QED
      BY <2>1, <3>2
  <2>3. ASSUME NEW m \in Nodes, Leave(m) PROVE tn'[n] = Off /\ calls'[n] = <<>>
    <3>1. CASE m = n
      BY <1>0, <2>3, <3>1 DEF Leave
    <3>2. CASE m # n
      BY <1>0, <2>1, <2>3, <3>2 DEF Leave
    <3>. QED
      BY <3>1, <3>2
  <2>4. ASSUME NEW m \in Nodes, Serve(m) PROVE tn'[n] = Off /\ calls'[n] = <<>>
    <3>1. CASE m = n
      <4>. DEFINE q == Head(calls[n])
      <4>1. tn[n].state # "OFF"
        BY <2>4, <3>1 DEF Serve, Gone
      <4>2. q \in Requests
        BY <1>0, <2>4, <3>1, ServedTable
      <4>. HIDE DEF q
      <4>3. Configured(n, q).state = "CFG"
        BY <1>0, <4>2, ConfiguredTyped
      <4>4. tn[n] \in Tables
        BY <1>0
      <4>5. [tn[n] EXCEPT !.sessn = q.sessn, !.tlen = 0].state = tn[n].state
        BY <4>4 DEF Tables
      <4>6. tn'[n].state # "OFF"
        BY <1>0, <2>4, <3>1, <4>1, <4>3, <4>5, ServedTable DEF q
      <4>. QED
        BY <1>2, <4>6
    <3>2. CASE m # n
      BY <1>0, <2>1, <2>4, <3>2, ServedTable
    <3>. QED
      BY <3>1, <3>2
  <2>5. CASE ResmsgProc \/ \E e \in req_list : Timeout(e)
    <3>1. UNCHANGED tn
      BY <2>5 DEF ResmsgProc, Timeout
    <3>. QED
      BY <1>0, <1>2, <2>1, <2>5, <3>1, SentToTheBus
  <2>6. CASE \/ NewTn \/ DeleteTn \/ Resm \/ UNCHANGED vars
             \/ \E e \in req_list : \E a \in answers : Answer(e, a)
    <3>1. UNCHANGED <<tn, calls>>
      BY <2>6 DEF Resm, NewTn, DeleteTn, Answer, AddCn,
           PickOnline, PickOffline, PushCommit, DownloadResId, AddRcvRes, AddTrsRes,
           DeleteNode, ScanTest, ScanSet, ScanEnd, EndServe, vars
    <3>. QED
      BY <2>1, <3>1
  <2>. QED
    BY <2>2, <2>3, <2>4, <2>5, <2>6 DEF Next, Sysm
<1>. QED
  BY <1>1, <1>2 DEF Gone, GoneFrom, Lost

(***************************************************************************)
(* A node has forgotten everything before the CN takes what it sent away,  *)
(* and until the CN is done with it, if it does not come back before.      *)
(***************************************************************************)
THEOREM DistributionGone == ASSUME ~Hasty PROVE Spec => []Gone
<1>1. Init => Gone
  BY SMT DEF Init, Gone, GoneFrom, Lost, NoNode, Off
<1>. QED
  BY <1>1, GoneStep, DistributionTyped, PTL DEF Spec

-----------------------------------------------------------------------------
(***************************************************************************)
(* Every cell that a node sends in, or is about to be told to send in, is  *)
(* one of its resources in the place it has now.                           *)
(***************************************************************************)
Valid(n, cells, where) == \A c \in cells : c[1] \in Sends(n) /\ c[2] = where[c[1]]

Fits ==
  /\ \A n \in Nodes : Valid(n, tn[n].trs, place)
  /\ \A n \in Nodes : \A i \in 1..Len(calls[n]) :
       calls[n][i].kind = "trs" /\ calls[n][i].node = n => Valid(n, calls[n][i].cells, place)
  /\ \A q \in Opened : q.kind = "trs" => Valid(q.node, q.cells, place)
  /\ state = "ONLINE" => Valid(cur, scan.cells, place)

\* The places of a node stay, unless resm frees them.
Stays(n) == \A r \in Sends(n) : place[r] # 0 => place'[r] = place[r]

LEMMA PlacesStay ==
  ASSUME TypeInv, Released, [Next]_vars, NEW n \in Nodes
  PROVE  Stays(n) \/ (Resm /\ DeleteNode /\ n = cur)
<1>0. TypeOK /\ cur \in Nodes \cup {0} /\ 0 \notin Nodes
  BY SysResAssumption DEF TypeInv, TypeOK, SysResAssumption
<1>1. CASE UNCHANGED place
  BY <1>1 DEF Stays
<1>2. CASE Resm /\ AddCn /\ place' = Grant(0)
  BY <1>0, <1>2, GrantedOthers DEF Stays
<1>3. CASE Resm /\ AddTrsRes /\ place' = Grant(cur)
  <2>1. CASE n # cur
    BY <1>0, <1>3, <2>1, GrantedOthers DEF Stays
  <2>2. CASE n = cur
    <3>1. Inactive(n)
      BY <1>3, <2>2 DEF Released, AddTrsRes, Serving
    <3>. QED
      BY <3>1, SendsIsFinite DEF Inactive, Active, Stays
  <2>. QED
    BY <2>1, <2>2
<1>4. CASE /\ Resm /\ DeleteNode
           /\ place' = [r \in Res |-> IF r \in Sends(cur) THEN 0 ELSE place[r]]
  <2>1. cur \in Nodes
    BY <1>4, NodeDeleted
  <2>2. n # cur => Stays(n)
    BY <1>4, <2>1, FreedOthers DEF Stays
  <2>. QED
    BY <1>4, <2>2
<1>. QED
  BY <1>1, <1>2, <1>3, <1>4, PlaceBySteps

LEMMA ValidStays ==
  ASSUME TypeInv, NEW n \in Nodes, NEW cells \in SUBSET (Res \X Places), Stays(n),
         Valid(n, cells, place)
  PROVE  Valid(n, cells, place')
<1>1. 0 \notin Places
  BY SysResAssumption DEF SysResAssumption
<1>2. ASSUME NEW c \in cells PROVE c[1] \in Sends(n) /\ c[2] = place'[c[1]]
  <2>1. c[2] # 0 /\ c[1] \in Sends(n) /\ c[2] = place[c[1]]
    BY <1>1 DEF Valid
  <2>. QED
    BY <2>1 DEF Stays
<1>. QED
  BY <1>2 DEF Valid

\* What a node sends it sent before, or a call for it says so.
LEMMA TrsBySteps ==
  ASSUME TypeInv, [Next]_vars, NEW n \in Nodes
  PROVE  \A c \in tn'[n].trs :
           \/ c \in tn[n].trs
           \/ \E i \in 1..Len(calls[n]) :
                /\ calls[n][i].kind = "trs" /\ calls[n][i].node = n
                /\ c \in calls[n][i].cells
<1>0. TypeOK /\ tn \in [Nodes -> Tables]
  BY DEF TypeInv, TypeOK
<1>1. CASE tn'[n].trs \subseteq tn[n].trs
  BY <1>1
<1>2. ASSUME NEW m \in Nodes, Join(m) \/ Leave(m) PROVE tn'[n].trs \subseteq tn[n].trs
  BY <1>0, <1>2 DEF Join, Leave, Off
<1>3. ASSUME Serve(n)
      PROVE  \A c \in tn'[n].trs :
               \/ c \in tn[n].trs
               \/ \E i \in 1..Len(calls[n]) :
                    /\ calls[n][i].kind = "trs" /\ calls[n][i].node = n
                    /\ c \in calls[n][i].cells
  <2>. DEFINE q == Head(calls[n])
  <2>1. q \in Requests /\ 1 \in 1..Len(calls[n]) /\ q = calls[n][1]
    BY <1>0, <1>3, ServedTable
  <2>2. \/ tn'[n] = tn[n]
        \/ tn'[n] = [tn[n] EXCEPT !.sessn = q.sessn, !.tlen = 0]
        \/ tn'[n] = Configured(n, q)
    BY <1>0, <1>3, ServedTable
  <2>. HIDE DEF q
  <2>3. CASE tn'[n] = tn[n] \/ tn'[n] = [tn[n] EXCEPT !.sessn = q.sessn, !.tlen = 0]
    <3>1. tn[n] \in Tables
      BY <1>0
    <3>2. tn'[n].trs = tn[n].trs
      BY <2>3, <3>1 DEF Tables
    <3>. QED
      BY <3>2
  <2>4. CASE tn'[n] = Configured(n, q)
    <3>1. tn'[n].trs = IF q.node = n /\ q.kind = "trs" THEN tn[n].trs \cup Mine(n, q.cells)
                       ELSE IF q.node = n /\ q.kind = "del" THEN tn[n].trs \ Mine(n, q.cells)
                       ELSE tn[n].trs
      <4>1. Configured(n, q).trs =
              IF q.node = n /\ q.kind = "trs" THEN tn[n].trs \cup Mine(n, q.cells)
              ELSE IF q.node = n /\ q.kind = "del" THEN tn[n].trs \ Mine(n, q.cells)
              ELSE tn[n].trs
        BY <1>0, <2>1, ConfiguredTyped, Zenon
      <4>. QED
        BY <2>4, <4>1, Zenon
    <3>2. Mine(n, q.cells) \subseteq q.cells
      BY DEF Mine
    <3>. QED
      BY <2>1, <3>1, <3>2
  <2>. QED
    BY <2>2, <2>3, <2>4
<1>4. ASSUME NEW m \in Nodes, Serve(m), m # n PROVE tn'[n].trs \subseteq tn[n].trs
  BY <1>0, <1>4, ServedTable
<1>5. CASE ~(\E m \in Nodes : Join(m) \/ Leave(m) \/ Serve(m))
  <2>1. UNCHANGED tn
    BY <1>5 DEF Next, Sysm, Resm, NewTn, DeleteTn, ResmsgProc, Timeout, Answer, AddCn,
         PickOnline, PickOffline, PushCommit, DownloadResId, AddRcvRes, AddTrsRes,
         DeleteNode, ScanTest, ScanSet, ScanEnd, EndServe, vars
  <2>. QED
    BY <1>1, <2>1
<1>. QED
  BY <1>1, <1>2, <1>3, <1>4, <1>5

\* When resm frees places, their node is off and nothing is under way.
LEMMA FreedIsOff ==
  ASSUME TypeInv, Alone, Gone, Resm, DeleteNode
  PROVE  /\ cur \in Nodes /\ state = "OFFLINE" /\ UNCHANGED <<state, tn, calls>>
         /\ tn[cur].trs = {} /\ Len(calls[cur]) = 0
         /\ Opened' = {}
<1>1. /\ cur \in Nodes /\ state = "OFFLINE" /\ UNCHANGED <<state, tn, calls>>
      /\ scan = NoScan /\ pnd[cur].state = "DEL_RES"
  BY NodeDeleted DEF DeleteNode, Serving
<1>2. tn[cur] = Off /\ calls[cur] = <<>>
  BY <1>1 DEF Gone, GoneFrom
<1>3. Opened = {}
  BY <1>1, NothingOpened
<1>4. ~(DownloadResId \/ AddRcvRes \/ ScanEnd)
  BY <1>1, ScanSent DEF DownloadResId, AddRcvRes, Serving, NoScan
<1>5. Opened' = {}
  BY <1>3, <1>4, OpenedByResm
<1>. QED
  BY <1>1, <1>2, <1>5, SMT DEF Off

LEMMA ScanBySteps ==
  ASSUME TypeInv, Alone, Released, [Next]_vars, state' = "ONLINE"
  PROVE  \/ scan'.cells = {}
         \/ state = "ONLINE" /\ cur' = cur /\ scan'.cells = scan.cells
         \/ Resm /\ AddTrsRes /\ scan'.cells = Cells(Sends(cur), place') /\ cur' = cur /\ cur \in Nodes
<1>0. scan \in Scans /\ (cur = 0 <=> state \in {"BOOT", "IDLE"})
  BY DEF TypeInv, TypeOK
<1>1. CASE UNCHANGED <<state, cur, scan>>
  BY <1>1
<1>2. CASE Resm
  <2>1. CASE AddCn \/ PushCommit \/ EndServe \/ \E n \in Nodes : PickOffline(n)
    BY <2>1 DEF AddCn, PushCommit, EndServe, PickOffline
  <2>2. ASSUME NEW n \in Nodes, PickOnline(n) PROVE scan'.cells = {}
    <3>1. cur = 0 /\ UNCHANGED scan
      BY <1>0, <2>2 DEF PickOnline
    <3>2. scan = NoScan
      BY <3>1 DEF Alone, Waits
    <3>. QED
      BY <3>1, <3>2 DEF NoScan
  <2>3. CASE DownloadResId \/ AddRcvRes \/ DeleteNode
    BY <1>1, <1>2, <2>3, NodeDeleted DEF DownloadResId, AddRcvRes, DeleteNode, Serving
  <2>4. CASE AddTrsRes
    <3>1. UNCHANGED <<state, cur>>
      BY <2>4 DEF AddTrsRes
    <3>2. cur \in Nodes
      BY <1>2, <2>4, TrsPlaced
    <3>. QED
      BY <1>1, <1>2, <2>4, <3>1, <3>2, TrsPlaced
  <2>5. CASE ScanTest \/ ScanSet
    BY <1>0, <2>5 DEF ScanTest, ScanSet, Scans
  <2>6. CASE ScanEnd
    BY <2>6 DEF ScanEnd, NoScan
  <2>. QED
    BY <1>2, <2>1, <2>2, <2>3, <2>4, <2>5, <2>6 DEF Resm
<1>3. CASE Still
  BY <1>1, <1>3, StillKeeps
<1>4. CASE \/ NewTn \/ DeleteTn
           \/ \E e \in req_list : Timeout(e) \/ \E a \in answers : Answer(e, a)
  BY <1>1, <1>4 DEF NewTn, DeleteTn, Timeout, Answer
<1>. QED
  BY <1>2, <1>3, <1>4, StepIs

LEMMA FitsStep ==
  ASSUME TypeInv, Alone, Bodies, Released, Gone, Fits, [Next]_vars
  PROVE  Fits'
<1>0. /\ TypeOK /\ tn \in [Nodes -> Tables] /\ calls \in [Nodes -> Seq(Requests)]
      /\ scan \in Scans /\ cur \in Nodes \cup {0} /\ 0 \notin Nodes
      /\ cur = 0 <=> state \in {"BOOT", "IDLE"}
  BY SysResAssumption DEF TypeInv, TypeOK, SysResAssumption
<1>1. ASSUME NEW n \in Nodes PROVE Valid(n, tn'[n].trs, place')
  <2>1. CASE Resm /\ DeleteNode /\ n = cur
    BY <2>1, FreedIsOff DEF Valid
  <2>2. CASE Stays(n)
    <3>1. tn[n].trs \in SUBSET (Res \X Places)
      BY <1>0 DEF Tables
    <3>2. Valid(n, tn[n].trs, place')
      BY <2>2, <3>1, ValidStays DEF Fits
    <3>3. ASSUME NEW i \in 1..Len(calls[n]), calls[n][i].kind = "trs", calls[n][i].node = n
          PROVE  Valid(n, calls[n][i].cells, place')
      <4>1. calls[n][i].cells \in SUBSET (Res \X Places)
        <5>1. calls[n] \in Seq(Requests)
          BY <1>0
        <5>2. calls[n][i] \in Requests
          BY <5>1, ElementOfSeq
        <5>. QED
          BY <5>2 DEF Requests
      <4>2. Valid(n, calls[n][i].cells, place)
        BY <3>3 DEF Fits
      <4>. QED
        BY <2>2, <4>1, <4>2, ValidStays
    <3>. QED
      BY <3>2, <3>3, TrsBySteps DEF Valid
  <2>. QED
    BY <2>1, <2>2, PlacesStay
<1>2. ASSUME NEW q \in Opened', q.kind = "trs"
      PROVE  Valid(q.node, q.cells, place')
  <2>0. /\ ~(Resm /\ DeleteNode)
        /\ \A n \in Nodes : Stays(n)
    <3>1. ~(Resm /\ DeleteNode)
      BY <1>2, FreedIsOff
    <3>. QED
      BY <3>1, PlacesStay
  <2>1. CASE q \in Opened
    <3>1. q \in Requests /\ Valid(q.node, q.cells, place)
      BY <1>0, <1>2, <2>1, OpenedTyped DEF Fits
    <3>2. q.node \in Nodes /\ q.cells \in SUBSET (Res \X Places)
      BY <3>1 DEF Requests
    <3>. QED
      BY <2>0, <3>1, <3>2, ValidStays
  <2>2. CASE q \notin Opened
    <3>1. /\ Resm /\ ScanEnd /\ q.node = cur /\ q.cells = scan.cells
          /\ state = "ONLINE"
      <4>1. Resm
        BY <2>2, OpenedWasOrIsNew
      <4>2. /\ DownloadResId \/ AddRcvRes \/ ScanEnd
            /\ q.node = cur
            /\ DownloadResId => q.kind = "id"
            /\ AddRcvRes => q.kind = "rcv"
            /\ ScanEnd => /\ q.kind = IF state = "ONLINE" THEN "trs" ELSE "del"
                          /\ q.cells = scan.cells
        BY <1>2, <2>2, <4>1, OpenedByResm
      <4>. QED
        BY <1>2, <4>1, <4>2
    <3>2. Valid(cur, scan.cells, place) /\ cur \in Nodes
      BY <1>0, <3>1 DEF Fits
    <3>3. scan.cells \in SUBSET (Res \X Places)
      BY <1>0 DEF Scans
    <3>. QED
      BY <2>0, <3>1, <3>2, <3>3, ValidStays
  <2>. QED
    BY <2>1, <2>2
<1>3. ASSUME NEW n \in Nodes, NEW i \in 1..Len(calls'[n]),
             calls'[n][i].kind = "trs", calls'[n][i].node = n
      PROVE  Valid(n, calls'[n][i].cells, place')
  <2>1. CASE calls'[n][i] \in Opened'
    BY <1>2, <1>3, <2>1
  <2>2. ASSUME NEW j \in 1..Len(calls[n]), calls'[n][i] = calls[n][j]
        PROVE  Valid(n, calls'[n][i].cells, place')
    <3>1. Valid(n, calls[n][j].cells, place)
      BY <1>3, <2>2 DEF Fits
    <3>2. calls[n][j].cells \in SUBSET (Res \X Places)
      <4>1. calls[n] \in Seq(Requests)
        BY <1>0
      <4>2. calls[n][j] \in Requests
        BY <4>1, ElementOfSeq
      <4>. QED
        BY <4>2 DEF Requests
    <3>3. Stays(n)
      <4>1. ~(Resm /\ DeleteNode /\ n = cur)
        BY <1>0, FreedIsOff, SMT
      <4>. QED
        BY <4>1, PlacesStay
    <3>. QED
      BY <2>2, <3>1, <3>2, <3>3, ValidStays
  <2>. QED
    BY <2>1, <2>2, CopiesAreOld
<1>4. ASSUME state' = "ONLINE" PROVE Valid(cur', scan'.cells, place')
  <2>1. CASE scan'.cells = {}
    BY <2>1 DEF Valid
  <2>2. CASE state = "ONLINE" /\ cur' = cur /\ scan'.cells = scan.cells
    <3>1. Valid(cur, scan.cells, place) /\ cur \in Nodes /\ scan.cells \in SUBSET (Res \X Places)
      BY <1>0, <2>2 DEF Fits, Scans
    <3>2. Stays(cur)
      BY <1>4, <3>1, PlacesStay, FreedIsOff
    <3>3. Valid(cur, scan.cells, place')
      BY <3>1, <3>2, ValidStays
    <3>. QED
      BY <2>2, <3>3
  <2>3. CASE scan'.cells = Cells(Sends(cur), place') /\ cur' = cur
    BY <2>3 DEF Valid, Cells
  <2>. QED
    BY <1>4, <2>1, <2>2, <2>3, ScanBySteps
<1>5. /\ \A n \in Nodes : Valid(n, tn'[n].trs, place')
      /\ \A n \in Nodes : \A i \in 1..Len(calls'[n]) :
           calls'[n][i].kind = "trs" /\ calls'[n][i].node = n => Valid(n, calls'[n][i].cells, place')
      /\ \A q \in Opened' : q.kind = "trs" => Valid(q.node, q.cells, place')
      /\ state' = "ONLINE" => Valid(cur', scan'.cells, place')
  BY <1>1, <1>2, <1>3, <1>4
<1>. QED
  BY <1>5 DEF Fits, Valid, Sends

LEMMA FitsApart ==
  ASSUME TypeInv, Fits, PlacesApart
  PROVE  SendersApart
<1>1. ASSUME NEW m \in Nodes, NEW n \in Nodes, m # n,
             NEW c \in tn[m].trs, NEW d \in tn[n].trs, c[2] = d[2]
      PROVE  FALSE
  <2>1. c \in Res \X Places /\ d \in Res \X Places /\ 0 \notin Places
    BY SysResAssumption DEF TypeInv, TypeOK, Tables, SysResAssumption
  <2>2. /\ c[1] \in Sends(m) /\ c[2] = place[c[1]]
        /\ d[1] \in Sends(n) /\ d[2] = place[d[1]]
    BY DEF Fits, Valid
  <2>3. c[1] \in Active /\ d[1] \in Active
    BY <2>1, <2>2 DEF Active
  <2>4. c[1] = d[1]
    BY <1>1, <2>2, <2>3 DEF PlacesApart
  <2>. QED
    BY <1>1, <2>2, <2>4, SendsApart
<1>. QED
  BY <1>1 DEF SendersApart, At

(***************************************************************************)
(* No two nodes on the bus send in the same place, whatever is lost,       *)
(* repeated or answered late: for any number of nodes, resources and       *)
(* places, if a node is not back before the CN is done with its loss, and  *)
(* as long as every answer has a body.                                     *)
(***************************************************************************)
THEOREM DistributionSendersApart == ASSUME ~Hasty PROVE Spec /\ []Bodies => []SendersApart
<1>1. Init => Fits
  BY SMT DEF Init, Fits, Valid, Opened, Called, Queued, Off
<1>2. Spec /\ []Bodies => []Released
  BY ReleasedInit, ReleasedStep, DistributionTyped, DistributionAlone, PTL DEF Spec
<1>3. Spec => []Gone
  BY DistributionGone
<1>4. Spec /\ []Bodies => []Fits
  BY <1>1, <1>2, <1>3, FitsStep, DistributionTyped, DistributionAlone, PTL DEF Spec
<1>. QED
  BY <1>4, FitsApart, DistributionTyped, DistributionPlacesApart, PTL
-----------------------------------------------------------------------------
(***************************************************************************)
(* What reaches the nodes.  A node keeps the last call that it has heard,  *)
(* and what is still on its way to it from the same call brings nothing    *)
(* new: an answer that the CN waits for says what its sender's table holds *)
(* now, if that node is still on the bus.                                  *)
(***************************************************************************)
On(n) == ~GoneFrom(n)

\* resm does nothing while it waits.
LEMMA NothingUnderWay ==
  ASSUME TypeInv, Alone, Resm
  PROVE  Opened = {} /\ Called = {} /\ answers = {}
<1>1. CASE cur # 0 /\ scan = NoScan /\ pnd[cur].state = "WAIT_ACK"
  <2>0. /\ cur = 0 <=> state \in {"BOOT", "IDLE"}
        /\ Len(ncn) \in Nat
    BY DEF TypeInv, TypeOK
  <2>1. ~(AddCn \/ PushCommit \/ \E n \in Nodes : PickOnline(n) \/ PickOffline(n))
    BY <1>1, <2>0 DEF AddCn, PushCommit, PickOnline, PickOffline
  <2>2. ~(DownloadResId \/ AddRcvRes \/ AddTrsRes \/ DeleteNode \/ EndServe)
    BY <1>1 DEF DownloadResId, AddRcvRes, AddTrsRes, DeleteNode, EndServe, Serving
  <2>3. ~(ScanTest \/ ScanSet \/ ScanEnd)
    BY <1>1, <2>0 DEF ScanTest, ScanSet, ScanEnd, NoScan
  <2>. QED
    BY <2>1, <2>2, <2>3 DEF Resm
<1>. QED
  BY <1>1, NothingOpened

\* What a step changes of a node and of what is on its way to it.
LEMMA BusBySteps ==
  ASSUME TypeInv, [Next]_vars, NEW n \in Nodes
  PROVE  \/ Join(n) /\ calls'[n] = calls[n] /\ tn'[n].sessn = 0
         \/ Leave(n) /\ calls'[n] = <<>> /\ tn'[n].sessn = 0
         \/ Serve(n)
         \/ /\ tn'[n] = tn[n]
            /\ \/ calls'[n] = calls[n]
               \/ \E q \in Opened :
                    q \in Opened' /\ n \in Targets(q) /\ calls'[n] = Append(calls[n], q)
<1>0. TypeOK /\ calls \in [Nodes -> Seq(Requests)] /\ tn \in [Nodes -> Tables]
  BY DEF TypeInv, TypeOK
<1>1. ASSUME NEW m \in Nodes, Join(m) \/ Leave(m) \/ Serve(m), m # n
      PROVE  tn'[n] = tn[n] /\ calls'[n] = calls[n]
  <2>1. CASE Join(m) \/ Leave(m)
    BY <1>0, <1>1, <2>1 DEF Join, Leave
  <2>2. CASE Serve(m)
    BY <1>0, <1>1, <2>2, ServedTable
  <2>. QED
    BY <1>1, <2>1, <2>2
<1>2. ASSUME ResmsgProc
      PROVE  /\ tn'[n] = tn[n]
             /\ \/ calls'[n] = calls[n]
                \/ \E q \in Opened :
                     q \in Opened' /\ n \in Targets(q) /\ calls'[n] = Append(calls[n], q)
  <2>. DEFINE m == Head(resmsg)
  <2>0. tn'[n] = tn[n]
    BY <1>2 DEF ResmsgProc
  <2>1. CASE m.type = "r" /\ Transmit(m.req, 0)
    <3>1. m.req \in Opened /\ m.req \in Requests
      <4>1. resmsg \in Seq(Messages) /\ resmsg # <<>>
        BY <1>0, <1>2 DEF ResmsgProc, TypeOK
      <4>2. 1 \in 1..Len(resmsg) /\ m = resmsg[1]
        BY <4>1, Dequeued
      <4>3. m.req \in Queued
        BY <2>1, <4>2 DEF Queued
      <4>. QED
        BY <1>0, <4>3, OpenedTyped DEF Opened
    <3>2. Opened' = Opened
      BY <1>0, <1>2, OpenedByProc
    <3>. HIDE DEF m
    <3>. QED
      BY <1>0, <2>0, <2>1, <3>1, <3>2, Transmitted
  <2>2. CASE UNCHANGED calls
    BY <2>0, <2>2
  <2>. QED
    BY <1>2, <2>1, <2>2 DEF ResmsgProc
<1>3. ASSUME NEW e \in req_list, Timeout(e)
      PROVE  /\ tn'[n] = tn[n]
             /\ \/ calls'[n] = calls[n]
                \/ \E q \in Opened :
                     q \in Opened' /\ n \in Targets(q) /\ calls'[n] = Append(calls[n], q)
  <2>0. tn'[n] = tn[n]
    BY <1>3 DEF Timeout
  <2>1. e.req \in Opened /\ e.req \in Requests
    BY <1>0, OpenedTyped DEF Opened, Called
  <2>2. CASE ~GivenUp(e) /\ Transmit(e.req, IF OnTheBus(e.req) THEN 1 ELSE 0)
    <3>1. Opened' = Opened
      BY <1>0, <1>3, <2>2, OpenedByTimeout
    <3>. QED
      BY <1>0, <2>0, <2>1, <2>2, <3>1, Transmitted
  <2>3. CASE UNCHANGED calls
    BY <2>0, <2>3
  <2>. QED
    BY <1>3, <2>2, <2>3 DEF Timeout
<1>4. ASSUME \/ NewTn \/ DeleteTn \/ Resm \/ UNCHANGED vars
             \/ \E e \in req_list, a \in answers : Answer(e, a)
      PROVE  tn'[n] = tn[n] /\ calls'[n] = calls[n]
  BY <1>4 DEF NewTn, DeleteTn, Answer, vars, Resm, AddCn, PickOnline, PickOffline, PushCommit,
       DownloadResId, AddRcvRes, AddTrsRes, DeleteNode, ScanTest, ScanSet, ScanEnd, EndServe
<1>5. ASSUME Join(n) \/ Leave(n)
      PROVE  /\ tn'[n].sessn = 0
             /\ Join(n) => calls'[n] = calls[n]
             /\ Leave(n) => calls'[n] = <<>>
  <2>1. CASE Join(n)
    <3>1. tn'[n] = [Off EXCEPT !.state = "ONLINE"] /\ calls' = calls
      BY <1>0, <2>1 DEF Join
    <3>2. ~Leave(n)
      BY <2>1 DEF Join, Leave
    <3>. QED
      BY <3>1, <3>2 DEF Off
  <2>2. CASE Leave(n)
    <3>1. ~Join(n)
      BY <2>2 DEF Join, Leave
    <3>. QED
      BY <1>0, <2>2, <3>1 DEF Leave, Off
  <2>. QED
    BY <1>5, <2>1, <2>2
<1>. QED
  BY <1>1, <1>2, <1>3, <1>4, <1>5 DEF Next, Sysm

\* A node counts as back only when resm has dealt with its loss.
LEMMA OnBySteps ==
  ASSUME TypeInv, Alone, [Next]_vars, NEW n \in Nodes, GoneFrom(n), ~(GoneFrom(n)')
  PROVE  Resm /\ EndServe /\ cur = n /\ state = "OFFLINE" /\ state' = "IDLE" /\ cur' = 0
<1>0. /\ TypeOK /\ pnd \in [Nodes -> Entries] /\ 0 \notin Nodes /\ cur \in Nodes \cup {0}
      /\ cur = 0 <=> state \in {"BOOT", "IDLE"}
      /\ rpt \in Seq(Reports)
  BY SysResAssumption DEF TypeInv, TypeOK, SysResAssumption
<1>1. ASSUME Lost(n) => Lost(n)' \/ pnd'[n].offline,
             pnd[n].offline => pnd'[n].offline, UNCHANGED <<state, cur>>
      PROVE  FALSE
  BY <1>1 DEF GoneFrom, Lost
<1>2. CASE NewTn \/ DeleteTn
  <2>. DEFINE h == Head(rpt)
  <2>1. rpt # <<>> /\ rpt' = Tail(rpt)
    BY <1>2 DEF NewTn, DeleteTn
  <2>2. /\ h = rpt[1] /\ h \in Reports
        /\ \A i \in 1..Len(rpt) : i = 1 \/ (i - 1 \in 1..Len(rpt') /\ rpt'[i - 1] = rpt[i])
    BY <1>0, <2>1, Dequeued
  <2>3. Lost(n) => Lost(n)' \/ h = [type |-> "LSNODE", nodeid |-> n]
    BY <2>2, Zenon DEF Lost
  <2>4. h = [type |-> "LSNODE", nodeid |-> n] => DeleteTn
    BY <1>2 DEF NewTn
  <2>5. h = [type |-> "LSNODE", nodeid |-> n] => pnd'[n].offline
    BY <1>0, <1>2, <2>4, StateByReport
  <2>6. pnd[n].offline => pnd'[n].offline
    BY <1>0, <1>2, StateByReport
  <2>7. UNCHANGED <<state, cur>>
    BY <1>2 DEF NewTn, DeleteTn
  <2>. HIDE DEF h
  <2>. QED
    BY <1>1, <2>3, <2>5, <2>6, <2>7
<1>3. ASSUME NEW m \in Nodes, Join(m) \/ Leave(m) PROVE FALSE
  <2>1. UNCHANGED <<pnd, state, cur>> /\ \E r \in Reports : rpt' = Append(rpt, r)
    BY <1>3 DEF Join, Leave, Reports
  <2>2. \A i \in 1..Len(rpt) : i \in 1..Len(rpt') /\ rpt'[i] = rpt[i]
    BY <1>0, <2>1, Enqueued
  <2>3. Lost(n) => Lost(n)'
    BY <2>2, Zenon DEF Lost
  <2>. QED
    BY <1>1, <2>1, <2>3
<1>4. CASE \/ UNCHANGED <<rpt, pnd, state, cur>>
           \/ \E e \in req_list : Timeout(e) \/ \E a \in answers : Answer(e, a)
  <2>1. UNCHANGED <<rpt, state, cur>>
    BY <1>4 DEF Timeout, Answer
  <2>2. pnd'[n].offline = pnd[n].offline
    BY <1>0, <1>4, StateByCallback
  <2>3. Lost(n) => Lost(n)'
    BY <2>1 DEF Lost
  <2>. QED
    BY <1>1, <2>1, <2>2, <2>3
<1>5. CASE Resm
  <2>1. UNCHANGED rpt
    BY <1>5 DEF Resm, AddCn, PickOnline, PickOffline, PushCommit, DownloadResId, AddRcvRes,
         AddTrsRes, DeleteNode, ScanTest, ScanSet, ScanEnd, EndServe
  <2>0. Lost(n) => Lost(n)'
    BY <2>1 DEF Lost
  <2>2. ASSUME NEW m \in Nodes, PickOnline(m) \/ PickOffline(m) PROVE FALSE
    <3>1. pnd'[n].offline = pnd[n].offline \/ (PickOffline(m) /\ m = n)
      <4>1. PickOnline(m) => pnd'[n].offline = pnd[n].offline
        BY <1>0 DEF PickOnline, Entries
      <4>2. PickOffline(m) /\ m # n => pnd'[n].offline = pnd[n].offline
        BY <1>0 DEF PickOffline, Entries
      <4>. QED
        BY <2>2, <4>1, <4>2
    <3>2. state = "IDLE"
      BY <2>2 DEF PickOnline, PickOffline
    <3>3. PickOffline(m) => state' = "OFFLINE" /\ cur' = m
      BY DEF PickOffline
    <3>. QED
      BY <2>0, <3>1, <3>2, <3>3 DEF GoneFrom, Lost
  <2>3. ASSUME NEW s, NodeState(cur, s), cur \in Nodes, UNCHANGED <<state, cur>>
        PROVE  FALSE
    <3>1. pnd'[n].offline = pnd[n].offline
      BY <1>0, <2>3, StateSet
    <3>. QED
      BY <1>1, <2>0, <2>3, <3>1
  <2>4. CASE AddCn \/ PushCommit \/ ScanTest \/ ScanSet
    <3>1. UNCHANGED pnd /\ (UNCHANGED <<state, cur>> \/ state = "BOOT")
      BY <2>4 DEF AddCn, PushCommit, ScanTest, ScanSet
    <3>. QED
      BY <2>0, <3>1 DEF GoneFrom, Lost
  <2>5. CASE DownloadResId \/ AddRcvRes \/ AddTrsRes \/ DeleteNode
    <3>1. UNCHANGED <<state, cur>> /\ cur \in Nodes /\ \E s : NodeState(cur, s)
      BY <1>0, <2>5 DEF DownloadResId, AddRcvRes, AddTrsRes, DeleteNode, Serving
    <3>. QED
      BY <2>3, <3>1
  <2>6. CASE ScanEnd
    <3>1. UNCHANGED <<state, cur>> /\ cur \in Nodes
      BY <1>5, <2>6, ScanSent DEF ScanEnd
    <3>2. UNCHANGED pnd \/ NodeState(cur, "DEL_FINISH")
      BY <2>6 DEF ScanEnd
    <3>. QED
      BY <1>1, <2>0, <2>3, <3>1, <3>2
  <2>7. CASE EndServe
    <3>1. UNCHANGED pnd /\ state' = "IDLE" /\ cur' = 0
      BY <2>7 DEF EndServe
    <3>2. state = "OFFLINE" /\ cur = n
      BY <2>0, <3>1 DEF GoneFrom, Lost
    <3>. QED
      BY <1>5, <2>7, <3>1, <3>2
  <2>. QED
    BY <1>5, <2>2, <2>4, <2>5, <2>6, <2>7 DEF Resm
<1>. QED
  BY <1>2, <1>3, <1>4, <1>5
     DEF Next, Sysm, ResmsgProc, Serve, vars, cnvars

\* A call that is open was open, and resm does nothing else, or is new.
LEMMA OpenedBySteps ==
  ASSUME TypeInv, Alone, [Next]_vars, NEW q \in Opened'
  PROVE  \/ q \in Opened /\ ~Resm /\ UNCHANGED <<state, cur, place, scan>>
         \/ /\ Resm /\ Opened = {} /\ answers = {} /\ q.sessn \notin SessnInUse
            /\ UNCHANGED <<state, cur, place, tn, calls, answers, ack_flag, ncn>>
            /\ \/ DownloadResId /\ q.kind = "id"
               \/ AddRcvRes /\ q.kind = "rcv" /\ q.cells = Cells(Rcv[cur] \cap Active, place)
               \/ /\ ScanEnd /\ q.kind = (IF state = "ONLINE" THEN "trs" ELSE "del")
                  /\ q.cells = scan.cells /\ UNCHANGED pnd
<1>1. CASE Resm
  <2>1. Opened = {} /\ answers = {}
    BY <1>1, NothingUnderWay
  <2>2. DownloadResId \/ AddRcvRes \/ ScanEnd
    BY <1>1, <2>1, OpenedByResm
  <2>3. UNCHANGED <<state, cur, place, tn, calls, answers, ack_flag, ncn>>
    BY <2>2 DEF DownloadResId, AddRcvRes, ScanEnd
  <2>4. /\ q.sessn \notin SessnInUse
        /\ DownloadResId => q.kind = "id" /\ q.cells = {}
        /\ AddRcvRes => q.kind = "rcv" /\ q.cells = Cells(Rcv[cur] \cap Active, place)
        /\ ScanEnd => /\ q.kind = IF state = "ONLINE" THEN "trs" ELSE "del"
                      /\ q.cells = scan.cells
        /\ ScanEnd => UNCHANGED pnd
    BY <1>1, <2>1, OpenedByResm
  <2>. QED
    BY <1>1, <2>1, <2>2, <2>3, <2>4
<1>2. CASE ~Resm
  <2>1. q \in Opened
    BY <1>2, OpenedWasOrIsNew
  <2>2. UNCHANGED <<state, cur, place, scan>>
    <3>1. CASE Still
      BY <3>1, StillKeeps
    <3>2. CASE ~Still
      BY <1>2, <3>2, StepIs DEF NewTn, DeleteTn, Timeout, Answer
    <3>. QED
      BY <3>1, <3>2
  <2>. QED
    BY <1>2, <2>1, <2>2
<1>. QED
  BY <1>1, <1>2

Addressed ==
  \A n \in Nodes : \A i \in 1..Len(calls[n]) :
    calls[n][i].kind \in {"id", "rcv"} => calls[n][i].node = n

\* Behind a copy of the open call there are only more of them.
LastOnes ==
  \A n \in Nodes : \A q \in Opened : \A i, j \in 1..Len(calls[n]) :
    i <= j /\ calls[n][i] = q => calls[n][j] = q

\* What a table holds once the call was heeded.
Executed(n, q, t) ==
  /\ q.kind = "rcv" => q.cells \subseteq t.rcv
  /\ q.kind = "trs" /\ q.node # n => Heard(n, q.cells) \subseteq t.rcv

Heeded ==
  \A n \in Nodes : \A q \in Opened :
    tn[n].sessn = q.sessn =>
      /\ \A i \in 1..Len(calls[n]) : calls[n][i] = q
      /\ tn[n].tlen > 0 => Executed(n, q, tn[n])

Answered ==
  \A a \in answers :
    /\ On(a.from) => tn[a.from].sessn = a.sessn /\ tn[a.from].tlen = a.tlen
    /\ a.kind \in {"id", "rcv"} => a.from = cur

Delivered == Addressed /\ LastOnes /\ Heeded /\ Answered

LEMMA CopyTyped ==
  ASSUME TypeInv, NEW n \in Nodes
  PROVE  /\ calls[n] \in Seq(Requests) /\ Len(calls[n]) \in Nat
         /\ \A i \in 1..Len(calls[n]) : calls[n][i] \in Requests
         /\ tn[n] \in Tables
<1>1. calls \in [Nodes -> Seq(Requests)] /\ tn \in [Nodes -> Tables]
  BY DEF TypeInv, TypeOK
<1>2. calls[n] \in Seq(Requests) /\ tn[n] \in Tables
  BY <1>1
<1>. QED
  BY <1>2, ElementOfSeq

\* The number of a new call is on no copy and in no node's table.
LEMMA NumberIsNew ==
  ASSUME TypeInv, NEW q, q.sessn \notin SessnInUse, NEW n \in Nodes
  PROVE  /\ tn[n].sessn # q.sessn
         /\ \A i \in 1..Len(calls[n]) : calls[n][i] # q
BY DEF SessnInUse

LEMMA AddressedStep ==
  ASSUME TypeInv, Addressed, [Next]_vars
  PROVE  Addressed'
<1>. SUFFICES ASSUME NEW n \in Nodes, NEW i \in 1..Len(calls'[n]),
                     calls'[n][i].kind \in {"id", "rcv"}
              PROVE  calls'[n][i].node = n
  BY DEF Addressed
<1>0. calls[n] \in Seq(Requests) /\ TypeOK
  BY CopyTyped DEF TypeInv
<1>1. CASE calls'[n] = calls[n]
  BY <1>1 DEF Addressed
<1>2. CASE calls'[n] = <<>>
  BY <1>2, SMT
<1>3. CASE Serve(n)
  <2>1. calls[n] # <<>> /\ calls'[n] = Tail(calls[n])
    BY <1>0, <1>3, ServedTable DEF Serve
  <2>2. i + 1 \in 1..Len(calls[n]) /\ calls'[n][i] = calls[n][i + 1]
    BY <1>0, <2>1, Dequeued
  <2>. QED
    BY <2>2 DEF Addressed
<1>4. ASSUME NEW q \in Opened, n \in Targets(q), calls'[n] = Append(calls[n], q)
      PROVE  calls'[n][i].node = n
  <2>1. q \in Requests
    BY <1>0, OpenedTyped
  <2>2. \/ i \in 1..Len(calls[n]) /\ calls'[n][i] = calls[n][i]
        \/ calls'[n][i] = q
    BY <1>0, <1>4, <2>1, Enqueued
  <2>. QED
    BY <1>4, <2>2 DEF Addressed, Targets
<1>. QED
  BY <1>1, <1>2, <1>3, <1>4, BusBySteps

LEMMA LastOnesStep ==
  ASSUME TypeInv, Alone, LastOnes, [Next]_vars
  PROVE  LastOnes'
<1>. SUFFICES ASSUME NEW n \in Nodes, NEW q \in Opened',
                     NEW i \in 1..Len(calls'[n]), NEW j \in 1..Len(calls'[n]),
                     i <= j, calls'[n][i] = q
              PROVE  calls'[n][j] = q
  BY DEF LastOnes
<1>0. calls[n] \in Seq(Requests) /\ Len(calls[n]) \in Nat /\ TypeOK
  BY CopyTyped DEF TypeInv
<1>1. CASE UNCHANGED calls /\ q.sessn \notin SessnInUse
  BY <1>1, NumberIsNew
<1>2. CASE q \in Opened
  <2>1. CASE calls'[n] = calls[n]
    BY <1>2, <2>1 DEF LastOnes
  <2>2. CASE calls'[n] = <<>>
    BY <2>2, SMT
  <2>3. CASE Serve(n)
    <3>1. calls[n] # <<>> /\ calls'[n] = Tail(calls[n])
      BY <1>0, <2>3, ServedTable DEF Serve
    <3>2. /\ i + 1 \in 1..Len(calls[n]) /\ calls'[n][i] = calls[n][i + 1]
          /\ j + 1 \in 1..Len(calls[n]) /\ calls'[n][j] = calls[n][j + 1]
      BY <1>0, <3>1, Dequeued
    <3>3. i + 1 <= j + 1
      BY SMT
    <3>. QED
      BY <1>2, <3>2, <3>3 DEF LastOnes
  <2>4. ASSUME NEW p \in Opened, calls'[n] = Append(calls[n], p)
        PROVE  calls'[n][j] = q
    <3>1. p \in Requests /\ p = q
      BY <1>0, <1>2, OpenedTyped, OpenedOne DEF Alone
    <3>2. /\ \A k \in 1..Len(calls[n]) : calls'[n][k] = calls[n][k]
          /\ \A k \in 1..Len(calls'[n]) :
               k \in 1..Len(calls[n]) \/ (k = Len(calls[n]) + 1 /\ calls'[n][k] = p)
      BY <1>0, <2>4, <3>1, Enqueued
    <3>3. CASE j \in 1..Len(calls[n])
      <4>1. i \in 1..Len(calls[n])
        BY <1>0, <3>3, SMT
      <4>. QED
        BY <1>2, <3>2, <3>3, <4>1 DEF LastOnes
    <3>. QED
      BY <3>1, <3>2, <3>3
  <2>. QED
    BY <2>1, <2>2, <2>3, <2>4, BusBySteps
<1>. QED
  BY <1>1, <1>2, OpenedBySteps

LEMMA HeededStep ==
  ASSUME TypeInv, Alone, LastOnes, Heeded, [Next]_vars
  PROVE  Heeded'
<1>. SUFFICES ASSUME NEW n \in Nodes, NEW q \in Opened', tn'[n].sessn = q.sessn
              PROVE  /\ \A i \in 1..Len(calls'[n]) : calls'[n][i] = q
                     /\ tn'[n].tlen > 0 => Executed(n, q, tn'[n])
  BY DEF Heeded, Executed, Heard
<1>0. calls[n] \in Seq(Requests) /\ Len(calls[n]) \in Nat /\ TypeOK
  BY CopyTyped DEF TypeInv
<1>1. CASE UNCHANGED tn /\ q.sessn \notin SessnInUse
  BY <1>1, NumberIsNew
<1>2. CASE q \in Opened
  <2>0. q \in Requests /\ q.sessn # 0
    BY <1>0, <1>2, OpenedTyped DEF Requests
  <2>1. CASE tn'[n].sessn = 0
    BY <2>0, <2>1
  <2>2. CASE tn'[n] = tn[n] /\ calls'[n] = calls[n]
    BY <1>2, <2>2 DEF Heeded
  <2>3. ASSUME NEW p \in Opened, tn'[n] = tn[n], calls'[n] = Append(calls[n], p)
        PROVE  /\ \A i \in 1..Len(calls'[n]) : calls'[n][i] = q
               /\ tn'[n].tlen > 0 => Executed(n, q, tn'[n])
    <3>1. p = q
      BY <1>2, OpenedOne DEF Alone
    <3>2. \A k \in 1..Len(calls'[n]) :
            (k \in 1..Len(calls[n]) /\ calls'[n][k] = calls[n][k]) \/ calls'[n][k] = q
      BY <1>0, <2>0, <2>3, <3>1, Enqueued
    <3>. QED
      BY <1>2, <2>3, <3>2 DEF Heeded
  <2>4. CASE Serve(n)
    <3>. DEFINE p == Head(calls[n])
    <3>1. /\ p \in Requests /\ 1 \in 1..Len(calls[n]) /\ p = calls[n][1]
          /\ calls'[n] = Tail(calls[n])
          /\ \/ tn[n].sessn = p.sessn /\ tn'[n] = tn[n]
             \/ tn'[n] = [tn[n] EXCEPT !.sessn = p.sessn, !.tlen = 0]
             \/ tn'[n] = Configured(n, p)
      BY <1>0, <2>4, ServedTable
    <3>. HIDE DEF p
    <3>2. calls[n] # <<>>
      BY <2>4 DEF Serve
    <3>3. \A i \in 1..Len(calls'[n]) :
            i + 1 \in 1..Len(calls[n]) /\ calls'[n][i] = calls[n][i + 1]
      BY <1>0, <3>1, <3>2, Dequeued
    <3>4. CASE tn'[n] = tn[n]
      BY <1>2, <3>3, <3>4 DEF Heeded
    <3>5. ASSUME tn'[n].sessn = p.sessn
          PROVE  p = q /\ \A i \in 1..Len(calls'[n]) : calls'[n][i] = q
      <4>1. p = q
        BY <1>2, <3>1, <3>5 DEF Alone, Numbered
      <4>2. \A j \in 1..Len(calls[n]) : calls[n][j] = q
        <5>1. \A j \in 1..Len(calls[n]) : 1 <= j
          BY <1>0, SMT
        <5>2. 1 \in 1..Len(calls[n]) /\ calls[n][1] = q
          BY <3>1, <4>1
        <5>. QED
          BY <1>2, <5>1, <5>2, Zenon DEF LastOnes
      <4>. QED
        BY <3>3, <4>1, <4>2
    <3>6. CASE tn'[n] = [tn[n] EXCEPT !.sessn = p.sessn, !.tlen = 0]
      <4>1. tn[n] \in Tables
        BY CopyTyped
      <4>2. tn'[n].sessn = p.sessn /\ tn'[n].tlen = 0
        BY <3>6, <4>1 DEF Tables
      <4>. QED
        BY <3>5, <4>2, SMT
    <3>7. CASE tn'[n] = Configured(n, p)
      <4>1. /\ Configured(n, p).sessn = p.sessn
            /\ p.kind = "rcv" => Configured(n, p).rcv = tn[n].rcv \cup p.cells
            /\ p.node # n /\ p.kind = "trs" =>
                 Configured(n, p).rcv = tn[n].rcv \cup Heard(n, p.cells)
        BY <1>0, <3>1, ConfiguredTyped
      <4>2. Executed(n, p, Configured(n, p))
        BY <4>1 DEF Executed
      <4>. QED
        BY <3>5, <3>7, <4>1, <4>2
    <3>. QED
      BY <3>1, <3>4, <3>6, <3>7
  <2>. QED
    BY <2>1, <2>2, <2>3, <2>4, BusBySteps
<1>. QED
  BY <1>1, <1>2, OpenedBySteps

\* An answer was there, or its node gives it now, from its table as it is then.
LEMMA AnswersBySteps ==
  ASSUME TypeInv, [Next]_vars, NEW a \in answers'
  PROVE  \/ a \in answers
         \/ /\ a.from \in Nodes /\ Serve(a.from)
            /\ a.sessn = tn'[a.from].sessn /\ a.tlen = tn'[a.from].tlen
            /\ a.sessn = Head(calls[a.from]).sessn /\ a.kind = Head(calls[a.from]).kind
            /\ \E e \in req_list : e.req.sessn = a.sessn
<1>0. TypeOK
  BY DEF TypeInv
<1>1. CASE answers' \subseteq answers
  BY <1>1
<1>2. ASSUME NEW n \in Nodes, Serve(n), a \notin answers
      PROVE  /\ a.from = n /\ a.sessn = tn'[n].sessn /\ a.tlen = tn'[n].tlen
             /\ a.sessn = Head(calls[n]).sessn /\ a.kind = Head(calls[n]).kind
             /\ \E e \in req_list : e.req.sessn = a.sessn
  <2>. DEFINE q == Head(calls[n])
  <2>1. q \in Requests /\ tn[n] \in Tables /\ tn \in [Nodes -> Tables]
    BY <1>0, <1>2, ServedTable, CopyTyped DEF TypeOK
  <2>. HIDE DEF q
  <2>2. ASSUME NEW tlen \in {0, 1}, Reply(n, q, tlen)
        PROVE  /\ a.from = n /\ a.tlen = tlen /\ a.sessn = q.sessn /\ a.kind = q.kind
               /\ \E e \in req_list : e.req.sessn = a.sessn
    <3>1. /\ a = [sessn |-> q.sessn, kind |-> q.kind, from |-> n, tlen |-> tlen]
          /\ \E e \in req_list : e.req.sessn = a.sessn
      BY <1>0, <1>2, <2>1, <2>2, Replied
    <3>. QED
      BY <3>1
  <2>3. CASE tn[n].sessn = q.sessn /\ UNCHANGED tn /\ Reply(n, q, tn[n].tlen)
    <3>1. tn[n].tlen \in {0, 1}
      BY <2>1 DEF Tables
    <3>. QED
      BY <2>2, <2>3, <3>1 DEF q
  <2>4. CASE tn' = [tn EXCEPT ![n] = Configured(n, q)] /\ Reply(n, q, 1)
    <3>1. tn'[n] = Configured(n, q)
      BY <2>1, <2>4
    <3>2. Configured(n, q).sessn = q.sessn /\ Configured(n, q).tlen = 1
      BY <1>0, <1>2, <2>1, ConfiguredTyped
    <3>. QED
      BY <2>2, <2>4, <3>1, <3>2 DEF q
  <2>5. CASE UNCHANGED answers
    BY <1>2, <2>5
  <2>. QED
    BY <1>2, <2>3, <2>4, <2>5 DEF Serve, q
<1>3. CASE ~(\E n \in Nodes : Serve(n))
  <2>1. answers' \subseteq answers
    <3>1. CASE \E e \in req_list : Timeout(e) \/ \E b \in answers : Answer(e, b)
      BY <3>1 DEF Timeout, Answer, Awaiting
    <3>2. CASE ~(\E e \in req_list : Timeout(e) \/ \E b \in answers : Answer(e, b))
      BY <1>3, <3>2 DEF Next, Sysm, Resm, NewTn, DeleteTn, ResmsgProc, Join, Leave, AddCn,
           PickOnline, PickOffline, PushCommit, DownloadResId, AddRcvRes, AddTrsRes,
           DeleteNode, ScanTest, ScanSet, ScanEnd, EndServe, vars
    <3>. QED
      BY <3>1, <3>2
  <2>. QED
    BY <1>1, <2>1
<1>. QED
  BY <1>2, <1>3

LEMMA LeftIsGone ==
  ASSUME TypeInv, NEW n \in Nodes, Leave(n)
  PROVE  GoneFrom(n)'
<1>1. [type |-> "LSNODE", nodeid |-> n] \in Reports /\ rpt \in Seq(Reports)
  BY DEF TypeInv, TypeOK, Reports
<1>2. rpt' = Append(rpt, [type |-> "LSNODE", nodeid |-> n])
  BY DEF Leave
<1>3. \E i \in 1..Len(rpt') : rpt'[i] = [type |-> "LSNODE", nodeid |-> n]
  BY <1>1, <1>2, Enqueued
<1>. QED
  BY <1>3 DEF GoneFrom, Lost

LEMMA AnsweredStep ==
  ASSUME TypeInv, Alone, Gone, Addressed, Heeded, Answered, [Next]_vars
  PROVE  Answered'
<1>. SUFFICES ASSUME NEW a \in answers'
              PROVE  /\ ~(GoneFrom(a.from)') =>
                          tn'[a.from].sessn = a.sessn /\ tn'[a.from].tlen = a.tlen
                     /\ a.kind \in {"id", "rcv"} => a.from = cur'
  BY DEF Answered, On, GoneFrom, Lost
<1>0. TypeOK /\ answers \subseteq Answers
  BY DEF TypeInv, TypeOK
<1>1. CASE a \in answers
  <2>. DEFINE n == a.from
  <2>1. a.sessn # 0 /\ n \in Nodes
    BY <1>0, <1>1 DEF Answers
  <2>2. PICK q \in Opened : q.sessn = a.sessn
    BY <1>1 DEF Alone, Numbered, Opened
  <2>. HIDE DEF n
  <2>3. ~Resm
    BY <1>1, NothingUnderWay
  <2>4. UNCHANGED cur
    <3>1. CASE Still
      BY <3>1, StillKeeps
    <3>2. CASE ~Still
      BY <2>3, <3>2, StepIs DEF NewTn, DeleteTn, Timeout, Answer
    <3>. QED
      BY <3>1, <3>2
  <2>5. ASSUME ~(GoneFrom(n)')
        PROVE  tn'[n].sessn = a.sessn /\ tn'[n].tlen = a.tlen
    <3>1. ~GoneFrom(n)
      BY <2>1, <2>3, <2>5, OnBySteps
    <3>2. tn[n].sessn = a.sessn /\ tn[n].tlen = a.tlen
      BY <1>1, <3>1 DEF Answered, On, n
    <3>3. CASE tn'[n] = tn[n]
      BY <3>2, <3>3
    <3>4. ~Leave(n)
      BY <2>1, <2>5, LeftIsGone
    <3>5. ~Join(n)
      <4>1. tn[n].state # "OFF"
        BY <2>1, <3>2 DEF Gone, Off
      <4>. QED
        BY <4>1 DEF Join
    <3>6. CASE Serve(n)
      <4>0. 1 \in 1..Len(calls[n])
        BY <1>0, <2>1, <3>6, ServedTable
      <4>1. calls[n][1] = q
        BY <2>1, <2>2, <3>2, <4>0 DEF Heeded
      <4>2. tn'[n] = tn[n]
        BY <1>0, <2>1, <2>2, <3>2, <3>6, <4>1, ServedTable
      <4>. QED
        BY <3>2, <4>2
    <3>. QED
      BY <2>1, <3>3, <3>4, <3>5, <3>6, BusBySteps
  <2>. QED
    BY <1>1, <2>4, <2>5 DEF Answered, n
<1>2. CASE a \notin answers
  <2>. DEFINE n == a.from
  <2>1. /\ n \in Nodes /\ Serve(n) /\ a.sessn = tn'[n].sessn /\ a.tlen = tn'[n].tlen
        /\ a.sessn = Head(calls[n]).sessn /\ a.kind = Head(calls[n]).kind
        /\ \E e \in req_list : e.req.sessn = a.sessn
    BY <1>2, AnswersBySteps
  <2>. HIDE DEF n
  <2>2. PICK e \in req_list : e.req.sessn = a.sessn
    BY <2>1
  <2>3. 1 \in 1..Len(calls[n]) /\ Head(calls[n]) = calls[n][1]
    BY <1>0, <2>1, ServedTable
  <2>4. e.req \in Opened /\ e.req.node = cur
    BY CallIsOfCur
  <2>5. calls[n][1] = e.req
    BY <2>1, <2>2, <2>3, <2>4 DEF Alone, Numbered
  <2>6. a.kind \in {"id", "rcv"} => n = cur
    BY <2>1, <2>3, <2>4, <2>5 DEF Addressed
  <2>7. UNCHANGED cur
    BY <2>1 DEF Serve, cnvars
  <2>. QED
    BY <2>1, <2>6, <2>7 DEF n
<1>. QED
  BY <1>1, <1>2

LEMMA DeliveredStep ==
  ASSUME TypeInv, Alone, Gone, Delivered, [Next]_vars
  PROVE  Delivered'
BY AddressedStep, LastOnesStep, HeededStep, AnsweredStep DEF Delivered

-----------------------------------------------------------------------------
(***************************************************************************)
(* What the open request names: the receptions of the node that is served, *)
(* everything that it sends, or places that nobody has any more.           *)
(***************************************************************************)
Full(n) == Sends(n) \subseteq Active

Vacant(cells) == \A c \in cells : \A r \in Active : c[2] # place[r]

Asked ==
  /\ \A q \in Opened : /\ q.kind = "rcv" => q.cells = Cells(Rcv[cur] \cap Active, place)
                       /\ q.kind = "trs" => q.cells = Cells(Sends(cur), place) /\ Full(cur)
                       /\ q.kind = "del" => Vacant(q.cells)
  /\ scan # NoScan /\ state = "ONLINE" => scan.cells = Cells(Sends(cur), place) /\ Full(cur)
  /\ scan # NoScan /\ state = "OFFLINE" => Vacant(scan.cells)

\* A scan goes on, or starts with what the node sends or has sent.
LEMMA ScanIsOf ==
  ASSUME TypeInv, Alone, [Next]_vars, scan' # NoScan
  PROVE  /\ UNCHANGED <<state, cur>>
         /\ \/ scan # NoScan /\ UNCHANGED place /\ scan'.cells = scan.cells
            \/ /\ Resm /\ AddTrsRes /\ cur \in Nodes /\ state = "ONLINE"
               /\ \A r \in Sends(cur) : place'[r] # 0
               /\ scan' = [i |-> 1, hit |-> FALSE, cells |-> Cells(Sends(cur), place')]
            \/ /\ Resm /\ DeleteNode /\ cur \in Nodes /\ state = "OFFLINE"
               /\ place' = [r \in Res |-> IF r \in Sends(cur) THEN 0 ELSE place[r]]
               /\ scan'.cells = Cells(Sends(cur) \cap Active, place)
<1>0. scan \in Scans /\ (cur = 0 <=> state \in {"BOOT", "IDLE"})
  BY DEF TypeInv, TypeOK
<1>1. CASE scan # NoScan /\ UNCHANGED <<state, cur, scan, place>>
  BY <1>1
<1>2. CASE Resm
  <2>1. CASE \/ AddCn \/ PushCommit \/ EndServe \/ DownloadResId \/ AddRcvRes
             \/ \E n \in Nodes : PickOnline(n) \/ PickOffline(n)
    <3>1. UNCHANGED scan
      BY <2>1 DEF AddCn, PushCommit, EndServe, PickOnline, PickOffline, DownloadResId, AddRcvRes
    <3>2. cur = 0 \/ scan = NoScan
      BY <1>0, <2>1 DEF AddCn, PushCommit, EndServe, PickOnline, PickOffline, DownloadResId,
           AddRcvRes, Serving
    <3>3. scan = NoScan
      BY <3>2 DEF Alone, Waits
    <3>. QED
      BY <3>1, <3>3
  <2>2. CASE AddTrsRes
    <3>1. UNCHANGED <<state, cur>> /\ scan = NoScan /\ state = "ONLINE"
      BY <2>2 DEF AddTrsRes, Serving
    <3>. QED
      BY <1>2, <2>2, <3>1, TrsPlaced
  <2>3. CASE DeleteNode
    <3>1. UNCHANGED <<state, cur>> /\ scan = NoScan /\ state = "OFFLINE"
      BY <2>3 DEF DeleteNode, Serving
    <3>2. CASE UNCHANGED scan
      BY <3>1, <3>2
    <3>3. CASE scan' = [i |-> 1, hit |-> FALSE, cells |-> Cells(Sends(cur) \cap Active, place)]
      BY <1>2, <2>3, <3>1, <3>3, NodeDeleted
    <3>. QED
      BY <1>2, <2>3, <3>2, <3>3, NodeDeleted
  <2>4. CASE ScanTest \/ ScanSet
    <3>1. UNCHANGED <<state, cur, place>> /\ scan # NoScan
      BY <2>4 DEF ScanTest, ScanSet, NoScan
    <3>2. scan'.cells = scan.cells
      BY <1>0, <2>4 DEF ScanTest, ScanSet, Scans
    <3>. QED
      BY <3>1, <3>2
  <2>5. CASE ScanEnd
    BY <2>5 DEF ScanEnd
  <2>. QED
    BY <1>2, <2>1, <2>2, <2>3, <2>4, <2>5 DEF Resm
<1>3. CASE Still
  BY <1>1, <1>3, StillKeeps
<1>4. CASE \/ NewTn \/ DeleteTn
           \/ \E e \in req_list : Timeout(e) \/ \E a \in answers : Answer(e, a)
  BY <1>1, <1>4 DEF NewTn, DeleteTn, Timeout, Answer
<1>. QED
  BY <1>2, <1>3, <1>4, StepIs

LEMMA AskedStep ==
  ASSUME TypeInv, Alone, PlacesApart, Asked, [Next]_vars
  PROVE  Asked'
<1>0. /\ TypeOK /\ place \in [Res -> Places \cup {0}]
      /\ cur \in Nodes \cup {0} /\ (cur = 0 <=> state \in {"BOOT", "IDLE"})
      /\ state \in {"BOOT", "IDLE", "ONLINE", "OFFLINE"} /\ 0 \notin Nodes
  BY SysResAssumption DEF TypeInv, TypeOK, SysResAssumption
<1>1. ASSUME NEW q \in Opened'
      PROVE  /\ UNCHANGED <<place, cur>>
             /\ q.kind = "rcv" => q.cells = Cells(Rcv[cur] \cap Active, place)
             /\ q.kind = "trs" => q.cells = Cells(Sends(cur), place) /\ Full(cur)
             /\ q.kind = "del" => Vacant(q.cells)
  <2>1. CASE q \in Opened /\ UNCHANGED <<place, cur>>
    BY <2>1 DEF Asked
  <2>2. CASE DownloadResId /\ q.kind = "id" /\ UNCHANGED <<place, cur>>
    BY <2>2
  <2>3. CASE /\ AddRcvRes /\ q.kind = "rcv" /\ q.cells = Cells(Rcv[cur] \cap Active, place)
             /\ UNCHANGED <<place, cur>>
    BY <2>3
  <2>4. CASE /\ Resm /\ ScanEnd /\ q.kind = (IF state = "ONLINE" THEN "trs" ELSE "del")
             /\ q.cells = scan.cells /\ UNCHANGED <<place, cur>>
    <3>1. cur \in Nodes /\ scan # NoScan
      BY <2>4, ScanSent DEF NoScan
    <3>2. state \in {"ONLINE", "OFFLINE"}
      BY <1>0, <3>1
    <3>. QED
      BY <2>4, <3>1, <3>2 DEF Asked
  <2>. QED
    BY <2>1, <2>2, <2>3, <2>4, OpenedBySteps
<1>2. ASSUME scan' # NoScan
      PROVE  /\ state' = "ONLINE" =>
                  /\ scan'.cells = Cells(Sends(cur'), place')
                  /\ \A r \in Sends(cur') : place'[r] # 0
             /\ state' = "OFFLINE" =>
                  \A c \in scan'.cells : \A r \in Res : place'[r] # 0 => c[2] # place'[r]
  <2>1. CASE /\ UNCHANGED <<state, cur, place>> /\ scan # NoScan
             /\ scan'.cells = scan.cells
    BY <2>1 DEF Asked, Full, Active, Vacant
  <2>2. CASE /\ UNCHANGED <<state, cur>> /\ state = "ONLINE"
             /\ \A r \in Sends(cur) : place'[r] # 0
             /\ scan' = [i |-> 1, hit |-> FALSE, cells |-> Cells(Sends(cur), place')]
    BY <2>2
  <2>3. CASE /\ UNCHANGED <<state, cur>> /\ state = "OFFLINE"
             /\ place' = [r \in Res |-> IF r \in Sends(cur) THEN 0 ELSE place[r]]
             /\ scan'.cells = Cells(Sends(cur) \cap Active, place)
    <3>1. ASSUME NEW c \in scan'.cells, NEW r \in Res, place'[r] # 0
          PROVE  c[2] # place'[r]
      <4>1. PICK s \in Sends(cur) \cap Active : c = <<s, place[s]>>
        BY <2>3, <3>1 DEF Cells
      <4>2. r \notin Sends(cur) /\ place'[r] = place[r]
        BY <2>3, <3>1
      <4>3. r \in Active /\ s # r
        BY <3>1, <4>1, <4>2 DEF Active
      <4>. QED
        BY <4>1, <4>2, <4>3 DEF PlacesApart
    <3>. QED
      BY <2>3, <3>1
  <2>. QED
    BY <1>2, <2>1, <2>2, <2>3, ScanIsOf
<1>3. ASSUME UNCHANGED <<place, cur>>
      PROVE  \A cells : /\ Cells(Rcv[cur] \cap Active, place)' = Cells(Rcv[cur] \cap Active, place)
                        /\ Cells(Sends(cur), place)' = Cells(Sends(cur), place)
                        /\ Full(cur)' <=> Full(cur)
                        /\ (\A c \in cells : \A r \in Active' : c[2] # place'[r]) <=> Vacant(cells)
  BY <1>3 DEF Cells, Active, Full, Sends, Vacant
<1>4. /\ \A r \in Active' : r \in Res /\ place'[r] # 0
      /\ (\A r \in Sends(cur') : place'[r] # 0) => Full(cur)'
  <2>1. cur' \in Nodes \cup {0}
    BY <1>0, TypeStep DEF TypeInv, TypeOK
  <2>2. Sends(cur') \subseteq Res
    BY <2>1, SendsIsFinite
  <2>. QED
    BY <2>2 DEF Active, Full, Sends
<1>5. \A q \in Opened' :
        /\ q.kind = "rcv" => q.cells = Cells(Rcv[cur] \cap Active, place)'
        /\ q.kind = "trs" => q.cells = Cells(Sends(cur), place)' /\ Full(cur)'
        /\ q.kind = "del" => \A c \in q.cells : \A r \in Active' : c[2] # place'[r]
  BY <1>1, <1>3
<1>6. /\ scan' # NoScan /\ state' = "ONLINE" => scan'.cells = Cells(Sends(cur), place)' /\ Full(cur)'
      /\ scan' # NoScan /\ state' = "OFFLINE" =>
           \A c \in scan'.cells : \A r \in Active' : c[2] # place'[r]
  BY <1>2, <1>4 DEF Cells, Sends
<1>. QED
  BY <1>5, <1>6 DEF Asked, Vacant

-----------------------------------------------------------------------------
(***************************************************************************)
(* What a node holds for good: a cell that it receives in and that nothing *)
(* on its way to it takes out again.                                       *)
(***************************************************************************)
Has(n, c) ==
  /\ c \in tn[n].rcv
  /\ \A i \in 1..Len(calls[n]) :
       calls[n][i].kind = "del" /\ calls[n][i].node # n =>
         c[2] \notin At(Heard(n, calls[n][i].cells))

\* Node n receives everything that it asked for of what node m sends.
Holds(n, m) == \A r \in Sends(m) \cap Rcv[n] : Has(n, <<r, place[r]>>)

LEMMA HasStays ==
  ASSUME TypeInv, Gone, Asked, [Next]_vars, NEW n \in Nodes, ~(GoneFrom(n)'),
         NEW r \in Active, NEW c, c[2] = place[r], Has(n, c)
  PROVE  Has(n, c)'
<1>0. calls[n] \in Seq(Requests) /\ Len(calls[n]) \in Nat /\ tn[n] \in Tables /\ TypeOK
  BY CopyTyped DEF TypeInv
<1>1. CASE tn'[n] = tn[n] /\ calls'[n] = calls[n]
  BY <1>1 DEF Has, At, Heard
<1>2. ~Join(n) /\ ~Leave(n)
  <2>1. tn[n].rcv # {}
    BY DEF Has
  <2>2. tn[n].state # "OFF"
    BY <2>1 DEF Gone, Off
  <2>. QED
    BY <2>2, LeftIsGone DEF Join
<1>3. ASSUME NEW q \in Opened, tn'[n] = tn[n], calls'[n] = Append(calls[n], q)
      PROVE  Has(n, c)'
  <2>1. q \in Requests
    BY <1>0, OpenedTyped
  <2>2. q.kind = "del" => c[2] \notin At(Heard(n, q.cells))
    BY DEF Asked, Vacant, At, Heard
  <2>3. \A i \in 1..Len(calls'[n]) :
          (i \in 1..Len(calls[n]) /\ calls'[n][i] = calls[n][i]) \/ calls'[n][i] = q
    BY <1>0, <1>3, <2>1, Enqueued
  <2>. QED
    BY <1>3, <2>2, <2>3 DEF Has, At, Heard
<1>4. CASE Serve(n)
  <2>. DEFINE p == Head(calls[n])
  <2>1. /\ p \in Requests /\ 1 \in 1..Len(calls[n]) /\ p = calls[n][1]
        /\ calls'[n] = Tail(calls[n])
        /\ \/ tn'[n] = tn[n]
           \/ tn'[n] = [tn[n] EXCEPT !.sessn = p.sessn, !.tlen = 0]
           \/ tn'[n] = Configured(n, p)
    BY <1>0, <1>4, ServedTable
  <2>. HIDE DEF p
  <2>0. calls[n] # <<>>
    BY <1>4 DEF Serve
  <2>2. \A i \in 1..Len(calls'[n]) :
          i + 1 \in 1..Len(calls[n]) /\ calls'[n][i] = calls[n][i + 1]
    BY <1>0, <2>0, <2>1, Dequeued
  <2>3. c \in tn'[n].rcv
    <3>1. c \in tn[n].rcv
      BY DEF Has
    <3>2. CASE tn'[n] = tn[n] \/ tn'[n] = [tn[n] EXCEPT !.sessn = p.sessn, !.tlen = 0]
      <4>1. tn'[n].rcv = tn[n].rcv
        BY <1>0, <3>2 DEF Tables
      <4>. QED
        BY <3>1, <4>1
    <3>3. CASE tn'[n] = Configured(n, p)
      <4>1. Configured(n, p).rcv =
              IF p.kind = "rcv" THEN tn[n].rcv \cup p.cells
              ELSE IF p.node # n /\ p.kind = "trs" THEN tn[n].rcv \cup Heard(n, p.cells)
              ELSE IF p.node # n /\ p.kind = "del"
              THEN {d \in tn[n].rcv : d[2] \notin At(Heard(n, p.cells))}
              ELSE tn[n].rcv
        BY <1>0, <2>1, ConfiguredTyped, Zenon
      <4>2. p.kind = "del" /\ p.node # n => c[2] \notin At(Heard(n, p.cells))
        BY <2>1 DEF Has
      <4>. QED
        BY <3>1, <3>3, <4>1, <4>2
    <3>. QED
      BY <2>1, <3>2, <3>3
  <2>4. \A i \in 1..Len(calls'[n]) :
          calls'[n][i].kind = "del" /\ calls'[n][i].node # n =>
            c[2] \notin At(Heard(n, calls'[n][i].cells))
    BY <2>2 DEF Has
  <2>. QED
    BY <2>3, <2>4 DEF Has, At, Heard
<1>. QED
  BY <1>1, <1>2, <1>3, <1>4, BusBySteps

LEMMA HoldsStays ==
  ASSUME TypeInv, Gone, Asked, [Next]_vars, NEW m \in Nodes, NEW n \in Nodes,
         ~(GoneFrom(n)'), Full(m), Holds(n, m), \A r \in Sends(m) : place'[r] = place[r]
  PROVE  Holds(n, m)'
<1>1. ASSUME NEW r \in Sends(m), r \in Rcv[n]
      PROVE  Has(n, <<r, place[r]>>)'
  <2>1. r \in Active /\ place'[r] = place[r]
    BY DEF Full
  <2>. DEFINE c == <<r, place[r]>>
  <2>2. c[2] = place[r] /\ Has(n, c)
    BY <1>1 DEF Holds
  <2>. HIDE DEF c
  <2>3. \A d : d = c => Has(n, d)'
    BY <2>1, <2>2, HasStays
  <2>4. <<r, place'[r]>> = c
    BY <2>1 DEF c
  <2>. QED
    BY <2>3, <2>4 DEF Has
<1>. QED
  BY <1>1 DEF Holds, Has, Sends

\* An answer with a body: the call was heeded, and nothing else is on its way.
LEMMA AnswerTells ==
  ASSUME TypeInv, Alone, Bodies, Delivered, Asked, NEW e \in req_list, NEW a \in answers,
         On(a.from), a.from \in Nodes
  PROVE  /\ e.req.kind = "rcv" =>
              a.from = cur /\ \A m \in Nodes : m # cur /\ Full(m) => Holds(cur, m)
         /\ e.req.kind = "trs" /\ a.from # cur => Holds(a.from, cur)
<1>. DEFINE n == a.from
            q == e.req
<1>1. /\ q \in Opened /\ q.node = cur /\ q.sessn = a.sessn /\ q.kind = a.kind
      /\ a.tlen > 0
  BY CallIsOfCur DEF Bodies
<1>2. tn[n].sessn = a.sessn /\ tn[n].tlen = a.tlen /\ (a.kind = "rcv" => n = cur)
  BY DEF Delivered, Answered
<1>. HIDE DEF n, q
<1>3. /\ \A i \in 1..Len(calls[n]) : calls[n][i] = q
      /\ Executed(n, q, tn[n])
  <2>1. tn[n].sessn = q.sessn /\ tn[n].tlen > 0 /\ n \in Nodes
    BY <1>1, <1>2 DEF n
  <2>. QED
    BY <1>1, <2>1 DEF Delivered, Heeded
<1>4. ASSUME NEW c \in tn[n].rcv, q.kind # "del" PROVE Has(n, c)
  BY <1>3, <1>4 DEF Has
<1>5. ASSUME q.kind = "rcv", NEW m \in Nodes, m # cur, Full(m) PROVE Holds(cur, m)
  <2>1. n = cur /\ Cells(Rcv[cur] \cap Active, place) \subseteq tn[n].rcv
    BY <1>1, <1>2, <1>3, <1>5 DEF Executed, Asked
  <2>2. ASSUME NEW r \in Sends(m), r \in Rcv[cur] PROVE <<r, place[r]>> \in tn[n].rcv
    BY <1>5, <2>1, <2>2 DEF Cells, Full
  <2>. QED
    BY <1>4, <1>5, <2>1, <2>2 DEF Holds
<1>6. ASSUME q.kind = "trs", n # cur PROVE Holds(n, cur)
  <2>1. Heard(n, Cells(Sends(cur), place)) \subseteq tn[n].rcv
    BY <1>1, <1>3, <1>6 DEF Executed, Asked
  <2>2. ASSUME NEW r \in Sends(cur), r \in Rcv[n] PROVE <<r, place[r]>> \in tn[n].rcv
    BY <2>1, <2>2 DEF Cells, Heard
  <2>. QED
    BY <1>4, <1>6, <2>2 DEF Holds
<1>. QED
  BY <1>1, <1>2, <1>5, <1>6 DEF n, q

-----------------------------------------------------------------------------
(***************************************************************************)
(* Who has been told.  A node that is past its list of receptions holds    *)
(* what the finished nodes send; while the resources of a node are         *)
(* announced, so does every finished node whose flag is not set.           *)
(***************************************************************************)
Rest(n)     == pnd[n].state = "ADD_FINISH" /\ On(n)
Finished(m) == pnd[m].state = "ADD_FINISH" /\ Full(m)

Told == /\ state = "ONLINE"
        /\ \/ pnd[cur].state = "ADD_TRS_RES" \/ scan # NoScan
           \/ \E q \in Opened : q.kind = "trs"

Past(n) == On(n) /\ (pnd[n].state = "ADD_FINISH" \/ (n = cur /\ Told))

Informed ==
  \A m, n \in Nodes : m # n /\ Finished(m) /\ Past(n) => Holds(n, m)

Acked ==
  /\ \A q \in Opened : q.kind = "trs" =>
       \A n \in Nodes : n # cur /\ Rest(n) /\ n \notin ack_flag => Holds(n, cur)
  /\ state = "ONLINE" /\ scan # NoScan =>
       \A k \in 1..Len(ncn) :
         k < scan.i /\ ncn[k] # cur /\ Rest(ncn[k]) => ncn[k] \in ack_flag

Known == \A n \in Nodes : pnd[n].state # "INIT" => n \in Listed

\* What resm makes of the states of the nodes.
LEMMA StateByResm ==
  ASSUME TypeInv, Alone, Resm, NEW m \in Nodes
  PROVE  \/ /\ pnd'[m].state = pnd[m].state
            /\ UNCHANGED <<state, cur>> \/ state' # "ONLINE" \/ m # cur'
         \/ /\ m \in Listed /\ pnd'[m].state \in {"DOWNLOAD_RES_ID", "DEL_RES"}
            /\ \E n \in Nodes : PickOnline(n) \/ PickOffline(n)
         \/ /\ m = cur /\ pnd[m].state # "INIT" /\ UNCHANGED <<state, cur>>
            /\ \/ pnd'[m].state \in {"WAIT_ACK", "DEL_FINISH"}
               \/ /\ AddRcvRes /\ Rcv[cur] \cap Active = {} /\ UNCHANGED place
                  /\ pnd'[m].state = "ADD_TRS_RES"
               \/ /\ AddTrsRes /\ pnd'[m].state = "ADD_FINISH"
                  /\ Trs[cur] = <<>> \/ Placed(cur) # DOMAIN Trs[cur]
<1>0. TypeOK /\ pnd \in [Nodes -> Entries]
  BY DEF TypeInv, TypeOK
<1>1. CASE AddCn \/ PushCommit \/ ScanTest \/ ScanSet \/ EndServe
  BY <1>1 DEF AddCn, PushCommit, ScanTest, ScanSet, EndServe
<1>2. ASSUME NEW n \in Nodes, PickOnline(n) \/ PickOffline(n)
      PROVE  \/ pnd'[m].state = pnd[m].state /\ m # cur'
             \/ m \in Listed /\ pnd'[m].state \in {"DOWNLOAD_RES_ID", "DEL_RES"}
  <2>1. cur' = n /\ n \in Listed
    BY <1>2 DEF PickOnline, PickOffline
  <2>2. CASE PickOnline(n)
    BY <1>0, <2>1, <2>2 DEF PickOnline, Entries
  <2>3. CASE PickOffline(n)
    BY <1>0, <2>1, <2>3 DEF PickOffline, Entries
  <2>. QED
    BY <1>2, <2>2, <2>3
<1>3. ASSUME NEW s, NodeState(cur, s), cur \in Nodes
      PROVE  IF m = cur THEN pnd'[m].state = s ELSE pnd'[m].state = pnd[m].state
  BY <1>0, <1>3, StateSet
<1>4. CASE DownloadResId
  <2>1. cur \in Nodes /\ NodeState(cur, "WAIT_ACK")
    BY <1>4, IdSent
  <2>2. UNCHANGED <<state, cur>> /\ pnd[cur].state # "INIT"
    BY <1>4 DEF DownloadResId, Serving
  <2>. QED
    BY <1>3, <2>1, <2>2
<1>5. CASE AddRcvRes
  <2>1. /\ cur \in Nodes
        /\ \/ Rcv[cur] \cap Active = {} /\ NodeState(cur, "ADD_TRS_RES")
           \/ NodeState(cur, "WAIT_ACK")
    BY <1>5, RcvSent
  <2>2. UNCHANGED <<state, cur, place>> /\ pnd[cur].state # "INIT"
    BY <1>5 DEF AddRcvRes, Serving
  <2>. QED
    BY <1>3, <1>5, <2>1, <2>2
<1>6. CASE AddTrsRes
  <2>1. /\ cur \in Nodes
        /\ \/ /\ Trs[cur] = <<>> \/ Placed(cur) # DOMAIN Trs[cur]
              /\ NodeState(cur, "ADD_FINISH")
           \/ NodeState(cur, "WAIT_ACK")
    BY <1>6, TrsPlaced
  <2>2. UNCHANGED <<state, cur>> /\ pnd[cur].state # "INIT"
    BY <1>6 DEF AddTrsRes, Serving
  <2>. QED
    BY <1>3, <1>6, <2>1, <2>2
<1>7. CASE DeleteNode
  <2>1. cur \in Nodes /\ (NodeState(cur, "DEL_FINISH") \/ NodeState(cur, "WAIT_ACK"))
    BY <1>7, NodeDeleted
  <2>2. UNCHANGED <<state, cur>> /\ pnd[cur].state # "INIT"
    BY <1>7 DEF DeleteNode, Serving
  <2>. QED
    BY <1>3, <2>1, <2>2
<1>8. CASE ScanEnd
  <2>1. cur \in Nodes /\ (NodeState(cur, "DEL_FINISH") \/ UNCHANGED pnd)
    BY <1>8, ScanSent
  <2>2. UNCHANGED <<state, cur>> /\ scan # NoScan
    BY <1>8, ScanSent DEF ScanEnd, NoScan
  <2>3. pnd[cur].state # "INIT"
    BY <2>2 DEF Alone, Waits
  <2>. QED
    BY <1>3, <2>1, <2>2, <2>3
<1>. QED
  BY <1>1, <1>2, <1>4, <1>5, <1>6, <1>7, <1>8 DEF Resm

\* What a callback makes of them.
LEMMA StateByAnswer ==
  ASSUME TypeInv, Alone, NEW e \in req_list, NEW m \in Nodes
  PROVE  /\ Timeout(e) =>
              \/ pnd'[m].state = pnd[m].state
              \/ m = cur /\ pnd'[m].state \in {"FAIL", "DEL_FINISH"}
              \/ /\ m = cur /\ pnd'[m].state = "ADD_FINISH"
                 /\ e.req.kind = "trs" /\ ack_flag = {} /\ UNCHANGED ack_flag
         /\ \A a \in answers : Answer(e, a) =>
              \/ pnd'[m].state = pnd[m].state
              \/ m = cur /\ pnd'[m].state \in {"FAIL", "DEL_FINISH", "ADD_RCV_RES"}
              \/ m = cur /\ pnd'[m].state = "ADD_TRS_RES" /\ e.req.kind = "rcv"
              \/ /\ m = cur /\ pnd'[m].state = "ADD_FINISH"
                 /\ e.req.kind = "trs" /\ ack_flag' = {}
<1>0. TypeOK
  BY DEF TypeInv
<1>1. e.req.node = cur /\ e.req.kind \in Kinds /\ \A a \in answers : a.kind = e.req.kind
  BY CallIsOfCur DEF Requests
<1>2. ASSUME Timeout(e)
      PROVE  \/ pnd'[m].state = pnd[m].state
             \/ m = cur /\ pnd'[m].state \in {"FAIL", "DEL_FINISH"}
             \/ /\ m = cur /\ pnd'[m].state = "ADD_FINISH"
                /\ e.req.kind = "trs" /\ ack_flag = {} /\ UNCHANGED ack_flag
  <2>1. pnd'[m].state = IF GivenUp(e) /\ m = e.req.node
                        THEN StateAfter(e.req.kind, ack_flag, TRUE, pnd[m].state)
                        ELSE pnd[m].state
    BY <1>0, <1>2, StateByCallback
  <2>2. UNCHANGED ack_flag
    BY <1>2 DEF Timeout
  <2>. QED
    BY <1>1, <2>1, <2>2 DEF StateAfter, Finish, Kinds
<1>3. ASSUME NEW a \in answers, Answer(e, a)
      PROVE  \/ pnd'[m].state = pnd[m].state
             \/ m = cur /\ pnd'[m].state \in {"FAIL", "DEL_FINISH", "ADD_RCV_RES"}
             \/ m = cur /\ pnd'[m].state = "ADD_TRS_RES" /\ e.req.kind = "rcv"
             \/ /\ m = cur /\ pnd'[m].state = "ADD_FINISH"
                /\ e.req.kind = "trs" /\ ack_flag' = {}
  <2>1. pnd'[m].state = IF m = e.req.node
                        THEN StateAfter(a.kind, ack_flag', a.kind = "trs" /\ a.tlen = 0,
                                        pnd[m].state)
                        ELSE pnd[m].state
    BY <1>0, <1>3, StateByCallback
  <2>. QED
    BY <1>1, <2>1 DEF StateAfter, Finish, Kinds
<1>. QED
  BY <1>2, <1>3

\* How a node comes to be finished: only the one that is served does.
LEMMA FinishedBySteps ==
  ASSUME TypeInv, Alone, [Next]_vars, NEW m \in Nodes, pnd'[m].state = "ADD_FINISH"
  PROVE  \/ pnd[m].state = "ADD_FINISH"
         \/ /\ m = cur /\ Resm /\ AddTrsRes
            /\ Trs[cur] = <<>> \/ Placed(cur) # DOMAIN Trs[cur]
         \/ /\ m = cur
            /\ \E e \in req_list :
                 /\ e.req.kind = "trs" /\ ack_flag' = {}
                 /\ \/ Timeout(e) /\ ack_flag = {}
                    \/ \E a \in answers : Answer(e, a)
<1>0. TypeOK
  BY DEF TypeInv
<1>1. CASE Still
  BY <1>1, StillKeeps
<1>2. CASE NewTn \/ DeleteTn
  BY <1>0, <1>2, StateByReport
<1>3. CASE Resm
  BY <1>3, StateByResm
<1>4. ASSUME NEW e \in req_list, Timeout(e) \/ \E a \in answers : Answer(e, a),
             pnd[m].state # "ADD_FINISH"
      PROVE  /\ m = cur /\ e.req.kind = "trs" /\ ack_flag' = {}
             /\ \/ Timeout(e) /\ ack_flag = {}
                \/ \E a \in answers : Answer(e, a)
  BY <1>4, StateByAnswer
<1>. QED
  BY <1>1, <1>2, <1>3, <1>4, StepIs

LEMMA KnownStep ==
  ASSUME TypeInv, Alone, Known, [Next]_vars
  PROVE  Known'
<1>0. TypeOK /\ ncn \in Seq(Nodes) /\ Len(ncn) \in Nat
  BY DEF TypeInv, TypeOK
<1>1. Listed \subseteq Listed'
  <2>1. CASE UNCHANGED ncn
    BY <2>1 DEF Listed
  <2>2. ASSUME NEW n \in Nodes, ncn' = Append(ncn, n) PROVE Listed \subseteq Listed'
    <3>1. \A k \in 1..Len(ncn) : k \in 1..Len(ncn') /\ ncn'[k] = ncn[k]
      BY <1>0, <2>2, Enqueued
    <3>. QED
      BY <3>1, Zenon DEF Listed
  <2>3. CASE NewTn
    <3>1. Head(rpt).nodeid \in Nodes
      BY <1>0, <2>3, StateByReport DEF Reports
    <3>. QED
      BY <2>1, <2>2, <2>3, <3>1 DEF NewTn
  <2>4. CASE ~NewTn
    BY <2>1, <2>4 DEF Next, Sysm, Resm, DeleteTn, ResmsgProc, Timeout, Answer, Join, Leave, Serve,
         AddCn, PickOnline, PickOffline, PushCommit, DownloadResId, AddRcvRes, AddTrsRes,
         DeleteNode, ScanTest, ScanSet, ScanEnd, EndServe, vars, cnvars
  <2>. QED
    BY <2>3, <2>4
<1>2. ASSUME NEW m \in Nodes, pnd'[m].state # "INIT" PROVE m \in Listed
  <2>1. CASE Still
    BY <1>2, <2>1, StillKeeps DEF Known
  <2>2. CASE NewTn \/ DeleteTn
    BY <1>0, <1>2, <2>2, StateByReport DEF Known
  <2>3. CASE Resm
    BY <1>2, <2>3, StateByResm DEF Known
  <2>4. ASSUME NEW e \in req_list, Timeout(e) \/ \E a \in answers : Answer(e, a)
        PROVE  m \in Listed
    <3>1. pnd'[m].state = pnd[m].state \/ m = cur
      BY <2>4, StateByAnswer
    <3>2. pnd[cur].state # "INIT"
      BY CallIsOfCur
    <3>. QED
      BY <1>2, <3>1, <3>2 DEF Known
  <2>. QED
    BY <2>1, <2>2, <2>3, <2>4, StepIs
<1>. QED
  BY <1>1, <1>2 DEF Known

\* A node that was not served stays on the bus only if it was there.
LEMMA OnStays ==
  ASSUME TypeInv, Alone, [Next]_vars, NEW n \in Nodes, ~(GoneFrom(n)')
  PROVE  \/ On(n)
         \/ n = cur /\ Resm /\ EndServe /\ state = "OFFLINE" /\ state' = "IDLE" /\ cur' = 0
BY OnBySteps DEF On

LEMMA FinishedKept ==
  ASSUME TypeInv, [Next]_vars, NEW m \in Nodes, pnd[m].state = "ADD_FINISH"
  PROVE  \A r \in Sends(m) : place'[r] = place[r]
<1>0. m # 0 /\ cur \in Nodes \cup {0}
  BY SysResAssumption DEF TypeInv, TypeOK, SysResAssumption
<1>1. CASE Resm /\ AddCn /\ place' = Grant(0)
  BY <1>0, <1>1, GrantedOthers
<1>2. CASE Resm /\ AddTrsRes /\ place' = Grant(cur)
  <2>1. m # cur
    BY <1>2 DEF AddTrsRes, Serving
  <2>. QED
    BY <1>0, <1>2, <2>1, GrantedOthers
<1>3. CASE /\ Resm /\ DeleteNode
           /\ place' = [r \in Res |-> IF r \in Sends(cur) THEN 0 ELSE place[r]]
  <2>1. m # cur /\ cur \in Nodes
    BY <1>3, NodeDeleted DEF DeleteNode, Serving
  <2>. QED
    BY <1>0, <1>3, <2>1, FreedOthers
<1>. QED
  BY <1>1, <1>2, <1>3, PlaceBySteps

\* An acknowledgement that is awaited no more: the node is gone, or has answered.
LEMMA FlagBySteps ==
  ASSUME TypeInv, Alone, Bodies, [Next]_vars, ~Resm, NEW n \in ack_flag, n \notin ack_flag'
  PROVE  \/ GoneFrom(n)'
         \/ \E e \in req_list : \E a \in answers : Answer(e, a) /\ a.from = n
<1>0. TypeOK /\ n \in Nodes
  BY DEF TypeInv, TypeOK
<1>1. ~Still
  BY StillKeeps
<1>2. ~NewTn
  BY DEF NewTn
<1>3. CASE DeleteTn
  <2>1. Head(rpt).nodeid = n
    BY <1>3 DEF DeleteTn
  <2>. QED
    BY <1>0, <1>3, <2>1, StateByReport DEF GoneFrom
<1>4. ASSUME NEW e \in req_list, Timeout(e) PROVE FALSE
  BY <1>4 DEF Timeout
<1>5. ASSUME NEW e \in req_list, NEW a \in answers, Answer(e, a) PROVE a.from = n
  <2>1. a.tlen > 0
    BY DEF Bodies
  <2>2. ack_flag' = ack_flag \/ ack_flag' \in Acks(a)
    BY <1>5 DEF Answer
  <2>. QED
    BY <2>1, <2>2 DEF Acks
<1>. QED
  BY <1>1, <1>2, <1>3, <1>4, <1>5, StepIs

LEMMA AckedStep ==
  ASSUME TypeInv, Alone, Bodies, Gone, Delivered, Asked, Known, Acked, [Next]_vars
  PROVE  Acked'
<1>0. /\ TypeOK /\ ncn \in Seq(Nodes) /\ Len(ncn) \in Nat /\ scan \in Scans
      /\ \A k \in 1..Len(ncn) : ncn[k] \in Nodes
  BY ElementOfSeq DEF TypeInv, TypeOK
<1>1. ASSUME NEW n \in Nodes, pnd'[n].state = "ADD_FINISH", ~(GoneFrom(n)'), n # cur
      PROVE  Rest(n)
  BY <1>1, FinishedBySteps, OnStays DEF Rest
<1>2. ASSUME NEW q \in Opened', q.kind = "trs",
             NEW n \in Nodes, n # cur', pnd'[n].state = "ADD_FINISH", ~(GoneFrom(n)'),
             n \notin ack_flag'
      PROVE  Holds(n, cur)'
  <2>1. CASE q \in Opened /\ ~Resm /\ UNCHANGED <<state, cur, place, scan>>
    <3>1. q \in Requests /\ q.node = cur /\ cur \in Nodes /\ Full(cur)
      BY <1>0, <1>2, <2>1, OpenedTyped DEF Alone, Waits, Asked, Requests
    <3>2. n # cur /\ Rest(n)
      BY <1>1, <1>2, <2>1
    <3>3. Holds(n, cur)
      <4>1. CASE n \notin ack_flag
        BY <1>2, <2>1, <3>2, <4>1 DEF Acked
      <4>2. CASE n \in ack_flag
        <5>1. PICK e \in req_list, a \in answers : a.from = n
          BY <1>2, <2>1, <4>2, FlagBySteps
        <5>2. e.req = q
          BY <2>1, CallIsOfCur
        <5>. QED
          BY <1>2, <3>2, <5>1, <5>2, AnswerTells DEF Rest
      <4>. QED
        BY <4>1, <4>2
    <3>4. \A m : m = cur => Holds(n, m)'
      BY <1>2, <2>1, <3>1, <3>3, HoldsStays
    <3>. QED
      BY <2>1, <3>4 DEF Holds, Has, Sends
  <2>2. CASE /\ Resm /\ ScanEnd /\ q.kind = (IF state = "ONLINE" THEN "trs" ELSE "del")
             /\ UNCHANGED <<state, cur, place, tn, calls, ack_flag, ncn, pnd>>
    <3>1. state = "ONLINE" /\ scan.i > Len(ncn) /\ scan # NoScan
      BY <1>2, <2>2, ScanSent DEF ScanEnd, NoScan
    <3>2. n # cur /\ Rest(n) /\ n \in Listed
      BY <1>1, <1>2, <2>2 DEF Known, Rest
    <3>3. PICK k \in 1..Len(ncn) : ncn[k] = n
      BY <3>2 DEF Listed
    <3>4. k < scan.i
      <4>1. scan.i \in Nat
        BY <1>0 DEF Scans
      <4>. QED
        BY <1>0, <3>1, <4>1, SMT
    <3>5. n \in ack_flag
      BY <3>1, <3>2, <3>3, <3>4 DEF Acked
    <3>. QED
      BY <1>2, <2>2, <3>5
  <2>. QED
    BY <1>2, <2>1, <2>2, OpenedBySteps
<1>3. ASSUME state' = "ONLINE", scan' # NoScan, NEW k \in 1..Len(ncn'), k < scan'.i,
             NEW n \in Nodes, ncn'[k] = n, n # cur', pnd'[n].state = "ADD_FINISH",
             ~(GoneFrom(n)')
      PROVE  n \in ack_flag'
  <2>0. /\ UNCHANGED <<state, cur>> /\ state = "ONLINE"
        /\ scan # NoScan \/ scan'.i = 1
    BY <1>3, ScanIsOf
  <2>1. k \in Nat /\ k >= 1
    <3>1. k \in 1..Len(ncn')
      BY <1>3
    <3>. QED
      BY <3>1, SMT
  <2>2. scan # NoScan
    BY <1>3, <2>0, <2>1, SMT
  <2>3. Rest(n) /\ n # cur /\ n \in Listed
    BY <1>1, <1>3, <2>0 DEF Known, Rest
  <2>4. ASSUME UNCHANGED <<ncn, scan>> PROVE n \in ack_flag
    BY <1>3, <2>0, <2>2, <2>3, <2>4 DEF Acked
  <2>5. CASE Still
    <3>1. UNCHANGED <<ncn, scan, ack_flag>>
      BY <2>5, StillKeeps
    <3>. QED
      BY <2>4, <3>1
  <2>6. CASE NewTn
    <3>1. UNCHANGED <<ack_flag, scan>>
      BY <2>6 DEF NewTn
    <3>2. CASE UNCHANGED ncn
      BY <2>4, <3>1, <3>2
    <3>3. CASE ncn' = Append(ncn, Head(rpt).nodeid) /\ Head(rpt).nodeid \notin Listed
      <4>1. Head(rpt).nodeid \in Nodes
        BY <1>0, <2>6, StateByReport DEF Reports
      <4>2. \/ k \in 1..Len(ncn) /\ n = ncn[k]
            \/ n = Head(rpt).nodeid
        BY <1>0, <1>3, <3>3, <4>1, Enqueued
      <4>3. k \in 1..Len(ncn) /\ n = ncn[k]
        BY <2>3, <3>3, <4>2
      <4>4. n \in ack_flag
        BY <1>3, <2>0, <2>2, <2>3, <3>1, <4>3 DEF Acked
      <4>. QED
        BY <3>1, <4>4
    <3>. QED
      BY <2>6, <3>2, <3>3 DEF NewTn
  <2>7. CASE DeleteTn
    <3>1. UNCHANGED <<ncn, scan>> /\ ~Resm
      BY <2>7 DEF DeleteTn, Resm
    <3>2. n \in ack_flag
      BY <2>4, <3>1
    <3>3. Head(rpt).nodeid # n
      BY <1>0, <1>3, <2>3, <2>7, StateByReport DEF GoneFrom
    <3>. QED
      BY <2>7, <3>2, <3>3 DEF DeleteTn
  <2>8. ASSUME NEW e \in req_list PROVE FALSE
    BY <2>2, CallIsOfCur
  <2>9. CASE Resm
    <3>1. ~(DownloadResId \/ AddRcvRes \/ AddTrsRes \/ DeleteNode \/ EndServe)
      BY <2>2 DEF DownloadResId, AddRcvRes, AddTrsRes, DeleteNode, EndServe, Serving
    <3>2. ~(AddCn \/ PushCommit \/ \E m \in Nodes : PickOnline(m) \/ PickOffline(m))
      BY <2>0 DEF AddCn, PushCommit, PickOnline, PickOffline
    <3>3. ~ScanEnd
      BY <1>3 DEF ScanEnd
    <3>4. ASSUME k < scan.i, UNCHANGED ncn PROVE n \in ack_flag
      BY <1>3, <2>0, <2>2, <2>3, <3>4 DEF Acked
    <3>5. scan.i \in Nat
      BY <1>0 DEF Scans
    <3>6. CASE ScanTest
      <4>1. UNCHANGED <<ncn, ack_flag>>
        BY <3>6 DEF ScanTest
      <4>2. CASE InformedOf(ncn[scan.i])
        <5>1. scan'.i = scan.i
          BY <1>0, <3>6, <4>2 DEF ScanTest, Scans
        <5>. QED
          BY <1>3, <3>4, <4>1, <5>1
      <4>3. CASE ~InformedOf(ncn[scan.i])
        <5>1. scan'.i = scan.i + 1
          BY <1>0, <3>6, <4>3 DEF ScanTest, Scans
        <5>2. k # scan.i
          BY <1>3, <2>3, <4>1, <4>3 DEF InformedOf, Rest, On, GoneFrom
        <5>3. k < scan.i
          BY <1>3, <2>1, <3>5, <5>1, <5>2, SMT
        <5>. QED
          BY <3>4, <4>1, <5>3
      <4>. QED
        BY <4>2, <4>3
    <3>7. CASE ScanSet
      <4>1. UNCHANGED ncn /\ ack_flag' = ack_flag \cup {ncn[scan.i]}
        BY <3>7 DEF ScanSet
      <4>2. scan'.i = scan.i + 1
        BY <1>0, <3>7 DEF ScanSet, Scans
      <4>3. k < scan.i \/ k = scan.i
        BY <1>3, <2>1, <3>5, <4>2, SMT
      <4>. QED
        BY <1>3, <3>4, <4>1, <4>3
    <3>. QED
      BY <2>9, <3>1, <3>2, <3>3, <3>6, <3>7 DEF Resm
  <2>. QED
    BY <2>5, <2>6, <2>7, <2>8, <2>9, StepIs
<1>4. \A k \in 1..Len(ncn') : ncn'[k] \in Nodes
  <2>1. ncn' \in Seq(Nodes)
    BY TypeStep DEF TypeInv, TypeOK
  <2>. QED
    BY <2>1, ElementOfSeq
<1>5. \A n : Rest(n)' <=> pnd'[n].state = "ADD_FINISH" /\ ~(GoneFrom(n)')
  BY DEF Rest, On, GoneFrom, Lost
<1>6. \A q \in Opened' : q.kind = "trs" =>
        \A n \in Nodes : n # cur' /\ Rest(n)' /\ n \notin ack_flag' => Holds(n, cur)'
  BY <1>2, <1>5
<1>7. state' = "ONLINE" /\ scan' # NoScan =>
        \A k \in 1..Len(ncn') :
          k < scan'.i /\ ncn'[k] # cur' /\ Rest(ncn[k])' => ncn'[k] \in ack_flag'
  <2>. SUFFICES ASSUME state' = "ONLINE", scan' # NoScan, NEW k \in 1..Len(ncn'),
                       k < scan'.i, ncn'[k] # cur', Rest(ncn[k])',
                       NEW n \in Nodes, ncn'[k] = n
                PROVE  n \in ack_flag'
    BY <1>4
  <2>1. pnd'[n].state = "ADD_FINISH" /\ ~(GoneFrom(n)')
    BY DEF Rest, On, GoneFrom, Lost
  <2>. QED
    BY <1>3, <2>1
<1>. QED
  BY <1>6, <1>7 DEF Acked

\* A node comes to be past its list of receptions when that is empty, or answered.
LEMMA PastBySteps ==
  ASSUME TypeInv, Alone, [Next]_vars, NEW n \in Nodes, ~(GoneFrom(n)'),
         pnd'[n].state = "ADD_FINISH" \/ (n = cur' /\ Told')
  PROVE  \/ Past(n)
         \/ n = cur /\ On(n) /\ UNCHANGED place /\ Rcv[cur] \cap Active = {}
         \/ /\ n = cur /\ On(n) /\ UNCHANGED place
            /\ \E e \in req_list, a \in answers : Answer(e, a) /\ e.req.kind = "rcv"
<1>0. TypeOK /\ (cur = 0 <=> state \in {"BOOT", "IDLE"}) /\ 0 \notin Nodes
  BY SysResAssumption DEF TypeInv, TypeOK, SysResAssumption
<1>1. On(n)
  <2>1. CASE n = cur /\ Resm /\ EndServe /\ state = "OFFLINE" /\ state' = "IDLE" /\ cur' = 0
    <3>1. pnd[n].state # "ADD_FINISH" /\ UNCHANGED pnd
      BY <2>1 DEF EndServe, Serving
    <3>. QED
      BY <1>0, <2>1, <3>1
  <2>. QED
    BY <2>1, OnStays
<1>2. CASE pnd'[n].state = "ADD_FINISH"
  <2>1. CASE pnd[n].state = "ADD_FINISH"
    BY <1>1, <2>1 DEF Past
  <2>2. CASE n = cur /\ AddTrsRes
    BY <1>1, <2>2 DEF Past, Told, AddTrsRes, Serving
  <2>3. ASSUME n = cur, NEW e \in req_list, e.req.kind = "trs" PROVE Past(n)
    <3>1. e.req \in Opened /\ state = "ONLINE"
      BY <2>3, CallIsOfCur
    <3>. QED
      BY <1>1, <2>3, <3>1 DEF Past, Told
  <2>. QED
    BY <1>2, <2>1, <2>2, <2>3, FinishedBySteps
<1>3. CASE n = cur' /\ state' = "ONLINE" /\ scan' # NoScan
  <2>1. UNCHANGED <<state, cur>> /\ (scan # NoScan \/ AddTrsRes)
    BY <1>3, ScanIsOf
  <2>. QED
    BY <1>1, <1>3, <2>1 DEF Past, Told, AddTrsRes, Serving
<1>4. ASSUME n = cur', state' = "ONLINE", NEW q \in Opened', q.kind = "trs" PROVE Past(n)
  <2>1. CASE q \in Opened /\ UNCHANGED <<state, cur>>
    BY <1>1, <1>4, <2>1 DEF Past, Told
  <2>2. CASE Resm /\ ScanEnd /\ UNCHANGED <<state, cur>>
    BY <1>1, <1>4, <2>2, ScanSent DEF Past, Told, NoScan
  <2>. QED
    BY <1>4, <2>1, <2>2, OpenedBySteps
<1>5. ASSUME n = cur', state' = "ONLINE", pnd'[n].state = "ADD_TRS_RES"
      PROVE  \/ Past(n)
             \/ n = cur /\ UNCHANGED place /\ Rcv[cur] \cap Active = {}
             \/ /\ n = cur /\ UNCHANGED place
                /\ \E e \in req_list, a \in answers : Answer(e, a) /\ e.req.kind = "rcv"
  <2>1. CASE UNCHANGED <<state, cur>> /\ pnd'[n].state = pnd[n].state
    BY <1>1, <1>5, <2>1 DEF Past, Told
  <2>2. CASE Still
    BY <2>1, <2>2, StillKeeps
  <2>3. CASE NewTn \/ DeleteTn
    <3>1. UNCHANGED <<state, cur>>
      BY <2>3 DEF NewTn, DeleteTn
    <3>2. pnd'[n].state = pnd[n].state
      BY <1>0, <1>5, <2>3, StateByReport
    <3>. QED
      BY <2>1, <3>1, <3>2
  <2>4. CASE Resm
    BY <1>5, <2>1, <2>4, StateByResm
  <2>5. ASSUME NEW e \in req_list, Timeout(e) \/ \E a \in answers : Answer(e, a)
        PROVE  \/ Past(n)
               \/ /\ n = cur /\ UNCHANGED place
                  /\ \E a \in answers : Answer(e, a) /\ e.req.kind = "rcv"
    <3>1. UNCHANGED <<state, cur, place>>
      BY <2>5 DEF Timeout, Answer
    <3>2. CASE pnd'[n].state = pnd[n].state
      BY <1>1, <1>5, <3>1, <3>2 DEF Past, Told
    <3>3. CASE pnd'[n].state # pnd[n].state
      <4>1. Timeout(e) => pnd'[n].state \in {"FAIL", "DEL_FINISH", "ADD_FINISH"}
        BY <3>3, StateByAnswer
      <4>2. \A a \in answers : Answer(e, a) => n = cur /\ e.req.kind = "rcv"
        BY <1>5, <3>3, StateByAnswer
      <4>. QED
        BY <1>5, <2>5, <3>1, <4>1, <4>2, Zenon
    <3>. QED
      BY <3>2, <3>3
  <2>. QED
    BY <2>2, <2>3, <2>4, <2>5, StepIs
<1>6. CASE n = cur' /\ Told'
  <2>1. \/ pnd'[cur'].state = "ADD_TRS_RES" \/ scan' # NoScan
        \/ \E q \in Opened' : q.kind = "trs"
    BY <1>6 DEF Told
  <2>2. state' = "ONLINE"
    BY <1>6 DEF Told
  <2>. QED
    BY <1>1, <1>3, <1>4, <1>5, <1>6, <2>1, <2>2
<1>. QED
  BY <1>2, <1>6

LEMMA InformedStep ==
  ASSUME TypeInv, Alone, Bodies, Gone, Released, Delivered, Asked, Acked, Informed,
         [Next]_vars
  PROVE  Informed'
<1>0. TypeOK /\ answers \subseteq Answers
  BY DEF TypeInv, TypeOK
<1>1. ASSUME NEW m \in Nodes, NEW n \in Nodes, m # n,
             pnd'[m].state = "ADD_FINISH", \A r \in Sends(m) : place'[r] # 0,
             ~(GoneFrom(n)'), pnd'[n].state = "ADD_FINISH" \/ (n = cur' /\ Told')
      PROVE  Holds(n, m)'
  <2>0. Sends(m) \subseteq Res
    BY SendsIsFinite
  <2>1. CASE pnd[m].state = "ADD_FINISH"
    <3>1. \A r \in Sends(m) : place'[r] = place[r]
      BY <2>1, FinishedKept
    <3>2. Full(m) /\ Finished(m)
      BY <1>1, <2>0, <2>1, <3>1 DEF Full, Active, Finished
    <3>3. Holds(n, m)
      <4>1. CASE Past(n)
        BY <1>1, <3>2, <4>1 DEF Informed
      <4>2. CASE n = cur /\ Rcv[cur] \cap Active = {}
        BY <3>2, <4>2 DEF Holds, Full
      <4>3. ASSUME n = cur, On(n),
                   NEW e \in req_list, NEW a \in answers, Answer(e, a), e.req.kind = "rcv"
            PROVE  Holds(n, m)
        <5>1. a.from = cur
          <6>1. a.kind = "rcv"
            BY <4>3, CallIsOfCur
          <6>. QED
            BY <6>1 DEF Delivered, Answered
        <5>. QED
          BY <1>1, <3>2, <4>3, <5>1, AnswerTells
      <4>. QED
        BY <1>1, <4>1, <4>2, <4>3, PastBySteps
    <3>. QED
      BY <1>1, <3>1, <3>2, <3>3, HoldsStays
  <2>2. CASE /\ m = cur /\ Resm /\ AddTrsRes
             /\ Trs[cur] = <<>> \/ Placed(cur) # DOMAIN Trs[cur]
    <3>1. CASE Trs[cur] = <<>>
      <4>1. Sends(m) = {}
        BY <2>2, <3>1, SMT DEF Sends
      <4>. QED
        BY <4>1 DEF Holds, Sends
    <3>2. CASE Placed(cur) # DOMAIN Trs[cur]
      <4>1. place' = Grant(cur) /\ Inactive(cur) /\ cur \in Nodes
        BY <2>2, TrsPlaced DEF Released, AddTrsRes, Serving
      <4>2. Placed(cur) \subseteq 1..Len(Trs[cur]) /\ DOMAIN Trs[cur] = 1..Len(Trs[cur])
        BY <4>1, SendsIsFinite DEF Placed
      <4>3. PICK i \in 1..Len(Trs[cur]) : i \notin Placed(cur)
        BY <3>2, <4>2
      <4>. DEFINE r == Trs[cur][i]
      <4>4. r \in Sends(cur) /\ r \in Res
        BY <4>1, <4>3, SendsIsFinite DEF Sends
      <4>5. Grant(cur)[r] \notin FreePlaces /\ (Grant(cur)[r] = place[r] \/ Grant(cur)[r] \in FreePlaces)
        BY <1>0, <4>1, <4>3, <4>4, Granted DEF TypeOK
      <4>6. place[r] = 0
        BY <4>1, <4>4 DEF Inactive, Active
      <4>. QED
        BY <1>1, <2>2, <4>1, <4>4, <4>5, <4>6
    <3>. QED
      BY <2>2, <3>1, <3>2
  <2>3. ASSUME m = cur, NEW e \in req_list, e.req.kind = "trs", ack_flag' = {},
               \/ Timeout(e) /\ ack_flag = {}
               \/ \E a \in answers : Answer(e, a)
        PROVE  Holds(n, m)'
    <3>1. UNCHANGED <<place, cur>> /\ ~Resm
      BY <2>3, NothingUnderWay, CallIsOfCur DEF Timeout, Answer
    <3>2. e.req \in Opened /\ Full(cur)
      BY <2>3, CallIsOfCur DEF Asked
    <3>3. Rest(n) /\ n # cur
      <4>1. n # cur /\ pnd'[n].state = "ADD_FINISH"
        BY <1>1, <2>3, <3>1
      <4>. QED
        BY <1>1, <4>1, FinishedBySteps, OnStays DEF Rest
    <3>4. Holds(n, cur)
      <4>1. CASE n \notin ack_flag
        BY <2>3, <3>2, <3>3, <4>1 DEF Acked
      <4>2. CASE n \in ack_flag
        <5>1. PICK f \in req_list, a \in answers : a.from = n
          BY <1>1, <2>3, <3>1, <4>2, FlagBySteps
        <5>. QED
          BY <1>1, <2>3, <3>3, <5>1, AnswerTells DEF Rest
      <4>. QED
        BY <4>1, <4>2
    <3>. QED
      BY <1>1, <2>3, <3>1, <3>2, <3>4, HoldsStays
  <2>. QED
    BY <1>1, <2>1, <2>2, <2>3, FinishedBySteps
<1>2. ASSUME NEW m \in Nodes, NEW n \in Nodes, m # n, Finished(m)', Past(n)'
      PROVE  Holds(n, m)'
  <2>1. pnd'[m].state = "ADD_FINISH" /\ \A r \in Sends(m) : place'[r] # 0
    BY <1>2 DEF Finished, Full, Active, Sends
  <2>2. ~(GoneFrom(n)') /\ (pnd'[n].state = "ADD_FINISH" \/ (n = cur' /\ Told'))
    BY <1>2 DEF Past, On, GoneFrom, Lost
  <2>. QED
    BY <1>1, <1>2, <2>1, <2>2
<1>. QED
  BY <1>2 DEF Informed

(***************************************************************************)
(* A node whose acknowledgement counts as given has what it asked for: all *)
(* configured nodes on the bus receive from one another, in the right      *)
(* place, once resm is idle and no report is pending.  For any number of   *)
(* nodes, resources and places and any losses and repetitions, if a node   *)
(* is not back before the CN is done with its loss, and as long as every   *)
(* answer has a body.                                                      *)
(***************************************************************************)
THEOREM DistributionReceiversInformed ==
  ASSUME ~Hasty PROVE Spec /\ []Bodies => []ReceiversInformed
<1>1. Init => Delivered /\ Asked /\ Known /\ Acked /\ Informed
  <2>. SUFFICES ASSUME Init PROVE Delivered /\ Asked /\ Known /\ Acked /\ Informed
    OBVIOUS
  <2>1. Opened = {} /\ answers = {} /\ scan = NoScan
    BY SMT DEF Init, Opened, Called, Queued
  <2>2. \A n \in Nodes : pnd[n].state = "INIT" /\ Len(calls[n]) = 0
    BY SMT DEF Init, NoNode
  <2>. QED
    BY <2>1, <2>2, SMT DEF Delivered, Addressed, LastOnes, Heeded, Answered, Asked, Known, Acked,
       Informed, Finished
<1>2. Spec /\ []Bodies => []Released
  BY ReleasedInit, ReleasedStep, DistributionTyped, DistributionAlone, PTL DEF Spec
<1>3. Spec /\ []Bodies => [](Delivered /\ Asked /\ Known /\ Acked /\ Informed)
  BY <1>1, <1>2, DistributionGone, DeliveredStep, AskedStep, KnownStep, AckedStep, InformedStep,
     DistributionTyped, DistributionAlone, DistributionPlacesApart, PTL DEF Spec
<1>4. ASSUME TypeInv, Informed PROVE ReceiversInformed
  <2>1. ASSUME state = "IDLE", rpt = <<>>, NEW m \in Nodes, NEW n \in Nodes, m # n,
               Announced(m), Settled(n)
        PROVE  Cells(Sends(m) \cap Rcv[n], place) \subseteq tn[n].rcv
    <3>1. On(n)
      BY <2>1, SMT DEF On, GoneFrom, Lost, Settled
    <3>2. Holds(n, m)
      BY <1>4, <2>1, <3>1 DEF Informed, Finished, Past, Full, Announced, Settled
    <3>. QED
      BY <3>2 DEF Holds, Has, Cells
  <2>. QED
    BY <2>1 DEF ReceiversInformed
<1>. QED
  BY <1>3, <1>4, DistributionTyped, PTL
=============================================================================
