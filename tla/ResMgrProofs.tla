---------------------------- MODULE ResMgrProofs ----------------------------
(***************************************************************************)
(* Proofs about the configuration tables: for any number of resources and  *)
(* slots, any length of the id arrays and any set of node addresses.       *)
(***************************************************************************)
EXTENDS ResMgr, WellFoundedInduction, FiniteSetTheorems, TLAPS

\* A scan of an array stops at the least place that fits.
LEMMA LeastOfNaturals ==
  ASSUME NEW S, S \subseteq Nat, S # {}
  PROVE  Least(S) \in S /\ \A y \in S : Least(S) <= y
<1>1. PICK x \in S : \A y \in S : <<y, x>> \notin OpToRel(<, Nat)
  BY NatLessThanWellFounded, WFMin
<1>2. \A y \in S : x \in Nat /\ y \in Nat /\ ~(y < x)
  BY <1>1 DEF OpToRel
<1>3. \A y \in S : x <= y
  BY <1>2
<1>. QED
  BY <1>1, <1>3 DEF Least

-----------------------------------------------------------------------------
\* Arrays.

Arrays(n) == [1..n -> ResId \cup {Unused}]

LEMMA UnusedIsNoId == Unused \notin ResId /\ Broadcast \notin ResId /\ Broadcast # Unused
  BY ResTableAssumption DEF Unused, ResId, Broadcast

\* An array that is not full takes the id in a place that was free.
LEMMA WithTakesAPlace ==
  ASSUME NEW n \in Nat, NEW ids \in Arrays(n), NEW resid \in ResId
  PROVE  /\ With(ids, resid) \in Arrays(n)
         /\ \/ With(ids, resid) = ids
            \/ \E j \in 1..n : ids[j] = Unused /\ With(ids, resid) = [ids EXCEPT ![j] = resid]
<1>1. CASE Room(ids) = {}
  BY <1>1 DEF With
<1>2. CASE Room(ids) # {}
  <2>1. Room(ids) \subseteq Nat
    BY DEF Room, Arrays
  <2>2. Least(Room(ids)) \in Room(ids)
    BY <1>2, <2>1, LeastOfNaturals
  <2>3. Least(Room(ids)) \in 1..n /\ ids[Least(Room(ids))] = Unused
    BY <2>2 DEF Room, Arrays
  <2>. QED
    BY <1>2, <2>3 DEF With, Arrays
<1>. QED
  BY <1>1, <1>2

LEMMA DropClearsAPlace ==
  ASSUME NEW n \in Nat, NEW ids \in Arrays(n), NEW resid \in ResId, resid \in Entries(ids)
  PROVE  /\ Drop(ids, resid) \in Arrays(n)
         /\ \A j \in 1..n : Drop(ids, resid)[j] \in {ids[j], Unused}
<1>1. PlacesOf(ids, resid) \subseteq Nat /\ PlacesOf(ids, resid) # {}
  BY DEF PlacesOf, Entries, Arrays
<1>2. Least(PlacesOf(ids, resid)) \in 1..n
  BY <1>1, LeastOfNaturals DEF PlacesOf, Arrays
<1>. QED
  BY <1>2 DEF Drop, Arrays

LEMMA WithoutClearsPlaces ==
  ASSUME NEW n \in Nat, NEW ids \in Arrays(n), NEW gone
  PROVE  /\ Without(ids, gone) \in Arrays(n)
         /\ \A j \in 1..n : Without(ids, gone)[j] = IF ids[j] \in gone THEN Unused ELSE ids[j]
  BY DEF Without, Arrays

-----------------------------------------------------------------------------
\* Slots.

LEMMA LookupFinds ==
  ASSUME NEW n \in [Slots -> NodeConfigs], NEW mac, SlotsOf(n, mac) # {}
  PROVE  Least(SlotsOf(n, mac)) \in Slots /\ n[Least(SlotsOf(n, mac))].mac = mac
<1>1. SlotsOf(n, mac) \subseteq Nat
  BY ResTableAssumption DEF SlotsOf, Slots
<1>. QED
  BY <1>1, LeastOfNaturals DEF SlotsOf

LEMMA NoNodeIsANode == NoNode \in NodeConfigs
  BY DEF NoNode, NodeConfigs, TrsArrays, RcvArrays

(***************************************************************************)
(* The invariant of a node table n beside a set c of configured resources, *)
(* with every place written out.                                           *)
(***************************************************************************)
Typed(n) == n \in [Slots -> NodeConfigs]
Single(n) == \A s, t \in Slots : n[s].mac = n[t].mac /\ n[s].mac # NoMac => s = t
Senders(n) ==
  \A s, t \in Slots : \A i, j \in 1..MaxTrs :
    n[s].trs[i] = n[t].trs[j] /\ n[s].trs[i] # Unused => s = t /\ i = j
Apart(n) ==
  \A s \in Slots : \A i \in 1..MaxTrs, j \in 1..MaxRcv :
    n[s].trs[i] = n[s].rcv[j] => n[s].trs[i] = Unused
Distinct(n) ==
  \A s \in Slots : \A i, j \in 1..MaxRcv :
    n[s].rcv[i] = n[s].rcv[j] /\ n[s].rcv[i] # Unused => i = j
Listed(n, c) ==
  \A s \in Slots :
    /\ \A i \in 1..MaxTrs : n[s].trs[i] # Unused => n[s].trs[i] \in c
    /\ \A j \in 1..MaxRcv : n[s].rcv[j] # Unused => n[s].rcv[j] \in c

Good(n, c) == Typed(n) /\ Single(n) /\ Senders(n) /\ Apart(n) /\ Distinct(n) /\ Listed(n, c)

LEMMA EntriesByPlace ==
  ASSUME NEW k \in NodeConfigs, NEW c
  PROVE  /\ Entries(k.trs) \cap Entries(k.rcv) = {} <=>
              \A i \in 1..MaxTrs, j \in 1..MaxRcv : k.trs[i] = k.rcv[j] => k.trs[i] = Unused
         /\ Entries(k.trs) \cup Entries(k.rcv) \subseteq c <=>
              /\ \A i \in 1..MaxTrs : k.trs[i] # Unused => k.trs[i] \in c
              /\ \A j \in 1..MaxRcv : k.rcv[j] # Unused => k.rcv[j] \in c
<1>1. /\ Entries(k.trs) = {k.trs[i] : i \in 1..MaxTrs} \ {Unused}
      /\ Entries(k.rcv) = {k.rcv[j] : j \in 1..MaxRcv} \ {Unused}
  BY DEF Entries, NodeConfigs, TrsArrays, RcvArrays
<1>2. \A i \in 1..MaxTrs : k.trs[i] # Unused => k.trs[i] \in Entries(k.trs)
  BY <1>1
<1>3. \A j \in 1..MaxRcv : k.rcv[j] # Unused => k.rcv[j] \in Entries(k.rcv)
  BY <1>1
<1>4. \A x \in Entries(k.trs) : x # Unused /\ \E i \in 1..MaxTrs : k.trs[i] = x
  BY <1>1
<1>5. \A x \in Entries(k.rcv) : x # Unused /\ \E j \in 1..MaxRcv : k.rcv[j] = x
  BY <1>1
<1>6. Entries(k.trs) \cap Entries(k.rcv) = {} <=>
        \A i \in 1..MaxTrs, j \in 1..MaxRcv : k.trs[i] = k.rcv[j] => k.trs[i] = Unused
  BY <1>2, <1>3, <1>4, <1>5
<1>7. Entries(k.trs) \cup Entries(k.rcv) \subseteq c <=>
        /\ \A i \in 1..MaxTrs : k.trs[i] # Unused => k.trs[i] \in c
        /\ \A j \in 1..MaxRcv : k.rcv[j] # Unused => k.rcv[j] \in c
  BY <1>2, <1>3, <1>4, <1>5
<1>. QED
  BY <1>6, <1>7

IInv ==
  /\ TypeOK
  /\ OneSlotPerMac
  /\ OneSender
  /\ NoSelfReceive
  /\ RcvDistinct
  /\ ListedConfigured

LEMMA IInvByPlace == IInv <=> Good(node, cfg) /\ cfg \subseteq ResId /\ send2all \subseteq ResId
<1>1. Typed(node) => (NoSelfReceive <=> Apart(node))
  <2>. SUFFICES ASSUME Typed(node) PROVE NoSelfReceive <=> Apart(node)
    OBVIOUS
  <2>1. \A s \in Slots : node[s] \in NodeConfigs
    BY DEF Typed
  <2>. QED
    BY <2>1, EntriesByPlace DEF NoSelfReceive, Apart
<1>2. Typed(node) => (ListedConfigured <=> Listed(node, cfg))
  <2>. SUFFICES ASSUME Typed(node) PROVE ListedConfigured <=> Listed(node, cfg)
    OBVIOUS
  <2>1. \A s \in Slots : node[s] \in NodeConfigs
    BY DEF Typed
  <2>. QED
    BY <2>1, EntriesByPlace DEF ListedConfigured, Listed
<1>. QED
  BY <1>1, <1>2 DEF IInv, TypeOK, Good, Typed, OneSlotPerMac, Single, OneSender, Senders,
     RcvDistinct, Distinct

-----------------------------------------------------------------------------
(***************************************************************************)
(* A table that differs from a good one only in that some slots were given *)
(* up and some places cleared is good: every removal is of this kind.      *)
(***************************************************************************)
Shrunk(n, m) ==
  \A s \in Slots :
    /\ m[s].mac \in {n[s].mac, NoMac}
    /\ \A i \in 1..MaxTrs : m[s].trs[i] \in {n[s].trs[i], Unused}
    /\ \A j \in 1..MaxRcv : m[s].rcv[j] \in {n[s].rcv[j], Unused}

LEMMA ShrunkIsGood ==
  ASSUME NEW n, NEW m, NEW c, NEW d, Good(n, c), Typed(m), Shrunk(n, m), Listed(m, d)
  PROVE  Good(m, d)
<1>1. Single(m)
  BY DEF Good, Single, Shrunk
<1>2. Senders(m)
  BY DEF Good, Senders, Shrunk
<1>3. Apart(m)
  BY DEF Good, Apart, Shrunk
<1>4. Distinct(m)
  BY DEF Good, Distinct, Shrunk
<1>. QED
  BY <1>1, <1>2, <1>3, <1>4 DEF Good

\* What was listed stays configured when nothing is taken from c.
LEMMA ShrunkIsListed ==
  ASSUME NEW n, NEW m, NEW c, NEW d, Listed(n, c), c \subseteq d, Shrunk(n, m)
  PROVE  Listed(m, d)
  BY DEF Listed, Shrunk

LEMMA NoNodePlaces ==
  /\ NoNode.mac = NoMac
  /\ \A i \in 1..MaxTrs : NoNode.trs[i] = Unused
  /\ \A j \in 1..MaxRcv : NoNode.rcv[j] = Unused
  BY DEF NoNode

\* clear_node_config, whichever of its outcomes.
LEMMA ClearIsGood ==
  ASSUME NEW n, NEW c, Good(n, c), NEW m \in ClearNodeConfig(n)
  PROVE  Good(m, c)
<1>1. Typed(n)
  BY DEF Good
<1>2. Typed(m) /\ \A s \in Slots : m[s] = n[s] \/ m[s] = NoNode
  BY <1>1, NoNodeIsANode DEF ClearNodeConfig, Typed
<1>3. Shrunk(n, m)
  BY <1>2, NoNodePlaces DEF Shrunk
<1>. QED
  BY <1>2, <1>3, ShrunkIsGood, ShrunkIsListed DEF Good

LEMMA NodeFields ==
  ASSUME NEW n, Typed(n), NEW s \in Slots
  PROVE  /\ n[s] \in NodeConfigs
         /\ n[s].mac \in Macs \cup {NoMac}
         /\ n[s].rcvall \in BOOLEAN
         /\ n[s].trs \in Arrays(MaxTrs)
         /\ n[s].rcv \in Arrays(MaxRcv)
         /\ n[s] = [mac |-> n[s].mac, rcvall |-> n[s].rcvall, trs |-> n[s].trs, rcv |-> n[s].rcv]
  BY DEF Typed, NodeConfigs, TrsArrays, RcvArrays, Arrays

LEMMA NodeMake ==
  ASSUME NEW mac \in Macs \cup {NoMac}, NEW all \in BOOLEAN,
         NEW trs \in Arrays(MaxTrs), NEW rcv \in Arrays(MaxRcv)
  PROVE  [mac |-> mac, rcvall |-> all, trs |-> trs, rcv |-> rcv] \in NodeConfigs
  BY DEF NodeConfigs, TrsArrays, RcvArrays, Arrays

\* del_res_config: the ids of gone are nowhere any more.
LEMMA UnlistIsGood ==
  ASSUME NEW n, NEW c, NEW gone, Good(n, c)
  PROVE  Good(Unlist(n, gone), c \ gone)
<1>. DEFINE m == Unlist(n, gone)
<1>1. Typed(n)
  BY DEF Good
<1>2. MaxTrs \in Nat /\ MaxRcv \in Nat
  BY ResTableAssumption
<1>3. ASSUME NEW s \in Slots
      PROVE  /\ m[s] \in NodeConfigs
             /\ m[s].mac = n[s].mac
             /\ \A i \in 1..MaxTrs :
                  m[s].trs[i] = IF n[s].trs[i] \in gone THEN Unused ELSE n[s].trs[i]
             /\ \A j \in 1..MaxRcv :
                  m[s].rcv[j] = IF n[s].rcv[j] \in gone THEN Unused ELSE n[s].rcv[j]
  <2>1. m[s] = [mac |-> n[s].mac, rcvall |-> n[s].rcvall,
                trs |-> Without(n[s].trs, gone), rcv |-> Without(n[s].rcv, gone)]
    <3>1. n[s] = [mac |-> n[s].mac, rcvall |-> n[s].rcvall, trs |-> n[s].trs, rcv |-> n[s].rcv]
      BY <1>1, NodeFields
    <3>. QED
      BY <3>1 DEF Unlist
  <2>2. /\ n[s].mac \in Macs \cup {NoMac}
        /\ n[s].rcvall \in BOOLEAN
        /\ n[s].trs \in Arrays(MaxTrs)
        /\ n[s].rcv \in Arrays(MaxRcv)
    BY <1>1, NodeFields
  <2>3. m[s] \in NodeConfigs
    BY <1>2, <2>1, <2>2, NodeMake, WithoutClearsPlaces
  <2>. QED
    BY <1>2, <2>1, <2>2, <2>3, WithoutClearsPlaces
<1>4. Typed(m)
  BY <1>3 DEF Typed, Unlist
<1>. HIDE DEF m
<1>5. Shrunk(n, m)
  BY <1>3 DEF Shrunk
<1>6. Listed(m, c \ gone)
  <2>1. Listed(n, c)
    BY DEF Good
  <2>2. ASSUME NEW s \in Slots, NEW i \in 1..MaxTrs, m[s].trs[i] # Unused
        PROVE  m[s].trs[i] \in c \ gone
    BY <1>3, <2>1, <2>2 DEF Listed
  <2>3. ASSUME NEW s \in Slots, NEW j \in 1..MaxRcv, m[s].rcv[j] # Unused
        PROVE  m[s].rcv[j] \in c \ gone
    BY <1>3, <2>1, <2>3 DEF Listed
  <2>. QED
    BY <2>2, <2>3 DEF Listed
<1>. QED
  BY <1>4, <1>5, <1>6, ShrunkIsGood DEF m

\* One slot of a good table replaced by a shrunken one.
LEMMA OneSlotShrunk ==
  ASSUME NEW n, NEW c, Good(n, c), NEW s \in Slots, NEW k \in NodeConfigs,
         k.mac \in {n[s].mac, NoMac},
         \A i \in 1..MaxTrs : k.trs[i] \in {n[s].trs[i], Unused},
         \A j \in 1..MaxRcv : k.rcv[j] \in {n[s].rcv[j], Unused}
  PROVE  Good([n EXCEPT ![s] = k], c)
<1>. DEFINE m == [n EXCEPT ![s] = k]
<1>1. Typed(n) /\ Listed(n, c)
  BY DEF Good
<1>2. Typed(m) /\ \A t \in Slots : m[t] = IF t = s THEN k ELSE n[t]
  BY <1>1 DEF Typed
<1>. HIDE DEF m
<1>3. Shrunk(n, m)
  BY <1>2 DEF Shrunk
<1>. QED
  BY <1>1, <1>2, <1>3, ShrunkIsGood, ShrunkIsListed DEF m

-----------------------------------------------------------------------------
(***************************************************************************)
(* add_trs_res.  The first sweep leaves a good table in which nobody sends *)
(* resid; that is what makes the new sender the only one.                  *)
(***************************************************************************)
NobodySends(n, resid) == \A s \in Slots : \A i \in 1..MaxTrs : n[s].trs[i] # resid

LEMMA UnlistSendersIsGood ==
  ASSUME NEW n, NEW c, NEW resid \in ResId, Good(n, c)
  PROVE  /\ Good(UnlistSenders(n, {resid}), c)
         /\ NobodySends(UnlistSenders(n, {resid}), resid)
<1>. DEFINE m == UnlistSenders(n, {resid})
<1>1. Typed(n) /\ Listed(n, c) /\ MaxTrs \in Nat
  BY ResTableAssumption DEF Good
<1>2. ASSUME NEW s \in Slots
      PROVE  /\ m[s] \in NodeConfigs
             /\ m[s].mac = n[s].mac
             /\ m[s].rcv = n[s].rcv
             /\ \A i \in 1..MaxTrs :
                  m[s].trs[i] = IF n[s].trs[i] \in {resid} THEN Unused ELSE n[s].trs[i]
  <2>1. m[s] = [mac |-> n[s].mac, rcvall |-> n[s].rcvall,
                trs |-> Without(n[s].trs, {resid}), rcv |-> n[s].rcv]
    <3>1. n[s] = [mac |-> n[s].mac, rcvall |-> n[s].rcvall, trs |-> n[s].trs, rcv |-> n[s].rcv]
      BY <1>1, NodeFields
    <3>. QED
      BY <3>1 DEF UnlistSenders
  <2>2. /\ n[s].mac \in Macs \cup {NoMac}
        /\ n[s].rcvall \in BOOLEAN
        /\ n[s].trs \in Arrays(MaxTrs)
        /\ n[s].rcv \in Arrays(MaxRcv)
    BY <1>1, NodeFields
  <2>3. m[s] \in NodeConfigs
    BY <1>1, <2>1, <2>2, NodeMake, WithoutClearsPlaces
  <2>. HIDE DEF m
  <2>4. m[s].mac = n[s].mac /\ m[s].rcv = n[s].rcv /\ m[s].trs = Without(n[s].trs, {resid})
    BY <2>1
  <2>. QED
    BY <1>1, <2>2, <2>3, <2>4, WithoutClearsPlaces
<1>3. Typed(m)
  BY <1>2 DEF Typed, UnlistSenders
<1>. HIDE DEF m
<1>4. Shrunk(n, m)
  BY <1>2 DEF Shrunk
<1>5. NobodySends(m, resid)
  BY <1>2, UnusedIsNoId DEF NobodySends
<1>. QED
  BY <1>1, <1>3, <1>4, <1>5, ShrunkIsGood, ShrunkIsListed DEF m

\* One more sender in a table where nobody sends resid nor does k receive it.
LEMMA SenderAdded ==
  ASSUME NEW n, NEW c, Good(n, c), NEW resid \in c \cap ResId, NobodySends(n, resid),
         NEW s \in Slots, NEW p \in 1..MaxTrs, NEW k \in NodeConfigs,
         k.trs = [n[s].trs EXCEPT ![p] = resid], k.mac = n[s].mac,
         \A j \in 1..MaxRcv : k.rcv[j] # resid /\ k.rcv[j] \in {n[s].rcv[j], Unused}
  PROVE  Good([n EXCEPT ![s] = k], c)
<1>. DEFINE m == [n EXCEPT ![s] = k]
<1>1. Typed(n)
  BY DEF Good
<1>2. Typed(m) /\ \A t \in Slots : m[t] = IF t = s THEN k ELSE n[t]
  BY <1>1 DEF Typed
<1>. HIDE DEF m
<1>3. n[s].trs \in Arrays(MaxTrs)
  BY <1>1, NodeFields
<1>4. \A i \in 1..MaxTrs : k.trs[i] = IF i = p THEN resid ELSE n[s].trs[i]
  BY <1>3 DEF Arrays
<1>5. \A t \in Slots : m[t].mac = n[t].mac
  BY <1>2
<1>6. \A t \in Slots : \A i \in 1..MaxTrs :
        m[t].trs[i] = IF t = s /\ i = p THEN resid ELSE n[t].trs[i]
  BY <1>2, <1>4
<1>7. \A t \in Slots : \A j \in 1..MaxRcv :
        /\ m[t].rcv[j] \in {n[t].rcv[j], Unused}
        /\ t = s => m[t].rcv[j] # resid
  BY <1>2
<1>8. Single(m)
  BY <1>5 DEF Good, Single
<1>9. Senders(m)
  BY <1>6 DEF Good, Senders, NobodySends
<1>10. Apart(m)
  BY <1>6, <1>7 DEF Good, Apart
<1>11. Distinct(m)
  BY <1>7 DEF Good, Distinct
<1>12. Listed(m, c)
  BY <1>6, <1>7 DEF Good, Listed
<1>. QED
  BY <1>2, <1>8, <1>9, <1>10, <1>11, <1>12 DEF Good, m

LEMMA EmptyArrayHasRoom ==
  /\ NoNode.trs \in Arrays(MaxTrs) /\ NoNode.rcv \in Arrays(MaxRcv)
  /\ NoNode = [mac |-> NoMac, rcvall |-> FALSE, trs |-> NoNode.trs, rcv |-> NoNode.rcv]
  BY DEF NoNode, Arrays

\* A new node in a free slot, sending or receiving at most resid.
LEMMA NewNodeIsGood ==
  ASSUME NEW n, NEW c, Good(n, c), NEW resid \in c, NobodySends(n, resid), resid # Unused,
         NEW mac \in Macs, ~Known(n, mac), NEW s \in Slots, n[s].mac = NoMac,
         NEW k \in NodeConfigs, k.mac = mac, k.rcv = NoNode.rcv,
         \A i \in 1..MaxTrs : k.trs[i] \in {resid, Unused},
         \A i, j \in 1..MaxTrs : k.trs[i] = resid /\ k.trs[j] = resid => i = j
  PROVE  Good([n EXCEPT ![s] = k], c)
<1>. DEFINE m == [n EXCEPT ![s] = k]
<1>1. Typed(n)
  BY DEF Good
<1>2. Typed(m) /\ \A t \in Slots : m[t] = IF t = s THEN k ELSE n[t]
  BY <1>1 DEF Typed
<1>. HIDE DEF m
<1>3. \A t \in Slots : n[t].mac # mac
  BY DEF Known, SlotsOf
<1>4. \A j \in 1..MaxRcv : k.rcv[j] = Unused
  BY NoNodePlaces
<1>5. Single(m)
  BY <1>2, <1>3 DEF Good, Single
<1>6. Senders(m)
  BY <1>2 DEF Good, Senders, NobodySends
<1>7. Apart(m)
  BY <1>2, <1>4 DEF Good, Apart
<1>8. Distinct(m)
  BY <1>2, <1>4 DEF Good, Distinct
<1>9. Listed(m, c)
  BY <1>2, <1>4 DEF Good, Listed
<1>. QED
  BY <1>2, <1>5, <1>6, <1>7, <1>8, <1>9 DEF Good, m

LEMMA SendsIsANode ==
  ASSUME NEW k \in NodeConfigs, NEW resid \in ResId
  PROVE  /\ Sends(k, resid) \in NodeConfigs
         /\ Sends(k, resid).mac = k.mac
         /\ Sends(k, resid).trs = With(k.trs, resid)
         /\ Sends(k, resid).rcv = Without(k.rcv, {resid})
<1>1. k.trs \in Arrays(MaxTrs) /\ k.rcv \in Arrays(MaxRcv)
  BY DEF NodeConfigs, TrsArrays, RcvArrays, Arrays
<1>2. With(k.trs, resid) \in Arrays(MaxTrs) /\ Without(k.rcv, {resid}) \in Arrays(MaxRcv)
  BY <1>1, ResTableAssumption, WithTakesAPlace, WithoutClearsPlaces
<1>3. Sends(k, resid) = [mac |-> k.mac, rcvall |-> k.rcvall,
                         trs |-> With(k.trs, resid), rcv |-> Without(k.rcv, {resid})]
  <2>1. k = [mac |-> k.mac, rcvall |-> k.rcvall, trs |-> k.trs, rcv |-> k.rcv]
    BY DEF NodeConfigs
  <2>2. [k EXCEPT !.rcv = Without(k.rcv, {resid})] =
          [mac |-> k.mac, rcvall |-> k.rcvall, trs |-> k.trs, rcv |-> Without(k.rcv, {resid})]
    BY <2>1
  <2>3. Sends(k, resid) = [[k EXCEPT !.rcv = Without(k.rcv, {resid})]
                             EXCEPT !.trs = With(k.trs, resid)]
    BY <2>1 DEF Sends
  <2>. QED
    BY <2>2, <2>3
<1>4. k.mac \in Macs \cup {NoMac} /\ k.rcvall \in BOOLEAN
  BY DEF NodeConfigs
<1>5. Sends(k, resid) \in NodeConfigs
  BY <1>2, <1>3, <1>4, NodeMake
<1>. QED
  BY <1>3, <1>5

\* The node that NewNode is asked for.
Blank(mac) == [NoNode EXCEPT !.mac = mac]

LEMMA BlankIsANode ==
  ASSUME NEW mac \in Macs
  PROVE  /\ Blank(mac) \in NodeConfigs
         /\ Blank(mac).mac = mac
         /\ Blank(mac).trs = NoNode.trs
         /\ Blank(mac).rcv = NoNode.rcv
  BY DEF Blank, NoNode, NodeConfigs, TrsArrays, RcvArrays

\* An id added to an array that holds it nowhere is there at most once.
LEMMA WithOnce ==
  ASSUME NEW n \in Nat, NEW ids \in Arrays(n), NEW resid \in ResId,
         \A i \in 1..n : ids[i] # resid
  PROVE  /\ \A i \in 1..n : With(ids, resid)[i] \in {ids[i], resid}
         /\ \A i, j \in 1..n :
              With(ids, resid)[i] = resid /\ With(ids, resid)[j] = resid => i = j
<1>1. CASE With(ids, resid) = ids
  BY <1>1
<1>2. CASE \E p \in 1..n : With(ids, resid) = [ids EXCEPT ![p] = resid]
  <2>1. PICK p \in 1..n : With(ids, resid) = [ids EXCEPT ![p] = resid]
    BY <1>2
  <2>2. \A i \in 1..n : With(ids, resid)[i] = IF i = p THEN resid ELSE ids[i]
    BY <2>1 DEF Arrays
  <2>. QED
    BY <2>2
<1>. QED
  BY <1>1, <1>2, WithTakesAPlace

LEMMA AddTrsIsGood ==
  ASSUME NEW n, NEW c, NEW resid \in c \cap ResId, NEW mac \in Macs, Good(n, c)
  PROVE  Good(AddTrsRes(n, resid, mac), c)
<1>. DEFINE old == UnlistSenders(n, {resid})
            m   == AddTrsKeepSenders(old, resid, mac)
<1>. SUFFICES Good(m, c)
  BY DEF AddTrsRes
<1>1. Good(old, c) /\ NobodySends(old, resid) /\ Typed(old)
  BY UnlistSendersIsGood DEF Good
<1>2. MaxTrs \in Nat \ {0} /\ MaxRcv \in Nat /\ mac # NoMac /\ resid # Unused
  BY ResTableAssumption, UnusedIsNoId
<1>. HIDE DEF old
<1>3. CASE Known(old, mac)
  <2>. DEFINE s == SlotOf(old, mac)
              k == Sends(old[s], resid)
  <2>1. s \in Slots
    BY <1>1, <1>3, LookupFinds DEF Known, SlotOf, Typed
  <2>2. m = [old EXCEPT ![s] = k]
    BY <1>3 DEF AddTrsKeepSenders
  <2>. HIDE DEF s, m
  <2>3. old[s] \in NodeConfigs /\ old[s].trs \in Arrays(MaxTrs) /\ old[s].rcv \in Arrays(MaxRcv)
    BY <1>1, <2>1, NodeFields
  <2>4. /\ k \in NodeConfigs
        /\ k.mac = old[s].mac
        /\ k.trs = With(old[s].trs, resid)
        /\ k.rcv = Without(old[s].rcv, {resid})
    BY <2>3, SendsIsANode
  <2>. HIDE DEF k
  <2>5. \A j \in 1..MaxRcv : k.rcv[j] # resid /\ k.rcv[j] \in {old[s].rcv[j], Unused}
    <3>1. \A j \in 1..MaxRcv :
            k.rcv[j] = IF old[s].rcv[j] \in {resid} THEN Unused ELSE old[s].rcv[j]
      BY <1>2, <2>3, <2>4, WithoutClearsPlaces
    <3>. QED
      BY <1>2, <3>1
  <2>6. CASE k.trs = old[s].trs
    <3>1. /\ k.mac \in {old[s].mac, NoMac}
          /\ \A i \in 1..MaxTrs : k.trs[i] \in {old[s].trs[i], Unused}
          /\ \A j \in 1..MaxRcv : k.rcv[j] \in {old[s].rcv[j], Unused}
      BY <2>4, <2>5, <2>6
    <3>. QED
      BY <1>1, <2>1, <2>2, <2>4, <3>1, OneSlotShrunk
  <2>7. CASE \E p \in 1..MaxTrs : k.trs = [old[s].trs EXCEPT ![p] = resid]
    <3>1. PICK p \in 1..MaxTrs : k.trs = [old[s].trs EXCEPT ![p] = resid]
      BY <2>7
    <3>2. k.mac = old[s].mac /\ k \in NodeConfigs /\ Good(old, c) /\ NobodySends(old, resid)
      BY <1>1, <2>4
    <3>3. Good([old EXCEPT ![s] = k], c)
      BY <2>1, <2>5, <3>1, <3>2, SenderAdded, SMTT(30)
    <3>. QED
      BY <2>2, <3>3
  <2>. QED
    BY <1>2, <2>3, <2>4, <2>6, <2>7, WithTakesAPlace
<1>4. CASE ~Known(old, mac) /\ FreeSlots(old) = {}
  BY <1>1, <1>4 DEF AddTrsKeepSenders, NewNode
<1>5. CASE ~Known(old, mac) /\ FreeSlots(old) # {}
  <2>. DEFINE s == Least(FreeSlots(old))
              k == Sends(Blank(mac), resid)
  <2>1. s \in Slots /\ old[s].mac = NoMac
    BY <1>1, <1>5, LookupFinds DEF FreeSlots, Typed
  <2>2. m = [old EXCEPT ![s] = k]
    BY <1>5 DEF AddTrsKeepSenders, NewNode, Blank
  <2>. HIDE DEF s, m
  <2>3. /\ k \in NodeConfigs
        /\ k.mac = mac
        /\ k.trs = With(NoNode.trs, resid)
        /\ k.rcv = Without(NoNode.rcv, {resid})
    BY BlankIsANode, SendsIsANode
  <2>. HIDE DEF k
  <2>4. /\ \A i \in 1..MaxTrs : k.trs[i] \in {resid, Unused}
        /\ \A i, j \in 1..MaxTrs : k.trs[i] = resid /\ k.trs[j] = resid => i = j
    BY <1>2, <2>3, NoNodePlaces, EmptyArrayHasRoom, WithOnce
  <2>5. k.rcv = NoNode.rcv
    BY <1>2, <2>3 DEF Without, NoNode
  <2>. QED
    BY <1>1, <1>2, <1>5, <2>1, <2>2, <2>3, <2>4, <2>5, NewNodeIsGood
<1>. QED
  BY <1>3, <1>4, <1>5

-----------------------------------------------------------------------------
(***************************************************************************)
(* add_rcv_res.                                                            *)
(***************************************************************************)
LEMMA ReceivesIsANode ==
  ASSUME NEW k \in NodeConfigs, NEW resid \in ResId \cup {Broadcast}
  PROVE  /\ Receives(k, resid) \in NodeConfigs
         /\ Receives(k, resid).mac = k.mac
         /\ Receives(k, resid).trs = k.trs
         /\ \/ Receives(k, resid).rcv = k.rcv
            \/ /\ resid \in ResId \ (Entries(k.trs) \cup Entries(k.rcv))
               /\ Receives(k, resid).rcv = With(k.rcv, resid)
<1>1. k = [mac |-> k.mac, rcvall |-> k.rcvall, trs |-> k.trs, rcv |-> k.rcv]
  BY DEF NodeConfigs
<1>2. /\ k.mac \in Macs \cup {NoMac} /\ k.rcvall \in BOOLEAN
      /\ k.trs \in Arrays(MaxTrs) /\ k.rcv \in Arrays(MaxRcv)
  BY DEF NodeConfigs, TrsArrays, RcvArrays, Arrays
<1>3. CASE resid = Broadcast
  <2>1. Receives(k, resid) = [mac |-> k.mac, rcvall |-> TRUE, trs |-> k.trs, rcv |-> k.rcv]
    BY <1>1, <1>3 DEF Receives
  <2>2. Receives(k, resid) \in NodeConfigs
    BY <1>2, <2>1, NodeMake
  <2>. QED
    BY <2>1, <2>2
<1>4. CASE resid # Broadcast /\ resid \in Entries(k.trs) \cup Entries(k.rcv)
  BY <1>4 DEF Receives
<1>5. CASE resid # Broadcast /\ resid \notin Entries(k.trs) \cup Entries(k.rcv)
  <2>1. Receives(k, resid) =
          [mac |-> k.mac, rcvall |-> k.rcvall, trs |-> k.trs, rcv |-> With(k.rcv, resid)]
    BY <1>1, <1>5 DEF Receives
  <2>2. With(k.rcv, resid) \in Arrays(MaxRcv)
    BY <1>2, <1>5, ResTableAssumption, WithTakesAPlace
  <2>3. Receives(k, resid) \in NodeConfigs
    BY <1>2, <2>1, <2>2, NodeMake
  <2>. QED
    BY <1>5, <2>1, <2>3
<1>. QED
  BY <1>3, <1>4, <1>5

\* One more subscription of a node that neither sends nor receives resid yet.
LEMMA ReceiverAdded ==
  ASSUME NEW n, NEW c, Good(n, c), NEW resid \in c \cap ResId,
         NEW s \in Slots, NEW p \in 1..MaxRcv, NEW k \in NodeConfigs,
         k.rcv = [n[s].rcv EXCEPT ![p] = resid], k.mac = n[s].mac, k.trs = n[s].trs,
         \A i \in 1..MaxTrs : n[s].trs[i] # resid,
         \A j \in 1..MaxRcv : n[s].rcv[j] # resid
  PROVE  Good([n EXCEPT ![s] = k], c)
<1>. DEFINE m == [n EXCEPT ![s] = k]
<1>1. Typed(n) /\ resid # Unused
  BY UnusedIsNoId DEF Good
<1>2. Typed(m) /\ \A t \in Slots : m[t] = IF t = s THEN k ELSE n[t]
  BY <1>1 DEF Typed
<1>. HIDE DEF m
<1>3. n[s].rcv \in Arrays(MaxRcv)
  BY <1>1, NodeFields
<1>4. \A j \in 1..MaxRcv : k.rcv[j] = IF j = p THEN resid ELSE n[s].rcv[j]
  BY <1>3 DEF Arrays
<1>5. \A t \in Slots : m[t].mac = n[t].mac /\ m[t].trs = n[t].trs
  BY <1>2
<1>6. \A t \in Slots : \A j \in 1..MaxRcv :
        m[t].rcv[j] = IF t = s /\ j = p THEN resid ELSE n[t].rcv[j]
  BY <1>2, <1>4
<1>7. Single(m)
  BY <1>5 DEF Good, Single
<1>8. Senders(m)
  BY <1>5 DEF Good, Senders
<1>9. Apart(m)
  BY <1>5, <1>6 DEF Good, Apart
<1>10. Distinct(m)
  BY <1>6 DEF Good, Distinct
<1>11. Listed(m, c)
  BY <1>5, <1>6 DEF Good, Listed
<1>. QED
  BY <1>2, <1>7, <1>8, <1>9, <1>10, <1>11 DEF Good, m

\* A new node in a free slot that sends nothing and receives at most resid.
LEMMA NewReceiverIsGood ==
  ASSUME NEW n, NEW c, Good(n, c), NEW resid, resid \in c \/ resid = Unused,
         NEW mac \in Macs, ~Known(n, mac), NEW s \in Slots, n[s].mac = NoMac,
         NEW k \in NodeConfigs, k.mac = mac, k.trs = NoNode.trs,
         \A j \in 1..MaxRcv : k.rcv[j] \in {resid, Unused},
         \A i, j \in 1..MaxRcv : k.rcv[i] = resid /\ k.rcv[j] = resid /\ resid # Unused => i = j
  PROVE  Good([n EXCEPT ![s] = k], c)
<1>. DEFINE m == [n EXCEPT ![s] = k]
<1>1. Typed(n)
  BY DEF Good
<1>2. Typed(m) /\ \A t \in Slots : m[t] = IF t = s THEN k ELSE n[t]
  BY <1>1 DEF Typed
<1>. HIDE DEF m
<1>3. \A t \in Slots : n[t].mac # mac
  BY DEF Known, SlotsOf
<1>4. \A i \in 1..MaxTrs : k.trs[i] = Unused
  BY NoNodePlaces
<1>5. Single(m)
  BY <1>2, <1>3 DEF Good, Single
<1>6. Senders(m)
  BY <1>2, <1>4 DEF Good, Senders
<1>7. Apart(m)
  BY <1>2, <1>4 DEF Good, Apart
<1>8. Distinct(m)
  BY <1>2 DEF Good, Distinct
<1>9. Listed(m, c)
  BY <1>2, <1>4 DEF Good, Listed
<1>. QED
  BY <1>2, <1>5, <1>6, <1>7, <1>8, <1>9 DEF Good, m

LEMMA AddRcvIsGood ==
  ASSUME NEW n, NEW c, c \subseteq ResId, NEW resid \in c \cup {Broadcast}, NEW mac \in Macs, Good(n, c)
  PROVE  Good(AddRcvRes(n, resid, mac), c)
<1>. DEFINE m == AddRcvRes(n, resid, mac)
<1>. SUFFICES Good(m, c)
  OBVIOUS
<1>1. Typed(n)
  BY DEF Good
<1>2. MaxTrs \in Nat /\ MaxRcv \in Nat /\ resid \in ResId \cup {Broadcast}
  BY ResTableAssumption
<1>3. CASE Known(n, mac)
  <2>. DEFINE s == SlotOf(n, mac)
              k == Receives(n[s], resid)
  <2>1. s \in Slots
    BY <1>1, <1>3, LookupFinds DEF Known, SlotOf, Typed
  <2>2. m = [n EXCEPT ![s] = k]
    BY <1>3 DEF AddRcvRes
  <2>. HIDE DEF s, m
  <2>3. n[s] \in NodeConfigs /\ n[s].trs \in Arrays(MaxTrs) /\ n[s].rcv \in Arrays(MaxRcv)
    BY <1>1, <2>1, NodeFields
  <2>4. /\ k \in NodeConfigs
        /\ k.mac = n[s].mac
        /\ k.trs = n[s].trs
        /\ \/ k.rcv = n[s].rcv
           \/ /\ resid \in ResId \ (Entries(n[s].trs) \cup Entries(n[s].rcv))
              /\ k.rcv = With(n[s].rcv, resid)
    BY <1>2, <2>3, ReceivesIsANode
  <2>. HIDE DEF k
  <2>5. CASE k.rcv = n[s].rcv
    BY <2>1, <2>2, <2>4, <2>5, OneSlotShrunk
  <2>6. CASE /\ resid \in ResId \ (Entries(n[s].trs) \cup Entries(n[s].rcv))
             /\ k.rcv = With(n[s].rcv, resid)
    <3>1. /\ \A i \in 1..MaxTrs : n[s].trs[i] # resid
          /\ \A j \in 1..MaxRcv : n[s].rcv[j] # resid
          /\ resid \in c \cap ResId
      BY <2>3, <2>6, UnusedIsNoId DEF Entries, Arrays
    <3>2. CASE k.rcv = n[s].rcv
      BY <2>5, <3>2
    <3>3. CASE \E p \in 1..MaxRcv : k.rcv = [n[s].rcv EXCEPT ![p] = resid]
      <4>1. PICK p \in 1..MaxRcv : k.rcv = [n[s].rcv EXCEPT ![p] = resid]
        BY <3>3
      <4>2. k.mac = n[s].mac /\ k.trs = n[s].trs /\ k \in NodeConfigs
        BY <2>4
      <4>3. Good([n EXCEPT ![s] = k], c)
        BY <2>1, <3>1, <4>1, <4>2, ReceiverAdded, SMTT(30)
      <4>. QED
        BY <2>2, <4>3
    <3>. QED
      BY <1>2, <2>3, <2>6, <3>2, <3>3, WithTakesAPlace
  <2>. QED
    BY <2>4, <2>5, <2>6
<1>4. CASE ~Known(n, mac) /\ FreeSlots(n) = {}
  BY <1>4 DEF AddRcvRes, NewNode
<1>5. CASE ~Known(n, mac) /\ FreeSlots(n) # {}
  <2>. DEFINE s == Least(FreeSlots(n))
              k == Receives(Blank(mac), resid)
              id == IF resid \in ResId THEN resid ELSE Unused
  <2>1. s \in Slots /\ n[s].mac = NoMac
    BY <1>1, <1>5, LookupFinds DEF FreeSlots, Typed
  <2>2. m = [n EXCEPT ![s] = k]
    BY <1>5 DEF AddRcvRes, NewNode, Blank
  <2>. HIDE DEF s, m
  <2>3. /\ k \in NodeConfigs
        /\ k.mac = mac
        /\ k.trs = NoNode.trs
        /\ \/ k.rcv = NoNode.rcv
           \/ resid \in ResId /\ k.rcv = With(NoNode.rcv, resid)
    BY <1>2, BlankIsANode, ReceivesIsANode
  <2>. HIDE DEF k
  <2>4. /\ \A j \in 1..MaxRcv : k.rcv[j] \in {id, Unused}
        /\ \A i, j \in 1..MaxRcv : k.rcv[i] = id /\ k.rcv[j] = id /\ id # Unused => i = j
    <3>1. CASE k.rcv = NoNode.rcv
      BY <3>1, NoNodePlaces
    <3>2. CASE resid \in ResId /\ k.rcv = With(NoNode.rcv, resid)
      <4>1. id = resid /\ resid # Unused
        BY <3>2, UnusedIsNoId
      <4>. QED
        BY <1>2, <3>2, <4>1, NoNodePlaces, EmptyArrayHasRoom, WithOnce
    <3>. QED
      BY <2>3, <3>1, <3>2
  <2>5. id \in c \/ id = Unused
    BY UnusedIsNoId
  <2>. HIDE DEF id
  <2>. QED
    BY <1>5, <2>1, <2>2, <2>3, <2>4, <2>5, NewReceiverIsGood
<1>. QED
  BY <1>3, <1>4, <1>5

-----------------------------------------------------------------------------
(***************************************************************************)
(* The machine.  Each command maps a good table to a good table.           *)
(***************************************************************************)
IInvNext == Good(node', cfg') /\ cfg' \subseteq ResId /\ send2all' \subseteq ResId

LEMMA IInvByPlaceNext == IInvNext => IInv'
<1>. SUFFICES ASSUME IInvNext PROVE IInv'
  OBVIOUS
<1>1. \A s \in Slots : node'[s] \in NodeConfigs
  BY DEF IInvNext, Good, Typed
<1>2. NoSelfReceive' /\ ListedConfigured'
  BY <1>1, EntriesByPlace DEF NoSelfReceive, ListedConfigured, IInvNext, Good, Apart, Listed
<1>. QED
  BY <1>2 DEF IInvNext, IInv, TypeOK, Good, Typed, OneSlotPerMac, Single, OneSender, Senders,
     RcvDistinct, Distinct

LEMMA EmptyTableIsGood == Good([s \in Slots |-> NoNode], {})
<1>. DEFINE n == [s \in Slots |-> NoNode]
<1>1. Typed(n) /\ \A s \in Slots : n[s] = NoNode
  BY NoNodeIsANode DEF Typed
<1>. HIDE DEF n
<1>. QED
  BY <1>1, NoNodePlaces DEF Good, Single, Senders, Apart, Distinct, Listed, n

LEMMA InitHolds == Init => IInv
  BY EmptyTableIsGood, IInvByPlace DEF Init

LEMMA AddResStep ==
  ASSUME IInv, NEW resid \in ResId, AddRes(resid)
  PROVE  IInvNext
<1>1. Good(node, cfg) /\ cfg \subseteq ResId /\ send2all \subseteq ResId
  BY IInvByPlace
<1>2. Listed(node, cfg \cup {resid})
  BY <1>1 DEF Good, Listed
<1>. QED
  BY <1>1, <1>2 DEF AddRes, IInvNext, Good

LEMMA DelResStep ==
  ASSUME IInv, NEW resid \in ResId, DelRes(resid)
  PROVE  IInvNext
<1>1. Good(node, cfg) /\ cfg \subseteq ResId /\ send2all \subseteq ResId
  BY IInvByPlace
<1>2. Good(node', cfg \ {resid})
  BY <1>1, UnlistIsGood, ClearIsGood DEF DelRes
<1>. QED
  BY <1>1, <1>2 DEF DelRes, IInvNext

LEMMA AddTrsStep ==
  ASSUME IInv, NEW resid \in ResId, NEW mac \in Macs, NEW all \in BOOLEAN, AddTrs(resid, mac, all)
  PROVE  IInvNext
<1>1. Good(node, cfg) /\ cfg \subseteq ResId /\ send2all \subseteq ResId
  BY IInvByPlace
<1>2. Good(AddTrsRes(node, resid, mac), cfg)
  BY <1>1, AddTrsIsGood DEF AddTrs
<1>. QED
  BY <1>1, <1>2 DEF AddTrs, IInvNext

LEMMA AddRcvStep ==
  ASSUME IInv, NEW resid \in ResId \cup {Broadcast}, NEW mac \in Macs, AddRcv(resid, mac)
  PROVE  IInvNext
<1>1. Good(node, cfg) /\ cfg \subseteq ResId /\ send2all \subseteq ResId
  BY IInvByPlace
<1>2. Good(AddRcvRes(node, resid, mac), cfg)
  BY <1>1, AddRcvIsGood DEF AddRcv
<1>. QED
  BY <1>1, <1>2 DEF AddRcv, IInvNext

\* The slot of a known node, and its configuration.
LEMMA KnownSlot ==
  ASSUME IInv, NEW mac \in Macs, Known(node, mac)
  PROVE  /\ SlotOf(node, mac) \in Slots
         /\ node[SlotOf(node, mac)] \in NodeConfigs
         /\ node[SlotOf(node, mac)].mac = mac
         /\ node[SlotOf(node, mac)].trs \in Arrays(MaxTrs)
         /\ node[SlotOf(node, mac)].rcv \in Arrays(MaxRcv)
<1>1. Typed(node)
  BY IInvByPlace DEF Good
<1>2. SlotOf(node, mac) \in Slots /\ node[SlotOf(node, mac)].mac = mac
  BY <1>1, LookupFinds DEF Known, SlotOf, Typed
<1>. QED
  BY <1>1, <1>2, NodeFields

LEMMA DelTrsStep ==
  ASSUME IInv, NEW resid \in ResId, NEW mac \in Macs, DelTrs(resid, mac)
  PROVE  IInvNext
<1>. DEFINE s == SlotOf(node, mac)
            k == SendsNot(node[s], resid)
<1>1. Good(node, cfg) /\ cfg \subseteq ResId /\ send2all \subseteq ResId
  BY IInvByPlace
<1>2. /\ s \in Slots /\ node[s] \in NodeConfigs
      /\ node[s].trs \in Arrays(MaxTrs) /\ node[s].rcv \in Arrays(MaxRcv)
  BY KnownSlot DEF DelTrs
<1>3. resid \in Entries(node[s].trs) /\ node' \in ClearNodeConfig([node EXCEPT ![s] = k])
  BY DEF DelTrs
<1>. HIDE DEF s
<1>4. /\ Drop(node[s].trs, resid) \in Arrays(MaxTrs)
      /\ \A i \in 1..MaxTrs : Drop(node[s].trs, resid)[i] \in {node[s].trs[i], Unused}
  BY <1>2, <1>3, DropClearsAPlace, ResTableAssumption
<1>5. k = [mac |-> node[s].mac, rcvall |-> node[s].rcvall,
           trs |-> Drop(node[s].trs, resid), rcv |-> node[s].rcv]
  <2>1. node[s] = [mac |-> node[s].mac, rcvall |-> node[s].rcvall,
                   trs |-> node[s].trs, rcv |-> node[s].rcv]
    BY <1>2 DEF NodeConfigs
  <2>. QED
    BY <2>1 DEF SendsNot
<1>. HIDE DEF k
<1>6. node[s].mac \in Macs \cup {NoMac} /\ node[s].rcvall \in BOOLEAN
  BY <1>2 DEF NodeConfigs
<1>7. k \in NodeConfigs
  BY <1>2, <1>4, <1>5, <1>6, NodeMake
<1>8. Good([node EXCEPT ![s] = k], cfg)
  BY <1>1, <1>2, <1>4, <1>5, <1>7, OneSlotShrunk
<1>. QED
  BY <1>1, <1>3, <1>8, ClearIsGood DEF DelTrs, IInvNext

LEMMA DelRcvStep ==
  ASSUME IInv, NEW resid \in ResId, NEW mac \in Macs, DelRcv(resid, mac)
  PROVE  IInvNext
<1>. DEFINE s == SlotOf(node, mac)
            k == ReceivesNot(node[s], resid)
<1>1. Good(node, cfg) /\ cfg \subseteq ResId /\ send2all \subseteq ResId
  BY IInvByPlace
<1>2. /\ s \in Slots /\ node[s] \in NodeConfigs
      /\ node[s].trs \in Arrays(MaxTrs) /\ node[s].rcv \in Arrays(MaxRcv)
  BY KnownSlot DEF DelRcv
<1>3. resid \in Entries(node[s].rcv) /\ node' \in ClearNodeConfig([node EXCEPT ![s] = k])
  BY DEF DelRcv
<1>. HIDE DEF s
<1>4. /\ Drop(node[s].rcv, resid) \in Arrays(MaxRcv)
      /\ \A j \in 1..MaxRcv : Drop(node[s].rcv, resid)[j] \in {node[s].rcv[j], Unused}
  BY <1>2, <1>3, DropClearsAPlace, ResTableAssumption
<1>5. k = [mac |-> node[s].mac, rcvall |-> node[s].rcvall,
           trs |-> node[s].trs, rcv |-> Drop(node[s].rcv, resid)]
  <2>1. node[s] = [mac |-> node[s].mac, rcvall |-> node[s].rcvall,
                   trs |-> node[s].trs, rcv |-> node[s].rcv]
    BY <1>2 DEF NodeConfigs
  <2>. QED
    BY <2>1 DEF ReceivesNot
<1>. HIDE DEF k
<1>6. node[s].mac \in Macs \cup {NoMac} /\ node[s].rcvall \in BOOLEAN
  BY <1>2 DEF NodeConfigs
<1>7. k \in NodeConfigs
  BY <1>2, <1>4, <1>5, <1>6, NodeMake
<1>8. Good([node EXCEPT ![s] = k], cfg)
  BY <1>1, <1>2, <1>4, <1>5, <1>7, OneSlotShrunk
<1>. QED
  BY <1>1, <1>3, <1>8, ClearIsGood DEF DelRcv, IInvNext

LEMMA DelNodeStep ==
  ASSUME IInv, NEW mac \in Macs, DelNode(mac)
  PROVE  IInvNext
<1>. DEFINE s     == SlotOf(node, mac)
            gone  == Entries(node[s].trs)
            after == [node EXCEPT ![s] = NoNode]
<1>1. Good(node, cfg) /\ cfg \subseteq ResId /\ send2all \subseteq ResId
  BY IInvByPlace
<1>2. s \in Slots
  BY KnownSlot DEF DelNode
<1>3. Good(after, cfg)
  BY <1>1, <1>2, OneSlotShrunk, NoNodeIsANode, NoNodePlaces
<1>4. /\ cfg' = cfg \ gone /\ send2all' = send2all
      /\ IF gone = {} THEN node' = after ELSE node' \in ClearNodeConfig(Unlist(after, gone))
  BY DEF DelNode
<1>. HIDE DEF after, gone
<1>5. CASE gone = {}
  <2>1. node' = after /\ cfg' = cfg
    BY <1>4, <1>5
  <2>. QED
    BY <1>1, <1>3, <1>4, <2>1 DEF IInvNext
<1>6. CASE gone # {}
  <2>1. Good(node', cfg \ gone)
    BY <1>3, <1>4, <1>6, UnlistIsGood, ClearIsGood
  <2>. QED
    BY <1>1, <1>4, <2>1 DEF IInvNext
<1>. QED
  BY <1>5, <1>6

(***************************************************************************)
(* The tables keep their invariant under every command: one slot for each  *)
(* node, one sender for each resource, no node that receives what it       *)
(* sends, no subscription twice, and nothing listed that is not            *)
(* configured.  The parts need each other: the moving of a sender is sound *)
(* because a lookup finds the only slot of the node, and the deletion of a *)
(* node is because the ids that it sends are nowhere else sent.            *)
(***************************************************************************)
THEOREM TablesInvariant == Spec => []IInv
<1>1. IInv /\ [Next]_vars => IInv'
  <2>. SUFFICES ASSUME IInv, [Next]_vars PROVE IInv'
    OBVIOUS
  <2>1. CASE UNCHANGED vars
    BY <2>1 DEF vars, IInv, TypeOK, OneSlotPerMac, OneSender, NoSelfReceive, RcvDistinct,
       ListedConfigured
  <2>2. CASE ResClr
    BY <2>2, EmptyTableIsGood, IInvByPlaceNext DEF ResClr, IInvNext
  <2>. QED
    BY <2>1, <2>2, AddResStep, DelResStep, AddTrsStep, AddRcvStep, DelTrsStep, DelRcvStep,
       DelNodeStep, IInvByPlaceNext DEF Next
<1>. QED
  BY <1>1, InitHolds, PTL DEF Spec

\* Type correctness of the tables.
THEOREM TablesTypes == Spec => []TypeOK
<1>1. IInv => TypeOK
  BY DEF IInv
<1>. QED
  BY <1>1, TablesInvariant, PTL

\* A node address is found in one slot only.
THEOREM AddressHasOneSlot == Spec => []OneSlotPerMac
<1>1. IInv => OneSlotPerMac
  BY DEF IInv
<1>. QED
  BY <1>1, TablesInvariant, PTL

\* No subscription is listed twice.
THEOREM SubscriptionsAreDistinct == Spec => []RcvDistinct
<1>1. IInv => RcvDistinct
  BY DEF IInv
<1>. QED
  BY <1>1, TablesInvariant, PTL

\* No resource has two senders.
THEOREM ResourceHasOneSender == Spec => []OneSender
<1>1. IInv => OneSender
  BY DEF IInv
<1>. QED
  BY <1>1, TablesInvariant, PTL

\* No node receives what it sends.
THEOREM NobodyReceivesItsOwn == Spec => []NoSelfReceive
<1>1. IInv => NoSelfReceive
  BY DEF IInv
<1>. QED
  BY <1>1, TablesInvariant, PTL

\* A node never lists a resource that is not configured.
THEOREM ListsAreConfigured == Spec => []ListedConfigured
<1>1. IInv => ListedConfigured
  BY DEF IInv
<1>. QED
  BY <1>1, TablesInvariant, PTL

\* The lists of what to send that two nodes are given never meet.
THEOREM ListsToSendAreDisjoint == Spec => []TrsListsDisjoint
<1>1. IInv => TrsListsDisjoint
  <2>. SUFFICES ASSUME IInv, NEW m \in Macs, NEW n \in Macs, m # n,
                       NEW r \in TrsResConfig(node, cfg, m), r \in TrsResConfig(node, cfg, n)
       PROVE  FALSE
    BY DEF TrsListsDisjoint
  <2>. DEFINE s == SlotOf(node, m)
              t == SlotOf(node, n)
  <2>1. Known(node, m) /\ Known(node, n) /\ r \in Entries(node[s].trs) /\ r \in Entries(node[t].trs)
    BY DEF TrsResConfig
  <2>2. /\ s \in Slots /\ node[s].mac = m /\ node[s].trs \in Arrays(MaxTrs)
        /\ t \in Slots /\ node[t].mac = n /\ node[t].trs \in Arrays(MaxTrs)
    BY <2>1, KnownSlot
  <2>. HIDE DEF s, t
  <2>3. PICK i \in 1..MaxTrs : node[s].trs[i] = r
    BY <2>1, <2>2 DEF Entries, Arrays
  <2>4. PICK j \in 1..MaxTrs : node[t].trs[j] = r
    BY <2>1, <2>2 DEF Entries, Arrays
  <2>5. r # Unused
    BY <2>1 DEF Entries
  <2>. QED
    BY <2>2, <2>3, <2>4, <2>5 DEF IInv, OneSender
<1>. QED
  BY <1>1, TablesInvariant, PTL

-----------------------------------------------------------------------------
\* How much the lists hold.

\* A scan that stops after n hits collects at most n.
LEMMA LowestAreFew ==
  ASSUME NEW k \in Nat, NEW S \in SUBSET (1..k), NEW n \in Nat
  PROVE  /\ IsFiniteSet(Lowest(S, n)) /\ Cardinality(Lowest(S, n)) \in Nat
         /\ Cardinality(Lowest(S, n)) <= n
<1>. DEFINE L == Lowest(S, n)
            below(x) == {y \in S : y < x}
            count == [x \in L |-> Cardinality(below(x))]
<1>1. IsFiniteSet(S) /\ S \subseteq Int
  <2>1. 1 \in Int /\ k \in Int
    OBVIOUS
  <2>2. IsFiniteSet(1..k)
    BY <2>1, FS_Interval
  <2>3. IsFiniteSet(S)
    BY <2>2, FS_Subset, Zenon
  <2>4. \A x \in 1..k : x \in Int
    OBVIOUS
  <2>. QED
    BY <2>3, <2>4
<1>2. L \subseteq S /\ \A x \in L : Cardinality(below(x)) < n
  BY DEF Lowest
<1>3. IsFiniteSet(L) /\ Cardinality(L) \in Nat
  BY <1>1, <1>2, FS_Subset, FS_CardinalityType
<1>4. \A x \in S : IsFiniteSet(below(x)) /\ Cardinality(below(x)) \in Nat
  BY <1>1, FS_Subset, FS_CardinalityType
<1>5. ASSUME NEW x \in S, NEW y \in S, x < y
      PROVE  Cardinality(below(x)) # Cardinality(below(y))
  <2>1. below(x) \cup {x} \in SUBSET below(y) /\ x \notin below(x)
    <3>1. x \in Int /\ y \in Int
      BY <1>1
    <3>2. ASSUME NEW z \in below(x) \cup {x} PROVE z \in below(y)
      <4>1. z \in S /\ z \in Int /\ (z < x \/ z = x)
        BY <1>1
      <4>. QED
        BY <1>5, <3>1, <4>1
    <3>3. x \notin below(x)
      BY <3>1
    <3>. QED
      BY <3>2, <3>3
  <2>2. /\ IsFiniteSet(below(x) \cup {x})
        /\ Cardinality(below(x) \cup {x}) = Cardinality(below(x)) + 1
    BY <1>4, <2>1, FS_AddElement
  <2>3. Cardinality(below(x) \cup {x}) <= Cardinality(below(y))
    BY <1>4, <2>1, FS_Subset
  <2>. QED
    BY <1>4, <2>2, <2>3
<1>6. ASSUME n < Cardinality(L) PROVE FALSE
  <2>1. IsFiniteSet(0..(n - 1)) /\ Cardinality(0..(n - 1)) = n
    BY FS_Interval
  <2>2. count \in [L -> 0..(n - 1)]
    <3>1. ASSUME NEW x \in L PROVE Cardinality(below(x)) \in 0..(n - 1)
      <4>1. Cardinality(below(x)) \in Nat /\ Cardinality(below(x)) < n
        BY <1>2, <1>4
      <4>. QED
        BY <4>1
    <3>. QED
      BY <3>1
  <2>. HIDE DEF count, L, below
  <2>3. PICK x, y \in L : x # y /\ count[x] = count[y]
    BY <1>3, <1>6, <2>1, <2>2, FS_PigeonHole
  <2>4. x \in S /\ y \in S /\ (x < y \/ y < x)
    BY <1>2, <2>3
  <2>5. Cardinality(below(x)) = Cardinality(below(y))
    BY <2>3 DEF count
  <2>. QED
    BY <1>5, <2>4, <2>5
<1>. HIDE DEF L
<1>7. Cardinality(L) <= n
  BY <1>3, <1>6
<1>. QED
  BY <1>3, <1>7 DEF L

\* An array of n places holds at most n ids.
LEMMA EntriesAreFew ==
  ASSUME NEW n \in Nat, NEW ids \in Arrays(n)
  PROVE  IsFiniteSet(Entries(ids)) /\ Cardinality(Entries(ids)) <= n
<1>. DEFINE T == {ids[j] : j \in 1..n}
<1>1. IsFiniteSet(1..n) /\ Cardinality(1..n) = n
  BY FS_Interval
<1>2. ids \in Surjection(1..n, T)
  BY DEF Surjection, Arrays
<1>3. IsFiniteSet(T) /\ Cardinality(T) <= n
  BY <1>1, <1>2, FS_Surjection
<1>4. Entries(ids) \in SUBSET T
  BY DEF Entries, Arrays
<1>5. Cardinality(T) \in Nat /\ Cardinality(Entries(ids)) \in Nat
  BY <1>3, <1>4, FS_Subset, FS_CardinalityType
<1>. QED
  BY <1>3, <1>4, <1>5, FS_Subset

(***************************************************************************)
(* What a node is told to receive fits the entries of the answer, though   *)
(* it is collected from two sources and resources that are both subscribed *)
(* and sent to all come twice: for any tables and whatever is active       *)
(* (get_rcv_res_config, the count goes on from the first list).            *)
(***************************************************************************)
THEOREM ReceptionsFit == Spec => []RcvListFits
<1>1. TypeOK => RcvListFits
  <2>. SUFFICES ASSUME TypeOK, NEW mac \in Macs, NEW active \in SUBSET ResId
                PROVE  Cardinality(Subscribed(node, active, mac))
                         + Cardinality(ToAll(node, send2all, active, mac)) <= MaxRcv
    BY DEF RcvListFits
  <2>. DEFINE s == SlotOf(node, mac)
              listed == Subscribed(node, active, mac)
              all == ToAll(node, send2all, active, mac)
  <2>1. /\ NumRes \in Nat /\ MaxRcv \in Nat
        /\ active \in SUBSET (1..NumRes) /\ active \cap send2all \in SUBSET (1..NumRes)
    BY ResTableAssumption DEF ResId
  <2>2. CASE Known(node, mac) /\ node[s].rcvall
    <3>1. listed = {} /\ all = Lowest(active, MaxRcv)
      BY <2>2 DEF Subscribed, ToAll
    <3>2. Cardinality(listed) = 0
      BY <3>1, FS_EmptySet
    <3>3. Cardinality(Lowest(active, MaxRcv)) \in Nat /\ Cardinality(Lowest(active, MaxRcv)) <= MaxRcv
      BY <2>1, LowestAreFew
    <3>. QED
      BY <2>1, <3>1, <3>2, <3>3
  <2>3. CASE ~(Known(node, mac) /\ node[s].rcvall)
    <3>. DEFINE rest == MaxRcv - Cardinality(listed)
    <3>1. all = Lowest(active \cap send2all, rest)
      BY <2>3 DEF ToAll
    <3>2. Cardinality(listed) \in Nat /\ Cardinality(listed) <= MaxRcv
      <4>1. CASE Known(node, mac)
        <5>1. s \in Slots
          BY <4>1, LookupFinds DEF TypeOK, Known, SlotOf
        <5>2. node[s].rcv \in Arrays(MaxRcv)
          BY <5>1 DEF TypeOK, NodeConfigs, RcvArrays, Arrays
        <5>3. IsFiniteSet(Entries(node[s].rcv)) /\ Cardinality(Entries(node[s].rcv)) <= MaxRcv
          BY <2>1, <5>2, EntriesAreFew
        <5>4. listed \in SUBSET Entries(node[s].rcv)
          BY DEF Subscribed
        <5>5. /\ IsFiniteSet(listed)
              /\ Cardinality(listed) <= Cardinality(Entries(node[s].rcv))
          BY <5>3, <5>4, FS_Subset
        <5>6. Cardinality(listed) \in Nat /\ Cardinality(Entries(node[s].rcv)) \in Nat
          BY <5>3, <5>5, FS_CardinalityType
        <5>. QED
          BY <2>1, <5>3, <5>5, <5>6
      <4>2. CASE ~Known(node, mac)
        <5>1. listed = {}
          BY <4>2 DEF Subscribed
        <5>. QED
          BY <2>1, <5>1, FS_EmptySet
      <4>. QED
        BY <4>1, <4>2
    <3>3. rest \in Nat
      BY <2>1, <3>2
    <3>4. Cardinality(Lowest(active \cap send2all, rest)) \in Nat
          /\ Cardinality(Lowest(active \cap send2all, rest)) <= rest
      BY <2>1, <3>3, LowestAreFew
    <3>. QED
      BY <2>1, <3>1, <3>2, <3>4
  <2>. QED
    BY <2>2, <2>3
<1>. QED
  BY TablesTypes, <1>1, PTL
=============================================================================
