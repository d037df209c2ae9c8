---------------------------- MODULE ATimerProofs ----------------------------
(***************************************************************************)
(* Theorems about the timers of a thread.  The list stays in the order of  *)
(* its ticks because everything that is inserted is inserted in order and  *)
(* no timer of the list changes its tick; nothing that is due before the   *)
(* callback that runs can enter it, because a timer started now is due     *)
(* after the time that timer_queue_event read.                             *)
(***************************************************************************)
EXTENDS ATimer, WellFoundedInduction, SequenceTheorems, TLAPS

\* A scan of the list stops at the least place that fits.
LEMMA LeastOfNaturals ==
  ASSUME NEW S, S \subseteq Nat, S # {}
  PROVE  Least(S) \in S /\ \A y \in S : Least(S) <= y
<1>1. PICK x \in S : \A y \in S : <<y, x>> \notin OpToRel(<, Nat)
  BY NatLessThanWellFounded, WFMin
<1>2. \A y \in S : x \in Nat /\ y \in Nat /\ ~(y < x)
  BY <1>1 DEF OpToRel
<1>3. \A y \in S : x <= y
  BY <1>2
<1>. QED
  BY <1>1, <1>3 DEF Least

Distinct(list) == \A i, j \in 1..Len(list) : list[i] = list[j] => i = j

Ordered(list, tm) ==
  \A i, j \in 1..Len(list) :
    i <= j => tm[list[i]].nxt_tick <= tm[list[j]].nxt_tick

\* The entries exist, c is none of them, and none is due before tick k.
Entries(list, tm, c, k) ==
  \A i \in 1..Len(list) :
    tm[list[i]].made /\ list[i] # c /\ k <= tm[list[i]].nxt_tick

Proper(list, tm, c, k) ==
  list \in Seq(Timers) /\ Distinct(list) /\ Ordered(list, tm) /\ Entries(list, tm, c, k)

\* What may enter the list is not due before this tick.
Floor(tm, c) ==
  IF c # None /\ "RSTART" \notin tm[c].iflag THEN tm[c].nxt_tick ELSE 1

Listed == Proper(tq_list, tmr, cbk, Floor(tmr, cbk))

\* Only the timer whose callback runs carries flags, and it was due.
Flagged ==
  /\ \A t \in Timers : tmr[t].iflag # {} => t = cbk
  /\ cbk # None =>
       /\ curr # 0 /\ tmr[cbk].made /\ "CALLBK" \in tmr[cbk].iflag
       /\ tmr[cbk].nxt_tick >= 1
       /\ "RSTART" \notin tmr[cbk].iflag => tmr[cbk].nxt_tick <= curr

\* Outside timer_queue_event the hardware timer was last set for the head.
SetForTheHead == curr = 0 /\ tq_list # <<>> => tq_nxt_tick = tmr[tq_list[1]].nxt_tick

\* What was set runs, or has woken the thread.
Woken == curr = 0 /\ tq_nxt_tick # 0 => armed \/ ready

IInv == TypeOK /\ Listed /\ Flagged /\ SetForTheHead /\ Woken

Tables ==
  [Timers -> [made : BOOLEAN, iflag : SUBSET Flags, irepeat : Irts \cup {0},
              nxt_tick : Nat]]

-----------------------------------------------------------------------------
\* The operations on the list.

LEMMA ShapeOfSubSeq ==
  ASSUME NEW list, NEW m \in Int, NEW n \in Int, \A i \in m..n : list[i] \in Timers
  PROVE  /\ SubSeq(list, m, n) \in Seq(Timers)
         /\ Len(SubSeq(list, m, n)) = IF m <= n THEN n - m + 1 ELSE 0
         /\ \A i \in 1..(n - m + 1) : SubSeq(list, m, n)[i] = list[m + i - 1]
BY SubSeqProperties

\* Remove takes out the one place of a timer.
LEMMA ShapeOfRemove ==
  ASSUME NEW list \in Seq(Timers), Distinct(list), NEW p \in 1..Len(list)
  PROVE  LET left == Remove(list, list[p])
         IN  /\ left \in Seq(Timers)
             /\ Len(left) = Len(list) - 1
             /\ \A i \in 1..Len(left) :
                  left[i] = IF i < p THEN list[i] ELSE list[i + 1]
<1>. DEFINE L == Len(list)
            at == {i \in 1..L : list[i] = list[p]}
            a == SubSeq(list, 1, p - 1)
            b == SubSeq(list, p + 1, L)
<1>1. L \in Nat /\ p \in 1..L /\ \A i \in 1..L : list[i] \in Timers
  BY LenProperties, ElementOfSeq
<1>2. at = {p}
  BY DEF Distinct
<1>3. Least(at) = p
  <2>1. at \subseteq Nat /\ at # {}
    BY <1>1, <1>2
  <2>. QED
    BY <1>2, <2>1, LeastOfNaturals, Zenon
<1>4. Remove(list, list[p]) = a \o b
  BY <1>2, <1>3 DEF Remove
<1>. HIDE DEF L, at
<1>5. a \in Seq(Timers) /\ Len(a) = p - 1 /\ \A i \in 1..(p - 1) : a[i] = list[i]
  <2>1. \A i \in 1..(p - 1) : list[i] \in Timers
    BY <1>1
  <2>2. 1 \in Int /\ p - 1 \in Int
    BY <1>1
  <2>3. /\ a \in Seq(Timers)
        /\ Len(a) = IF 1 <= p - 1 THEN (p - 1) - 1 + 1 ELSE 0
        /\ \A i \in 1..((p - 1) - 1 + 1) : a[i] = list[1 + i - 1]
    BY <2>1, <2>2, ShapeOfSubSeq
  <2>. QED
    BY <1>1, <2>3
<1>6. b \in Seq(Timers) /\ Len(b) = L - p /\ \A i \in 1..(L - p) : b[i] = list[p + i]
  <2>1. \A i \in (p + 1)..L : list[i] \in Timers
    BY <1>1
  <2>2. p + 1 \in Int /\ L \in Int
    BY <1>1
  <2>3. /\ b \in Seq(Timers)
        /\ Len(b) = IF p + 1 <= L THEN L - (p + 1) + 1 ELSE 0
        /\ \A i \in 1..(L - (p + 1) + 1) : b[i] = list[(p + 1) + i - 1]
    BY <2>1, <2>2, ShapeOfSubSeq
  <2>. QED
    BY <1>1, <2>3
<1>. HIDE DEF a, b
<1>7. /\ a \o b \in Seq(Timers)
      /\ Len(a \o b) = Len(a) + Len(b)
      /\ \A i \in 1..(Len(a) + Len(b)) :
           (a \o b)[i] = IF i <= Len(a) THEN a[i] ELSE b[i - Len(a)]
  BY <1>5, <1>6, ConcatProperties, Zenon
<1>8. Len(a \o b) = L - 1
  BY <1>1, <1>5, <1>6, <1>7
<1>9. \A i \in 1..(L - 1) : (a \o b)[i] = IF i < p THEN list[i] ELSE list[i + 1]
  <2>1. SUFFICES ASSUME NEW i \in 1..(L - 1)
                 PROVE  (a \o b)[i] = IF i < p THEN list[i] ELSE list[i + 1]
    OBVIOUS
  <2>2. (a \o b)[i] = IF i <= Len(a) THEN a[i] ELSE b[i - Len(a)]
    <3>1. Len(a) + Len(b) = L - 1
      BY <1>1, <1>5, <1>6
    <3>. QED
      BY <1>7, <3>1, Zenon
  <2>3. CASE i < p
    BY <1>1, <1>5, <2>2, <2>3
  <2>4. CASE ~ (i < p)
    <3>1. i - Len(a) \in 1..(L - p) /\ p + (i - Len(a)) = i + 1 /\ ~ (i <= Len(a))
      BY <1>1, <1>5, <2>4
    <3>. QED
      BY <1>6, <2>2, <2>4, <3>1, Zenon
  <2>. QED
    BY <2>3, <2>4
<1>. QED
  BY <1>4, <1>7, <1>8, <1>9 DEF L

\* Insert puts a timer after all that are due no later, before one that is.
LEMMA ShapeOfInsert ==
  ASSUME NEW list \in Seq(Timers), NEW tm \in Tables, NEW t \in Timers
  PROVE  \E p \in 1..(Len(list) + 1) :
           LET new == Insert(list, tm, t)
           IN  /\ new \in Seq(Timers)
               /\ Len(new) = Len(list) + 1
               /\ \A i \in 1..Len(new) :
                    new[i] = IF i < p THEN list[i]
                             ELSE IF i = p THEN t ELSE list[i - 1]
               /\ \A i \in 1..Len(list) :
                    i < p => tm[list[i]].nxt_tick <= tm[t].nxt_tick
               /\ p <= Len(list) => tm[t].nxt_tick < tm[list[p]].nxt_tick
<1>. DEFINE L == Len(list)
            later == {i \in 1..L : tm[t].nxt_tick < tm[list[i]].nxt_tick}
<1>1. L \in Nat /\ \A i \in 1..L : list[i] \in Timers
  BY LenProperties, ElementOfSeq
<1>2. tm[t].nxt_tick \in Nat /\ \A i \in 1..L : tm[list[i]].nxt_tick \in Nat
  BY <1>1 DEF Tables
<1>3. CASE later = {}
  <2>1. Insert(list, tm, t) = Append(list, t)
    BY <1>3 DEF Insert
  <2>2. /\ Append(list, t) \in Seq(Timers)
        /\ Len(Append(list, t)) = L + 1
        /\ \A i \in 1..L : Append(list, t)[i] = list[i]
        /\ Append(list, t)[L + 1] = t
    BY AppendProperties
  <2>3. \A i \in 1..L : tm[list[i]].nxt_tick <= tm[t].nxt_tick
    BY <1>2, <1>3
  <2>. HIDE DEF L, later
  <2>4. L + 1 \in 1..(L + 1) /\ ~ (L + 1 <= L)
    BY <1>1
  <2>5. \A i \in 1..(L + 1) : Append(list, t)[i] = IF i < L + 1 THEN list[i]
                              ELSE IF i = L + 1 THEN t ELSE list[i - 1]
    BY <1>1, <2>2
  <2>. QED
    BY <2>1, <2>2, <2>3, <2>4, <2>5 DEF L
<1>4. CASE later # {}
  <2>. DEFINE p == Least(later)
              a == SubSeq(list, 1, p - 1)
              b == SubSeq(list, p, L)
              new == (a \o <<t>>) \o b
  <2>1. p \in later /\ \A i \in later : p <= i
    <3>1. later \subseteq Nat
      BY <1>1
    <3>. QED
      BY <1>4, <3>1, LeastOfNaturals, Zenon
  <2>2. Insert(list, tm, t) = new
    BY <1>4 DEF Insert
  <2>3. /\ p \in 1..L
        /\ tm[t].nxt_tick < tm[list[p]].nxt_tick
        /\ \A i \in 1..L : i < p => tm[list[i]].nxt_tick <= tm[t].nxt_tick
    <3>1. p \in 1..L /\ tm[t].nxt_tick < tm[list[p]].nxt_tick
      BY <2>1
    <3>2. ASSUME NEW i \in 1..L, i < p
          PROVE  tm[list[i]].nxt_tick <= tm[t].nxt_tick
      <4>1. i \notin later
        <5>1. p \in Int /\ i \in Int /\ ~ (p <= i)
          BY <1>1, <3>1, <3>2
        <5>. QED
          BY <2>1, <5>1, Zenon
      <4>. QED
        BY <1>2, <4>1
    <3>. QED
      BY <3>1, <3>2
  <2>. HIDE DEF L, later, p
  <2>4. a \in Seq(Timers) /\ Len(a) = p - 1 /\ \A i \in 1..(p - 1) : a[i] = list[i]
    <3>1. \A i \in 1..(p - 1) : list[i] \in Timers
      BY <1>1, <2>3
    <3>2. 1 \in Int /\ p - 1 \in Int
      BY <1>1, <2>3
    <3>3. /\ a \in Seq(Timers)
          /\ Len(a) = IF 1 <= p - 1 THEN (p - 1) - 1 + 1 ELSE 0
          /\ \A i \in 1..((p - 1) - 1 + 1) : a[i] = list[1 + i - 1]
      BY <3>1, <3>2, ShapeOfSubSeq
    <3>. QED
      BY <1>1, <2>3, <3>3
  <2>5. /\ b \in Seq(Timers) /\ Len(b) = L - p + 1
        /\ \A i \in 1..(L - p + 1) : b[i] = list[p + i - 1]
    <3>1. \A i \in p..L : list[i] \in Timers
      BY <1>1, <2>3
    <3>2. p \in Int /\ L \in Int
      BY <1>1, <2>3
    <3>3. /\ b \in Seq(Timers)
          /\ Len(b) = IF p <= L THEN L - p + 1 ELSE 0
          /\ \A i \in 1..(L - p + 1) : b[i] = list[p + i - 1]
      BY <3>1, <3>2, ShapeOfSubSeq
    <3>. QED
      BY <1>1, <2>3, <3>3
  <2>. HIDE DEF a, b
  <2>6. <<t>> \in Seq(Timers) /\ Len(<<t>>) = 1 /\ <<t>>[1] = t
    OBVIOUS
  <2>7. /\ a \o <<t>> \in Seq(Timers)
        /\ Len(a \o <<t>>) = p
        /\ \A i \in 1..p : (a \o <<t>>)[i] = IF i < p THEN list[i] ELSE t
    <3>1. /\ a \o <<t>> \in Seq(Timers)
          /\ Len(a \o <<t>>) = Len(a) + Len(<<t>>)
          /\ \A i \in 1..(Len(a) + Len(<<t>>)) :
               (a \o <<t>>)[i] = IF i <= Len(a) THEN a[i] ELSE <<t>>[i - Len(a)]
      BY <2>4, <2>6, ConcatProperties, Zenon
    <3>2. Len(a) + Len(<<t>>) = p
      BY <2>3, <2>4, <2>6
    <3>3. ASSUME NEW i \in 1..p
          PROVE  (a \o <<t>>)[i] = IF i < p THEN list[i] ELSE t
      <4>1. (a \o <<t>>)[i] = IF i <= Len(a) THEN a[i] ELSE <<t>>[i - Len(a)]
        BY <3>1, <3>2
      <4>2. CASE i < p
        BY <2>3, <2>4, <4>1, <4>2
      <4>3. CASE ~ (i < p)
        <5>1. i - Len(a) = 1 /\ ~ (i <= Len(a))
          BY <2>3, <2>4, <4>3
        <5>. QED
          BY <2>6, <4>1, <4>3, <5>1, Zenon
      <4>. QED
        BY <4>2, <4>3
    <3>. QED
      BY <3>1, <3>2, <3>3
  <2>. DEFINE u == a \o <<t>>
  <2>. HIDE DEF u
  <2>8. u \in Seq(Timers) /\ Len(u) = p
        /\ \A i \in 1..p : u[i] = IF i < p THEN list[i] ELSE t
    BY <2>7 DEF u
  <2>9. /\ u \o b \in Seq(Timers)
        /\ Len(u \o b) = Len(u) + Len(b)
        /\ \A i \in 1..(Len(u) + Len(b)) :
             (u \o b)[i] = IF i <= Len(u) THEN u[i] ELSE b[i - Len(u)]
    BY <2>5, <2>8, ConcatProperties, Zenon
  <2>10. Len(u) + Len(b) = L + 1
    BY <1>1, <2>3, <2>5, <2>8
  <2>11. ASSUME NEW i \in 1..(L + 1)
         PROVE  (u \o b)[i] = IF i < p THEN list[i]
                              ELSE IF i = p THEN t ELSE list[i - 1]
    <3>1. (u \o b)[i] = IF i <= Len(u) THEN u[i] ELSE b[i - Len(u)]
      BY <2>9, <2>10
    <3>2. CASE i <= p
      <4>1. (u \o b)[i] = u[i] /\ i \in 1..p
        BY <2>3, <2>8, <3>1, <3>2
      <4>2. u[i] = IF i < p THEN list[i] ELSE t
        BY <2>8, <4>1
      <4>. QED
        BY <2>3, <3>2, <4>1, <4>2
    <3>3. CASE ~ (i <= p)
      <4>1. i - p \in 1..(L - p + 1) /\ p + (i - p) - 1 = i - 1
        BY <1>1, <2>3, <3>3
      <4>2. (u \o b)[i] = list[i - 1]
        BY <2>5, <2>8, <3>1, <3>3, <4>1, Zenon
      <4>. QED
        BY <2>3, <3>3, <4>2
    <3>. QED
      BY <3>2, <3>3
  <2>12. new = u \o b
    BY DEF u
  <2>13. p \in 1..(L + 1)
    BY <1>1, <2>3
  <2>. HIDE DEF new
  <2>. QED
    BY <2>2, <2>3, <2>9, <2>10, <2>11, <2>12, <2>13 DEF L
<1>. QED
  BY <1>3, <1>4

\* A list remains proper when the ticks of its entries stay.
LEMMA ProperOther ==
  ASSUME NEW list, NEW tm, NEW c, NEW k, Proper(list, tm, c, k),
         NEW tm2, NEW c2, NEW k2,
         \A i \in 1..Len(list) :
           /\ tm2[list[i]].made /\ tm2[list[i]].nxt_tick = tm[list[i]].nxt_tick
           /\ list[i] # c2 /\ k2 <= tm[list[i]].nxt_tick
  PROVE  Proper(list, tm2, c2, k2)
BY Zenon DEF Proper, Ordered, Entries

LEMMA ProperRemove ==
  ASSUME NEW list, NEW tm, NEW c, NEW k, Proper(list, tm, c, k), NEW t \in Timers
  PROVE  /\ Proper(Remove(list, t), tm, c, k)
         /\ \A i \in 1..Len(Remove(list, t)) :
              /\ Remove(list, t)[i] # t
              /\ \E j \in 1..Len(list) : Remove(list, t)[i] = list[j]
<1>. DEFINE left == Remove(list, t)
<1>0. list \in Seq(Timers) /\ Len(list) \in Nat
  BY LenProperties DEF Proper
<1>1. CASE \A i \in 1..Len(list) : list[i] # t
  <2>1. left = list
    BY <1>1 DEF Remove
  <2>. QED
    BY <1>1, <2>1
<1>2. CASE \E i \in 1..Len(list) : list[i] = t
  <2>1. PICK p \in 1..Len(list) : list[p] = t
    BY <1>2
  <2>2. /\ left \in Seq(Timers)
        /\ Len(left) = Len(list) - 1
        /\ \A i \in 1..Len(left) : left[i] = IF i < p THEN list[i] ELSE list[i + 1]
    BY <1>0, <2>1, ShapeOfRemove DEF Proper
  <2>. DEFINE from(i) == IF i < p THEN i ELSE i + 1
  <2>3. \A i \in 1..Len(left) :
          from(i) \in 1..Len(list) /\ from(i) # p /\ left[i] = list[from(i)]
    BY <1>0, <2>1, <2>2
  <2>4. \A i, j \in 1..Len(left) :
          (from(i) = from(j) => i = j) /\ (i <= j => from(i) <= from(j))
    BY <1>0, <2>1, <2>2
  <2>. HIDE DEF from, left
  <2>5. Distinct(left)
    BY <2>3, <2>4, Zenon DEF Distinct, Proper
  <2>6. Ordered(left, tm)
    BY <2>3, <2>4, Zenon DEF Ordered, Proper
  <2>7. Entries(left, tm, c, k)
    BY <2>3, Zenon DEF Entries, Proper
  <2>8. \A i \in 1..Len(left) : left[i] # t /\ \E j \in 1..Len(list) : left[i] = list[j]
    <3>1. \A i \in 1..Len(list) : list[i] = t => i = p
      BY <2>1 DEF Proper, Distinct
    <3>. QED
      BY <2>3, <3>1, Zenon
  <2>. QED
    BY <2>2, <2>5, <2>6, <2>7, <2>8 DEF Proper, left
<1>. QED
  BY <1>1, <1>2

LEMMA ProperInsert ==
  ASSUME NEW list, NEW tm \in Tables, NEW c, NEW k, Proper(list, tm, c, k),
         NEW t \in Timers, \A i \in 1..Len(list) : list[i] # t,
         tm[t].made, t # c, k <= tm[t].nxt_tick
  PROVE  Proper(Insert(list, tm, t), tm, c, k) /\ Len(Insert(list, tm, t)) >= 1
<1>. DEFINE new == Insert(list, tm, t)
            L == Len(list)
<1>0. list \in Seq(Timers) /\ L \in Nat /\ \A i \in 1..L : list[i] \in Timers
  BY LenProperties, ElementOfSeq DEF Proper
<1>1. PICK p \in 1..(L + 1) :
        /\ new \in Seq(Timers)
        /\ Len(new) = L + 1
        /\ \A i \in 1..Len(new) :
             new[i] = IF i < p THEN list[i] ELSE IF i = p THEN t ELSE list[i - 1]
        /\ \A i \in 1..L : i < p => tm[list[i]].nxt_tick <= tm[t].nxt_tick
        /\ p <= L => tm[t].nxt_tick < tm[list[p]].nxt_tick
  BY <1>0, ShapeOfInsert
<1>. HIDE DEF new, L
<1>. DEFINE tick(u) == tm[u].nxt_tick
<1>2. tick(t) \in Nat /\ \A i \in 1..L : tick(list[i]) \in Nat
  BY <1>0 DEF Tables
<1>3. \A i, j \in 1..L : (list[i] = list[j] => i = j)
                      /\ (i <= j => tick(list[i]) <= tick(list[j]))
  BY DEF Proper, Distinct, Ordered, L
<1>4. \A i \in 1..L : tm[list[i]].made /\ list[i] # c /\ k <= tick(list[i]) /\ list[i] # t
  BY DEF Proper, Entries, L
<1>5. tm[t].made /\ t # c /\ k <= tick(t)
  OBVIOUS
<1>6. \A i \in 1..L : /\ i < p => tick(list[i]) <= tick(t)
                      /\ p <= i => tick(t) <= tick(list[i])
  <2>1. SUFFICES ASSUME NEW i \in 1..L, p <= i PROVE tick(t) <= tick(list[i])
    BY <1>1
  <2>2. p \in 1..L
    BY <1>0, <1>1, <2>1
  <2>3. tick(list[p]) <= tick(list[i]) /\ tick(t) < tick(list[p])
    BY <1>1, <1>3, <2>1, <2>2
  <2>. QED
    BY <1>2, <2>2, <2>3
<1>. HIDE DEF tick
<1>. DEFINE from(i) == IF i < p THEN i ELSE i - 1
<1>7. \A i \in 1..(L + 1) :
        IF i = p THEN new[i] = t
        ELSE from(i) \in 1..L /\ new[i] = list[from(i)] /\ (from(i) < p <=> i < p)
             /\ (p <= from(i) <=> p < i)
  BY <1>0, <1>1
<1>8. \A i, j \in 1..(L + 1) :
        i # p /\ j # p => /\ from(i) = from(j) => i = j
                          /\ i <= j => from(i) <= from(j)
  BY <1>0, <1>1
<1>. HIDE DEF from
<1>9. Distinct(new)
  <2>1. SUFFICES ASSUME NEW i \in 1..(L + 1), NEW j \in 1..(L + 1), new[i] = new[j]
                 PROVE  i = j
    BY <1>1 DEF Distinct
  <2>. QED
    <3>1. (i # p => new[i] # t) /\ (j # p => new[j] # t)
      BY <1>4, <1>7, Zenon
    <3>2. (i = p => new[i] = t) /\ (j = p => new[j] = t)
      BY <1>7, Zenon
    <3>3. CASE i # p /\ j # p
      <4>1. from(i) \in 1..L /\ from(j) \in 1..L /\ list[from(i)] = list[from(j)]
        BY <1>7, <2>1, <3>3
      <4>2. from(i) = from(j)
        BY <1>3, <4>1, Zenon
      <4>. QED
        BY <1>8, <3>3, <4>2, Zenon
    <3>. QED
      BY <2>1, <3>1, <3>2, <3>3, Zenon
<1>10. Ordered(new, tm)
  <2>1. SUFFICES ASSUME NEW i \in 1..(L + 1), NEW j \in 1..(L + 1), i <= j
                 PROVE  tick(new[i]) <= tick(new[j])
    BY <1>1 DEF Ordered, tick
  <2>2. CASE i = p /\ j = p
    BY <1>2, <1>7, <2>2
  <2>3. CASE i = p /\ j # p
    <3>1. p < j
      BY <1>1, <2>1, <2>3
    <3>. QED
      BY <1>6, <1>7, <2>3, <3>1, Zenon
  <2>4. CASE i # p /\ j = p
    <3>1. i < p
      BY <1>1, <2>1, <2>4
    <3>. QED
      BY <1>6, <1>7, <2>4, <3>1, Zenon
  <2>5. CASE i # p /\ j # p
    BY <1>3, <1>7, <1>8, <2>1, <2>5, Zenon
  <2>. QED
    BY <2>2, <2>3, <2>4, <2>5, Zenon
<1>11. Entries(new, tm, c, k)
  <2>1. SUFFICES ASSUME NEW i \in 1..(L + 1)
                 PROVE  tm[new[i]].made /\ new[i] # c /\ k <= tick(new[i])
    BY <1>1 DEF Entries, tick
  <2>. QED
    BY <1>4, <1>5, <1>7, <2>1, Zenon
<1>12. Len(new) >= 1
  BY <1>0, <1>1
<1>. QED
  BY <1>1, <1>9, <1>10, <1>11, <1>12 DEF Proper, new

LEMMA ProperTail ==
  ASSUME NEW list, NEW tm, NEW c, NEW k, Proper(list, tm, c, k), list # <<>>
  PROVE  /\ Proper(Tail(list), tm, Head(list), tm[Head(list)].nxt_tick)
         /\ Head(list) = list[1] /\ 1 \in 1..Len(list) /\ Head(list) \in Timers
         /\ \A i \in 1..Len(Tail(list)) : Tail(list)[i] = list[i + 1] /\ i + 1 \in 1..Len(list)
<1>. DEFINE rest == Tail(list)
            L == Len(list)
<1>1. list \in Seq(Timers) /\ L \in Nat
  BY LenProperties DEF Proper
<1>2. /\ Head(list) \in Timers
      /\ rest \in Seq(Timers)
      /\ Len(rest) = L - 1
      /\ \A i \in 1..Len(rest) : rest[i] = list[i + 1]
  BY <1>1, HeadTailProperties, Zenon
<1>3. Head(list) = list[1] /\ L >= 1
  BY <1>1, EmptySeq
<1>. HIDE DEF rest, L
<1>4. \A i \in 1..(L - 1) : i + 1 \in 1..L /\ i + 1 # 1 /\ 1 <= i + 1
  BY <1>1
<1>5. 1 \in 1..L
  BY <1>1, <1>3
<1>6. \A i, j \in 1..(L - 1) : (i + 1 = j + 1 => i = j) /\ (i <= j => i + 1 <= j + 1)
  BY <1>1
<1>7. Distinct(rest)
  <2>1. SUFFICES ASSUME NEW i \in 1..(L - 1), NEW j \in 1..(L - 1),
                        list[i + 1] = list[j + 1]
                 PROVE  i = j
    BY <1>2 DEF Distinct
  <2>2. i + 1 = j + 1
    BY <1>4, <2>1, Zenon DEF Proper, Distinct, L
  <2>. QED
    BY <1>6, <2>2, Zenon
<1>8. Ordered(rest, tm)
  <2>1. SUFFICES ASSUME NEW i \in 1..(L - 1), NEW j \in 1..(L - 1), i <= j
                 PROVE  tm[list[i + 1]].nxt_tick <= tm[list[j + 1]].nxt_tick
    BY <1>2 DEF Ordered
  <2>2. i + 1 <= j + 1
    BY <1>6, <2>1, Zenon
  <2>. QED
    BY <1>4, <2>2, Zenon DEF Proper, Ordered, L
<1>9. Entries(rest, tm, Head(list), tm[Head(list)].nxt_tick)
  <2>1. SUFFICES ASSUME NEW i \in 1..(L - 1)
                 PROVE  /\ tm[list[i + 1]].made /\ list[i + 1] # list[1]
                        /\ tm[list[1]].nxt_tick <= tm[list[i + 1]].nxt_tick
    BY <1>2, <1>3 DEF Entries
  <2>. QED
    BY <1>4, <1>5, <2>1, Zenon DEF Proper, Distinct, Ordered, Entries, L
<1>. QED
  BY <1>2, <1>3, <1>4, <1>5, <1>7, <1>8, <1>9 DEF Proper, rest, L

-----------------------------------------------------------------------------
\* The steps.

LEMMA Basics ==
  ASSUME IInv
  PROVE  /\ tmr \in Tables /\ Floor(tmr, cbk) \in 1..now
         /\ curr \in 0..now /\ now \in Nat \ {0} /\ None \notin Timers
         /\ tq_list \in Seq(Timers) /\ Len(tq_list) \in Nat
         /\ \A i \in 1..Len(tq_list) :
              /\ tq_list[i] \in Timers /\ tq_list[i] # cbk /\ tmr[tq_list[i]].made
              /\ tmr[tq_list[i]].nxt_tick \in Nat \ {0}
              /\ Floor(tmr, cbk) <= tmr[tq_list[i]].nxt_tick
<1>1. /\ tmr \in Tables /\ curr \in 0..now /\ now \in Nat \ {0} /\ None \notin Timers
      /\ tq_list \in Seq(Timers) /\ Len(tq_list) \in Nat
  BY ATimerAssumption, LenProperties DEF IInv, TypeOK, Tables
<1>2. Floor(tmr, cbk) \in 1..now
  <2>1. CASE cbk # None /\ "RSTART" \notin tmr[cbk].iflag
    <3>1. cbk \in Timers
      BY <2>1 DEF IInv, TypeOK
    <3>2. tmr[cbk].nxt_tick \in Nat
      BY <1>1, <3>1 DEF Tables
    <3>. QED
      BY <1>1, <2>1, <3>2 DEF IInv, Flagged, Floor
  <2>2. CASE ~ (cbk # None /\ "RSTART" \notin tmr[cbk].iflag)
    BY <1>1, <2>2 DEF Floor
  <2>. QED
    BY <2>1, <2>2
<1>3. \A i \in 1..Len(tq_list) :
        /\ tq_list[i] # cbk /\ tmr[tq_list[i]].made
        /\ Floor(tmr, cbk) <= tmr[tq_list[i]].nxt_tick
  BY DEF IInv, Listed, Proper, Entries
<1>4. \A i \in 1..Len(tq_list) : tq_list[i] \in Timers
  BY <1>1, ElementOfSeq
<1>5. \A i \in 1..Len(tq_list) : tmr[tq_list[i]].nxt_tick \in Nat
  BY <1>1, <1>4 DEF Tables
<1>6. \A i \in 1..Len(tq_list) : tmr[tq_list[i]].nxt_tick \in Nat \ {0}
  BY <1>2, <1>3, <1>5
<1>. QED
  BY <1>1, <1>2, <1>3, <1>4, <1>6

\* After SetForHead the hardware is set for the head and runs, or has woken.
LEMMA HeadWritten ==
  ASSUME TypeOK, Woken, NEW list \in Seq(Timers), list # <<>>, NEW tm,
         tm[list[1]].nxt_tick \in Nat \ {0}, SetForHead(list, tm),
         ready' = ready, curr' = curr
  PROVE  /\ tq_nxt_tick' = tm[list[1]].nxt_tick
         /\ tq_nxt_tick' \in Nat /\ armed' \in BOOLEAN /\ ready' \in BOOLEAN
         /\ Woken'
<1>1. Head(list) = list[1]
  OBVIOUS
<1>2. CASE tq_nxt_tick # tm[list[1]].nxt_tick
  BY <1>1, <1>2 DEF SetForHead, Write, TypeOK, Woken
<1>3. CASE tq_nxt_tick = tm[list[1]].nxt_tick
  BY <1>1, <1>3 DEF SetForHead, TypeOK, Woken
<1>. QED
  BY <1>2, <1>3

LEMMA TypeInTables ==
  ASSUME now \in Nat \ {0}, tmr \in Tables, tq_list \in Seq(Timers),
         tq_nxt_tick \in Nat, armed \in BOOLEAN, ready \in BOOLEAN,
         curr \in 0..now, cbk \in Timers \cup {None}
  PROVE  TypeOK
BY Zenon DEF TypeOK, Tables

LEMMA StartedInTables ==
  ASSUME NEW tm \in Tables, NEW t \in Timers, NEW f \in SUBSET Flags,
         NEW n \in Nat, NEW irt \in Irts
  PROVE  [tm EXCEPT ![t].iflag = f, ![t].nxt_tick = n, ![t].irepeat = irt] \in Tables
BY DEF Tables

LEMMA CreateKeeps ==
  ASSUME IInv, NEW t \in Timers, Create(t)
  PROVE  IInv'
<1>. USE Basics
<1>1. /\ UNCHANGED <<now, tq_list, tq_nxt_tick, armed, ready, curr, cbk>>
      /\ ~tmr[t].made
  BY DEF Create, hardware
<1>2. tmr' \in Tables
  BY DEF Create, NoTimer, Tables
<1>3. \A u \in Timers \ {t} : tmr'[u] = tmr[u]
  BY DEF Create, Tables
<1>4. tmr'[t].iflag = {} /\ t # cbk
  <2>1. tmr'[t] = [made |-> TRUE, iflag |-> {}, irepeat |-> 0, nxt_tick |-> 0]
    BY DEF Create, NoTimer, Tables
  <2>. QED
    BY <1>1, <2>1 DEF IInv, Flagged
<1>5. \A i \in 1..Len(tq_list) : tq_list[i] # t
  BY <1>1
<1>6. Floor(tmr', cbk) = Floor(tmr, cbk)
  BY <1>3, <1>4 DEF Floor, IInv, TypeOK
<1>7. Listed'
  <2>1. Proper(tq_list, tmr', cbk, Floor(tmr', cbk))
    BY <1>3, <1>5, <1>6, ProperOther DEF IInv, Listed
  <2>. QED
    BY <1>1, <2>1 DEF Listed
<1>8. Flagged'
  BY <1>1, <1>3, <1>4 DEF Flagged, IInv, TypeOK
<1>9. SetForTheHead'
  BY <1>1, <1>3, <1>5 DEF SetForTheHead, IInv
<1>10. Woken'
  BY <1>1 DEF Woken, IInv
<1>11. TypeOK'
  BY <1>1, <1>2 DEF TypeOK, IInv, Tables
<1>. QED
  BY <1>7, <1>8, <1>9, <1>10, <1>11 DEF IInv

LEMMA StartKeeps ==
  ASSUME IInv, NEW t \in Timers, NEW itv \in Itvs, NEW irt \in Irts, Start(t, itv, irt)
  PROVE  IInv'
<1>. USE Basics
<1>1. UNCHANGED <<now, curr, cbk, ready>> /\ tmr[t].made
  BY DEF Start, Usable, hardware
<1>2. itv \in Nat \ {0} /\ irt \in Nat
  BY ATimerAssumption
<1>3. CASE "CALLBK" \in tmr[t].iflag
  <2>1. /\ tmr' = [tmr EXCEPT ![t].iflag = @ \cup {"RSTART"},
                              ![t].nxt_tick = @ + itv, ![t].irepeat = irt]
        /\ UNCHANGED <<tq_list, tq_nxt_tick, armed>>
    BY <1>3 DEF Start, hardware
  <2>2. t = cbk /\ cbk # None /\ curr # 0 /\ tmr[t].nxt_tick \in Nat \ {0}
    <3>1. t = cbk
      BY <1>3 DEF IInv, Flagged
    <3>2. tmr[t].nxt_tick \in Nat
      BY DEF Tables
    <3>. QED
      BY <3>1, <3>2 DEF IInv, Flagged
  <2>3. tmr' \in Tables
    BY <1>2, <2>1 DEF Tables, Flags
  <2>4. \A u \in Timers \ {t} : tmr'[u] = tmr[u]
    BY <2>1 DEF Tables
  <2>5. /\ tmr'[t].made /\ {"CALLBK", "RSTART"} \subseteq tmr'[t].iflag
        /\ tmr'[t].nxt_tick = tmr[t].nxt_tick + itv
    BY <1>1, <1>3, <2>1 DEF Tables
  <2>6. Floor(tmr', cbk) = 1
    BY <2>2, <2>5 DEF Floor
  <2>7. \A i \in 1..Len(tq_list) : tq_list[i] # t /\ 1 <= tmr[tq_list[i]].nxt_tick
    BY <2>2
  <2>8. Listed'
    <3>1. Proper(tq_list, tmr', cbk, Floor(tmr', cbk))
      BY <2>4, <2>6, <2>7, ProperOther DEF IInv, Listed
    <3>. QED
      BY <1>1, <2>1, <3>1 DEF Listed
  <2>9. Flagged'
    <3>1. tmr'[t].nxt_tick >= 1
      BY <1>2, <2>2, <2>5
    <3>. QED
      BY <1>1, <2>2, <2>4, <2>5, <3>1 DEF Flagged, IInv
  <2>10. SetForTheHead' /\ Woken'
    BY <1>1, <2>2 DEF SetForTheHead, Woken
  <2>11. TypeOK'
    BY <1>1, <2>1, <2>3 DEF TypeOK, IInv, Tables
  <2>. QED
    BY <2>8, <2>9, <2>10, <2>11 DEF IInv
<1>4. CASE "CALLBK" \notin tmr[t].iflag
  <2>. DEFINE left == Remove(tq_list, t)
  <2>1. /\ tmr' = [tmr EXCEPT ![t].iflag = {}, ![t].nxt_tick = now + itv,
                              ![t].irepeat = irt]
        /\ tq_list' = Insert(left, tmr', t)
        /\ SetForHead(tq_list', tmr')
    BY <1>4 DEF Start
  <2>2. t # cbk
    BY <1>4 DEF IInv, Flagged
  <2>3. tmr' \in Tables
    <3>1. now + itv \in Nat /\ {} \in SUBSET Flags /\ tmr \in Tables
      BY <1>2
    <3>. QED
      BY <2>1, <3>1, StartedInTables
  <2>4. \A u \in Timers \ {t} : tmr'[u] = tmr[u]
    BY <2>1 DEF Tables
  <2>5. tmr'[t].made /\ tmr'[t].iflag = {} /\ tmr'[t].nxt_tick = now + itv
    BY <1>1, <2>1 DEF Tables
  <2>6. Floor(tmr', cbk) = Floor(tmr, cbk)
    BY <2>2, <2>4 DEF Floor, IInv, TypeOK
  <2>7. /\ Proper(left, tmr, cbk, Floor(tmr, cbk))
        /\ \A i \in 1..Len(left) : left[i] # t
    BY ProperRemove DEF IInv, Listed
  <2>. HIDE DEF left
  <2>8. \A i \in 1..Len(left) :
          /\ left[i] \in Timers /\ tmr[left[i]].made /\ left[i] # cbk
          /\ Floor(tmr, cbk) <= tmr[left[i]].nxt_tick
    BY <2>7, ElementOfSeq DEF Proper, Entries
  <2>9. Proper(left, tmr', cbk, Floor(tmr', cbk))
    BY <2>4, <2>6, <2>7, <2>8, ProperOther
  <2>10. Floor(tmr', cbk) <= tmr'[t].nxt_tick
    BY <1>2, <2>5, <2>6
  <2>11. Proper(tq_list', tmr', cbk, Floor(tmr', cbk)) /\ Len(tq_list') >= 1
    <3>. DEFINE tm == tmr'
                new == tq_list'
                k == Floor(tmr', cbk)
    <3>1. /\ tm \in Tables /\ Proper(left, tm, cbk, k) /\ tm[t].made /\ t # cbk
          /\ k <= tm[t].nxt_tick /\ new = Insert(left, tm, t)
      BY <2>1, <2>2, <2>3, <2>5, <2>9, <2>10
    <3>. HIDE DEF tm, new, k
    <3>2. Proper(new, tm, cbk, k) /\ Len(new) >= 1
      BY <2>7, <3>1, ProperInsert
    <3>. QED
      BY <3>2 DEF tm, new, k
  <2>12. Listed'
    BY <1>1, <2>11 DEF Listed
  <2>13. Flagged'
    BY <1>1, <2>2, <2>4, <2>5 DEF Flagged, IInv, TypeOK
  <2>14. /\ tq_list' \in Seq(Timers) /\ tq_list' # <<>>
         /\ tmr'[tq_list'[1]].nxt_tick \in Nat \ {0}
    <3>1. tq_list' \in Seq(Timers) /\ tq_list' # <<>> /\ 1 \in 1..Len(tq_list')
      BY <2>11, LenProperties DEF Proper
    <3>2. tq_list'[1] \in Timers /\ Floor(tmr', cbk) <= tmr'[tq_list'[1]].nxt_tick
      BY <2>11, <3>1, ElementOfSeq DEF Proper, Entries
    <3>3. tmr'[tq_list'[1]].nxt_tick \in Nat
      BY <2>3, <3>2 DEF Tables
    <3>. QED
      BY <2>6, <3>1, <3>2, <3>3
  <2>15. /\ tq_nxt_tick' = tmr'[tq_list'[1]].nxt_tick
         /\ tq_nxt_tick' \in Nat /\ armed' \in BOOLEAN /\ ready' \in BOOLEAN
         /\ Woken'
    BY <1>1, <2>1, <2>14, HeadWritten DEF IInv
  <2>16. SetForTheHead'
    BY <2>15 DEF SetForTheHead
  <2>17. TypeOK'
    BY <1>1, <2>3, <2>14, <2>15 DEF TypeOK, IInv, Tables
  <2>. QED
    BY <2>12, <2>13, <2>15, <2>16, <2>17 DEF IInv
<1>. QED
  BY <1>3, <1>4

\* A timer that is in the list leaves it; the others and the hardware stay right.
LEMMA UnlinkKeeps ==
  ASSUME IInv, NEW t \in Timers, InList(t), Unlink(t), UNCHANGED <<now, curr, cbk>>,
         NEW tm \in Tables, \A u \in Timers \ {t} : tm[u] = tmr[u]
  PROVE  /\ t # cbk
         /\ Proper(tq_list', tm, cbk, Floor(tmr, cbk))
         /\ tq_list' \in Seq(Timers)
         /\ tq_nxt_tick' \in Nat /\ armed' \in BOOLEAN /\ ready' \in BOOLEAN
         /\ curr = 0 /\ tq_list' # <<>> => tq_nxt_tick' = tm[tq_list'[1]].nxt_tick
         /\ Woken'
<1>1. /\ tmr \in Tables /\ None \notin Timers /\ tq_list \in Seq(Timers)
      /\ Floor(tmr, cbk) \in Nat \ {0}
      /\ \A i \in 1..Len(tq_list) : tq_list[i] # cbk
  BY Basics
<1>2. t # cbk
  BY <1>1 DEF InList
<1>. DEFINE left == tq_list'
<1>3. left = Remove(tq_list, t) /\ UNCHANGED <<now, curr, cbk, ready>>
  BY DEF Unlink
<1>4. Proper(left, tmr, cbk, Floor(tmr, cbk)) /\ \A i \in 1..Len(left) : left[i] # t
  BY <1>3, ProperRemove DEF IInv, Listed
<1>5. /\ left \in Seq(Timers)
      /\ \A i \in 1..Len(left) : /\ left[i] \in Timers /\ tmr[left[i]].made
                                 /\ left[i] # cbk
                                 /\ Floor(tmr, cbk) <= tmr[left[i]].nxt_tick
  BY <1>4, ElementOfSeq DEF Proper, Entries
<1>6. Proper(left, tm, cbk, Floor(tmr, cbk))
  BY <1>4, <1>5, ProperOther
<1>7. CASE left = <<>>
  <2>1. UNCHANGED <<tq_nxt_tick, armed>>
    BY <1>7 DEF Unlink
  <2>. QED
    BY <1>2, <1>3, <1>5, <1>6, <1>7, <2>1 DEF IInv, TypeOK, Woken
<1>8. CASE left # <<>>
  <2>1. SetForHead(left, tmr)
    BY <1>8 DEF Unlink
  <2>2. 1 \in 1..Len(left)
    BY <1>5, <1>8, LenProperties, EmptySeq
  <2>3. left[1] \in Timers /\ left[1] # t /\ Floor(tmr, cbk) <= tmr[left[1]].nxt_tick
    BY <1>4, <1>5, <2>2
  <2>4. tmr[left[1]].nxt_tick \in Nat \ {0}
    <3>1. tmr[left[1]].nxt_tick \in Nat
      BY <1>1, <2>3 DEF Tables
    <3>. QED
      BY <1>1, <2>3, <3>1
  <2>5. tm[left[1]] = tmr[left[1]]
    BY <2>3
  <2>6. /\ tq_nxt_tick' = tmr[left[1]].nxt_tick
        /\ tq_nxt_tick' \in Nat /\ armed' \in BOOLEAN /\ ready' \in BOOLEAN
        /\ Woken'
    BY <1>3, <1>5, <1>8, <2>1, <2>4, HeadWritten DEF IInv
  <2>. QED
    BY <1>2, <1>5, <1>6, <2>5, <2>6
<1>. QED
  BY <1>7, <1>8

\* Another flag on the timer whose callback runs.
LEMMA FlagKeeps ==
  ASSUME IInv, NEW t \in Timers, NEW f \in {"STOPED", "DELETE"},
         "CALLBK" \in tmr[t].iflag,
         tmr' = [tmr EXCEPT ![t].iflag = @ \cup {f}],
         UNCHANGED <<now, tq_list, tq_nxt_tick, armed, ready, curr, cbk>>
  PROVE  IInv'
<1>1. tmr \in Tables /\ None \notin Timers
  BY Basics
<1>2. t = cbk
  BY DEF IInv, Flagged
<1>3. tmr' \in Tables
  <2>1. tmr[t].iflag \cup {f} \in SUBSET Flags
    BY <1>1 DEF Tables, Flags
  <2>. QED
    BY <1>1, <2>1 DEF Tables
<1>4. \A u \in Timers : /\ u # t => tmr'[u] = tmr[u]
                        /\ tmr'[u].made = tmr[u].made
                        /\ tmr'[u].nxt_tick = tmr[u].nxt_tick
  BY <1>1 DEF Tables
<1>5. tmr'[t].iflag = tmr[t].iflag \cup {f}
  BY <1>1 DEF Tables
<1>6. Floor(tmr', cbk) = Floor(tmr, cbk)
  <2>1. "RSTART" \in tmr'[t].iflag <=> "RSTART" \in tmr[t].iflag
    BY <1>5
  <2>. QED
    BY <1>2, <1>4, <2>1 DEF Floor
<1>7. Listed'
  <2>1. \A i \in 1..Len(tq_list) :
          /\ tq_list[i] \in Timers /\ tq_list[i] # cbk /\ tmr[tq_list[i]].made
          /\ Floor(tmr, cbk) <= tmr[tq_list[i]].nxt_tick
    BY Basics
  <2>2. Proper(tq_list, tmr', cbk, Floor(tmr', cbk))
    <3>1. \A i \in 1..Len(tq_list) :
            /\ tmr'[tq_list[i]].made
            /\ tmr'[tq_list[i]].nxt_tick = tmr[tq_list[i]].nxt_tick
      BY <1>2, <1>4, <2>1, Zenon
    <3>. QED
      BY <1>6, <2>1, <3>1, ProperOther DEF IInv, Listed
  <2>. QED
    BY <2>2 DEF Listed
<1>8. Flagged'
  BY <1>2, <1>4, <1>5 DEF Flagged, IInv
<1>9. SetForTheHead' /\ Woken'
  BY <1>2, <1>1 DEF SetForTheHead, Woken, IInv, Flagged
<1>10. TypeOK'
  BY <1>3 DEF TypeOK, IInv, Tables
<1>. QED
  BY <1>7, <1>8, <1>9, <1>10 DEF IInv

LEMMA StopKeeps ==
  ASSUME IInv, NEW t \in Timers, Stop(t)
  PROVE  IInv'
<1>1. UNCHANGED <<now, curr, cbk>>
  BY DEF Stop
<1>2. CASE InList(t) /\ Unlink(t) /\ UNCHANGED tmr
  <2>1. tmr \in Tables
    BY Basics
  <2>2. /\ Proper(tq_list', tmr, cbk, Floor(tmr, cbk)) /\ tq_list' \in Seq(Timers)
        /\ tq_nxt_tick' \in Nat /\ armed' \in BOOLEAN /\ ready' \in BOOLEAN
        /\ curr = 0 /\ tq_list' # <<>> => tq_nxt_tick' = tmr[tq_list'[1]].nxt_tick
        /\ Woken'
    BY <1>1, <1>2, <2>1, UnlinkKeeps
  <2>3. Listed'
    BY <1>1, <1>2, <2>2, Zenon DEF Listed
  <2>4. Flagged' /\ SetForTheHead'
    BY <1>1, <1>2, <2>2 DEF IInv, Flagged, SetForTheHead
  <2>5. TypeOK'
    BY <1>1, <1>2, <2>2 DEF IInv, TypeOK
  <2>. QED
    BY <2>2, <2>3, <2>4, <2>5 DEF IInv
<1>3. CASE /\ ~InList(t) /\ "CALLBK" \in tmr[t].iflag
           /\ tmr' = [tmr EXCEPT ![t].iflag = @ \cup {"STOPED"}]
           /\ UNCHANGED <<tq_list, hardware>>
  BY <1>1, <1>3, FlagKeeps DEF hardware
<1>. QED
  BY <1>2, <1>3 DEF Stop

LEMMA DeleteKeeps ==
  ASSUME IInv, NEW t \in Timers, Delete(t)
  PROVE  IInv'
<1>1. UNCHANGED <<now, curr, cbk>>
  BY DEF Delete
<1>2. CASE ~InList(t) /\ "CALLBK" \in tmr[t].iflag
  <2>1. /\ tmr' = [tmr EXCEPT ![t].iflag = @ \cup {"DELETE"}]
        /\ UNCHANGED <<tq_list, tq_nxt_tick, armed, ready>>
    BY <1>2 DEF Delete, hardware
  <2>. QED
    BY <1>1, <1>2, <2>1, FlagKeeps
<1>3. CASE ~ (~InList(t) /\ "CALLBK" \in tmr[t].iflag)
  <2>1. tmr' = [tmr EXCEPT ![t] = NoTimer]
    BY <1>3 DEF Delete
  <2>2. tmr \in Tables /\ None \notin Timers
    BY Basics
  <2>3. /\ tmr' \in Tables /\ tmr'[t].iflag = {}
        /\ \A u \in Timers \ {t} : tmr'[u] = tmr[u]
    BY <2>1, <2>2 DEF Tables, NoTimer
  <2>4. /\ t # cbk
        /\ Proper(tq_list', tmr', cbk, Floor(tmr, cbk)) /\ tq_list' \in Seq(Timers)
        /\ tq_nxt_tick' \in Nat /\ armed' \in BOOLEAN /\ ready' \in BOOLEAN
        /\ curr = 0 /\ tq_list' # <<>> => tq_nxt_tick' = tmr'[tq_list'[1]].nxt_tick
        /\ Woken'
    <3>1. CASE InList(t)
      <4>1. Unlink(t)
        BY <3>1 DEF Delete
      <4>. DEFINE tm == tmr'
      <4>2. tm \in Tables /\ \A u \in Timers \ {t} : tm[u] = tmr[u]
        BY <2>3
      <4>. HIDE DEF tm
      <4>3. /\ t # cbk
            /\ Proper(tq_list', tm, cbk, Floor(tmr, cbk)) /\ tq_list' \in Seq(Timers)
            /\ tq_nxt_tick' \in Nat /\ armed' \in BOOLEAN /\ ready' \in BOOLEAN
            /\ curr = 0 /\ tq_list' # <<>> => tq_nxt_tick' = tm[tq_list'[1]].nxt_tick
            /\ Woken'
        BY <1>1, <3>1, <4>1, <4>2, UnlinkKeeps
      <4>. QED
        BY <4>3 DEF tm
    <3>2. CASE ~InList(t)
      <4>1. UNCHANGED <<tq_list, tq_nxt_tick, armed, ready>>
        BY <3>2 DEF Delete, hardware
      <4>2. t # cbk
        BY <1>3, <2>2, <3>2 DEF IInv, Flagged
      <4>3. \A i \in 1..Len(tq_list) :
              /\ tq_list[i] \in Timers /\ tq_list[i] # cbk /\ tmr[tq_list[i]].made
              /\ Floor(tmr, cbk) <= tmr[tq_list[i]].nxt_tick /\ tq_list[i] # t
        BY <3>2, Basics DEF InList
      <4>4. Proper(tq_list, tmr', cbk, Floor(tmr, cbk))
        BY <2>3, <4>3, ProperOther DEF IInv, Listed
      <4>5. tq_list # <<>> => tmr'[tq_list[1]] = tmr[tq_list[1]]
        <5>1. ASSUME tq_list # <<>> PROVE 1 \in 1..Len(tq_list)
          BY <5>1, EmptySeq, LenProperties DEF IInv, TypeOK
        <5>. QED
          BY <2>3, <4>3, <5>1
      <4>6. Woken'
        BY <1>1, <4>1 DEF IInv, Woken
      <4>. QED
        BY <4>1, <4>2, <4>4, <4>5, <4>6 DEF IInv, TypeOK, SetForTheHead
    <3>. QED
      BY <3>1, <3>2
  <2>5. Floor(tmr', cbk) = Floor(tmr, cbk)
    BY <2>3, <2>4 DEF Floor, IInv, TypeOK
  <2>6. Listed'
    BY <1>1, <2>4, <2>5, Zenon DEF Listed
  <2>7. Flagged'
    BY <1>1, <2>3, <2>4 DEF IInv, Flagged, TypeOK
  <2>8. SetForTheHead'
    BY <1>1, <2>4 DEF SetForTheHead
  <2>9. TypeOK'
    BY <1>1, <2>3, <2>4 DEF IInv, TypeOK, Tables
  <2>. QED
    BY <2>4, <2>6, <2>7, <2>8, <2>9 DEF IInv
<1>. QED
  BY <1>2, <1>3

\* timer_queue_event has read a time after every tick it is going to fire.
LEMMA FireKeeps ==
  ASSUME IInv, Fire
  PROVE  IInv'
<1>. DEFINE t == Head(tq_list)
            rest == Tail(tq_list)
            tick == tmr[t].nxt_tick
<1>1. /\ curr # 0 /\ cbk = None /\ tq_list # <<>> /\ tick <= curr
      /\ cbk' = t /\ tq_list' = rest
      /\ tmr' = [tmr EXCEPT ![t].iflag = {"CALLBK"}]
      /\ UNCHANGED <<now, tq_nxt_tick, armed, ready, curr>>
  BY DEF Fire, Due, hardware
<1>2. tmr \in Tables /\ None \notin Timers
  BY Basics
<1>3. /\ Proper(rest, tmr, t, tick)
      /\ t = tq_list[1] /\ 1 \in 1..Len(tq_list) /\ t \in Timers
      /\ \A i \in 1..Len(rest) : rest[i] = tq_list[i + 1] /\ i + 1 \in 1..Len(tq_list)
  BY <1>1, ProperTail DEF IInv, Listed
<1>4. tick \in Nat \ {0} /\ tmr[t].made
  BY <1>3, Basics
<1>. HIDE DEF t, rest
<1>5. tmr' \in Tables
  BY <1>1, <1>2, <1>3 DEF Tables, Flags
<1>6. /\ \A u \in Timers : tmr'[u].nxt_tick = tmr[u].nxt_tick
      /\ \A u \in Timers \ {t} : tmr'[u] = tmr[u]
      /\ tmr'[t].iflag = {"CALLBK"} /\ tmr'[t].made
  BY <1>1, <1>2, <1>3, <1>4 DEF Tables
<1>7. Floor(tmr', t) = tick
  BY <1>2, <1>3, <1>6 DEF Floor
<1>8. rest \in Seq(Timers)
      /\ \A i \in 1..Len(rest) : /\ rest[i] \in Timers /\ rest[i] # t
                                 /\ tmr[rest[i]].made /\ tick <= tmr[rest[i]].nxt_tick
  BY <1>3, ElementOfSeq DEF Proper, Entries
<1>9. Listed'
  <2>1. Proper(rest, tmr', t, Floor(tmr', t))
    BY <1>3, <1>6, <1>7, <1>8, ProperOther
  <2>. QED
    BY <1>1, <2>1, Zenon DEF Listed
<1>10. Flagged'
  BY <1>1, <1>2, <1>3, <1>4, <1>6 DEF IInv, Flagged
<1>11. SetForTheHead' /\ Woken'
  BY <1>1 DEF SetForTheHead, Woken
<1>12. TypeOK'
  BY <1>1, <1>3, <1>5, <1>8 DEF IInv, TypeOK, Tables
<1>. QED
  BY <1>9, <1>10, <1>11, <1>12 DEF IInv

\* The timer of the callback is freed, or has no flag any more; it is in the
\* list again where its tick belongs, or runs no more.
LEMMA ReturnKeeps ==
  ASSUME IInv, Return
  PROVE  IInv'
<1>. DEFINE t == cbk
            k == tmr[t]
            clear == [k EXCEPT !.iflag = {}]
<1>1. cbk # None /\ cbk' = None /\ UNCHANGED <<now, tq_nxt_tick, armed, ready, curr>>
  BY DEF Return, hardware
<1>2. /\ tmr \in Tables /\ None \notin Timers /\ tq_list \in Seq(Timers)
      /\ \A i \in 1..Len(tq_list) :
           /\ tq_list[i] \in Timers /\ tq_list[i] # t /\ tmr[tq_list[i]].made
           /\ tmr[tq_list[i]].nxt_tick \in Nat \ {0}
  BY Basics
<1>3. t \in Timers /\ curr # 0 /\ k.made /\ k.nxt_tick \in Nat \ {0} /\ k.irepeat \in Nat
  <2>1. t \in Timers
    BY <1>1 DEF IInv, TypeOK
  <2>2. k.nxt_tick \in Nat /\ k.irepeat \in Irts \cup {0}
    BY <1>2, <2>1 DEF Tables
  <2>3. curr # 0 /\ k.made /\ k.nxt_tick >= 1
    BY <1>1 DEF IInv, Flagged
  <2>4. k.irepeat \in Nat
    <3>1. \A x \in Irts \cup {0} : x \in Nat
      BY ATimerAssumption
    <3>. QED
      BY <2>2, <3>1, Zenon
  <2>. QED
    BY <2>1, <2>2, <2>3, <2>4
<1>4. \/ tmr' = [tmr EXCEPT ![t] = NoTimer] /\ UNCHANGED tq_list
      \/ tmr' = [tmr EXCEPT ![t] = clear] /\ UNCHANGED tq_list
      \/ tmr' = [tmr EXCEPT ![t] = clear] /\ tq_list' = Insert(tq_list, tmr', t)
      \/ /\ tmr' = [tmr EXCEPT ![t] = [clear EXCEPT !.nxt_tick = @ + k.irepeat]]
         /\ tq_list' = Insert(tq_list, tmr', t)
  BY DEF Return
<1>5. /\ tmr' \in Tables /\ tmr'[t].iflag = {}
      /\ \A u \in Timers \ {t} : tmr'[u] = tmr[u]
      /\ \/ UNCHANGED tq_list
         \/ /\ tmr'[t].made /\ tmr'[t].nxt_tick \in Nat \ {0}
            /\ tq_list' = Insert(tq_list, tmr', t)
  <2>1. CASE tmr' = [tmr EXCEPT ![t] = NoTimer] /\ UNCHANGED tq_list
    BY <1>2, <1>3, <2>1 DEF Tables, NoTimer
  <2>2. CASE /\ tmr' = [tmr EXCEPT ![t] = clear]
             /\ UNCHANGED tq_list \/ tq_list' = Insert(tq_list, tmr', t)
    <3>1. tmr' \in Tables /\ \A u \in Timers \ {t} : tmr'[u] = tmr[u]
      BY <1>2, <1>3, <2>2 DEF Tables
    <3>2. tmr'[t] = clear
      BY <1>2, <1>3, <2>2 DEF Tables
    <3>3. clear.iflag = {} /\ clear.made = k.made /\ clear.nxt_tick = k.nxt_tick
      BY <1>2, <1>3 DEF Tables
    <3>. QED
      BY <1>3, <2>2, <3>1, <3>2, <3>3
  <2>3. CASE /\ tmr' = [tmr EXCEPT ![t] = [clear EXCEPT !.nxt_tick = @ + k.irepeat]]
             /\ tq_list' = Insert(tq_list, tmr', t)
    <3>1. k.nxt_tick + k.irepeat \in Nat \ {0}
      BY <1>3
    <3>2. tmr' \in Tables /\ \A u \in Timers \ {t} : tmr'[u] = tmr[u]
      BY <1>2, <1>3, <2>3, <3>1 DEF Tables
    <3>3. /\ tmr'[t].iflag = {} /\ tmr'[t].nxt_tick = k.nxt_tick + k.irepeat
          /\ tmr'[t].made
      BY <1>2, <1>3, <2>3, <3>1 DEF Tables
    <3>. QED
      BY <2>3, <3>1, <3>2, <3>3
  <2>. QED
    BY <1>4, <2>1, <2>2, <2>3
<1>6. Floor(tmr', cbk') = 1
  BY <1>1 DEF Floor
<1>7. Proper(tq_list, tmr', None, 1) /\ \A i \in 1..Len(tq_list) : tq_list[i] # t
  <2>1. \A i \in 1..Len(tq_list) :
          /\ tmr'[tq_list[i]] = tmr[tq_list[i]] /\ tq_list[i] # None
          /\ 1 <= tmr[tq_list[i]].nxt_tick
    BY <1>2, <1>5
  <2>. QED
    BY <1>2, <2>1, ProperOther DEF IInv, Listed
<1>8. Proper(tq_list', tmr', None, 1)
  <2>1. CASE UNCHANGED tq_list
    BY <1>7, <2>1
  <2>2. CASE /\ tmr'[t].made /\ tmr'[t].nxt_tick \in Nat \ {0}
             /\ tq_list' = Insert(tq_list, tmr', t)
    <3>. DEFINE tm == tmr'
                new == tq_list'
    <3>1. /\ tm \in Tables /\ Proper(tq_list, tm, None, 1) /\ t \in Timers
          /\ \A i \in 1..Len(tq_list) : tq_list[i] # t
          /\ tm[t].made /\ t # None /\ 1 <= tm[t].nxt_tick
          /\ new = Insert(tq_list, tm, t)
      BY <1>2, <1>3, <1>5, <1>7, <2>2
    <3>. HIDE DEF tm, new
    <3>2. Proper(new, tm, None, 1)
      BY <3>1, ProperInsert
    <3>. QED
      BY <3>2 DEF tm, new
  <2>. QED
    BY <1>5, <2>1, <2>2
<1>9. Listed'
  BY <1>1, <1>6, <1>8, Zenon DEF Listed
<1>10. Flagged'
  BY <1>1, <1>3, <1>5 DEF IInv, Flagged
<1>11. SetForTheHead' /\ Woken'
  BY <1>1, <1>3 DEF SetForTheHead, Woken
<1>12. TypeOK'
  <2>1. tq_list' \in Seq(Timers)
    BY <1>8 DEF Proper
  <2>. QED
    BY <1>1, <1>5, <2>1 DEF IInv, TypeOK, Tables
<1>. QED
  BY <1>9, <1>10, <1>11, <1>12 DEF IInv

\* The remaining steps leave timers and list alone.
LEMMA OthersKeep ==
  ASSUME IInv, Begin \/ End \/ Tick \/ Expire \/ UNCHANGED vars
  PROVE  IInv'
<1>1. UNCHANGED <<tmr, tq_list, cbk>>
  BY DEF Begin, End, Tick, Expire, vars, hardware
<1>2. Listed'
  BY <1>1, Zenon DEF IInv, Listed
<1>3. \A i \in 1..Len(tq_list) : tmr[tq_list[i]].nxt_tick \in Nat \ {0}
  BY Basics
<1>4. tq_list # <<>> => Head(tq_list) = tq_list[1] /\ 1 \in 1..Len(tq_list)
  BY EmptySeq, LenProperties DEF IInv, TypeOK
<1>5. CASE Begin
  <2>1. /\ curr = 0 /\ curr' = now /\ UNCHANGED <<now, tq_nxt_tick, armed>>
        /\ ready' = FALSE
    BY <1>5 DEF Begin
  <2>2. cbk = None
    BY <2>1 DEF IInv, Flagged
  <2>3. now \in Nat \ {0} /\ curr' # 0 /\ curr' \in 0..now'
    BY <2>1 DEF IInv, TypeOK
  <2>4. TypeOK'
    BY <1>1, <2>1, <2>3 DEF IInv, TypeOK
  <2>5. Flagged'
    BY <1>1, <2>2 DEF IInv, Flagged
  <2>6. SetForTheHead' /\ Woken'
    BY <2>3 DEF SetForTheHead, Woken
  <2>. QED
    BY <1>2, <2>4, <2>5, <2>6 DEF IInv
<1>6. CASE End
  <2>1. /\ cbk = None /\ curr' = 0 /\ UNCHANGED <<now, ready>>
        /\ tq_nxt_tick' = IF tq_list = <<>> THEN 0 ELSE tmr[Head(tq_list)].nxt_tick
        /\ armed' = (tq_nxt_tick' # 0)
    BY <1>6 DEF End, Write
  <2>2. tq_nxt_tick' \in Nat
    BY <1>3, <1>4, <2>1
  <2>3. SetForTheHead' /\ Woken'
    BY <1>1, <1>4, <2>1 DEF SetForTheHead, Woken
  <2>4. TypeOK' /\ Flagged'
    BY <1>1, <2>1, <2>2 DEF IInv, TypeOK, Flagged
  <2>. QED
    BY <1>2, <2>3, <2>4 DEF IInv
<1>7. CASE Tick
  <2>1. UNCHANGED <<tq_nxt_tick, armed, ready, curr>> /\ now' = now + 1
    BY <1>7 DEF Tick, hardware
  <2>. QED
    BY <1>1, <1>2, <2>1 DEF IInv, TypeOK, Flagged, SetForTheHead, Woken
<1>8. CASE Expire
  <2>1. UNCHANGED <<now, tq_nxt_tick, curr>> /\ armed' = FALSE /\ ready' = TRUE
    BY <1>8 DEF Expire
  <2>. QED
    BY <1>1, <1>2, <2>1 DEF IInv, TypeOK, Flagged, SetForTheHead, Woken
<1>9. CASE UNCHANGED vars
  <2>1. UNCHANGED <<now, tq_nxt_tick, armed, ready, curr>>
    BY <1>9 DEF vars, hardware
  <2>. QED
    BY <1>1, <1>2, <2>1 DEF IInv, TypeOK, Flagged, SetForTheHead, Woken
<1>. QED
  BY <1>5, <1>6, <1>7, <1>8, <1>9

LEMMA InitEstablishes ==
  ASSUME Init
  PROVE  IInv
<1>. USE ATimerAssumption DEF Init
<1>1. tq_list \in Seq(Timers) /\ Len(tq_list) = 0
  OBVIOUS
<1>2. TypeOK
  <2>1. NoTimer \in [made : BOOLEAN, iflag : SUBSET Flags, irepeat : Irts \cup {0},
                     nxt_tick : Nat]
    BY DEF NoTimer
  <2>. HIDE DEF Init
  <2>2. tmr \in Tables
    BY <2>1 DEF Init, Tables
  <2>3. now \in Nat \ {0} /\ curr \in 0..now
    BY DEF Init
  <2>. QED
    BY <1>1, <2>2, <2>3, TypeInTables DEF Init
<1>3. Listed
  BY <1>1 DEF Listed, Proper, Distinct, Ordered, Entries
<1>4. Flagged
  BY DEF Flagged, NoTimer
<1>5. SetForTheHead /\ Woken
  BY DEF SetForTheHead, Woken
<1>. QED
  BY <1>2, <1>3, <1>4, <1>5 DEF IInv

-----------------------------------------------------------------------------
(***************************************************************************)
(* The state of the timers stays well formed: the list in order and free   *)
(* of freed timers, the flags on the timer of the callback only, and the   *)
(* hardware set for the head (timer_start, timer_stop, timer_delete,       *)
(* timer_queue_event).                                                     *)
(***************************************************************************)
THEOREM TimersInvariant == Spec => []IInv
<1>1. Init => IInv
  BY InitEstablishes
<1>2. IInv /\ [Next]_vars => IInv'
  <2>1. SUFFICES ASSUME IInv, [Next]_vars PROVE IInv'
    OBVIOUS
  <2>2. ASSUME NEW t \in Timers, Create(t) PROVE IInv'
    BY <2>1, <2>2, CreateKeeps
  <2>3. ASSUME NEW t \in Timers, Stop(t) PROVE IInv'
    BY <2>1, <2>3, StopKeeps
  <2>4. ASSUME NEW t \in Timers, Delete(t) PROVE IInv'
    BY <2>1, <2>4, DeleteKeeps
  <2>5. ASSUME NEW t \in Timers, NEW itv \in Itvs, NEW irt \in Irts, Start(t, itv, irt)
        PROVE  IInv'
    BY <2>1, <2>5, StartKeeps
  <2>6. CASE Fire
    BY <2>1, <2>6, FireKeeps
  <2>7. CASE Return
    BY <2>1, <2>7, ReturnKeeps
  <2>8. CASE Begin \/ End \/ Tick \/ Expire \/ UNCHANGED vars
    BY <2>1, <2>8, OthersKeep
  <2>. QED
    BY <2>1, <2>2, <2>3, <2>4, <2>5, <2>6, <2>7, <2>8 DEF Next, Event
<1>. QED
  BY <1>1, <1>2, PTL DEF Spec

(***************************************************************************)
(* A callback that frees or stops any timer, its own included, leaves no   *)
(* freed timer in the list and none there twice (timer_delete).            *)
(***************************************************************************)
THEOREM TimersNothingDangles == Spec => []NothingDangles
<1>1. IInv => NothingDangles
  BY DEF IInv, Listed, Flagged, Proper, Distinct, Entries, NothingDangles
<1>. QED
  BY <1>1, TimersInvariant, PTL

(***************************************************************************)
(* Outside timer_queue_event a timer that runs has a wake-up coming: the   *)
(* hardware is set for the head of the list, and runs or has expired.      *)
(***************************************************************************)
THEOREM TimersNoLostWakeUp == Spec => []NoLostWakeUp
<1>1. IInv => NoLostWakeUp
  <2>1. SUFFICES ASSUME IInv, curr = 0, tq_list # <<>>
                 PROVE  /\ tq_nxt_tick = tmr[Head(tq_list)].nxt_tick
                        /\ armed \/ ready
    BY DEF NoLostWakeUp
  <2>2. tq_list \in Seq(Timers) /\ 1 \in 1..Len(tq_list) /\ Head(tq_list) = tq_list[1]
    BY <2>1, EmptySeq, LenProperties DEF IInv, TypeOK
  <2>3. tmr[tq_list[1]].nxt_tick \in Nat \ {0}
    BY <2>1, <2>2, Basics
  <2>. QED
    BY <2>1, <2>2, <2>3 DEF IInv, SetForTheHead, Woken
<1>. QED
  BY <1>1, TimersInvariant, PTL

(***************************************************************************)
(* Callbacks come in the order of their ticks, however late the thread is  *)
(* and whatever callbacks start: nothing that is due before the callback   *)
(* that runs waits in the list (timer_insert, timer_queue_event).          *)
(***************************************************************************)
THEOREM TimersNoneOvertakes == Spec => []NoneOvertakes
<1>1. IInv => NoneOvertakes
  BY DEF IInv, Listed, Proper, Entries, Floor, NoneOvertakes
<1>. QED
  BY <1>1, TimersInvariant, PTL
=============================================================================
