---------------------------- MODULE ResFrmProofs ----------------------------
(***************************************************************************)
(* Proofs about the symbol allocator: for frames of any width, any CN      *)
(* share, any set of resources, frequencies and lengths.                   *)
(***************************************************************************)
EXTENDS ResFrm, WellFoundedInduction, TLAPS

\* A scan of a word stops at the least place that fits.
LEMMA LeastOfNaturals ==
  ASSUME NEW S, S \subseteq Nat, S # {}
  PROVE  Least(S) \in S /\ \A y \in S : Least(S) <= y
<1>1. PICK x \in S : \A y \in S : <<y, x>> \notin OpToRel(<, Nat)
  BY NatLessThanWellFounded, WFMin
<1>2. \A y \in S : x \in Nat /\ y \in Nat /\ ~(y < x)
  BY <1>1 DEF OpToRel
<1>3. \A y \in S : x <= y
  BY <1>2
<1>. QED
  BY <1>1, <1>3 DEF Least

\* A word is a set of naturals.
LEMMA WordsAreNaturals == \A tval \in Words : tval \subseteq Nat
  BY ResFrameAssumption DEF Words, Symbols

\* What find_cont_bits accepts lies in the word, below the top symbol.
LEMMA ContBitsFit ==
  ASSUME NEW tval \in Words, NEW tlen \in Nat, FindsContBits(tval, tlen)
  PROVE  /\ ContBits(tval, tlen) \in tval
         /\ ContBits(tval, tlen) + tlen < NumSym
         /\ Run(ContBits(tval, tlen), tlen) \subseteq tval
<1>. DEFINE p == ContBits(tval, tlen)
<1>1. Stops(tval, tlen) \subseteq tval /\ tval \subseteq Nat
  BY WordsAreNaturals DEF Stops, RunStarts
<1>2. p \in Stops(tval, tlen) /\ p + tlen < NumSym
  BY <1>1, LeastOfNaturals DEF FindsContBits, ContBits
<1>. HIDE DEF p
<1>3. p \in Nat
  BY <1>1, <1>2
<1>4. Run(p, tlen) \subseteq tval
  BY <1>2, <1>3, ResFrameAssumption DEF Stops
<1>. QED
  BY <1>1, <1>2, <1>4 DEF p

\* The search by runs agrees with the reference definition, on every word.
LEMMA SearchIsFirstFit ==
  ASSUME NEW tval \in Words, NEW tlen \in Nat
  PROVE  /\ FindsContBits(tval, tlen) <=> Places(tval, tlen) # {}
         /\ Places(tval, tlen) # {} => ContBits(tval, tlen) = Least(Places(tval, tlen))
<1>1. tval \subseteq Nat /\ NumSym \in Nat
  BY WordsAreNaturals, ResFrameAssumption
<1>2. FindsContBits(tval, tlen) => ContBits(tval, tlen) \in Places(tval, tlen)
  BY ContBitsFit DEF Places
<1>3. ASSUME Places(tval, tlen) # {}
      PROVE  /\ FindsContBits(tval, tlen)
             /\ ContBits(tval, tlen) = Least(Places(tval, tlen))
  <2>. DEFINE p == Least(Places(tval, tlen))
              q == Least(Stops(tval, tlen))
  <2>1. p \in Places(tval, tlen) /\ \A y \in Places(tval, tlen) : p <= y
    BY <1>1, <1>3, LeastOfNaturals DEF Places
  <2>2. p \in Nat /\ p \in tval /\ p + tlen < NumSym /\ Run(p, tlen) \subseteq tval
    BY <2>1, <1>1 DEF Places
  <2>. HIDE DEF p
  <2>3. p \in RunStarts(tval)
    <3>1. SUFFICES ASSUME p - 1 \in tval PROVE FALSE
      BY <2>2 DEF RunStarts
    <3>2. Run(p - 1, tlen) \subseteq Run(p, tlen) \cup {p - 1}
      BY <2>2 DEF Run
    <3>3. p - 1 \in Places(tval, tlen)
      BY <1>1, <2>2, <3>1, <3>2 DEF Places
    <3>. QED
      BY <2>1, <2>2, <3>3
  <2>4. p \in Stops(tval, tlen)
    BY <2>2, <2>3 DEF Stops
  <2>5. q \in Stops(tval, tlen) /\ q <= p
    BY <1>1, <2>4, LeastOfNaturals DEF Stops, RunStarts
  <2>. HIDE DEF q
  <2>6. q \in Nat /\ q \in tval
    BY <1>1, <2>5 DEF Stops, RunStarts
  <2>7. q + tlen < NumSym
    BY <1>1, <2>2, <2>5, <2>6
  <2>8. q \in Places(tval, tlen)
    <3>1. Run(q, tlen) \subseteq tval
      BY <1>1, <2>5, <2>6, <2>7 DEF Stops
    <3>. QED
      BY <2>6, <2>7, <3>1 DEF Places
  <2>9. q = p
    BY <2>1, <2>2, <2>5, <2>6, <2>8
  <2>. QED
    BY <2>4, <2>7, <2>9 DEF p, q, FindsContBits, ContBits
<1>. QED
  BY <1>2, <1>3

-----------------------------------------------------------------------------

\* The frames that an allocation searches are those its code stands for.
LEMMA CodesMeetResidues ==
  \A itvl \in Intervals : \A i \in 0..(itvl - 1) :
    /\ FreqCode(itvl, i) \in 1..15
    /\ Residue[itvl][i] = FramesOf[FreqCode(itvl, i)]
    /\ Residue[itvl][i] \subseteq Frames
<1>. SUFFICES ASSUME NEW itvl \in Intervals, NEW i \in 0..(itvl - 1)
     PROVE  /\ FreqCode(itvl, i) \in 1..15
            /\ Residue[itvl][i] = FramesOf[FreqCode(itvl, i)]
            /\ Residue[itvl][i] \subseteq Frames
  OBVIOUS
<1>1. FreqCode(itvl, i) \in 1..15 /\ FreqCode(itvl, i) = itvl + i
  BY DEF FreqCode, Intervals
<1>2. Residue[itvl][i] = {f \in Frames : f % itvl = i}
  BY DEF Residue
<1>3. \A f \in Frames : f \in FramesOf[itvl + i] <=> f % itvl = i
  BY <1>1 DEF FramesOf, Intervals, Frames
<1>4. FramesOf[itvl + i] \subseteq Frames
  BY <1>1 DEF FramesOf
<1>. QED
  BY <1>1, <1>2, <1>3, <1>4

\* Code 0, which no grant of the allocator carries, stands for no frame.
LEMMA CodeZeroIsNoFrame == FramesOf[0] = {}
  BY DEF FramesOf

LEMMA IntervalRounds == \A freq \in Nat : Interval(freq) \in Intervals
  BY DEF Interval, Intervals

\* What the allocator takes was free in every frame of the code it returns.
LEMMA AllocSound ==
  ASSUME NEW rf \in [Frames -> Words], NEW freq \in Nat, NEW tlen \in Nat
  PROVE  LET got == ResfrmAlloc(rf, freq, tlen)
         IN  /\ got.resfrm \in [Frames -> Words]
             /\ \A f \in Frames : got.resfrm[f] \subseteq rf[f]
             /\ got.iret = 0 =>
                  /\ got.freq \in 1..15
                  /\ got.pos \in Nat
                  /\ \A f \in FramesOf[got.freq] :
                       /\ Run(got.pos, tlen) \subseteq rf[f]
                       /\ got.resfrm[f] \cap Run(got.pos, tlen) = {}
<1>. DEFINE got   == ResfrmAlloc(rf, freq, tlen)
            itvl  == Interval(freq)
            cands == Candidates(rf, itvl, tlen)
            pos   == [i \in cands |-> ContBits(FreeInAll(rf, itvl, i), tlen)]
            tmin  == Least({pos[i] : i \in cands})
            tidx  == Least({i \in cands : pos[i] = tmin})
<1>0. Best(rf, itvl, tlen, cands) = <<tidx, tmin>>
  BY DEF Best
<1>1. itvl \in Intervals /\ NumSym \in Nat /\ IntBits \in Nat
  BY IntervalRounds, ResFrameAssumption
<1>. HIDE DEF itvl
<1>2. cands \subseteq 0..(itvl - 1) /\ cands \subseteq Nat
  BY <1>1 DEF Candidates, Intervals
<1>3. \A i \in cands : /\ FreeInAll(rf, itvl, i) \in Words
                       /\ FindsContBits(FreeInAll(rf, itvl, i), tlen)
  BY DEF Candidates, FreeInAll, Words
<1>4. CASE cands = {}
  <2>1. got.iret = 10 /\ got.resfrm = rf
    BY <1>4 DEF ResfrmAlloc, itvl
  <2>. QED
    BY <2>1
<1>5. CASE cands # {}
  <2>1. \A i \in cands : pos[i] \in Nat
    BY <1>3, ContBitsFit, WordsAreNaturals
  <2>. HIDE DEF cands
  <2>2. tmin \in {pos[i] : i \in cands}
    <3>. HIDE DEF pos
    <3>1. {pos[i] : i \in cands} \subseteq Nat /\ {pos[i] : i \in cands} # {}
      BY <1>5, <2>1
    <3>. QED
      BY <3>1, LeastOfNaturals
  <2>3. tidx \in {i \in cands : pos[i] = tmin}
    <3>. HIDE DEF pos, tmin
    <3>1. /\ {i \in cands : pos[i] = tmin} \subseteq Nat
          /\ {i \in cands : pos[i] = tmin} # {}
      BY <1>2, <2>2
    <3>. QED
      BY <3>1, LeastOfNaturals
  <2>. HIDE DEF tidx, tmin
  <2>4. tidx \in cands /\ tidx \in 0..(itvl - 1) /\ pos[tidx] = tmin /\ tmin \in Nat
    BY <1>2, <2>1, <2>3
  <2>5. tmin = ContBits(FreeInAll(rf, itvl, tidx), tlen)
    BY <2>4
  <2>6. /\ Run(tmin, tlen) \subseteq FreeInAll(rf, itvl, tidx)
        /\ tmin + tlen < NumSym
    BY <1>3, <2>4, <2>5, ContBitsFit
  <2>7. /\ got.iret = AllocReturn(itvl, cands)
        /\ got.resfrm = Take(rf, itvl, tidx, tmin, tlen)
        /\ got.freq = FreqCode(itvl, tidx)
        /\ got.pos = tmin
    BY <1>0, <1>5 DEF ResfrmAlloc, itvl, cands
  <2>. HIDE DEF got
  <2>8. Residue[itvl][tidx] = FramesOf[got.freq] /\ got.freq \in 1..15
    BY <1>1, <2>4, <2>7, CodesMeetResidues
  <2>9. Run(tmin, tlen) \subseteq ClearedBits(tmin, tlen)
    BY <1>1, <2>4, <2>6 DEF ClearedBits, Run
  <2>10. got.resfrm \in [Frames -> Words] /\ \A f \in Frames : got.resfrm[f] \subseteq rf[f]
    BY <2>7 DEF Take, Words
  <2>11. ASSUME NEW f \in FramesOf[got.freq]
         PROVE  /\ Run(tmin, tlen) \subseteq rf[f]
                /\ got.resfrm[f] \cap Run(tmin, tlen) = {}
    <3>1. f \in Frames /\ f \in Residue[itvl][tidx]
      BY <1>1, <2>4, <2>8, CodesMeetResidues
    <3>2. Run(tmin, tlen) \subseteq rf[f]
      BY <2>6, <3>1 DEF FreeInAll
    <3>3. got.resfrm[f] = rf[f] \ ClearedBits(tmin, tlen)
      BY <2>7, <3>1 DEF Take
    <3>. QED
      BY <2>9, <3>2, <3>3
  <2>. QED
    BY <2>4, <2>7, <2>8, <2>10, <2>11 DEF got
<1>. QED
  BY <1>4, <1>5

-----------------------------------------------------------------------------

(***************************************************************************)
(* The inductive invariant.  HeldDisjoint needs InUseNotFree (what an      *)
(* allocation takes was free, so nobody's) and InUseNotFree needs          *)
(* HeldDisjoint (what a release gives back is nobody else's).              *)
(***************************************************************************)
IInv == TypeOK /\ HeldDisjoint /\ InUseNotFree

\* The grants of two different resources, or of one and the free symbols.
Apart(g, h) == \A f \in Frames, s \in Symbols : ~ (Occupies(g, f, s) /\ Occupies(h, f, s))
NotIn(g, rf) == \A f \in Frames, s \in Symbols : Occupies(g, f, s) => s \notin rf[f] /\ s >= CnSym
CnKept(rf) == \A f \in Frames, s \in Symbols : s < CnSym => s \notin rf[f]

LEMMA IInvByParts ==
  IInv <=> /\ TypeOK
           /\ \A q, r \in Res : q # r => Apart(held[q], held[r])
           /\ \A r \in Res : NotIn(held[r], resfrm)
           /\ CnKept(resfrm)
  BY DEF IInv, HeldDisjoint, InUseNotFree, Apart, NotIn, CnKept

LEMMA IInvByPartsNext ==
  IInv' <=> /\ TypeOK'
            /\ \A q, r \in Res : q # r => Apart(held'[q], held'[r])
            /\ \A r \in Res : NotIn(held'[r], resfrm')
            /\ CnKept(resfrm')
  BY DEF IInv, HeldDisjoint, InUseNotFree, Apart, NotIn, CnKept

LEMMA NotHeldIsNowhere ==
  \A f \in Frames, s \in Symbols : ~ Occupies(NotHeld, f, s)
  BY CodeZeroIsNoFrame DEF Occupies, InFrame, NotHeld

LEMMA InitHolds == Init => IInv
<1>. SUFFICES ASSUME Init PROVE IInv
  OBVIOUS
<1>1. TypeOK
  BY DEF Init, TypeOK, ResfrmInit, Words, NotHeld, Grants
<1>2. \A r \in Res : held[r] = NotHeld
  BY DEF Init
<1>3. CnKept(resfrm)
  BY ResFrameAssumption DEF Init, ResfrmInit, CnKept, Symbols
<1>. QED
  BY <1>1, <1>2, <1>3, NotHeldIsNowhere, IInvByParts DEF Apart, NotIn

LEMMA AllocStep ==
  ASSUME IInv, NEW r \in Res, NEW freq \in Freqs, NEW len \in Lens, AllocRes(r, freq, len)
  PROVE  IInv'
<1>. DEFINE got == ResfrmAlloc(resfrm, freq, len)
            g   == [freq |-> got.freq, pos |-> got.pos, len |-> len]
<1>1. resfrm \in [Frames -> Words] /\ held \in [Res -> Grants]
  BY DEF IInv, TypeOK
<1>2. freq \in Nat /\ len \in Nat
  BY ResFrmAssumption
<1>3. /\ got.resfrm \in [Frames -> Words]
      /\ \A f \in Frames : got.resfrm[f] \subseteq resfrm[f]
      /\ got.iret = 0 =>
           /\ got.freq \in 1..15
           /\ got.pos \in Nat
           /\ \A f \in FramesOf[got.freq] :
                /\ Run(got.pos, len) \subseteq resfrm[f]
                /\ got.resfrm[f] \cap Run(got.pos, len) = {}
  BY <1>1, <1>2, AllocSound
<1>4. /\ resfrm' = got.resfrm
      /\ held' = IF got.iret = 0 THEN [held EXCEPT ![r] = g] ELSE held
  BY DEF AllocRes
<1>. HIDE DEF got
<1>5. CnKept(resfrm') /\ \A q \in Res : NotIn(held[q], resfrm')
  BY <1>3, <1>4, IInvByParts DEF CnKept, NotIn
<1>6. CASE got.iret # 0
  BY <1>1, <1>3, <1>4, <1>5, <1>6, IInvByParts, IInvByPartsNext DEF TypeOK
<1>7. CASE got.iret = 0
  <2>1. TypeOK'
    BY <1>1, <1>2, <1>3, <1>4, <1>7 DEF TypeOK, Grants
  <2>2. \A q \in Res : held'[q] = IF q = r THEN g ELSE held[q]
    BY <1>1, <1>4, <1>7
  <2>3. \A f \in Frames, s \in Symbols :
          Occupies(g, f, s) => s \in resfrm[f] /\ s \notin resfrm'[f]
    BY <1>3, <1>4, <1>7 DEF Occupies, InFrame
  <2>4. NotIn(g, resfrm')
    BY <2>3, IInvByParts, ResFrameAssumption DEF NotIn, CnKept, Symbols
  <2>5. \A q \in Res : Apart(held[q], g) /\ Apart(g, held[q])
    BY <2>3, IInvByParts DEF Apart, NotIn
  <2>. QED
    BY <1>5, <2>1, <2>2, <2>4, <2>5, IInvByParts, IInvByPartsNext
<1>. QED
  BY <1>6, <1>7

LEMMA FreeStep ==
  ASSUME IInv, NEW r \in Res, FreeRes(r)
  PROVE  IInv'
<1>. DEFINE g == held[r]
<1>1. resfrm \in [Frames -> Words] /\ held \in [Res -> Grants] /\ g \in Grants
  BY DEF IInv, TypeOK
<1>2. g.freq % 16 = g.freq
  BY <1>1 DEF Grants
<1>3. \A f \in Frames :
        resfrm'[f] = IF f \in FramesOf[g.freq]
                     THEN resfrm[f] \cup (Run(g.pos, g.len) \cap Symbols)
                     ELSE resfrm[f]
  BY <1>2 DEF FreeRes, ResfrmFree
<1>4. \A q \in Res : held'[q] = IF q = r THEN NotHeld ELSE held[q]
  BY <1>1 DEF FreeRes
<1>5. TypeOK'
  BY <1>1 DEF FreeRes, ResfrmFree, TypeOK, Words, NotHeld, Grants
<1>6. \A f \in Frames, s \in Symbols :
        s \in resfrm'[f] => s \in resfrm[f] \/ Occupies(g, f, s)
  BY <1>3 DEF Occupies, InFrame
<1>7. CnKept(resfrm')
  <2>1. \A f \in Frames, s \in Symbols : Occupies(g, f, s) => s >= CnSym
    BY IInvByParts DEF NotIn
  <2>2. \A s \in Symbols : s >= CnSym => ~ (s < CnSym)
    BY ResFrameAssumption DEF Symbols
  <2>3. CnKept(resfrm)
    BY IInvByParts
  <2>. QED
    BY <1>6, <2>1, <2>2, <2>3 DEF CnKept
<1>8. \A q \in Res : q # r => NotIn(held[q], resfrm')
  BY <1>6, IInvByParts DEF NotIn, Apart
<1>9. NotIn(NotHeld, resfrm') /\ \A q \in Res : Apart(NotHeld, held[q]) /\ Apart(held[q], NotHeld)
  BY NotHeldIsNowhere DEF NotIn, Apart
<1>. QED
  BY <1>4, <1>5, <1>7, <1>8, <1>9, IInvByParts, IInvByPartsNext

(***************************************************************************)
(* The frames stay words and the remembered grants stay frequency codes    *)
(* and positions, in every reachable state of the allocator; the symbols   *)
(* of two active resources never meet; and nothing in use is on offer.     *)
(***************************************************************************)
THEOREM AllocatorInvariant == Spec => []IInv
<1>1. IInv /\ [Next]_vars => IInv'
  <2>. SUFFICES ASSUME IInv, [Next]_vars PROVE IInv'
    OBVIOUS
  <2>1. CASE UNCHANGED vars
    BY <2>1 DEF vars, IInv, TypeOK, HeldDisjoint, InUseNotFree
  <2>2. CASE Next
    BY <2>2, AllocStep, FreeStep DEF Next
  <2>. QED
    BY <2>1, <2>2
<1>. QED
  BY <1>1, InitHolds, PTL DEF Spec

\* Type correctness of the allocator.
THEOREM AllocatorTypes == Spec => []TypeOK
<1>1. IInv => TypeOK
  BY DEF IInv
<1>. QED
  BY <1>1, AllocatorInvariant, PTL

\* Two active resources never share a symbol of a frame.
THEOREM SymbolsAreExclusive == Spec => []HeldDisjoint
<1>1. IInv => HeldDisjoint
  BY DEF IInv
<1>. QED
  BY <1>1, AllocatorInvariant, PTL

\* What is active is not free, and the CN's share is neither.
THEOREM InUseIsNotFree == Spec => []InUseNotFree
<1>1. IInv => InUseNotFree
  BY DEF IInv
<1>. QED
  BY <1>1, AllocatorInvariant, PTL

\* The search agrees with its reference on every word that can occur.
THEOREM SearchFindsFirstFit == Spec => []FirstFit
<1>1. IInv => FirstFit
  <2>. SUFFICES ASSUME IInv, NEW itvl \in Intervals, NEW len \in Lens, NEW i \in 0..(itvl - 1)
       PROVE  LET tval == FreeInAll(resfrm, itvl, i)
              IN  /\ FindsContBits(tval, len) <=> Places(tval, len) # {}
                  /\ Places(tval, len) # {} => ContBits(tval, len) = Least(Places(tval, len))
    BY DEF FirstFit, Intervals
  <2>1. FreeInAll(resfrm, itvl, i) \in Words /\ len \in Nat
    BY ResFrmAssumption DEF FreeInAll, Words
  <2>. QED
    BY <2>1, SearchIsFirstFit
<1>. QED
  BY <1>1, AllocatorInvariant, PTL
=============================================================================
