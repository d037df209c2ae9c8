------------------------------ MODULE ResFrame ------------------------------
(***************************************************************************)
(* The frame-symbol allocator of the CN (src/apps/sysm/sysres.c, resfrm_*  *)
(* and find_cont_bits) as operators on values.  The bus carries a cycle of *)
(* 8 frames of 64 symbols; resfrm[f] is a 64-bit word whose 1 bits are the *)
(* free symbols of frame f.  Here a word is the set of its 1 bits.         *)
(*                                                                         *)
(* NumSym is the width of a word (64 in the code), CnSym the symbols that  *)
(* the CN keeps at the start of every frame (4), IntBits the width of the  *)
(* C type int, in which "(1 << tlen) - 1" is evaluated (32).               *)
(***************************************************************************)
EXTENDS Order

CONSTANTS NumSym, CnSym, IntBits

ASSUME ResFrameAssumption ==
  /\ NumSym \in Nat
  /\ CnSym \in 0..NumSym
  /\ IntBits \in Nat

Frames  == 0..7
Symbols == 0..(NumSym - 1)
Words   == SUBSET Symbols

\* A one-bit mask of tlen bits shifted to tpos, in 64-bit arithmetic.
Run(tpos, tlen) == tpos..(tpos + tlen - 1)

(***************************************************************************)
(* hcb_res_frame_test: the frames a frequency code stands for.  Code 1 is  *)
(* every frame, 2..3 every second, 4..7 every fourth, 8..15 a single one.  *)
(***************************************************************************)
FramesOf ==
  [code \in 0..15 |->
     {f \in Frames : \/ code = 1
                     \/ code \in 2..3  /\ f % 2 = code - 2
                     \/ code \in 4..7  /\ f % 4 = code - 4
                     \/ code \in 8..15 /\ f = code - 8}]

\* resfrm_init.
ResfrmInit == [f \in Frames |-> Symbols \ (0..(CnSym - 1))]

(***************************************************************************)
(* find_cont_bits.  The loop visits the maximal runs of 1 bits of tval     *)
(* from the lowest: it gives up at the first run that starts within tlen   *)
(* of the top (so the top symbol is never used), accepts the first run     *)
(* that holds tlen bits, and clears a shorter run by the carry of tval +   *)
(* (1 << start).  Stops is the set of runs at which the loop would end.    *)
(***************************************************************************)
RunStarts(tval) == {p \in tval : (p - 1) \notin tval}

Stops(tval, tlen) ==
  {p \in RunStarts(tval) : p + tlen >= NumSym \/ Run(p, tlen) \subseteq tval}

\* The bound of the search taken one too far.
FindsContBitsToTop(tval, tlen) ==
  /\ Stops(tval, tlen) # {}
  /\ Least(Stops(tval, tlen)) + tlen <= NumSym

FindsContBits(tval, tlen) ==
  /\ Stops(tval, tlen) # {}
  /\ Least(Stops(tval, tlen)) + tlen < NumSym

ContBits(tval, tlen) == Least(Stops(tval, tlen))

(***************************************************************************)
(* resfrm_alloc.  The requested interval is rounded down to 1, 2, 4 or 8;  *)
(* Residue(itvl, i) is the i-th set of frames with that spacing.  Among    *)
(* the sets with room the one with the lowest position wins, the lowest    *)
(* index on a tie (the code compares with a strict <).                     *)
(***************************************************************************)
Interval(freq) == IF freq >= 8 THEN 8
                  ELSE IF freq >= 4 THEN 4
                  ELSE IF freq >= 2 THEN 2 ELSE 1

Intervals == {1, 2, 4, 8}

Residue ==
  [itvl \in Intervals |-> [i \in 0..(itvl - 1) |-> {f \in Frames : f % itvl = i}]]

FreeInAll(resfrm, itvl, i) ==
  {s \in Symbols : \A f \in Residue[itvl][i] : s \in resfrm[f]}

Candidates(resfrm, itvl, tlen) ==
  {i \in 0..(itvl - 1) : FindsContBits(FreeInAll(resfrm, itvl, i), tlen)}

\* The choice among the candidates: <<tidx, tmin>>.
Best(resfrm, itvl, tlen, cands) ==
  LET pos  == [i \in cands |-> ContBits(FreeInAll(resfrm, itvl, i), tlen)]
      tmin == Least({pos[i] : i \in cands})
  IN  <<Least({i \in cands : pos[i] = tmin}), tmin>>

(***************************************************************************)
(* The bits that "(1 << tlen) - 1", shifted to tpos, clears: the shift is  *)
(* done in an int, and for tlen >= 32 the ARM build shifts everything out, *)
(* so the mask is -1 and every symbol from tpos up is taken.               *)
(***************************************************************************)
ClearedBits(tpos, tlen) ==
  IF tlen < IntBits THEN Run(tpos, tlen) ELSE tpos..(NumSym - 1)

\* The bits of one place cleared in the first frame of a set only ...
TakeFirstFrame(resfrm, itvl, i, tpos, tlen) ==
  [resfrm EXCEPT ![i] = @ \ ClearedBits(tpos, tlen)]

\* ... and in every frame that the search looked at.
Take(resfrm, itvl, i, tpos, tlen) ==
  [f \in Frames |-> IF f \in Residue[itvl][i]
                    THEN resfrm[f] \ ClearedBits(tpos, tlen) ELSE resfrm[f]]

\* The code of the i-th set of frames with that spacing.
FreqCode(itvl, i) == itvl + i

(***************************************************************************)
(* What resfrm_alloc leaves: its return code, the free symbols, and what   *)
(* it stored through pfreq and ppos.  In "case 8" the code has no "iret =  *)
(* 0": it returns the result of the last find_cont_bits of the loop, the   *)
(* one for frame 7, whatever frame it allocated in.                        *)
(***************************************************************************)
AllocReturn(itvl, cands) == IF itvl = 8 /\ 7 \notin cands THEN 1 ELSE 0

ResfrmAlloc(resfrm, freq, tlen) ==
  LET itvl  == Interval(freq)
      cands == Candidates(resfrm, itvl, tlen)
      best  == Best(resfrm, itvl, tlen, cands)
  IN  IF cands = {}
      THEN [iret |-> 10, resfrm |-> resfrm, freq |-> freq, pos |-> 0]
      ELSE [iret   |-> AllocReturn(itvl, cands),
            resfrm |-> Take(resfrm, itvl, best[1], best[2], tlen),
            freq   |-> FreqCode(itvl, best[1]),
            pos    |-> best[2]]

\* resfrm_free: the bits go back to every frame of the code.
ResfrmFree(resfrm, freq, tpos, tlen) ==
  [f \in Frames |-> IF f \in FramesOf[freq % 16]
                    THEN resfrm[f] \cup (Run(tpos, tlen) \cap Symbols)
                    ELSE resfrm[f]]
=============================================================================
