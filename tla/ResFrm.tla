------------------------------- MODULE ResFrm -------------------------------
(***************************************************************************)
(* The allocator of ResFrame as the CN uses it: res_add_trs_res and        *)
(* res_add_cn allocate symbols for the resources of a node that comes      *)
(* online, remember frequency code and position through active_res, and    *)
(* res_delete_node gives them back.  These are the resources whose         *)
(* configured position is 0: res_add_trs_res places one that has a         *)
(* position without asking the allocator (sysres.c:1411), a mixture that   *)
(* is not modelled here.                                                   *)
(***************************************************************************)
EXTENDS ResFrame

CONSTANTS Res,      \* the resources that ask for symbols
          Freqs,    \* the frequencies a configuration asks for
          Lens      \* the lengths it asks for

ASSUME ResFrmAssumption == Freqs \subseteq Nat /\ Lens \subseteq Nat

VARIABLES resfrm,   \* free symbols of every frame
          held      \* what res_state remembers of an active resource

vars == <<resfrm, held>>

NotHeld == [freq |-> 0, pos |-> 0, len |-> 0]

Grants == [freq : 0..15, pos : Nat, len : Nat]

Init ==
  /\ resfrm = ResfrmInit
  /\ held = [r \in Res |-> NotHeld]

Held == {r \in Res : held[r] # NotHeld}

\* The cells <<frame, symbol>> of a grant.
InFrame(g, f) == f \in FramesOf[g.freq]
Occupies(g, f, s) == InFrame(g, f) /\ s \in Run(g.pos, g.len)

(***************************************************************************)
(* One resource of res_add_trs_res: a nonzero return code leaves the       *)
(* resource inactive, whatever the allocator did to the frames.            *)
(***************************************************************************)
AllocRes(r, freq, len) ==
  /\ held[r] = NotHeld
  /\ LET got == ResfrmAlloc(resfrm, freq, len)
     IN  /\ resfrm' = got.resfrm
         /\ held' = IF got.iret = 0
                    THEN [held EXCEPT ![r] = [freq |-> got.freq,
                                              pos  |-> got.pos, len |-> len]]
                    ELSE held

\* A leaving node that gives its symbols back before they are marked inactive.
FreeButHold(r) ==
  /\ held[r] # NotHeld
  /\ resfrm' = ResfrmFree(resfrm, held[r].freq, held[r].pos, held[r].len)
  /\ held' = held

\* One resource of res_delete_node: resfrm_free, then deactive_res.
FreeRes(r) ==
  /\ held[r] # NotHeld
  /\ resfrm' = ResfrmFree(resfrm, held[r].freq, held[r].pos, held[r].len)
  /\ held' = [held EXCEPT ![r] = NotHeld]

Next ==
  \E r \in Res :
    \/ \E freq \in Freqs, len \in Lens : AllocRes(r, freq, len)
    \/ FreeRes(r)

Spec == Init /\ [][Next]_vars

-----------------------------------------------------------------------------

\* The frames hold words of NumSym bits and a grant is a triple of naturals.
TypeOK ==
  /\ resfrm \in [Frames -> Words]
  /\ held \in [Res -> Grants]

(***************************************************************************)
(* No two active resources ever share a symbol of a frame: two nodes would *)
(* send in the same slot.  It takes an allocation that picks frames by     *)
(* residue and a later release by frequency code that agree on every code. *)
(***************************************************************************)
HeldDisjoint ==
  \A q, r \in Res : q # r =>
    \A f \in Frames, s \in Symbols :
      ~ (Occupies(held[q], f, s) /\ Occupies(held[r], f, s))

(***************************************************************************)
(* A symbol in use is never offered again: what is active is not free, and *)
(* the CN's own symbols at the start of each frame are neither free nor    *)
(* granted.                                                                *)
(***************************************************************************)
InUseNotFree ==
  \A f \in Frames, s \in Symbols :
    /\ \A r \in Res : Occupies(held[r], f, s) => s \notin resfrm[f] /\ s >= CnSym
    /\ s < CnSym => s \notin resfrm[f]

(***************************************************************************)
(* The search by runs finds the lowest place where tlen free symbols lie   *)
(* together below the top symbol, and fails only when there is none: its   *)
(* reference definition looks at every position instead.                   *)
(***************************************************************************)
Places(tval, tlen) == {p \in tval : p + tlen < NumSym /\ Run(p, tlen) \subseteq tval}

FirstFit ==
  \A itvl \in {1, 2, 4, 8}, len \in Lens :
    \A i \in 0..(itvl - 1) :
      LET tval == FreeInAll(resfrm, itvl, i)
      IN  /\ FindsContBits(tval, len) <=> Places(tval, len) # {}
          /\ Places(tval, len) # {} => ContBits(tval, len) = Least(Places(tval, len))

(***************************************************************************)
(* "return : 0 - succ, other - fail" (sysres.c:292): a symbol that is not  *)
(* free is the CN's or belongs to an active resource, so that an           *)
(* allocation that reports failure has taken nothing.                      *)
(***************************************************************************)
NothingLost ==
  \A f \in Frames, s \in Symbols :
    s \notin resfrm[f] => s < CnSym \/ \E r \in Res : Occupies(held[r], f, s)
=============================================================================
