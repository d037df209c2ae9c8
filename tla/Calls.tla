-------------------------------- MODULE Calls --------------------------------
(***************************************************************************)
(* What an asynchronous call promises its caller: once it is accepted, its *)
(* callback is called once, with an answer or because time is up, and may  *)
(* make further calls.                                                     *)
(***************************************************************************)
CONSTANT Reqs

VARIABLE status

New == {r \in Reqs : status[r] = "new"}

Init == status = [r \in Reqs |-> "new"]

Ask(r) ==
  /\ r \in New
  /\ status' = [status EXCEPT ![r] = "waits"]

\* The callback, with the calls that it makes.
End(r, how, asked) ==
  /\ status[r] = "waits"
  /\ status' = [q \in Reqs |-> IF q = r THEN how
                               ELSE IF q \in asked THEN "waits" ELSE status[q]]

Called(r) == \E how \in {"answered", "expired"}, asked \in SUBSET New : End(r, how, asked)

Next == \E r \in Reqs : Ask(r) \/ Called(r)

Spec == Init /\ [][Next]_status

FairSpec == Spec /\ \A r \in Reqs : WF_status(Called(r))
=============================================================================
