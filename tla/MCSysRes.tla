------------------------------ MODULE MCSysRes ------------------------------
(***************************************************************************)
(* The CN and the nodes send a resource or two and receive everything.     *)
(***************************************************************************)
EXTENDS SysRes

CONSTANTS ra, rb, rc, rd

MCPlaces == 1..3

\* Node 2 sends two: the places do not suffice for whoever comes last.
MCTwo      == {1, 2}
MCCrowd    == {ra, rb, rc, rd}
MCTrsCrowd == [n \in {0, 1, 2} |-> CASE n = 0 -> <<rc>> [] n = 1 -> <<ra>> [] n = 2 -> <<rb, rd>>]
MCRcvCrowd == [n \in {0, 1, 2} |-> MCCrowd]

\* One node alone.
MCOne      == {1}
MCRes      == {ra, rb, rc}
MCTrsOne   == [n \in {0, 1} |-> IF n = 0 THEN <<rc>> ELSE <<ra>>]
MCRcvAlone == [n \in {0, 1} |-> MCRes]
=============================================================================
