------------------------------- MODULE MCNrDlHarq -------------------------------
(***************************************************************************)
(* Instances of NrDlHarq: two UEs share a beam and a third has its own;    *)
(* the TDD pattern is a full and a shorter downlink slot and an uplink     *)
(* slot, in which the feedback of both arrives.                            *)
(***************************************************************************)
EXTENDS NrDlHarq

TwoUes == <<1, 2>>
ThreeUes == <<1, 2, 3>>
Beams == [u \in Ue |-> IF u = 1 THEN "a" ELSE "b"]
FullAndShort == [p \in Pattern |-> CASE p = 0 -> 3 [] p = 1 -> 2 [] OTHER -> 0]
ToUplink == [p \in Pattern |-> IF p = 0 THEN 2 ELSE 1]
=============================================================================
