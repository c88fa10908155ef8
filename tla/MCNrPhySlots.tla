------------------------------ MODULE MCNrPhySlots ------------------------------
(***************************************************************************)
(* Instances of NrPhySlots: patterns of one to five slots, among them one  *)
(* period of those of the tests (DL|S|UL|UL|..., all F), with flexible and *)
(* special slots before, after and between downlink and uplink slots.      *)
(***************************************************************************)
EXTENDS NrPhySlots

TddPatterns ==
  {<<F>>, <<DL, UL>>, <<UL, DL>>, <<F, UL>>, <<DL, F>>,
   <<DL, S, UL>>, <<DL, UL, UL>>, <<F, DL, UL>>, <<DL, DL, F, UL>>,
   <<DL, S, UL, UL>>, <<DL, S, UL, UL, UL>>}
=============================================================================
