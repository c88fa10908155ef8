--------------------------- MODULE MCNrSlUeMacGrants ---------------------------
(***************************************************************************)
(* Small instances of NrSlUeMacGrants: an SPS and a dynamic channel to     *)
(* different destinations, and an SPS channel that shares its destination  *)
(* with another.                                                           *)
(***************************************************************************)
EXTENDS NrSlUeMacGrants, TLC

Apart == 1 :> 1 @@ 2 :> 2
SpsFirst == 1 :> 2 @@ 2 :> 1
SpsAndDynamic == 1 :> 4 @@ 2 :> 0
ThreeApart == 1 :> 1 @@ 2 :> 2 @@ 3 :> 1
ThreePriorities == 1 :> 2 @@ 2 :> 1 @@ 3 :> 1
SpsDynamicSps == 1 :> 4 @@ 2 :> 0 @@ 3 :> 4
=============================================================================
