-------------------------- MODULE MCNrUplinkScheduling --------------------------
(***************************************************************************)
(* Instances of NrUplinkScheduling with a TDD pattern of four slots, the   *)
(* first two of which prepare the two uplink slots.                        *)
(***************************************************************************)
EXTENDS NrUplinkScheduling

\* The feedback of both uplink slots reaches the same call of the scheduler.
TwoOfFour == [p \in Pattern |-> IF p < 2 THEN 3 ELSE 0]
TwoOfFourSmall == [p \in Pattern |-> IF p < 2 THEN 2 ELSE 0]
SameK2 == [p \in Pattern |-> 1]
=============================================================================
