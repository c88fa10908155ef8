---------------------------- MODULE MCNrSlUeProse ----------------------------
(* Instances of NrSlUeProse for TLC. *)
EXTENDS NrSlUeProse, TLC

CONSTANTS u1, u2, u3

\* Two UEs may connect to u2, and to each other.
TwoRemotes == {<<u1, u2>>, <<u3, u2>>}

\* The helper passes the same code to both sides.  With CodeModulus = 4 the
\* codes stand for: 0 plain unicast, 1 a relay service, 4 and 5 codes that do
\* not fit the three octets of the Request (5 arrives as 1, 4 as 0).
HelperPairs == {<<c, c>> : c \in Code}

RelayU2 == [u \in UE |-> IF u = u2 THEN Code ELSE {}]
=============================================================================
