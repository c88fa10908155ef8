--------------------------- MODULE MCNrSlUeMacSensing ---------------------------
(***************************************************************************)
(* Small instances of NrSlUeMacSensing: a quiet UE that reserves a         *)
(* retransmission in another subchannel, and a loud one with an interval   *)
(* shorter than the selection window.                                      *)
(***************************************************************************)
EXTENDS NrSlUeMacSensing

Sci(rsvp, start, len, rsrp, retx) ==
  [rsvp |-> rsvp, start |-> start, len |-> len, rsrp |-> rsrp, retx |-> retx]
Ask(l, rsvp, cResel) == [lSubch |-> l, pRsvpTx |-> rsvp, cResel |-> cResel]

MinusEight == -8
TwoScis == {Sci(5, 0, 1, -6, {<<3, 1>>}), Sci(2, 1, 1, -1, {})}
NarrowAndWide == {Ask(1, 5, 10), Ask(2, 5, 10), Ask(1, 0, 0)}
Wide == {Ask(2, 5, 10)}
=============================================================================
