-------------------------- MODULE DirectLinkAgreement --------------------------
(***************************************************************************)
(* What the establishment of PC5 direct links promises, without messages,  *)
(* timers or retransmissions: for every link that was requested the target *)
(* takes one verdict, the initiator learns that verdict and no other, and  *)
(* an initiator that diverts its traffic to the target does so only when   *)
(* the target forwards it.                                                 *)
(***************************************************************************)

CONSTANT Link

Outcome == {"none", "accepted", "refused"}

VARIABLES
  requested,   \* the links an initiator has asked for
  verdict,     \* verdict[l]: what the target of l has decided
  outcome,     \* outcome[l]: what the initiator of l has concluded
  forwarding,  \* the links whose target forwards the initiator's traffic
  diverting    \* the links whose initiator sends its traffic to the target

vars == <<requested, verdict, outcome, forwarding, diverting>>

Init ==
  /\ requested = {}
  /\ verdict = [l \in Link |-> "none"]
  /\ outcome = [l \in Link |-> "none"]
  /\ forwarding = {}
  /\ diverting = {}

Request(l) ==
  /\ l \notin requested
  /\ requested' = requested \cup {l}
  /\ UNCHANGED <<verdict, outcome, forwarding, diverting>>

\* The target refuses, or accepts and possibly starts to forward.
Decide(l) ==
  /\ l \in requested
  /\ verdict[l] = "none"
  /\ \/ /\ verdict' = [verdict EXCEPT ![l] = "refused"]
        /\ UNCHANGED forwarding
     \/ /\ verdict' = [verdict EXCEPT ![l] = "accepted"]
        /\ forwarding' \in {forwarding, forwarding \cup {l}}
  /\ UNCHANGED <<requested, outcome, diverting>>

\* The initiator learns the verdict and, if the target forwards, may divert.
Learn(l) ==
  /\ verdict[l] # "none"
  /\ outcome[l] = "none"
  /\ outcome' = [outcome EXCEPT ![l] = verdict[l]]
  /\ \/ UNCHANGED diverting
     \/ /\ verdict[l] = "accepted" /\ l \in forwarding
        /\ diverting' = diverting \cup {l}
  /\ UNCHANGED <<requested, verdict, forwarding>>

Next == \E l \in Link : Request(l) \/ Decide(l) \/ Learn(l)

Spec == Init /\ [][Next]_vars
=============================================================================
