------------------------------ MODULE NrSlUeProse ------------------------------
(***************************************************************************)
(* The ProSe layer of the sidelink UEs (src/model/nr-sl-ue-prose.cc) and   *)
(* its direct links (src/model/nr-sl-ue-prose-direct-link.cc): PC5 unicast *)
(* link establishment between an initiating and a target UE, its           *)
(* retransmission under timer T5080, and what the ProSe layer configures   *)
(* when a link becomes established (a data bearer, or the two sides of an  *)
(* L3 UE-to-network relay path).                                           *)
(*                                                                         *)
(* A directed pair d = <<u, p>> names the direct link instance that UE u   *)
(* keeps in m_unicastDirectLinks for its peer p.  PC5-S messages travel    *)
(* over RLC UM bearers: they can be lost and arrive in any order relative  *)
(* to messages of other bearers, so they are kept in a bag.  The branches  *)
(* of the code that end in NS_FATAL_ERROR have no action: FatalOnReceive   *)
(* and FatalOnExpiry describe them, and NoFatalError says that no state in *)
(* which one could be taken is reachable.                                  *)
(***************************************************************************)
EXTENDS Naturals

CONSTANTS
  UE,           \* the UEs, identified by their layer-2 id
  Code,         \* relay service codes; 0 asks for a plain unicast link
  CodeModulus,  \* the Request carries the code in 3 octets: 2^24
  Requested,    \* the links the scenario may ask for, as <<initiator, target>>
  CodePairs,    \* the <<initiator, target>> codes the scenario passes
  Provided,     \* Provided[u]: keys of m_l3U2nRelayProvidedSvcs of u
  RtxMax,       \* attribute PdlEsRqRtxMax
  MaxLost       \* bound on the messages the radio loses

ASSUME ProseAssumption ==
  /\ Code \subseteq Nat /\ 0 \in Code
  /\ CodeModulus \in Nat \ {0}
  /\ Requested \subseteq {d \in UE \X UE : d[1] # d[2]}
  /\ CodePairs \subseteq Code \X Code
  /\ Provided \in [UE -> SUBSET Code]
  /\ RtxMax \in Nat
  /\ MaxLost \in Nat

Pairs == {d \in UE \X UE : d[1] # d[2]}
Peer(d) == <<d[2], d[1]>>

States == {"INIT", "ESTABLISHING", "ESTABLISHED", "RELEASING", "RELEASED"}
Roles == {"NoRelay", "RemoteUe", "RelayUe"}

NewLink(exists, isInitiating, code) ==
  [exists |-> exists, isInitiating |-> isInitiating, code |-> code,
   state |-> IF isInitiating THEN "ESTABLISHING" ELSE "INIT",
   t5080 |-> isInitiating, rtxCounter |-> 0,
   pendingDrb |-> FALSE, activeDrb |-> FALSE, role |-> "NoRelay"]
NoLink == NewLink(FALSE, FALSE, 0)

Links == [exists : BOOLEAN, state : States, isInitiating : BOOLEAN,
          code : Code, t5080 : BOOLEAN, rtxCounter : 0 .. RtxMax,
          pendingDrb : BOOLEAN, activeDrb : BOOLEAN, role : Roles]

\* Three octets of the 32-bit relay service code are serialized.
WireCode(code) == code % CodeModulus

\* PC5-S messages between different UEs, with the code a Request carries.
Message ==
  {m \in [type : {"Request"}, src : UE, dst : UE, code : {WireCode(c) : c \in Code}]
         \cup [type : {"Accept", "Reject"}, src : UE, dst : UE, code : {0}] :
     m.src # m.dst}

VARIABLES
  link,        \* link[<<u, p>>]: the context and link instance at u for p
  activeSlSrbs,\* m_activeSlSrbs: <<u, p, lcId>> of the active SL-SRBs
  activating,  \* links whose data bearer the NAS is still activating
  epcRemoteUes,\* <<relay, remote>> the EPC routes through the relay
  due,         \* AddDirectLinkConnection calls scheduled for this instant
  net,         \* PC5-S messages in flight, a bag
  lost         \* messages lost so far

vars == <<link, activeSlSrbs, activating, epcRemoteUes, due, net, lost>>

-----------------------------------------------------------------------------
(* What is sent: SendDirectLinkEstablishment{Request, Accept, Reject}.     *)

Request(d) == [type |-> "Request", src |-> d[1], dst |-> d[2],
               code |-> WireCode(link[d].code)]
FirstRequest(d, code) == [type |-> "Request", src |-> d[1], dst |-> d[2],
                          code |-> WireCode(code)]
Accept(d) == [type |-> "Accept", src |-> d[1], dst |-> d[2], code |-> 0]
Reject(d) == [type |-> "Reject", src |-> d[1], dst |-> d[2], code |-> 0]

\* The signalling bearer of a message: SL-SRB0 unprotected, SL-SRB2 protected.
LcId(m) == IF m.type = "Request" THEN 0 ELSE 2

Without(m) == [net EXCEPT ![m] = @ - 1]
With(b, m) == [b EXCEPT ![m] = @ + 1]

\* DoSendNrSlPc5SMessage: activate the SL-SRB on first use, then send.
Send(b, m) == /\ net' = With(b, m)
              /\ activeSlSrbs' = activeSlSrbs \cup {<<m.src, m.dst, LcId(m)>>}

\* The link instance a message is handed to: the receiver's, for the sender.
Receiver(m) == <<m.dst, m.src>>

\* Simulated time passes only when nothing is left to do at this instant.
TimePasses == due = {}

-----------------------------------------------------------------------------
(* The scenario: EstablishRealDirectLink and                               *)
(* EstablishL3UeToNetworkRelayConnection schedule, for the same instant,   *)
(* AddDirectLinkConnection at the initiating UE and then at the target.    *)

CanAccept(d, code) ==
  \/ code = 0
  \/ link[d].code = 0
  \/ ~link[d].isInitiating /\ code = link[d].code

AddInitiatingConnection(d, codes) ==
  /\ due = {}
  /\ ~link[d].exists /\ ~link[Peer(d)].exists
  /\ codes \in CodePairs
  /\ codes[2] = 0 \/ codes[2] \in Provided[d[2]]
  /\ link' = [link EXCEPT ![d] = NewLink(TRUE, TRUE, codes[1])]
  /\ Send(net, FirstRequest(d, codes[1]))
  /\ due' = {<<Peer(d), codes[2]>>}
  /\ UNCHANGED <<activating, epcRemoteUes, lost>>

AddTargetConnection(d, code) ==
  /\ <<d, code>> \in due
  /\ link' = [link EXCEPT ![d] = NewLink(TRUE, FALSE, code)]
  /\ due' = due \ {<<d, code>>}
  /\ UNCHANGED <<activeSlSrbs, activating, epcRemoteUes, net, lost>>

-----------------------------------------------------------------------------
(* SwitchToState (ESTABLISHED) and the ProSe layer's reaction to it.       *)

\* The link after the switch; timer: whether T5080 still runs.
Established(l, timer) == [l EXCEPT !.state = "ESTABLISHED", !.t5080 = timer]

\* ConfigureDataRadioBearersForU2nRelay.
ConfigureRelayPath(d, timer) ==
  /\ link' = [link EXCEPT ![d] = [Established(@, timer) EXCEPT
                !.role = IF link[d].isInitiating THEN "RemoteUe" ELSE "RelayUe"]]
  /\ epcRemoteUes' = IF link[d].isInitiating THEN epcRemoteUes
                     ELSE epcRemoteUes \cup {d}
  /\ UNCHANGED activating

\* ActivateDirectLinkDataRadioBearer: the NAS answers inside the call or
\* later; m_hasPendingSlDrb is set only after the call returns.
ActivateDataBearer(d, timer) ==
  /\ UNCHANGED epcRemoteUes
  /\ \E answered \in BOOLEAN :
       /\ link' = [link EXCEPT ![d] = [Established(@, timer) EXCEPT
                     !.activeDrb = answered, !.pendingDrb = TRUE]]
       /\ activating' = IF answered THEN activating ELSE activating \cup {d}

SwitchToEstablished(d, timer) ==
  IF link[d].activeDrb \/ link[d].pendingDrb
  THEN /\ link' = [link EXCEPT ![d] = Established(@, timer)]
       /\ UNCHANGED <<activating, epcRemoteUes>>
  ELSE IF link[d].code > 0 THEN ConfigureRelayPath(d, timer)
                           ELSE ActivateDataBearer(d, timer)

-----------------------------------------------------------------------------
(* DoReceiveNrSlSignalling and the message handlers of the direct link.    *)

Arrives(m, type) == TimePasses /\ net[m] > 0 /\ m.type = type
                    /\ link[Receiver(m)].exists

AcceptRequest(m) ==
  LET d == Receiver(m) IN
  /\ Arrives(m, "Request")
  /\ link[d].state = "INIT"
  /\ CanAccept(d, m.code)
  /\ Send(Without(m), Accept(d))
  /\ SwitchToEstablished(d, link[d].t5080)
  /\ UNCHANGED <<due, lost>>

RejectRequest(m) ==
  LET d == Receiver(m) IN
  /\ Arrives(m, "Request")
  /\ link[d].state = "INIT"
  /\ ~CanAccept(d, m.code)
  /\ Send(Without(m), Reject(d))
  /\ link' = [link EXCEPT ![d].state = "RELEASED"]
  /\ UNCHANGED <<activating, epcRemoteUes, due, lost>>

\* Mutant: a repeated Request is ignored by an established target.
AcceptAgainIgnored(m) ==
  /\ Arrives(m, "Request")
  /\ link[Receiver(m)].state = "ESTABLISHED"
  /\ net' = Without(m)
  /\ UNCHANGED <<link, activeSlSrbs, activating, epcRemoteUes, due, lost>>

AcceptAgain(m) ==
  LET d == Receiver(m) IN
  /\ Arrives(m, "Request")
  /\ link[d].state = "ESTABLISHED"
  /\ Send(Without(m), Accept(d))
  /\ UNCHANGED <<link, activating, epcRemoteUes, due, lost>>

\* Mutant: the Accept does not stop T5080.
ProcessAcceptTimerRuns(m) ==
  LET d == Receiver(m) IN
  /\ Arrives(m, "Accept")
  /\ link[d].state = "ESTABLISHING"
  /\ net' = Without(m)
  /\ SwitchToEstablished(d, link[d].t5080)
  /\ UNCHANGED <<activeSlSrbs, due, lost>>

ProcessAccept(m) ==
  LET d == Receiver(m) IN
  /\ Arrives(m, "Accept")
  /\ link[d].state = "ESTABLISHING"
  /\ net' = Without(m)
  /\ SwitchToEstablished(d, FALSE)
  /\ UNCHANGED <<activeSlSrbs, due, lost>>

\* Mutant: a Reject after which the initiating UE sets up its side anyway.
ProcessRejectAsAccept(m) ==
  LET d == Receiver(m) IN
  /\ Arrives(m, "Reject")
  /\ link[d].state = "ESTABLISHING"
  /\ net' = Without(m)
  /\ SwitchToEstablished(d, FALSE)
  /\ UNCHANGED <<activeSlSrbs, due, lost>>

ProcessReject(m) ==
  LET d == Receiver(m) IN
  /\ Arrives(m, "Reject")
  /\ link[d].state = "ESTABLISHING"
  /\ net' = Without(m)
  /\ link' = [link EXCEPT ![d].state = "RELEASED", ![d].t5080 = FALSE]
  /\ UNCHANGED <<activeSlSrbs, activating, epcRemoteUes, due, lost>>

\* The states in which a handler returns without doing anything.
Ignores(type) ==
  CASE type = "Request" -> {"RELEASING", "RELEASED"}
    [] type = "Accept"  -> {"INIT", "ESTABLISHED", "RELEASING", "RELEASED"}
    [] type = "Reject"  -> {"INIT", "RELEASING", "RELEASED"}

IgnoreMessage(m) ==
  /\ Arrives(m, m.type)
  /\ link[Receiver(m)].state \in Ignores(m.type)
  /\ net' = Without(m)
  /\ UNCHANGED <<link, activeSlSrbs, activating, epcRemoteUes, due, lost>>

LoseMessage(m) ==
  /\ TimePasses
  /\ net[m] > 0
  /\ lost < MaxLost
  /\ net' = Without(m)
  /\ lost' = lost + 1
  /\ UNCHANGED <<link, activeSlSrbs, activating, epcRemoteUes, due>>

-----------------------------------------------------------------------------
(* T5080Expiry: while retransmissions are left the Request is sent again   *)
(* and the timer restarted; afterwards only a log line is written.         *)

\* Mutant: no limit.
RetransmitForEver(d) ==
  /\ TimePasses
  /\ link[d].t5080
  /\ link[d].state = "ESTABLISHING"
  /\ link' = [link EXCEPT ![d].rtxCounter = @ + 1]
  /\ Send(net, Request(d))
  /\ UNCHANGED <<activating, epcRemoteUes, due, lost>>

Retransmit(d) ==
  /\ TimePasses
  /\ link[d].t5080
  /\ link[d].state = "ESTABLISHING"
  /\ link[d].rtxCounter < RtxMax
  /\ link' = [link EXCEPT ![d].rtxCounter = @ + 1]
  /\ Send(net, Request(d))
  /\ UNCHANGED <<activating, epcRemoteUes, due, lost>>

\* Mutant: the procedure ends one retransmission early.
GiveUpEarly(d) ==
  /\ TimePasses
  /\ link[d].t5080
  /\ link[d].state = "ESTABLISHING"
  /\ link[d].rtxCounter + 1 >= RtxMax
  /\ link' = [link EXCEPT ![d].t5080 = FALSE]
  /\ UNCHANGED <<net, activeSlSrbs, activating, epcRemoteUes, due, lost>>

GiveUp(d) ==
  /\ TimePasses
  /\ link[d].t5080
  /\ link[d].state = "ESTABLISHING"
  /\ link[d].rtxCounter >= RtxMax
  /\ link' = [link EXCEPT ![d].t5080 = FALSE]
  /\ UNCHANGED <<activeSlSrbs, activating, epcRemoteUes, due, net, lost>>

\* DoNotifySvcNrSlDataRadioBearerActivated.
NotifyDrbActivated(d) ==
  /\ TimePasses
  /\ d \in activating
  /\ link' = [link EXCEPT ![d].pendingDrb = FALSE, ![d].activeDrb = TRUE]
  /\ activating' = activating \ {d}
  /\ UNCHANGED <<activeSlSrbs, epcRemoteUes, due, net, lost>>

-----------------------------------------------------------------------------
Init ==
  /\ link = [d \in Pairs |-> NoLink]
  /\ activeSlSrbs = {}
  /\ activating = {}
  /\ epcRemoteUes = {}
  /\ due = {}
  /\ net = [m \in Message |-> 0]
  /\ lost = 0

Receive(m) == \/ AcceptRequest(m) \/ RejectRequest(m) \/ AcceptAgain(m)
              \/ ProcessAccept(m) \/ ProcessReject(m) \/ IgnoreMessage(m)

T5080Expiry(d) == Retransmit(d) \/ GiveUp(d)

Next ==
  \/ \E d \in Requested : \E codes \in CodePairs : AddInitiatingConnection(d, codes)
  \/ \E d \in Pairs : \E code \in Code : AddTargetConnection(d, code)
  \/ \E m \in Message : Receive(m)
  \/ \E m \in Message : LoseMessage(m)
  \/ \E d \in Pairs : T5080Expiry(d)
  \/ \E d \in Pairs : NotifyDrbActivated(d)

\* Safety only: nothing need ever happen.
Spec == Init /\ [][Next]_vars

\* A scheduled event runs, a message in flight is delivered or lost, and a
\* running timer expires.  The scenario need not establish any link.
Fairness ==
  /\ \A d \in Pairs : \A code \in Code : WF_vars(AddTargetConnection(d, code))
  /\ \A m \in Message : WF_vars(Receive(m))
  /\ \A d \in Pairs : WF_vars(T5080Expiry(d))
  /\ \A d \in Pairs : WF_vars(NotifyDrbActivated(d))

FairSpec == Spec /\ Fairness

-----------------------------------------------------------------------------
(* Properties.                                                             *)

\* Types of the ProSe layers' and links' state.
TypeOK ==
  /\ link \in [Pairs -> Links]
  /\ activeSlSrbs \subseteq UE \X UE \X {0, 2}
  /\ activating \subseteq Pairs
  /\ epcRemoteUes \subseteq Pairs
  /\ due \subseteq Pairs \X Code
  /\ net \in [Message -> Nat]
  /\ lost \in 0 .. MaxLost

InFlight == {m \in Message : net[m] > 0}

\* The branches of DoReceiveNrSlSignalling and of the three message handlers
\* that stop the simulation: no context for the sender, a Request while
\* ESTABLISHING, a Reject while ESTABLISHED.
FatalOnReceive(m) ==
  \/ ~link[Receiver(m)].exists
  \/ m.type = "Request" /\ link[Receiver(m)].state = "ESTABLISHING"
  \/ m.type = "Reject" /\ link[Receiver(m)].state = "ESTABLISHED"

\* T5080Expiry stops the simulation in every state but ESTABLISHING.
FatalOnExpiry(d) == link[d].t5080 /\ link[d].state # "ESTABLISHING"

\* No delivery and no expiry of T5080 can ever take an NS_FATAL_ERROR branch,
\* whatever is lost, delayed or retransmitted.
NoFatalError ==
  TimePasses => /\ \A m \in InFlight : ~FatalOnReceive(m)
                /\ \A d \in Pairs : ~FatalOnExpiry(d)

\* The initiating UE never concludes anything its target did not decide: it is
\* ESTABLISHED (or RELEASED) only if the target is.
InitiatorFollowsTarget ==
  \A d \in Pairs : link[d].isInitiating
    => /\ link[d].state = "ESTABLISHED" => link[Peer(d)].state = "ESTABLISHED"
       /\ link[d].state = "RELEASED" => link[Peer(d)].state = "RELEASED"

\* T5080 stops only when the procedure is decided or the retransmissions are
\* used up: an initiating UE that waits is never without a timer before that.
TimerCoversWait ==
  \A d \in Pairs : (link[d].isInitiating /\ link[d].state = "ESTABLISHING")
    => link[d].t5080 \/ link[d].rtxCounter = RtxMax

\* The remote UE diverts its traffic to the relay (ConfigureNrSlData...
\* ForU2nRelay as RemoteUe) only once the relay has configured its own side and
\* the EPC routes the remote UE's packets to the relay.
RemotePathHasRelay ==
  \A d \in Pairs : link[d].role = "RemoteUe"
    => /\ link[Peer(d)].role = "RelayUe"
       /\ Peer(d) \in epcRemoteUes

\* A decided link is never reopened or flipped by a late, repeated or reordered
\* message, nor by the timer.
DecisionIsFinal ==
  [][\A d \in Pairs : link[d].state \in {"ESTABLISHED", "RELEASED"}
       => link'[d].state = link[d].state]_vars

\* Every Request sent is answered at most once: a link never has more messages
\* in flight than Requests it has sent.
AnswersBounded ==
  \A d \in Pairs : link[d].isInitiating
    => net[Request(d)] + net[Accept(Peer(d))] + net[Reject(Peer(d))]
         <= link[d].rtxCounter + 1

DataPathReady(d) ==
  /\ link[d].state = "ESTABLISHED"
  /\ IF link[d].code > 0 THEN link[d].role # "NoRelay" ELSE link[d].activeDrb

\* The retransmissions of T5080 do their work: when the radio loses at most
\* RtxMax messages, a link with a code its target is willing to accept becomes
\* ESTABLISHED on both sides, with the data path of both configured.
EstablishedDespiteLoss ==
  \A d \in Pairs : (link[d].isInitiating /\ link[d].code < CodeModulus)
    ~> (DataPathReady(d) /\ DataPathReady(Peer(d)))
-----------------------------------------------------------------------------
(* The abstract specification this one implements.                         *)

OutcomeOf(l) == CASE l.state = "ESTABLISHED" -> "accepted"
                  [] l.state = "RELEASED" -> "refused"
                  [] OTHER -> "none"

Initiated == {d \in Pairs : link[d].isInitiating}

Agreement == INSTANCE DirectLinkAgreement WITH
  Link <- Pairs,
  requested <- Initiated,
  verdict <- [d \in Pairs |-> IF d \in Initiated THEN OutcomeOf(link[Peer(d)])
                                                ELSE "none"],
  outcome <- [d \in Pairs |-> IF d \in Initiated THEN OutcomeOf(link[d]) ELSE "none"],
  forwarding <- {d \in Pairs : Peer(d) \in epcRemoteUes},
  diverting <- {d \in Pairs : link[d].role = "RemoteUe"}

\* With all its lost, late and repeated messages the procedure is one verdict
\* of the target, learnt by the initiator, with a path that exists before it is
\* used: every step is one of the abstract specification's or changes nothing.
ImplementsAgreement == Agreement!Spec
=============================================================================
