--------------------------- MODULE NrSlUeProseProofs ---------------------------
(***************************************************************************)
(* Proofs about NrSlUeProse, for any set of UEs, codes and retransmissions.*)
(***************************************************************************)
EXTENDS NrSlUeProse, TLAPS

\* Where an initiating and a target instance can be, and that the timer runs
\* only at an initiating UE that waits.
LinkShape ==
  \A d \in Pairs :
    /\ link[d].isInitiating
         => /\ link[d].exists /\ ~link[Peer(d)].isInitiating
            /\ link[d].state \in {"ESTABLISHING", "ESTABLISHED", "RELEASED"}
    /\ ~link[d].isInitiating => link[d].state \in {"INIT", "ESTABLISHED", "RELEASED"}
    /\ ~link[d].exists => link[d].state = "INIT"
    /\ link[d].exists /\ ~link[d].isInitiating => link[Peer(d)].isInitiating
    /\ link[d].t5080 => link[d].isInitiating /\ link[d].state = "ESTABLISHING"

\* A target missing its context gets it within this instant.
DueShape ==
  /\ \A d \in Pairs : link[d].isInitiating /\ ~link[Peer(d)].exists
       => \E e \in due : e[1] = Peer(d)
  /\ \A e \in due : ~link[e[1]].exists /\ link[Peer(e[1])].isInitiating
  /\ \A e, f \in due : e = f

\* What a message in flight tells about its sender.
SenderOk(m) ==
  LET s == <<m.src, m.dst>> IN
  /\ m.type = "Request" => link[s].isInitiating
  /\ m.type = "Accept" => ~link[s].isInitiating /\ link[s].state = "ESTABLISHED"
  /\ m.type = "Reject" => ~link[s].isInitiating /\ link[s].state = "RELEASED"

MessageShape == \A m \in Message : net[m] > 0 => SenderOk(m)

ProseInv == /\ TypeOK /\ LinkShape /\ DueShape /\ MessageShape
            /\ InitiatorFollowsTarget /\ TimerCoversWait

-----------------------------------------------------------------------------
\* The reverse of a pair is a pair, and reversing twice gives it back.
LEMMA PeerFacts ==
  ASSUME NEW d \in Pairs
  PROVE  Peer(d) \in Pairs /\ Peer(Peer(d)) = d /\ Peer(d) # d
  BY DEF Pairs, Peer

\* A message joins two different UEs, and its type is one of the three.
LEMMA MessageFacts ==
  ASSUME NEW m \in Message
  PROVE  /\ Receiver(m) \in Pairs
         /\ <<m.src, m.dst>> \in Pairs
         /\ Peer(Receiver(m)) = <<m.src, m.dst>>
         /\ m.type \in {"Request", "Accept", "Reject"}
  BY DEF Message, Receiver, Pairs, Peer

\* A new link instance is well typed.
LEMMA NewLinkFacts ==
  ASSUME NEW x \in BOOLEAN, NEW i \in BOOLEAN, NEW c \in Code
  PROVE  NewLink(x, i, c) \in Links
  BY ProseAssumption DEF NewLink, Links, States, Roles

\* Sending adds one message, of the kind sent, and keeps the bag a bag.
LEMMA SendFacts ==
  ASSUME NEW b \in [Message -> Nat], NEW x \in Message
  PROVE  /\ With(b, x) \in [Message -> Nat]
         /\ \A m \in Message : With(b, x)[m] > 0 => b[m] > 0 \/ m = x
  BY DEF With

LEMMA ReceiveFacts ==
  ASSUME net \in [Message -> Nat], NEW x \in Message, net[x] > 0
  PROVE  /\ Without(x) \in [Message -> Nat]
         /\ \A m \in Message : Without(x)[m] > 0 => net[m] > 0
  BY DEF Without

-----------------------------------------------------------------------------
THEOREM InitProse == Init => ProseInv
<1> SUFFICES ASSUME Init PROVE ProseInv
  OBVIOUS
<1>1. \A d \in Pairs : link[d] = NewLink(FALSE, FALSE, 0)
  BY DEF Init, NoLink
<1>2. TypeOK
  <2>1. link \in [Pairs -> Links]
    BY ProseAssumption, NewLinkFacts DEF Init, NoLink
  <2>2. net \in [Message -> Nat] /\ lost \in 0 .. MaxLost
    BY ProseAssumption DEF Init
  <2> QED BY <2>1, <2>2 DEF Init, TypeOK
<1>3. LinkShape /\ DueShape /\ MessageShape
  BY <1>1, PeerFacts DEF Init, NewLink, LinkShape, DueShape, MessageShape
<1>4. InitiatorFollowsTarget /\ TimerCoversWait
  BY <1>1 DEF NewLink, InitiatorFollowsTarget, TimerCoversWait
<1> QED BY <1>2, <1>3, <1>4 DEF ProseInv

\* The messages a link sends are messages.
LEMMA SentFacts ==
  ASSUME TypeOK, NEW d \in Pairs, NEW c \in Code
  PROVE  /\ FirstRequest(d, c) \in Message
         /\ Request(d) \in Message /\ Accept(d) \in Message /\ Reject(d) \in Message
<1>1. d[1] \in UE /\ d[2] \in UE /\ d[1] # d[2] /\ link[d].code \in Code
  BY DEF TypeOK, Links, Pairs
<1>2. FirstRequest(d, c) \in Message /\ Request(d) \in Message
  BY <1>1 DEF FirstRequest, Request, Message
<1>3. Accept(d) \in Message /\ Reject(d) \in Message
  BY <1>1 DEF Accept, Reject, Message
<1> QED BY <1>2, <1>3

\* A step that changes one existing link, and not who initiates it, keeps the
\* shape of the links as long as the link itself keeps it.
LEMMA SingleLinkStep ==
  ASSUME ProseInv, NEW d \in Pairs, link' \in [Pairs -> Links], due' = due,
         \A e \in Pairs : e # d => link'[e] = link[e],
         link'[d].exists = link[d].exists, link[d].exists,
         link'[d].isInitiating = link[d].isInitiating,
         IF link[d].isInitiating
         THEN link'[d].state \in {"ESTABLISHING", "ESTABLISHED", "RELEASED"}
         ELSE link'[d].state \in {"INIT", "ESTABLISHED", "RELEASED"},
         link'[d].t5080 => link[d].isInitiating /\ link'[d].state = "ESTABLISHING"
  PROVE  LinkShape' /\ DueShape'
<1>1. LinkShape'
  BY PeerFacts DEF ProseInv, LinkShape
<1>2. DueShape'
  <2>1. \A e \in Pairs : /\ link'[e].isInitiating = link[e].isInitiating
                         /\ link'[e].exists = link[e].exists
    <3> TAKE e \in Pairs
    <3>1. CASE e = d
      BY <3>1
    <3>2. CASE e # d
      BY <3>2
    <3> QED BY <3>1, <3>2
  <2>2. \A e \in due : e[1] \in Pairs /\ Peer(e[1]) \in Pairs
    BY PeerFacts DEF ProseInv, TypeOK
  <2> QED BY <2>1, <2>2, PeerFacts DEF ProseInv, DueShape
<1> QED BY <1>1, <1>2

\* A step that changes one existing link, without changing who initiates it or
\* reopening a decision, keeps the invariant as long as that link and the
\* messages it adds conform to it.
LEMMA LinkStep ==
  ASSUME ProseInv, TypeOK', NEW d \in Pairs, due' = due,
         \A e \in Pairs : e # d => link'[e] = link[e],
         link[d].exists, link'[d].exists,
         link'[d].isInitiating = link[d].isInitiating,
         IF link[d].isInitiating
         THEN link'[d].state \in {"ESTABLISHING", "ESTABLISHED", "RELEASED"}
         ELSE link'[d].state \in {"INIT", "ESTABLISHED", "RELEASED"},
         link'[d].t5080 => link[d].isInitiating /\ link'[d].state = "ESTABLISHING",
         link'[d].state = link[d].state \/ link[d].state \in {"INIT", "ESTABLISHING"},
         link[d].isInitiating /\ link'[d].state # "ESTABLISHING"
           => link[Peer(d)].state = link'[d].state,
         link[d].isInitiating /\ link'[d].state = "ESTABLISHING"
           => link'[d].t5080 \/ link'[d].rtxCounter = RtxMax,
         \A m \in Message : net'[m] > 0 => net[m] > 0 \/ SenderOk(m)'
  PROVE  ProseInv'
<1>1. LinkShape'
  BY PeerFacts DEF ProseInv, LinkShape
<1>2. DueShape'
  <2>1. \A e \in Pairs : /\ link'[e].isInitiating = link[e].isInitiating
                         /\ link'[e].exists = link[e].exists
    <3> TAKE e \in Pairs
    <3>1. CASE e = d
      BY <3>1
    <3>2. CASE e # d
      BY <3>2
    <3> QED BY <3>1, <3>2
  <2>2. \A e \in due : e[1] \in Pairs /\ Peer(e[1]) \in Pairs
    BY PeerFacts DEF ProseInv, TypeOK
  <2> QED BY <2>1, <2>2, PeerFacts DEF ProseInv, DueShape
<1>3. MessageShape'
  <2> SUFFICES ASSUME NEW m \in Message, net'[m] > 0, ~SenderOk(m)' PROVE FALSE
    BY DEF MessageShape
  <2>1. SenderOk(m)
    BY DEF ProseInv, MessageShape
  <2>2. <<m.src, m.dst>> = d
    BY <2>1, MessageFacts DEF SenderOk
  <2> QED BY <2>1, <2>2 DEF SenderOk, ProseInv, LinkShape
<1>4. InitiatorFollowsTarget'
  <2> SUFFICES ASSUME NEW e \in Pairs, link'[e].isInitiating,
                      link'[e].state \in {"ESTABLISHED", "RELEASED"}
               PROVE  link'[Peer(e)].state = link'[e].state
    BY DEF InitiatorFollowsTarget
  <2>1. CASE e = d
    BY <2>1, PeerFacts
  <2>2. CASE e # d
    <3>1. link[e].isInitiating /\ link[e].state = link'[e].state
      BY <2>2
    <3>2. link[Peer(e)].state = link[e].state
      BY <3>1 DEF ProseInv, InitiatorFollowsTarget
    <3> QED BY <3>1, <3>2, PeerFacts
  <2> QED BY <2>1, <2>2
<1>5. TimerCoversWait'
  BY DEF ProseInv, TimerCoversWait
<1> QED BY <1>1, <1>2, <1>3, <1>4, <1>5 DEF ProseInv

\* The switch itself changes the state and the timer of the link.
LEMMA EstablishedFacts ==
  ASSUME NEW l \in Links, NEW timer \in BOOLEAN
  PROVE  LET r == Established(l, timer) IN
         /\ r \in Links
         /\ r.state = "ESTABLISHED" /\ r.t5080 = timer
         /\ r.exists = l.exists /\ r.isInitiating = l.isInitiating
         /\ r.rtxCounter = l.rtxCounter
  BY DEF Established, Links, States

\* What the reaction to ESTABLISHED changes.
LEMMA SwitchFacts ==
  ASSUME ProseInv, NEW d \in Pairs, NEW timer \in BOOLEAN,
         SwitchToEstablished(d, timer)
  PROVE  /\ link' \in [Pairs -> Links]
         /\ activating' \subseteq Pairs /\ epcRemoteUes' \subseteq Pairs
         /\ \A e \in Pairs : e # d => link'[e] = link[e]
         /\ link'[d].exists = link[d].exists
         /\ link'[d].isInitiating = link[d].isInitiating
         /\ link'[d].rtxCounter = link[d].rtxCounter
         /\ link'[d].state = "ESTABLISHED" /\ link'[d].t5080 = timer
<1> DEFINE r == Established(link[d], timer)
<1>1. link \in [Pairs -> Links] /\ activating \subseteq Pairs
      /\ epcRemoteUes \subseteq Pairs
  BY DEF ProseInv, TypeOK
<1>2. /\ r \in Links
      /\ r.state = "ESTABLISHED" /\ r.t5080 = timer
      /\ r.exists = link[d].exists /\ r.isInitiating = link[d].isInitiating
      /\ r.rtxCounter = link[d].rtxCounter
  BY <1>1, EstablishedFacts
<1> HIDE DEF r
<1>3. CASE link[d].activeDrb \/ link[d].pendingDrb
  BY <1>1, <1>2, <1>3 DEF SwitchToEstablished, r
<1>4. CASE ConfigureRelayPath(d, timer)
  <2>1. PICK role \in Roles : link' = [link EXCEPT ![d] = [r EXCEPT !.role = role]]
    BY <1>4 DEF ConfigureRelayPath, Roles, r
  <2>2. activating' \subseteq Pairs /\ epcRemoteUes' \subseteq Pairs
    BY <1>1, <1>4 DEF ConfigureRelayPath
  <2> QED BY <1>1, <1>2, <2>1, <2>2 DEF Links
<1>5. CASE ActivateDataBearer(d, timer)
  <2>1. PICK answered \in BOOLEAN :
          /\ link' = [link EXCEPT ![d] = [r EXCEPT !.activeDrb = answered,
                                                   !.pendingDrb = TRUE]]
          /\ activating' = IF answered THEN activating ELSE activating \cup {d}
    BY <1>5 DEF ActivateDataBearer, r
  <2>2. activating' \subseteq Pairs /\ epcRemoteUes' \subseteq Pairs
    BY <1>1, <1>5, <2>1 DEF ActivateDataBearer
  <2> QED BY <1>1, <1>2, <2>1, <2>2 DEF Links
<1> QED BY <1>3, <1>4, <1>5 DEF SwitchToEstablished

THEOREM NextProse == ProseInv /\ [Next]_vars => ProseInv'
<1> SUFFICES ASSUME ProseInv, [Next]_vars PROVE ProseInv'
  OBVIOUS
<1> USE DEF ProseInv
<1>1. ASSUME NEW d \in Requested, NEW codes \in CodePairs,
             AddInitiatingConnection(d, codes)
      PROVE  ProseInv'
  <2> d \in Pairs
    BY ProseAssumption DEF Pairs
  <2> codes[1] \in Code /\ codes[2] \in Code
    <3>1. codes \in Code \X Code
      BY ProseAssumption
    <3> QED BY <3>1
  <2> DEFINE m == FirstRequest(d, codes[1])
  <2>1. m \in Message /\ m.type = "Request" /\ <<m.src, m.dst>> = d
    <3>1. m \in Message
      BY SentFacts
    <3>2. <<d[1], d[2]>> = d
      BY DEF Pairs
    <3> QED BY <3>1, <3>2 DEF FirstRequest
  <2>2. net' \in [Message -> Nat] /\ \A x \in Message : net'[x] > 0 => net[x] > 0 \/ x = m
    BY <1>1, <2>1, SendFacts DEF AddInitiatingConnection, Send, TypeOK
  <2>3. /\ Peer(d) \in Pairs /\ Peer(Peer(d)) = d /\ Peer(d) # d
        /\ ~link[d].exists /\ ~link[Peer(d)].exists /\ due = {}
        /\ due' = {<<Peer(d), codes[2]>>}
    BY <1>1, PeerFacts DEF AddInitiatingConnection
  <2>4. /\ link' \in [Pairs -> Links]
        /\ \A e \in Pairs : e # d => link'[e] = link[e]
        /\ link'[d].isInitiating /\ link'[d].exists /\ link'[d].t5080
        /\ link'[d].state = "ESTABLISHING"
    BY <1>1, NewLinkFacts DEF AddInitiatingConnection, TypeOK, NewLink
  <2>5. TypeOK'
    <3>1. activeSlSrbs' \subseteq UE \X UE \X {0, 2}
      BY <1>1, <2>1 DEF AddInitiatingConnection, Send, TypeOK, LcId, FirstRequest, Pairs
    <3>2. due' \subseteq Pairs \X Code
      BY <2>3
    <3> QED BY <1>1, <2>2, <2>4, <3>1, <3>2 DEF AddInitiatingConnection, TypeOK
  <2>6. LinkShape'
    BY <2>3, <2>4, PeerFacts DEF LinkShape
  <2>7. DueShape'
    BY <2>3, <2>4, PeerFacts DEF DueShape
  <2>8. MessageShape'
    <3> SUFFICES ASSUME NEW x \in Message, net'[x] > 0 PROVE SenderOk(x)'
      BY DEF MessageShape
    <3>1. <<x.src, x.dst>> \in Pairs
      BY MessageFacts
    <3>2. CASE x = m
      BY <3>2, <2>1, <2>4 DEF SenderOk
    <3>3. CASE x # m
      <4>1. net[x] > 0
        BY <3>3, <2>2
      <4>2. link[d].state = "INIT" /\ ~link[d].isInitiating
        BY <2>3 DEF LinkShape
      <4> QED BY <3>1, <4>1, <4>2, <2>4 DEF MessageShape, SenderOk
    <3> QED BY <3>2, <3>3
  <2>9. InitiatorFollowsTarget' /\ TimerCoversWait'
    BY <2>3, <2>4, PeerFacts DEF InitiatorFollowsTarget, TimerCoversWait, LinkShape
  <2> QED BY <2>5, <2>6, <2>7, <2>8, <2>9
<1>2. ASSUME NEW d \in Pairs, NEW code \in Code, AddTargetConnection(d, code)
      PROVE  ProseInv'
  <2>1. /\ ~link[d].exists /\ link[Peer(d)].isInitiating
        /\ Peer(d) \in Pairs /\ Peer(Peer(d)) = d /\ Peer(d) # d
        /\ due' = due \ {<<d, code>>} /\ net' = net
    BY <1>2, PeerFacts DEF AddTargetConnection, DueShape
  <2>2. /\ link' \in [Pairs -> Links]
        /\ \A e \in Pairs : e # d => link'[e] = link[e]
        /\ ~link'[d].isInitiating /\ link'[d].exists /\ ~link'[d].t5080
        /\ link'[d].state = "INIT"
    BY <1>2, NewLinkFacts DEF AddTargetConnection, TypeOK, NewLink
  <2>3. TypeOK'
    BY <1>2, <2>1, <2>2 DEF AddTargetConnection, TypeOK
  <2>4. ~link[d].isInitiating /\ link[d].state = "INIT"
    BY <2>1 DEF LinkShape
  <2>5. LinkShape'
    BY <2>1, <2>2, PeerFacts DEF LinkShape
  <2>6. DueShape'
    <3>1. \A e \in due : e[1] \in Pairs /\ Peer(e[1]) \in Pairs
      BY PeerFacts DEF TypeOK
    <3>2. ASSUME NEW p \in Pairs, link'[p].isInitiating, ~link'[Peer(p)].exists
          PROVE  \E e \in due' : e[1] = Peer(p)
      <4>1. p # d /\ Peer(p) # d
        BY <3>2, <2>2
      <4>2. PICK e \in due : e[1] = Peer(p)
        BY <4>1, <3>2, <2>2, PeerFacts DEF DueShape
      <4> QED BY <4>1, <4>2, <2>1
    <3>3. ASSUME NEW e \in due'
          PROVE  ~link'[e[1]].exists /\ link'[Peer(e[1])].isInitiating
      <4>1. e \in due /\ e[1] \in Pairs /\ e # <<d, code>>
        BY <2>1, <3>1
      <4>2. e[1] # d
        BY <4>1, <1>2 DEF AddTargetConnection, DueShape
      <4> QED BY <4>1, <4>2, <2>2, <2>4, <3>1 DEF DueShape
    <3> QED BY <3>2, <3>3, <2>1 DEF DueShape
  <2>7. MessageShape'
    BY <2>1, <2>2, <2>4, MessageFacts DEF MessageShape, SenderOk
  <2>8. InitiatorFollowsTarget' /\ TimerCoversWait'
    BY <2>1, <2>2, <2>4, PeerFacts DEF InitiatorFollowsTarget, TimerCoversWait
  <2> QED BY <2>3, <2>5, <2>6, <2>7, <2>8
<1>3. ASSUME NEW m \in Message, Receive(m) PROVE ProseInv'
  <2> DEFINE d == Receiver(m)
  <2>1. /\ d \in Pairs /\ Peer(d) = <<m.src, m.dst>>
        /\ m.type \in {"Request", "Accept", "Reject"}
    BY MessageFacts
  <2>2. net[m] > 0 /\ link[d].exists /\ due' = due /\ lost' = lost
    BY <1>3 DEF Receive, AcceptRequest, RejectRequest, AcceptAgain, ProcessAccept,
                ProcessReject, IgnoreMessage, Arrives
  <2>3. SenderOk(m)
    BY <2>2 DEF MessageShape
  <2>4. Without(m) \in [Message -> Nat]
        /\ \A x \in Message : Without(m)[x] > 0 => net[x] > 0
    BY <2>2, ReceiveFacts DEF TypeOK
  <2>5. ASSUME NEW x \in Message, Send(Without(m), x)
        PROVE  /\ net' \in [Message -> Nat]
               /\ \A y \in Message : net'[y] > 0 => net[y] > 0 \/ y = x
               /\ activeSlSrbs' \subseteq UE \X UE \X {0, 2}
    <3>1. net' = With(Without(m), x)
          /\ activeSlSrbs' = activeSlSrbs \cup {<<x.src, x.dst, LcId(x)>>}
      BY <2>5 DEF Send
    <3>2. <<x.src, x.dst, LcId(x)>> \in UE \X UE \X {0, 2}
      BY DEF LcId, Message
    <3> QED BY <2>4, <3>1, <3>2, SendFacts DEF TypeOK
  <2>6. CASE AcceptRequest(m)
    <3>1. Accept(d) \in Message
      BY <2>1, SentFacts, ProseAssumption
    <3>2. SwitchToEstablished(d, link[d].t5080) /\ Send(Without(m), Accept(d))
          /\ link[d].state = "INIT" /\ m.type = "Request"
      BY <2>6 DEF AcceptRequest, Arrives
    <3>3. link[d].t5080 = FALSE /\ ~link[d].isInitiating
      BY <3>2, <2>1 DEF LinkShape, TypeOK, Links
    <3>4. TypeOK'
      BY <3>1, <3>2, <3>3, <2>1, <2>2, <2>5, SwitchFacts DEF TypeOK
    <3>5. SenderOk(Accept(d))'
      BY <2>1, <3>2, <3>3, SwitchFacts DEF SenderOk, Accept, Receiver
    <3> QED BY <2>1, <2>2, <2>5, <3>1, <3>2, <3>3, <3>4, <3>5, SwitchFacts, LinkStep
  <2>7. CASE RejectRequest(m)
    <3>1. Reject(d) \in Message
      BY <2>1, SentFacts, ProseAssumption
    <3>2. /\ link' = [link EXCEPT ![d].state = "RELEASED"]
          /\ Send(Without(m), Reject(d))
          /\ link[d].state = "INIT" /\ m.type = "Request"
          /\ UNCHANGED <<activating, epcRemoteUes>>
      BY <2>7 DEF RejectRequest, Arrives
    <3>3. link[d].t5080 = FALSE /\ ~link[d].isInitiating
      BY <3>2, <2>1 DEF LinkShape, TypeOK, Links
    <3>4. TypeOK'
      BY <3>1, <3>2, <2>1, <2>2, <2>5 DEF TypeOK, Links, States
    <3>5. SenderOk(Reject(d))'
      BY <2>1, <3>2, <3>3 DEF SenderOk, Reject, Receiver, TypeOK, Links
    <3> QED BY <2>1, <2>2, <2>5, <3>1, <3>2, <3>3, <3>4, <3>5, LinkStep DEF TypeOK, Links
  <2>8. CASE AcceptAgain(m)
    <3>1. Accept(d) \in Message
      BY <2>1, SentFacts, ProseAssumption
    <3>2. /\ UNCHANGED <<link, activating, epcRemoteUes>>
          /\ Send(Without(m), Accept(d))
          /\ link[d].state = "ESTABLISHED" /\ m.type = "Request"
      BY <2>8 DEF AcceptAgain, Arrives
    <3>3. ~link[d].isInitiating
      BY <3>2, <2>1, <2>3, PeerFacts DEF LinkShape, SenderOk
    <3>4. TypeOK'
      BY <3>1, <3>2, <2>2, <2>5 DEF TypeOK
    <3>5. SenderOk(Accept(d))'
      BY <2>1, <3>2, <3>3 DEF SenderOk, Accept, Receiver
    <3> QED BY <2>1, <2>2, <2>5, <3>1, <3>2, <3>3, <3>4, <3>5, LinkStep DEF LinkShape
  <2>9. CASE ProcessAccept(m)
    <3>1. /\ SwitchToEstablished(d, FALSE) /\ net' = Without(m)
          /\ link[d].state = "ESTABLISHING" /\ m.type = "Accept"
          /\ UNCHANGED activeSlSrbs
      BY <2>9 DEF ProcessAccept, Arrives
    <3>2. link[d].isInitiating /\ link[Peer(d)].state = "ESTABLISHED"
      BY <3>1, <2>1, <2>3 DEF LinkShape, SenderOk
    <3>3. TypeOK'
      BY <3>1, <2>1, <2>2, <2>4, SwitchFacts DEF TypeOK
    <3> QED BY <2>1, <2>2, <2>4, <3>1, <3>2, <3>3, SwitchFacts, LinkStep
  <2>10. CASE ProcessReject(m)
    <3>1. /\ link' = [link EXCEPT ![d].state = "RELEASED", ![d].t5080 = FALSE]
          /\ net' = Without(m)
          /\ link[d].state = "ESTABLISHING" /\ m.type = "Reject"
          /\ UNCHANGED <<activeSlSrbs, activating, epcRemoteUes>>
      BY <2>10 DEF ProcessReject, Arrives
    <3>2. link[d].isInitiating /\ link[Peer(d)].state = "RELEASED"
      BY <3>1, <2>1, <2>3 DEF LinkShape, SenderOk
    <3>3. TypeOK'
      <4>1. link \in [Pairs -> Links]
        BY DEF TypeOK
      <4>2. link' \in [Pairs -> Links]
        BY ZenonT(40), <3>1, <2>1, <4>1 DEF Links, States
      <4> QED BY <3>1, <4>2, <2>2, <2>4 DEF TypeOK
    <3> QED BY SMTT(40), <2>1, <2>2, <2>4, <3>1, <3>2, <3>3, LinkStep DEF TypeOK, Links
  <2>11. CASE IgnoreMessage(m)
    <3>1. /\ UNCHANGED <<link, activeSlSrbs, activating, epcRemoteUes, due, lost>>
          /\ net' = Without(m)
      BY <2>11 DEF IgnoreMessage
    <3> QED BY <3>1, <2>4 DEF TypeOK, LinkShape, DueShape, MessageShape, SenderOk,
                              InitiatorFollowsTarget, TimerCoversWait
  <2> QED BY <1>3, <2>6, <2>7, <2>8, <2>9, <2>10, <2>11 DEF Receive
<1>4. ASSUME NEW m \in Message, LoseMessage(m) PROVE ProseInv'
  <2>1. /\ UNCHANGED <<link, activeSlSrbs, activating, epcRemoteUes, due>>
        /\ net' = Without(m) /\ net[m] > 0 /\ lost' \in 0 .. MaxLost
    <3>1. lost \in 0 .. MaxLost /\ MaxLost \in Nat
      BY ProseAssumption DEF TypeOK
    <3>2. lost' \in 0 .. MaxLost
      BY <1>4, <3>1 DEF LoseMessage
    <3> QED BY <1>4, <3>2 DEF LoseMessage
  <2>2. Without(m) \in [Message -> Nat]
        /\ \A x \in Message : Without(m)[x] > 0 => net[x] > 0
    BY <2>1, ReceiveFacts DEF TypeOK
  <2> QED BY <2>1, <2>2 DEF TypeOK, LinkShape, DueShape, MessageShape, SenderOk,
                            InitiatorFollowsTarget, TimerCoversWait
<1>5. ASSUME NEW d \in Pairs, Retransmit(d) PROVE ProseInv'
  <2>1. /\ link[d].t5080 /\ link[d].state = "ESTABLISHING" /\ link[d].rtxCounter < RtxMax
        /\ link' = [link EXCEPT ![d].rtxCounter = @ + 1]
        /\ Send(net, Request(d))
        /\ UNCHANGED <<activating, epcRemoteUes, due, lost>>
    BY <1>5 DEF Retransmit
  <2>2. link[d].isInitiating /\ link[d].exists
    BY <2>1 DEF LinkShape
  <2>3. PICK m \in Message : m = Request(d)
    BY SentFacts, ProseAssumption
  <2>4. m.type = "Request" /\ <<m.src, m.dst>> = d
    BY <2>3 DEF Request, Pairs
  <2>5. /\ net' \in [Message -> Nat]
        /\ \A y \in Message : net'[y] > 0 => net[y] > 0 \/ y = m
        /\ activeSlSrbs' \subseteq UE \X UE \X {0, 2}
    <3>1. net' = With(net, m)
          /\ activeSlSrbs' = activeSlSrbs \cup {<<m.src, m.dst, LcId(m)>>}
      BY <2>1, <2>3 DEF Send
    <3>2. <<m.src, m.dst, LcId(m)>> \in UE \X UE \X {0, 2}
      BY DEF LcId, Message
    <3> QED BY <3>1, <3>2, SendFacts DEF TypeOK
  <2>6. link' \in [Pairs -> Links]
    BY <2>1, ProseAssumption DEF TypeOK, Links
  <2>7. TypeOK'
    BY <2>1, <2>5, <2>6 DEF TypeOK
  <2>8. SenderOk(m)'
    BY <2>1, <2>2, <2>4 DEF SenderOk, TypeOK, Links
  <2> QED BY <2>1, <2>2, <2>5, <2>7, <2>8, LinkStep DEF TypeOK, Links
<1>6. ASSUME NEW d \in Pairs, GiveUp(d) PROVE ProseInv'
  <2>1. /\ link[d].t5080 /\ link[d].state = "ESTABLISHING" /\ link[d].rtxCounter >= RtxMax
        /\ link' = [link EXCEPT ![d].t5080 = FALSE]
        /\ UNCHANGED <<activeSlSrbs, activating, epcRemoteUes, due, net, lost>>
    BY <1>6 DEF GiveUp
  <2>2. link[d].isInitiating /\ link[d].exists
    BY <2>1 DEF LinkShape
  <2>3. TypeOK'
    BY ZenonT(40), <2>1 DEF TypeOK, Links
  <2>4. link[d].rtxCounter = RtxMax
    BY SMTT(40), <2>1, ProseAssumption DEF TypeOK, Links
  <2> QED BY <2>1, <2>2, <2>3, <2>4, LinkStep DEF TypeOK, Links
<1>7. ASSUME NEW d \in Pairs, NotifyDrbActivated(d) PROVE ProseInv'
  <2>1. /\ link' = [link EXCEPT ![d].pendingDrb = FALSE, ![d].activeDrb = TRUE]
        /\ activating' = activating \ {d}
        /\ UNCHANGED <<activeSlSrbs, epcRemoteUes, due, net, lost>>
    BY <1>7 DEF NotifyDrbActivated
  <2>2. TypeOK'
    BY ZenonT(40), <2>1 DEF TypeOK, Links
  <2>3. \A e \in Pairs : /\ link'[e].state = link[e].state
                         /\ link'[e].exists = link[e].exists
                         /\ link'[e].isInitiating = link[e].isInitiating
                         /\ link'[e].t5080 = link[e].t5080
                         /\ link'[e].rtxCounter = link[e].rtxCounter
    BY <2>1 DEF TypeOK, Links
  <2>4. LinkShape' /\ DueShape'
    <3>1. \A e \in due : e[1] \in Pairs /\ Peer(e[1]) \in Pairs
      BY PeerFacts DEF TypeOK
    <3>2. LinkShape'
      BY <2>3, PeerFacts DEF LinkShape
    <3>3. DueShape'
      <4>1. ASSUME NEW p \in Pairs, link'[p].isInitiating, ~link'[Peer(p)].exists
            PROVE  \E e \in due' : e[1] = Peer(p)
        BY ZenonT(40), <4>1, <2>1, <2>3, PeerFacts DEF DueShape
      <4>2. ASSUME NEW e \in due'
            PROVE  ~link'[e[1]].exists /\ link'[Peer(e[1])].isInitiating
        BY <4>2, <2>1, <2>3, <3>1 DEF DueShape
      <4>3. \A e, f \in due' : e = f
        BY <2>1 DEF DueShape
      <4> QED BY <4>1, <4>2, <4>3 DEF DueShape
    <3> QED BY <3>2, <3>3
  <2>5. MessageShape'
    BY ZenonT(40), <2>1, <2>3, MessageFacts DEF MessageShape, SenderOk
  <2>6. InitiatorFollowsTarget' /\ TimerCoversWait'
    BY <2>3, PeerFacts DEF InitiatorFollowsTarget, TimerCoversWait
  <2> QED BY <2>2, <2>4, <2>5, <2>6
<1>8. CASE UNCHANGED vars
  BY <1>8 DEF vars, TypeOK, LinkShape, DueShape, MessageShape, SenderOk,
              InitiatorFollowsTarget, TimerCoversWait
<1> QED BY <1>1, <1>2, <1>3, <1>4, <1>5, <1>6, <1>7, <1>8 DEF Next, T5080Expiry

\* The invariant holds in every reachable state.
THEOREM ProseInvariant == Spec => []ProseInv
  BY InitProse, NextProse, PTL DEF Spec

-----------------------------------------------------------------------------
\* Types.
THEOREM ProseTypeOK == Spec => []TypeOK
  BY ProseInvariant, PTL DEF ProseInv

\* No handler and no timer ever reaches an NS_FATAL_ERROR branch.
THEOREM ProseNoFatalError == Spec => []NoFatalError
<1>1. ProseInv => NoFatalError
  <2> SUFFICES ASSUME ProseInv, TimePasses PROVE NoFatalError
    BY DEF NoFatalError
  <2>1. ASSUME NEW m \in InFlight PROVE ~FatalOnReceive(m)
    <3> DEFINE s == <<m.src, m.dst>>
    <3>1. m \in Message /\ SenderOk(m)
      BY <2>1 DEF InFlight, ProseInv, MessageShape
    <3>2. /\ s \in Pairs /\ Receiver(m) \in Pairs
          /\ Peer(Receiver(m)) = s /\ Peer(s) = Receiver(m)
      BY <3>1, MessageFacts, PeerFacts
    <3>3. link[Receiver(m)].exists
      <4>1. CASE m.type = "Request"
        BY <4>1, <3>1, <3>2 DEF SenderOk, ProseInv, DueShape, TimePasses
      <4>2. CASE m.type # "Request"
        BY <4>2, <3>1, <3>2, MessageFacts DEF SenderOk, ProseInv, LinkShape
      <4> QED BY <4>1, <4>2
    <3>4. m.type = "Request" => link[Receiver(m)].state # "ESTABLISHING"
      BY <3>1, <3>2 DEF SenderOk, ProseInv, LinkShape
    <3>5. m.type = "Reject" => link[Receiver(m)].state # "ESTABLISHED"
      BY <3>1, <3>2, <3>3 DEF SenderOk, ProseInv, LinkShape, InitiatorFollowsTarget
    <3> QED BY <3>3, <3>4, <3>5 DEF FatalOnReceive
  <2>2. ASSUME NEW d \in Pairs PROVE ~FatalOnExpiry(d)
    BY DEF FatalOnExpiry, ProseInv, LinkShape
  <2> QED BY <2>1, <2>2 DEF NoFatalError
<1> QED BY <1>1, ProseInvariant, PTL

\* The initiating UE only ever follows the decision of its target.
THEOREM ProseInitiatorFollowsTarget == Spec => []InitiatorFollowsTarget
  BY ProseInvariant, PTL DEF ProseInv

\* Until it has used its retransmissions a waiting UE has its timer running.
THEOREM ProseTimerCoversWait == Spec => []TimerCoversWait
  BY ProseInvariant, PTL DEF ProseInv

\* A decided link keeps its decision whatever arrives or expires afterwards.
THEOREM ProseDecisionIsFinal == Spec => DecisionIsFinal
<1> DEFINE Keeps == \A d \in Pairs : link[d].state \in {"ESTABLISHED", "RELEASED"}
                                       => link'[d].state = link[d].state
<1>1. ProseInv /\ [Next]_vars => Keeps
  <2> SUFFICES ASSUME ProseInv, [Next]_vars, NEW d \in Pairs,
                      link[d].state \in {"ESTABLISHED", "RELEASED"}
               PROVE  link'[d].state = link[d].state
    OBVIOUS
  <2>1. link \in [Pairs -> Links]
    BY DEF ProseInv, TypeOK
  <2>2. ASSUME NEW e \in Pairs, NEW codes \in CodePairs,
               AddInitiatingConnection(e, codes)
        PROVE  link'[d].state = link[d].state
    <3>1. e # d
      BY <2>2 DEF AddInitiatingConnection, ProseInv, LinkShape
    <3> QED BY <2>1, <2>2, <3>1 DEF AddInitiatingConnection
  <2>3. ASSUME NEW e \in Pairs, NEW code \in Code, AddTargetConnection(e, code)
        PROVE  link'[d].state = link[d].state
    <3>1. e # d
      BY <2>3 DEF AddTargetConnection, ProseInv, LinkShape, DueShape
    <3> QED BY <2>1, <2>3, <3>1 DEF AddTargetConnection
  <2>4. ASSUME NEW m \in Message, Receive(m)
        PROVE  link'[d].state = link[d].state
    <3> DEFINE e == Receiver(m)
    <3>1. e \in Pairs
      BY MessageFacts
    <3>2. CASE AcceptRequest(m)
      <4>1. e # d /\ SwitchToEstablished(e, link[e].t5080) /\ link[e].t5080 \in BOOLEAN
        BY <2>1, <3>1, <3>2 DEF AcceptRequest, Links
      <4> QED BY <3>1, <4>1, SwitchFacts
    <3>3. CASE RejectRequest(m)
      BY <2>1, <3>1, <3>3 DEF RejectRequest, Links
    <3>4. CASE AcceptAgain(m)
      BY <3>4 DEF AcceptAgain
    <3>5. CASE ProcessAccept(m)
      <4>1. e # d /\ SwitchToEstablished(e, FALSE)
        BY <3>5 DEF ProcessAccept
      <4> QED BY <3>1, <4>1, SwitchFacts
    <3>6. CASE ProcessReject(m)
      <4>1. e # d
        BY <3>6 DEF ProcessReject
      <4> QED BY <2>1, <3>1, <3>6, <4>1 DEF ProcessReject
    <3>7. CASE IgnoreMessage(m)
      BY <3>7 DEF IgnoreMessage
    <3> QED BY <2>4, <3>2, <3>3, <3>4, <3>5, <3>6, <3>7 DEF Receive
  <2>5. ASSUME NEW m \in Message, LoseMessage(m)
        PROVE  link'[d].state = link[d].state
    BY <2>5 DEF LoseMessage
  <2>6. ASSUME NEW e \in Pairs, T5080Expiry(e)
        PROVE  link'[d].state = link[d].state
    BY <2>1, <2>6 DEF T5080Expiry, Retransmit, GiveUp, Links
  <2>7. ASSUME NEW e \in Pairs, NotifyDrbActivated(e)
        PROVE  link'[d].state = link[d].state
    BY <2>1, <2>7 DEF NotifyDrbActivated, Links
  <2>8. CASE UNCHANGED vars
    BY <2>8 DEF vars
  <2>9. Requested \subseteq Pairs
    BY ProseAssumption DEF Pairs
  <2> QED BY <2>2, <2>3, <2>4, <2>5, <2>6, <2>7, <2>8, <2>9 DEF Next
<1>2. ProseInv /\ [Next]_vars => [Keeps]_vars
  BY <1>1
<1> QED BY <1>2, ProseInvariant, PTL DEF Spec, DecisionIsFinal

-----------------------------------------------------------------------------
(***************************************************************************)
(* Proofs about the relay path of NrSlUeProse, and that NrSlUeProse        *)
(* implements DirectLinkAgreement.                                         *)
(***************************************************************************)

\* The helper passes the same relay service code to both ends of a link.
SameCodes == \A codes \in CodePairs : codes[1] = codes[2]

\* Both ends of a link keep the same code, and so does a target still to be added.
CodesAgree ==
  /\ \A d \in Pairs : link[d].isInitiating /\ link[Peer(d)].exists
       => link[d].code = link[Peer(d)].code
  /\ \A e \in due : e[2] = link[Peer(e[1])].code

\* The data path a link has, by its state, code and side.
PathOf(d) ==
  /\ link[d].state # "ESTABLISHED" => /\ link[d].role = "NoRelay"
                                      /\ ~link[d].activeDrb /\ ~link[d].pendingDrb
  /\ link[d].code > 0 => ~link[d].activeDrb /\ ~link[d].pendingDrb
  /\ d \in activating => link[d].state = "ESTABLISHED" /\ link[d].code = 0
  /\ link[d].role = "RemoteUe" => link[d].isInitiating /\ link[d].code > 0
  /\ (link[d].state = "ESTABLISHED" /\ link[d].code > 0 /\ ~link[d].isInitiating)
       => link[d].role = "RelayUe" /\ d \in epcRemoteUes

PathShape == \A d \in Pairs : PathOf(d)

PathInv == ProseInv /\ CodesAgree /\ PathShape

-----------------------------------------------------------------------------
LEMMA InitPath == Init => PathInv
<1> SUFFICES ASSUME Init PROVE PathInv
  OBVIOUS
<1>1. \A d \in Pairs : link[d] = NewLink(FALSE, FALSE, 0)
  BY DEF Init, NoLink
<1>2. CodesAgree /\ PathShape
  BY <1>1 DEF Init, NewLink, CodesAgree, PathShape, PathOf
<1> QED BY <1>2, InitProse DEF PathInv

\* A step that changes one link of those that exist, but not its code, keeps
\* the invariant if the path of that link is as it should be afterwards.
LEMMA PathStep ==
  ASSUME PathInv, ProseInv', NEW d \in Pairs, due' = due,
         \A e \in Pairs : e # d => link'[e] = link[e],
         link[d].exists, link'[d].exists, link'[d].code = link[d].code,
         link'[d].isInitiating = link[d].isInitiating,
         epcRemoteUes \subseteq epcRemoteUes',
         \A e \in Pairs : e # d /\ e \in activating' => e \in activating,
         PathOf(d)'
  PROVE  PathInv'
<1>1. \A e \in Pairs : /\ link'[e].isInitiating = link[e].isInitiating
                       /\ link'[e].exists = link[e].exists
                       /\ link'[e].code = link[e].code
  <2> TAKE e \in Pairs
  <2>1. CASE e = d
    BY <2>1
  <2>2. CASE e # d
    BY <2>2
  <2> QED BY <2>1, <2>2
<1>2. \A e \in due : e[1] \in Pairs /\ Peer(e[1]) \in Pairs
  BY PeerFacts DEF PathInv, ProseInv, TypeOK
<1>3. CodesAgree'
  BY <1>1, <1>2, PeerFacts DEF PathInv, CodesAgree
<1>4. PathShape'
  <2> SUFFICES ASSUME NEW e \in Pairs PROVE PathOf(e)'
    BY DEF PathShape
  <2>1. CASE e = d
    BY <2>1
  <2>2. CASE e # d
    BY <2>2 DEF PathInv, PathShape, PathOf
  <2> QED BY <2>1, <2>2
<1> QED BY <1>3, <1>4 DEF PathInv

\* A step that leaves every link and its path alone keeps the invariant.
LEMMA PathStutter ==
  ASSUME PathInv, ProseInv', UNCHANGED <<link, activating, epcRemoteUes, due>>
  PROVE  PathInv'
  BY DEF PathInv, CodesAgree, PathShape, PathOf

\* What the switch to ESTABLISHED does to the data path of a link without one.
LEMMA SwitchPath ==
  ASSUME PathInv, NEW d \in Pairs, NEW timer \in BOOLEAN,
         link[d].state # "ESTABLISHED", SwitchToEstablished(d, timer)
  PROVE  /\ link'[d].code = link[d].code
         /\ epcRemoteUes \subseteq epcRemoteUes'
         /\ epcRemoteUes' \subseteq epcRemoteUes \cup {d}
         /\ d \notin epcRemoteUes /\ d \in epcRemoteUes' => ~link[d].isInitiating
         /\ \A e \in Pairs : e # d /\ e \in activating' => e \in activating
         /\ PathOf(d)'
<1> DEFINE r == Established(link[d], timer)
<1>1. /\ link \in [Pairs -> Links] /\ link[d] \in Links
      /\ ~link[d].activeDrb /\ ~link[d].pendingDrb /\ link[d].role = "NoRelay"
      /\ d \notin activating /\ link[d].code \in Nat
  BY ProseAssumption DEF PathInv, ProseInv, TypeOK, PathShape, PathOf, Links
<1>2. /\ r \in Links /\ r.state = "ESTABLISHED" /\ r.code = link[d].code
      /\ r.isInitiating = link[d].isInitiating /\ r.role = "NoRelay"
      /\ ~r.activeDrb /\ ~r.pendingDrb
  BY <1>1 DEF Established, Links, States
<1> HIDE DEF r
<1>3. CASE link[d].code > 0
  <2>1. ConfigureRelayPath(d, timer)
    BY <1>1, <1>3 DEF SwitchToEstablished
  <2>2. /\ link' = [link EXCEPT ![d] = [r EXCEPT
             !.role = IF link[d].isInitiating THEN "RemoteUe" ELSE "RelayUe"]]
        /\ epcRemoteUes' = IF link[d].isInitiating THEN epcRemoteUes
                           ELSE epcRemoteUes \cup {d}
        /\ activating' = activating
    BY <2>1 DEF ConfigureRelayPath, r
  <2> QED BY <1>1, <1>2, <1>3, <2>2 DEF PathOf, Links
<1>4. CASE ~(link[d].code > 0)
  <2>1. link[d].code = 0
    BY <1>1, <1>4
  <2>2. ActivateDataBearer(d, timer)
    BY <1>1, <1>4 DEF SwitchToEstablished
  <2>3. PICK answered \in BOOLEAN :
          /\ link' = [link EXCEPT ![d] = [r EXCEPT !.activeDrb = answered,
                                                   !.pendingDrb = TRUE]]
          /\ activating' = IF answered THEN activating ELSE activating \cup {d}
          /\ epcRemoteUes' = epcRemoteUes
    BY <2>2 DEF ActivateDataBearer, r
  <2> QED BY <1>1, <1>2, <2>1, <2>3 DEF PathOf, Links
<1> QED BY <1>3, <1>4

LEMMA NextPath ==
  ASSUME SameCodes PROVE PathInv /\ [Next]_vars => PathInv'
<1> SUFFICES ASSUME PathInv, [Next]_vars PROVE PathInv'
  OBVIOUS
<1>0. ProseInv /\ ProseInv' /\ link \in [Pairs -> Links]
  BY NextProse DEF PathInv, ProseInv, TypeOK
<1>1. ASSUME NEW d \in Requested, NEW codes \in CodePairs,
             AddInitiatingConnection(d, codes)
      PROVE  PathInv'
  <2>1. /\ d \in Pairs /\ codes[1] = codes[2] /\ due = {}
        /\ link' = [link EXCEPT ![d] = NewLink(TRUE, TRUE, codes[1])]
        /\ due' = {<<Peer(d), codes[2]>>}
        /\ UNCHANGED <<activating, epcRemoteUes>>
        /\ ~link[d].exists /\ ~link[Peer(d)].exists
    BY <1>1, ProseAssumption DEF AddInitiatingConnection, Pairs, SameCodes
  <2>2. /\ Peer(d) \in Pairs /\ Peer(Peer(d)) = d /\ Peer(d) # d
        /\ \A e \in Pairs : e # d => link'[e] = link[e]
        /\ link'[d] = NewLink(TRUE, TRUE, codes[1])
    BY <1>0, <2>1, PeerFacts
  <2>3. CodesAgree'
    BY <2>1, <2>2, <1>0, PeerFacts DEF NewLink, CodesAgree, PathInv, ProseInv, LinkShape
  <2>4. d \notin activating
    BY <1>0, <2>1 DEF PathInv, PathShape, PathOf, ProseInv, LinkShape
  <2>5. PathShape'
    <3> SUFFICES ASSUME NEW e \in Pairs PROVE PathOf(e)'
      BY DEF PathShape
    <3>1. CASE e = d
      BY <3>1, <2>1, <2>2, <2>4 DEF NewLink, PathOf
    <3>2. CASE e # d
      BY <3>2, <2>1, <2>2 DEF PathInv, PathShape, PathOf
    <3> QED BY <3>1, <3>2
  <2> QED BY <1>0, <2>3, <2>5 DEF PathInv
<1>2. ASSUME NEW d \in Pairs, NEW code \in Code, AddTargetConnection(d, code)
      PROVE  PathInv'
  <2>1. /\ <<d, code>> \in due /\ due' = due \ {<<d, code>>}
        /\ link' = [link EXCEPT ![d] = NewLink(TRUE, FALSE, code)]
        /\ UNCHANGED <<activating, epcRemoteUes>>
        /\ ~link[d].exists /\ link[Peer(d)].code = code /\ ~link[d].isInitiating
    BY <1>2, <1>0, PeerFacts DEF AddTargetConnection, PathInv, CodesAgree, ProseInv,
                                 DueShape, LinkShape
  <2>2. /\ Peer(d) \in Pairs /\ Peer(Peer(d)) = d /\ Peer(d) # d
        /\ \A e \in Pairs : e # d => link'[e] = link[e]
        /\ link'[d] = NewLink(TRUE, FALSE, code)
        /\ link[d].state = "INIT"
    BY <1>0, <2>1, PeerFacts DEF ProseInv, LinkShape
  <2>3. CodesAgree'
    <3>1. \A e \in due' : FALSE
      BY <1>0, <2>1 DEF ProseInv, DueShape
    <3>2. ASSUME NEW e \in Pairs, link'[e].isInitiating, link'[Peer(e)].exists
          PROVE  link'[e].code = link'[Peer(e)].code
      <4>1. e # d /\ link[e].isInitiating
        BY <3>2, <2>2 DEF NewLink
      <4>2. CASE Peer(e) = d
        BY <4>1, <4>2, <2>1, <2>2, PeerFacts DEF NewLink
      <4>3. CASE Peer(e) # d
        BY <4>1, <4>3, <3>2, <2>2, PeerFacts DEF PathInv, CodesAgree
      <4> QED BY <4>2, <4>3
    <3> QED BY <3>1, <3>2 DEF CodesAgree
  <2>4. PathShape'
    <3> SUFFICES ASSUME NEW e \in Pairs PROVE PathOf(e)'
      BY DEF PathShape
    <3>1. CASE e = d
      BY <3>1, <2>1, <2>2 DEF NewLink, PathInv, PathShape, PathOf
    <3>2. CASE e # d
      BY <3>2, <2>1, <2>2 DEF PathInv, PathShape, PathOf
    <3> QED BY <3>1, <3>2
  <2> QED BY <1>0, <2>3, <2>4 DEF PathInv
<1>3. ASSUME NEW m \in Message, Receive(m) PROVE PathInv'
  <2> DEFINE d == Receiver(m)
  <2>1. d \in Pairs /\ link[d] \in Links
    BY <1>0, MessageFacts
  <2>2. CASE AcceptRequest(m)
    <3>1. /\ SwitchToEstablished(d, link[d].t5080) /\ link[d].exists
          /\ link[d].state = "INIT" /\ due' = due /\ link[d].t5080 \in BOOLEAN
      BY <2>1, <2>2 DEF AcceptRequest, Arrives, Links
    <3> QED BY <1>0, <2>1, <3>1, SwitchFacts, SwitchPath, PathStep
  <2>3. CASE ProcessAccept(m)
    <3>1. /\ SwitchToEstablished(d, FALSE) /\ link[d].exists
          /\ link[d].state = "ESTABLISHING" /\ due' = due
      BY <2>3 DEF ProcessAccept, Arrives
    <3> QED BY <1>0, <2>1, <3>1, SwitchFacts, SwitchPath, PathStep
  <2>4. CASE RejectRequest(m)
    <3>1. /\ link' = [link EXCEPT ![d].state = "RELEASED"] /\ link[d].exists
          /\ UNCHANGED <<activating, epcRemoteUes, due>> /\ link[d].state = "INIT"
      BY <2>4 DEF RejectRequest, Arrives
    <3>2. PathOf(d)'
      BY <1>0, <2>1, <3>1 DEF PathInv, PathShape, PathOf, Links
    <3> QED BY <1>0, <2>1, <3>1, <3>2, PathStep DEF Links
  <2>5. CASE ProcessReject(m)
    <3>1. /\ link' = [link EXCEPT ![d].state = "RELEASED", ![d].t5080 = FALSE]
          /\ UNCHANGED <<activating, epcRemoteUes, due>>
          /\ link[d].exists /\ link[d].state = "ESTABLISHING"
      BY <2>5 DEF ProcessReject, Arrives
    <3>2. PathOf(d)'
      BY <1>0, <2>1, <3>1 DEF PathInv, PathShape, PathOf, Links
    <3> QED BY <1>0, <2>1, <3>1, <3>2, PathStep DEF Links
  <2>6. CASE AcceptAgain(m) \/ IgnoreMessage(m)
    BY <2>6, <1>0, PathStutter DEF AcceptAgain, IgnoreMessage
  <2> QED BY <1>3, <2>2, <2>3, <2>4, <2>5, <2>6 DEF Receive
<1>4. ASSUME NEW m \in Message, LoseMessage(m) PROVE PathInv'
  BY <1>0, <1>4, PathStutter DEF LoseMessage
<1>5. ASSUME NEW d \in Pairs, T5080Expiry(d) PROVE PathInv'
  <2>1. /\ link[d].exists /\ link[d].state = "ESTABLISHING" /\ link[d] \in Links
        /\ UNCHANGED <<activating, epcRemoteUes, due>>
    BY <1>0, <1>5 DEF T5080Expiry, Retransmit, GiveUp, ProseInv, LinkShape
  <2>2. \/ link' = [link EXCEPT ![d].rtxCounter = @ + 1]
        \/ link' = [link EXCEPT ![d].t5080 = FALSE]
    BY <1>5 DEF T5080Expiry, Retransmit, GiveUp
  <2>3. PathOf(d)'
    BY <1>0, <2>1, <2>2 DEF PathInv, PathShape, PathOf, Links
  <2> QED BY <1>0, <2>1, <2>2, <2>3, PathStep DEF Links
<1>6. ASSUME NEW d \in Pairs, NotifyDrbActivated(d) PROVE PathInv'
  <2>1. /\ link' = [link EXCEPT ![d].pendingDrb = FALSE, ![d].activeDrb = TRUE]
        /\ activating' = activating \ {d} /\ d \in activating
        /\ UNCHANGED <<epcRemoteUes, due>> /\ link[d] \in Links
    BY <1>0, <1>6 DEF NotifyDrbActivated
  <2>2. /\ link[d].state = "ESTABLISHED" /\ link[d].code = 0 /\ link[d].exists
    BY <1>0, <2>1 DEF PathInv, PathShape, PathOf, ProseInv, LinkShape
  <2>3. PathOf(d)'
    BY <1>0, <2>1, <2>2 DEF PathInv, PathShape, PathOf, Links
  <2> QED BY <1>0, <2>1, <2>2, <2>3, PathStep DEF Links
<1>7. CASE UNCHANGED vars
  BY <1>0, <1>7, PathStutter DEF vars
<1> QED BY <1>1, <1>2, <1>3, <1>4, <1>5, <1>6, <1>7 DEF Next

LEMMA PathInvariant == ASSUME SameCodes PROVE Spec => []PathInv
  BY InitPath, NextPath, PTL DEF Spec

\* The remote UE diverts its traffic only to a relay that has configured its
\* side and is known to the EPC, if both ends were given the same code.
THEOREM ProseRemotePathHasRelay == ASSUME SameCodes PROVE Spec => []RemotePathHasRelay
<1>1. PathInv => RemotePathHasRelay
  <2> SUFFICES ASSUME PathInv, NEW d \in Pairs, link[d].role = "RemoteUe"
               PROVE  link[Peer(d)].role = "RelayUe" /\ Peer(d) \in epcRemoteUes
    BY DEF RemotePathHasRelay
  <2>1. /\ Peer(d) \in Pairs /\ link[d].isInitiating /\ link[d].code > 0
        /\ link[d].state = "ESTABLISHED"
    BY PeerFacts DEF PathInv, PathShape, PathOf
  <2>2. /\ link[Peer(d)].state = "ESTABLISHED" /\ ~link[Peer(d)].isInitiating
        /\ link[Peer(d)].exists
    BY <2>1 DEF PathInv, ProseInv, InitiatorFollowsTarget, LinkShape
  <2>3. link[Peer(d)].code = link[d].code
    BY <2>1, <2>2 DEF PathInv, CodesAgree
  <2> QED BY <2>1, <2>2, <2>3 DEF PathInv, PathShape, PathOf
<1> QED BY <1>1, PathInvariant, PTL
-----------------------------------------------------------------------------
(* The refinement.                                                         *)

Verdict == [d \in Pairs |-> IF d \in Initiated THEN OutcomeOf(link[Peer(d)]) ELSE "none"]
Concluded == [d \in Pairs |-> IF d \in Initiated THEN OutcomeOf(link[d]) ELSE "none"]
Forwarding == {d \in Pairs : Peer(d) \in epcRemoteUes}
Diverting == {d \in Pairs : link[d].role = "RemoteUe"}

\* What the abstract specification sees of a link does not change.
LooksSame(d) == /\ link'[d].state = link[d].state
                /\ link'[d].isInitiating = link[d].isInitiating
                /\ link'[d].role = link[d].role

LEMMA InitRefines == Init => Agreement!Init
<1> SUFFICES ASSUME Init PROVE Agreement!Init
  OBVIOUS
<1>1. \A d \in Pairs : link[d] = NewLink(FALSE, FALSE, 0)
  BY DEF Init, NoLink
<1>2. Initiated = {} /\ \A d \in Pairs : OutcomeOf(link[d]) = "none"
  BY <1>1 DEF NewLink, Initiated, OutcomeOf
<1>3. \A d \in Pairs : Peer(d) \notin epcRemoteUes /\ link[d].role # "RemoteUe"
  BY <1>1 DEF Init, NewLink
<1> QED BY <1>2, <1>3 DEF Agreement!Init

\* A step in which every link looks the same and the EPC learns nothing stutters.
LEMMA StutterRefines ==
  ASSUME \A d \in Pairs : LooksSame(d), epcRemoteUes' = epcRemoteUes
  PROVE  UNCHANGED Agreement!vars
<1>1. Initiated' = Initiated
  BY DEF Initiated, LooksSame
<1>2. \A d \in Pairs : OutcomeOf(link[d])' = OutcomeOf(link[d])
  BY DEF OutcomeOf, LooksSame
<1>3. Verdict' = Verdict /\ Concluded' = Concluded
  BY <1>1, <1>2, PeerFacts DEF Verdict, Concluded
<1>4. Forwarding' = Forwarding /\ Diverting' = Diverting
  BY DEF Forwarding, Diverting, LooksSame
<1> QED BY <1>1, <1>3, <1>4
     DEF Agreement!vars, Verdict, Concluded, Forwarding, Diverting

\* A target that leaves INIT decides the link its peer has requested.
LEMMA TargetDecides ==
  ASSUME PathInv, NEW d \in Pairs, link' \in [Pairs -> Links],
         \A e \in Pairs : e # d => link'[e] = link[e],
         link[d].exists, link[d].state = "INIT",
         link'[d].state \in {"ESTABLISHED", "RELEASED"},
         ~link'[d].isInitiating, link'[d].role # "RemoteUe",
         \/ epcRemoteUes' = epcRemoteUes
         \/ link'[d].state = "ESTABLISHED" /\ epcRemoteUes' = epcRemoteUes \cup {d}
  PROVE  Agreement!Decide(Peer(d))
<1> DEFINE l == Peer(d)
<1>1. /\ l \in Pairs /\ Peer(l) = d /\ l # d
      /\ link[l].isInitiating /\ ~link[d].isInitiating /\ link[d].role # "RemoteUe"
  BY PeerFacts DEF PathInv, ProseInv, LinkShape, PathShape, PathOf
<1> HIDE DEF l
<1>2. Initiated' = Initiated /\ l \in Initiated /\ d \notin Initiated
  BY <1>1 DEF Initiated
<1>3. Verdict[l] = "none"
  BY <1>1, <1>2 DEF Verdict, OutcomeOf
<1>4. Verdict' = [Verdict EXCEPT ![l] = OutcomeOf(link'[d])]
  <2>1. \A e \in Pairs : e # l => Verdict'[e] = Verdict[e]
    BY <1>1, <1>2, PeerFacts DEF Verdict, OutcomeOf
  <2>2. Verdict'[l] = OutcomeOf(link'[d])
    BY <1>1, <1>2 DEF Verdict, OutcomeOf
  <2>3. Verdict' = [e \in Pairs |-> Verdict'[e]] /\ Verdict = [e \in Pairs |-> Verdict[e]]
    BY DEF Verdict
  <2> QED BY <2>1, <2>2, <2>3, <1>1
<1>5. Concluded' = Concluded
  BY <1>2 DEF Concluded, OutcomeOf
<1>6. Diverting' = Diverting
  BY <1>1 DEF Diverting
<1>7. \/ Forwarding' = Forwarding
      \/ link'[d].state = "ESTABLISHED" /\ Forwarding' = Forwarding \cup {l}
  <2>1. \A e \in Pairs : Peer(e) = d <=> e = l
    BY <1>1, PeerFacts
  <2>2. CASE epcRemoteUes' = epcRemoteUes
    BY <2>2 DEF Forwarding
  <2>3. CASE link'[d].state = "ESTABLISHED" /\ epcRemoteUes' = epcRemoteUes \cup {d}
    <3>1. Forwarding' = Forwarding \cup {l}
      BY <2>1, <2>3, <1>1 DEF Forwarding
    <3> QED BY <2>3, <3>1
  <2> QED BY <2>2, <2>3
<1>8. OutcomeOf(link'[d]) = IF link'[d].state = "ESTABLISHED" THEN "accepted" ELSE "refused"
  BY DEF OutcomeOf
<1> QED BY <1>2, <1>3, <1>4, <1>5, <1>6, <1>7, <1>8
     DEF Agreement!Decide, Verdict, Concluded, Forwarding, Diverting, l

\* An initiating UE that leaves ESTABLISHING learns what its target decided.
LEMMA InitiatorLearns ==
  ASSUME PathInv, PathInv', NEW d \in Pairs, link' \in [Pairs -> Links],
         \A e \in Pairs : e # d => link'[e] = link[e],
         link[d].isInitiating, link[d].state = "ESTABLISHING",
         link'[d].isInitiating, link'[d].state \in {"ESTABLISHED", "RELEASED"},
         epcRemoteUes' = epcRemoteUes
  PROVE  Agreement!Learn(d)
<1> DEFINE t == Peer(d)
<1>1. /\ t \in Pairs /\ Peer(t) = d /\ t # d /\ link'[t] = link[t]
      /\ link'[t].state = link'[d].state /\ link[d].role = "NoRelay"
  BY PeerFacts DEF PathInv, ProseInv, InitiatorFollowsTarget, PathShape, PathOf
<1>2. link'[d].role = "RemoteUe" => /\ link'[d].state = "ESTABLISHED" /\ t \in epcRemoteUes
  <2> SUFFICES ASSUME link'[d].role = "RemoteUe"
               PROVE  link'[d].state = "ESTABLISHED" /\ t \in epcRemoteUes
    OBVIOUS
  <2>1. link'[d].code > 0 /\ link'[d].state = "ESTABLISHED"
    BY DEF PathInv, PathShape, PathOf
  <2>2. link'[t].exists /\ ~link'[t].isInitiating
    BY <1>1, <2>1 DEF PathInv, ProseInv, LinkShape
  <2>3. link'[t].code = link'[d].code
    BY <2>2 DEF PathInv, CodesAgree
  <2> QED BY <1>1, <2>1, <2>2, <2>3 DEF PathInv, PathShape, PathOf
<1> HIDE DEF t
<1>3. Initiated' = Initiated /\ d \in Initiated /\ t \notin Initiated
  BY <1>1 DEF Initiated, PathInv, ProseInv, LinkShape, t
<1>4. Verdict' = Verdict
  BY <1>1, <1>3, PeerFacts DEF Verdict, OutcomeOf, t
<1>5. Verdict[d] = OutcomeOf(link'[d]) /\ Verdict[d] \in {"accepted", "refused"}
      /\ (link'[d].state = "ESTABLISHED" => Verdict[d] = "accepted")
  BY <1>1, <1>3 DEF Verdict, OutcomeOf, t
<1>6. Concluded[d] = "none" /\ Concluded' = [Concluded EXCEPT ![d] = Verdict[d]]
  <2>1. \A e \in Pairs : e # d => Concluded'[e] = Concluded[e]
    BY <1>3 DEF Concluded, OutcomeOf
  <2>2. Concluded[d] = "none" /\ Concluded'[d] = Verdict[d]
    BY <1>3, <1>5 DEF Concluded, OutcomeOf
  <2>3. Concluded' = [e \in Pairs |-> Concluded'[e]]
        /\ Concluded = [e \in Pairs |-> Concluded[e]]
    BY DEF Concluded
  <2> QED BY <2>1, <2>2, <2>3
<1>7. Forwarding' = Forwarding
  BY DEF Forwarding
<1>8. \/ Diverting' = Diverting
      \/ /\ Diverting' = Diverting \cup {d}
         /\ Verdict[d] = "accepted" /\ d \in Forwarding
  BY <1>1, <1>2, <1>5 DEF Diverting, Forwarding, t
<1> QED BY <1>3, <1>4, <1>5, <1>6, <1>7, <1>8
     DEF Agreement!Learn, Verdict, Concluded, Forwarding, Diverting

LEMMA NextRefines ==
  ASSUME PathInv, PathInv', [Next]_vars PROVE [Agreement!Next]_(Agreement!vars)
<1>0. /\ ProseInv /\ link \in [Pairs -> Links] /\ link' \in [Pairs -> Links]
      /\ epcRemoteUes \subseteq Pairs
  BY DEF PathInv, ProseInv, TypeOK
<1>1. ASSUME NEW d \in Requested, NEW codes \in CodePairs,
             AddInitiatingConnection(d, codes)
      PROVE  Agreement!Request(d) /\ d \in Pairs
  <2>1. /\ d \in Pairs /\ Peer(d) \in Pairs /\ Peer(Peer(d)) = d /\ Peer(d) # d
        /\ link' = [link EXCEPT ![d] = NewLink(TRUE, TRUE, codes[1])]
        /\ epcRemoteUes' = epcRemoteUes
        /\ ~link[d].exists /\ ~link[Peer(d)].exists
    BY <1>1, ProseAssumption, PeerFacts DEF AddInitiatingConnection, Pairs
  <2>2. /\ \A e \in Pairs : e # d => link'[e] = link[e]
        /\ link'[d].state = "ESTABLISHING" /\ link'[d].isInitiating
        /\ link'[d].role = "NoRelay"
    BY <1>0, <2>1 DEF NewLink
  <2>3. /\ link[d].state = "INIT" /\ ~link[d].isInitiating /\ link[d].role = "NoRelay"
        /\ link[Peer(d)].state = "INIT" /\ ~link[Peer(d)].isInitiating
    BY <2>1 DEF PathInv, ProseInv, LinkShape, PathShape, PathOf
  <2>4. d \notin Initiated /\ Initiated' = Initiated \cup {d}
    BY <2>1, <2>2, <2>3 DEF Initiated
  <2>5. Verdict' = Verdict
    BY <2>1, <2>2, <2>3, <2>4, PeerFacts DEF Verdict, OutcomeOf, Initiated
  <2>6. Concluded' = Concluded
    BY <2>2, <2>3, <2>4 DEF Concluded, OutcomeOf
  <2>7. Forwarding' = Forwarding /\ Diverting' = Diverting
    BY <2>1, <2>2, <2>3 DEF Forwarding, Diverting
  <2> QED BY <2>1, <2>4, <2>5, <2>6, <2>7
       DEF Agreement!Request, Verdict, Concluded, Forwarding, Diverting
<1>2. ASSUME NEW d \in Pairs, NEW code \in Code, AddTargetConnection(d, code)
      PROVE  UNCHANGED Agreement!vars
  <2>1. /\ link' = [link EXCEPT ![d] = NewLink(TRUE, FALSE, code)]
        /\ epcRemoteUes' = epcRemoteUes
        /\ link[d].state = "INIT" /\ ~link[d].isInitiating /\ link[d].role = "NoRelay"
    BY <1>2 DEF AddTargetConnection, PathInv, ProseInv, DueShape, LinkShape,
                PathShape, PathOf
  <2>2. \A e \in Pairs : LooksSame(e)
    <3>1. \A e \in Pairs : e # d => link'[e] = link[e]
      BY <1>0, <2>1
    <3>2. LooksSame(d)
      <4>1. link[d].isInitiating = FALSE /\ link'[d] = NewLink(TRUE, FALSE, code)
        BY <1>0, <2>1 DEF Links
      <4>2. /\ link'[d].isInitiating = FALSE /\ link'[d].state = "INIT"
            /\ link'[d].role = "NoRelay"
        BY <4>1 DEF NewLink
      <4> QED BY <2>1, <4>1, <4>2 DEF LooksSame
    <3> QED BY <3>1, <3>2 DEF LooksSame
  <2> QED BY <2>1, <2>2, StutterRefines
<1>3. ASSUME NEW m \in Message, Receive(m)
      PROVE  UNCHANGED Agreement!vars \/ \E l \in Pairs : Agreement!Decide(l) \/ Agreement!Learn(l)
  <2> DEFINE d == Receiver(m)
  <2>1. d \in Pairs /\ Peer(d) \in Pairs /\ link[d] \in Links
    BY <1>0, MessageFacts, PeerFacts
  <2>2. CASE AcceptRequest(m)
    <3>1. /\ SwitchToEstablished(d, link[d].t5080) /\ link[d].exists
          /\ link[d].state = "INIT" /\ link[d].t5080 \in BOOLEAN
      BY <2>1, <2>2 DEF AcceptRequest, Arrives, Links
    <3>2. ~link[d].isInitiating
      BY <2>1, <3>1 DEF PathInv, ProseInv, LinkShape
    <3>3. link'[d].role # "RemoteUe"
      BY <2>1, <3>1, <3>2, <1>0, SwitchFacts DEF PathInv, PathShape, PathOf
    <3>4. /\ \A e \in Pairs : e # d => link'[e] = link[e]
          /\ link'[d].state = "ESTABLISHED" /\ ~link'[d].isInitiating
      BY <1>0, <2>1, <3>1, <3>2, SwitchFacts
    <3>5. \/ epcRemoteUes' = epcRemoteUes
          \/ epcRemoteUes' = epcRemoteUes \cup {d}
      <4>1. /\ epcRemoteUes \subseteq epcRemoteUes'
            /\ epcRemoteUes' \subseteq epcRemoteUes \cup {d}
        BY <2>1, <3>1, SwitchPath
      <4> QED BY <4>1
    <3>6. Agreement!Decide(Peer(d))
      BY <1>0, <2>1, <3>1, <3>3, <3>4, <3>5, TargetDecides
    <3> QED BY <2>1, <3>6
  <2>3. CASE RejectRequest(m)
    <3>1. /\ link' = [link EXCEPT ![d].state = "RELEASED"] /\ link[d].exists
          /\ epcRemoteUes' = epcRemoteUes /\ link[d].state = "INIT"
      BY <2>3 DEF RejectRequest, Arrives
    <3>2. ~link[d].isInitiating /\ link[d].role # "RemoteUe"
      BY <2>1, <3>1 DEF PathInv, ProseInv, LinkShape, PathShape, PathOf
    <3> QED BY <1>0, <2>1, <3>1, <3>2, TargetDecides DEF Links
  <2>4. CASE ProcessAccept(m)
    <3>1. /\ SwitchToEstablished(d, FALSE) /\ link[d].exists
          /\ link[d].state = "ESTABLISHING"
      BY <2>4 DEF ProcessAccept, Arrives
    <3>2. link[d].isInitiating
      BY <2>1, <3>1 DEF PathInv, ProseInv, LinkShape
    <3>3. epcRemoteUes' = epcRemoteUes
      BY ZenonT(40), <1>0, <2>1, <3>1, <3>2, SwitchPath
    <3> QED BY <1>0, <2>1, <3>1, <3>2, <3>3, SwitchFacts, InitiatorLearns
  <2>5. CASE ProcessReject(m)
    <3>1. /\ link' = [link EXCEPT ![d].state = "RELEASED", ![d].t5080 = FALSE]
          /\ epcRemoteUes' = epcRemoteUes /\ link[d].state = "ESTABLISHING"
      BY <2>5 DEF ProcessReject, Arrives
    <3>2. link[d].isInitiating
      BY <2>1, <3>1 DEF PathInv, ProseInv, LinkShape
    <3> QED BY <1>0, <2>1, <3>1, <3>2, InitiatorLearns DEF Links
  <2>6. CASE AcceptAgain(m) \/ IgnoreMessage(m)
    <3>1. UNCHANGED <<link, epcRemoteUes>>
      BY <2>6 DEF AcceptAgain, IgnoreMessage
    <3> QED BY <3>1, StutterRefines DEF LooksSame
  <2> QED BY <1>3, <2>2, <2>3, <2>4, <2>5, <2>6, <2>1 DEF Receive
<1>4. ASSUME NEW m \in Message, LoseMessage(m) PROVE UNCHANGED Agreement!vars
  <2>1. UNCHANGED <<link, epcRemoteUes>>
    BY <1>4 DEF LoseMessage
  <2>2. \A d \in Pairs : LooksSame(d)
    BY <2>1 DEF LooksSame
  <2> QED BY <2>1, <2>2, StutterRefines
<1>5. ASSUME NEW d \in Pairs, T5080Expiry(d) \/ NotifyDrbActivated(d)
      PROVE  UNCHANGED Agreement!vars
  <2>1. /\ epcRemoteUes' = epcRemoteUes
        /\ \/ link' = [link EXCEPT ![d].rtxCounter = @ + 1]
           \/ link' = [link EXCEPT ![d].t5080 = FALSE]
           \/ link' = [link EXCEPT ![d].pendingDrb = FALSE, ![d].activeDrb = TRUE]
    BY <1>5 DEF T5080Expiry, Retransmit, GiveUp, NotifyDrbActivated
  <2>2. link[d] \in Links /\ \A e \in Pairs : e # d => link'[e] = link[e]
    BY <1>0, <2>1
  <2>3. LooksSame(d)
    BY <1>0, <2>1, <2>2 DEF LooksSame, Links
  <2>4. \A e \in Pairs : LooksSame(e)
    BY <2>2, <2>3 DEF LooksSame
  <2> QED BY <2>1, <2>4, StutterRefines
<1>6. CASE UNCHANGED vars
  <2>1. UNCHANGED <<link, epcRemoteUes>>
    BY <1>6 DEF vars
  <2>2. \A d \in Pairs : LooksSame(d)
    BY <2>1 DEF LooksSame
  <2> QED BY <2>1, <2>2, StutterRefines
<1> QED BY <1>1, <1>2, <1>3, <1>4, <1>5, <1>6 DEF Next, Agreement!Next

\* The procedure, with everything that can happen to its messages, implements
\* the agreement: a verdict of the target that the initiator learns.
THEOREM ProseImplementsAgreement == ASSUME SameCodes PROVE Spec => ImplementsAgreement
  BY InitRefines, NextRefines, PathInvariant, PTL
     DEF Spec, ImplementsAgreement, Agreement!Spec

-----------------------------------------------------------------------------
(* Answers are bounded by Requests.                                        *)

Flow(d) == net[Request(d)] + net[Accept(Peer(d))] + net[Reject(Peer(d))]

\* A Request in flight is the one its sender sends.
RequestShape ==
  \A m \in Message : m.type = "Request" /\ net[m] > 0
    => m.code = WireCode(link[<<m.src, m.dst>>].code)

CountInv == ProseInv /\ RequestShape /\ AnswersBounded

\* The link whose establishment a message belongs to: the initiating UE's.
About(m) == IF m.type = "Request" THEN <<m.src, m.dst>> ELSE <<m.dst, m.src>>

\* The three messages of a link are different, and belong to no other link.
LEMMA FlowFacts ==
  ASSUME TypeOK, NEW d \in Pairs
  PROVE  /\ Request(d) \in Message /\ Accept(Peer(d)) \in Message
         /\ Reject(Peer(d)) \in Message
         /\ Request(d).type = "Request" /\ Accept(Peer(d)).type = "Accept"
         /\ Reject(Peer(d)).type = "Reject"
         /\ About(Request(d)) = d /\ About(Accept(Peer(d))) = d
         /\ About(Reject(Peer(d))) = d
<1>1. d = <<d[1], d[2]>> /\ Peer(d) \in Pairs /\ Peer(d) = <<d[2], d[1]>>
  BY PeerFacts DEF Pairs, Peer
<1>2. /\ Request(d) \in Message /\ Accept(Peer(d)) \in Message
      /\ Reject(Peer(d)) \in Message
  BY <1>1, SentFacts, ProseAssumption
<1>3. /\ Request(d).type = "Request" /\ Accept(Peer(d)).type = "Accept"
      /\ Reject(Peer(d)).type = "Reject"
  BY DEF Request, Accept, Reject
<1>4. /\ About(Request(d)) = d /\ About(Accept(Peer(d))) = d
      /\ About(Reject(Peer(d))) = d
  BY <1>1 DEF About, Request, Accept, Reject
<1> QED BY <1>2, <1>3, <1>4

\* What counting looks at in a link stays the same.
SameCount(d) == /\ link'[d].isInitiating = link[d].isInitiating
                /\ link'[d].code = link[d].code
                /\ link'[d].rtxCounter = link[d].rtxCounter

\* The switch to ESTABLISHED keeps the code.
LEMMA SwitchCode ==
  ASSUME ProseInv, NEW d \in Pairs, NEW timer \in BOOLEAN,
         SwitchToEstablished(d, timer)
  PROVE  link'[d].code = link[d].code
<1> DEFINE r == Established(link[d], timer)
<1>1. link \in [Pairs -> Links] /\ r \in Links /\ r.code = link[d].code
  BY ZenonT(40), EstablishedFacts DEF ProseInv, TypeOK, Established, Links, States
<1> HIDE DEF r
<1>2. \/ link' = [link EXCEPT ![d] = r]
      \/ \E role \in Roles : link' = [link EXCEPT ![d] = [r EXCEPT !.role = role]]
      \/ \E answered \in BOOLEAN :
           link' = [link EXCEPT ![d] = [r EXCEPT !.activeDrb = answered,
                                                 !.pendingDrb = TRUE]]
  BY DEF SwitchToEstablished, ConfigureRelayPath, ActivateDataBearer, Roles, r
<1> QED BY <1>1, <1>2 DEF Links

LEMMA InitCount == Init => CountInv
<1> SUFFICES ASSUME Init PROVE CountInv
  OBVIOUS
<1>1. \A d \in Pairs : ~link[d].isInitiating
  BY DEF Init, NoLink, NewLink
<1>2. RequestShape /\ AnswersBounded
  BY <1>1 DEF Init, RequestShape, AnswersBounded
<1> QED BY <1>2, InitProse DEF CountInv

\* Taking messages away keeps the bound.
LEMMA CountDrain ==
  ASSUME CountInv, ProseInv', \A d \in Pairs : SameCount(d),
         \A m \in Message : net'[m] <= net[m]
  PROVE  CountInv'
<1>1. TypeOK /\ TypeOK'
  BY DEF CountInv, ProseInv
<1>2. RequestShape'
  <2> SUFFICES ASSUME NEW m \in Message, m.type = "Request", net'[m] > 0
               PROVE  m.code = WireCode(link'[<<m.src, m.dst>>].code)
    BY DEF RequestShape
  <2>1. net[m] > 0
    BY <1>1 DEF TypeOK
  <2> QED BY <2>1, MessageFacts DEF SameCount, CountInv, RequestShape
<1>3. AnswersBounded'
  <2> SUFFICES ASSUME NEW d \in Pairs, link'[d].isInitiating
               PROVE  net'[Request(d)'] + net'[Accept(Peer(d))] + net'[Reject(Peer(d))]
                        <= link'[d].rtxCounter + 1
    BY DEF AnswersBounded, Accept, Reject
  <2>1. /\ Request(d)' = Request(d) /\ link'[d].rtxCounter = link[d].rtxCounter
        /\ link[d].isInitiating /\ link[d].rtxCounter \in Nat
    BY <1>1, ProseAssumption DEF SameCount, Request, TypeOK, Links
  <2>2. net[Request(d)] + net[Accept(Peer(d))] + net[Reject(Peer(d))]
          <= link[d].rtxCounter + 1
    BY <2>1 DEF CountInv, AnswersBounded
  <2>3. /\ net[Request(d)] \in Nat /\ net'[Request(d)] \in Nat
        /\ net[Accept(Peer(d))] \in Nat /\ net'[Accept(Peer(d))] \in Nat
        /\ net[Reject(Peer(d))] \in Nat /\ net'[Reject(Peer(d))] \in Nat
        /\ net'[Request(d)] <= net[Request(d)]
        /\ net'[Accept(Peer(d))] <= net[Accept(Peer(d))]
        /\ net'[Reject(Peer(d))] <= net[Reject(Peer(d))]
    BY <1>1, FlowFacts DEF TypeOK
  <2> QED BY <2>1, <2>2, <2>3
<1> QED BY <1>2, <1>3 DEF CountInv

\* A Request is replaced by one answer.
LEMMA CountAnswer ==
  ASSUME CountInv, ProseInv', \A d \in Pairs : SameCount(d),
         NEW m \in Message, net[m] > 0, m.type = "Request",
         NEW r \in {Accept(Receiver(m)), Reject(Receiver(m))},
         net' = With(Without(m), r)
  PROVE  CountInv'
<1>1. TypeOK /\ TypeOK'
  BY DEF CountInv, ProseInv
<1> DEFINE e == <<m.src, m.dst>>
<1>2. e \in Pairs /\ Peer(e) = Receiver(m) /\ Receiver(m) \in Pairs
  BY MessageFacts DEF Peer, Receiver
<1>3. m = Request(e)
  <2>1. m.code = WireCode(link[e].code)
    BY DEF CountInv, RequestShape
  <2>2. m = [type |-> m.type, src |-> m.src, dst |-> m.dst, code |-> m.code]
    BY DEF Message
  <2> QED BY <2>1, <2>2 DEF Request
<1>4. r \in Message /\ r.type \in {"Accept", "Reject"} /\ About(r) = e
      /\ r \in {Accept(Peer(e)), Reject(Peer(e))}
  BY <1>1, <1>2, FlowFacts
<1>5. /\ net'[m] = net[m] - 1 /\ net'[r] = net[r] + 1
      /\ \A x \in Message : x # m /\ x # r => net'[x] = net[x]
  BY <1>1, <1>4 DEF With, Without, TypeOK
<1>6. RequestShape'
  <2> SUFFICES ASSUME NEW x \in Message, x.type = "Request", net'[x] > 0
               PROVE  x.code = WireCode(link'[<<x.src, x.dst>>].code)
    BY DEF RequestShape
  <2>1. net[x] > 0
    BY <1>4, <1>5
  <2> QED BY <2>1, MessageFacts DEF SameCount, CountInv, RequestShape
<1>7. AnswersBounded'
  <2> SUFFICES ASSUME NEW d \in Pairs, link'[d].isInitiating
               PROVE  net'[Request(d)'] + net'[Accept(Peer(d))] + net'[Reject(Peer(d))]
                        <= link'[d].rtxCounter + 1
    BY DEF AnswersBounded, Accept, Reject
  <2>1. /\ Request(d)' = Request(d) /\ link'[d].rtxCounter = link[d].rtxCounter
        /\ link[d].isInitiating /\ link[d].rtxCounter \in Nat
    BY <1>1, ProseAssumption DEF SameCount, Request, TypeOK, Links
  <2>2. net[Request(d)] + net[Accept(Peer(d))] + net[Reject(Peer(d))]
          <= link[d].rtxCounter + 1
    BY <2>1 DEF CountInv, AnswersBounded
  <2>3. /\ net[Request(d)] \in Nat /\ net[Accept(Peer(d))] \in Nat
        /\ net[Reject(Peer(d))] \in Nat
    BY <1>1, FlowFacts DEF TypeOK
  <2>4. CASE d = e
    <3>1. \/ r = Accept(Peer(d)) /\ Reject(Peer(d)) # r
          \/ r = Reject(Peer(d)) /\ Accept(Peer(d)) # r
      BY <1>1, <1>4, <2>4, FlowFacts
    <3>2. Accept(Peer(d)) # m /\ Reject(Peer(d)) # m /\ Request(d) = m
      BY <1>1, <1>3, <2>4, FlowFacts
    <3> HIDE DEF e
    <3> QED BY <1>1, <1>5, <2>1, <2>2, <2>3, <3>1, <3>2, FlowFacts
  <2>5. CASE d # e
    <3>1. \A x \in {Request(d), Accept(Peer(d)), Reject(Peer(d))} :
             x \in Message /\ x # m /\ x # r
      BY <1>1, <1>3, <1>4, <1>2, <2>5, FlowFacts
    <3> QED BY <1>5, <2>1, <2>2, <3>1
  <2> QED BY <2>4, <2>5
<1> QED BY <1>6, <1>7 DEF CountInv

\* One more Request, counted by its sender, which either sends it for the first
\* time, with nothing of its link in flight, or again.
LEMMA CountRequest ==
  ASSUME CountInv, ProseInv', NEW d \in Pairs, link'[d].isInitiating,
         \A e \in Pairs : e # d => link'[e] = link[e],
         net' = With(net, Request(d)'),
         \/ /\ link[d].isInitiating /\ link'[d].code = link[d].code
            /\ link'[d].rtxCounter = link[d].rtxCounter + 1
         \/ /\ \A m \in Message : About(m) = d => net[m] = 0
            /\ link'[d].rtxCounter = 0
  PROVE  CountInv'
<1>1. TypeOK /\ TypeOK'
  BY DEF CountInv, ProseInv
<1> DEFINE q == Request(d)'
<1>2. /\ q \in Message /\ q.type = "Request" /\ <<q.src, q.dst>> = d
      /\ q.code = WireCode(link'[d].code)
  <2>1. d[1] \in UE /\ d[2] \in UE /\ d[1] # d[2] /\ link'[d].code \in Code
        /\ d = <<d[1], d[2]>>
    BY <1>1 DEF TypeOK, Links, Pairs
  <2> QED BY <2>1 DEF Request, Message
<1> HIDE DEF q
<1>3. /\ net'[q] = net[q] + 1
      /\ \A x \in Message : x # q => net'[x] = net[x]
  BY <1>1, <1>2 DEF With, TypeOK, q
<1>4. RequestShape'
  <2> SUFFICES ASSUME NEW x \in Message, x.type = "Request", net'[x] > 0
               PROVE  x.code = WireCode(link'[<<x.src, x.dst>>].code)
    BY DEF RequestShape
  <2>1. CASE x = q
    BY <2>1, <1>2
  <2>2. CASE x # q
    <3>1. net[x] > 0
      BY <2>2, <1>3
    <3>2. CASE <<x.src, x.dst>> = d
      BY <3>1, <3>2 DEF CountInv, RequestShape, About
    <3>3. CASE <<x.src, x.dst>> # d
      BY <3>1, <3>3, MessageFacts DEF CountInv, RequestShape
    <3> QED BY <3>2, <3>3
  <2> QED BY <2>1, <2>2
<1>5. AnswersBounded'
  <2> SUFFICES ASSUME NEW e \in Pairs, link'[e].isInitiating
               PROVE  net'[Request(e)'] + net'[Accept(Peer(e))] + net'[Reject(Peer(e))]
                        <= link'[e].rtxCounter + 1
    BY DEF AnswersBounded, Accept, Reject
  <2>1. /\ Accept(Peer(e)) \in Message /\ Reject(Peer(e)) \in Message
        /\ Accept(Peer(e)) # q /\ Reject(Peer(e)) # q
        /\ About(Accept(Peer(e))) = e /\ About(Reject(Peer(e))) = e
        /\ net[Accept(Peer(e))] \in Nat /\ net[Reject(Peer(e))] \in Nat
    BY <1>1, <1>2, FlowFacts DEF TypeOK
  <2>2. CASE e = d
    <3>1. Request(e)' = q /\ net[q] \in Nat /\ About(q) = d
      BY <2>2, <1>1, <1>2 DEF q, TypeOK, About
    <3>2. CASE \A m \in Message : About(m) = d => net[m] = 0
      <4>1. /\ net[q] = 0 /\ net[Accept(Peer(e))] = 0 /\ net[Reject(Peer(e))] = 0
        BY <3>1, <3>2, <2>1, <2>2, <1>2
      <4>2. link'[d].rtxCounter \in Nat
        BY <1>1, ProseAssumption DEF TypeOK, Links
      <4> QED BY <4>1, <4>2, <3>1, <2>1, <2>2, <1>3
    <3>3. CASE /\ link[d].isInitiating /\ link'[d].code = link[d].code
               /\ link'[d].rtxCounter = link[d].rtxCounter + 1
      <4>1. q = Request(d)
        BY <3>3 DEF q, Request
      <4>2. net[q] + net[Accept(Peer(d))] + net[Reject(Peer(d))]
              <= link[d].rtxCounter + 1
        BY <3>3, <4>1 DEF CountInv, AnswersBounded
      <4>3. link[d].rtxCounter \in Nat
        BY <1>1, ProseAssumption DEF TypeOK, Links
      <4> QED BY <4>2, <4>3, <3>1, <3>3, <2>1, <2>2, <1>3
    <3> QED BY <3>2, <3>3
  <2>3. CASE e # d
    <3>1. /\ Request(e)' = Request(e) /\ link'[e] = link[e]
          /\ Request(e) \in Message /\ Request(e) # q
      <4>1. About(Request(e)) = e /\ Request(e) \in Message /\ About(q) = d
        BY <1>1, <1>2, FlowFacts DEF About
      <4> QED BY <4>1, <2>3 DEF Request
    <3> QED BY <3>1, <2>1, <1>3 DEF CountInv, AnswersBounded
  <2> QED BY <2>2, <2>3
<1> QED BY <1>4, <1>5 DEF CountInv

LEMMA NextCount == CountInv /\ [Next]_vars => CountInv'
<1> SUFFICES ASSUME CountInv, [Next]_vars PROVE CountInv'
  OBVIOUS
<1>0. /\ ProseInv /\ ProseInv' /\ TypeOK
      /\ link \in [Pairs -> Links] /\ link' \in [Pairs -> Links]
  BY NextProse DEF CountInv, ProseInv, TypeOK
<1>1. ASSUME NEW d \in Requested, NEW codes \in CodePairs,
             AddInitiatingConnection(d, codes)
      PROVE  CountInv'
  <2>1. /\ d \in Pairs /\ Peer(d) \in Pairs /\ Peer(Peer(d)) = d
        /\ link' = [link EXCEPT ![d] = NewLink(TRUE, TRUE, codes[1])]
        /\ net' = With(net, FirstRequest(d, codes[1]))
        /\ ~link[d].exists /\ ~link[Peer(d)].exists
    BY <1>1, ProseAssumption, PeerFacts DEF AddInitiatingConnection, Pairs, Send
  <2>2. /\ link'[d].isInitiating /\ link'[d].code = codes[1]
        /\ link'[d].rtxCounter = 0
        /\ \A e \in Pairs : e # d => link'[e] = link[e]
    BY <1>0, <2>1 DEF NewLink
  <2>3. FirstRequest(d, codes[1]) = Request(d)'
    BY <2>2 DEF FirstRequest, Request
  <2>4. ASSUME NEW m \in Message, About(m) = d PROVE net[m] = 0
    <3>1. /\ ~link[d].isInitiating /\ link[d].state = "INIT"
          /\ link[Peer(d)].state = "INIT"
      BY <2>1, <1>0 DEF ProseInv, LinkShape
    <3>2. m.type = "Request" \/ <<m.src, m.dst>> = Peer(d)
      BY <2>4, MessageFacts DEF About, Peer
    <3>3. ~SenderOk(m)
      BY <3>1, <3>2, <2>4, MessageFacts DEF SenderOk, About
    <3> QED BY <3>3, <1>0 DEF ProseInv, MessageShape, TypeOK
  <2> QED BY <1>0, <2>1, <2>2, <2>3, <2>4, CountRequest
<1>2. ASSUME NEW d \in Pairs, NEW code \in Code, AddTargetConnection(d, code)
      PROVE  CountInv'
  <2>1. /\ link' = [link EXCEPT ![d] = NewLink(TRUE, FALSE, code)] /\ net' = net
        /\ ~link[d].exists /\ ~link[d].isInitiating
    BY <1>2, <1>0 DEF AddTargetConnection, ProseInv, DueShape, LinkShape
  <2>2. ~link'[d].isInitiating /\ \A e \in Pairs : e # d => link'[e] = link[e]
    BY <1>0, <2>1 DEF NewLink
  <2>3. RequestShape'
    <3> SUFFICES ASSUME NEW m \in Message, m.type = "Request", net[m] > 0
                 PROVE  m.code = WireCode(link'[<<m.src, m.dst>>].code)
      BY <2>1 DEF RequestShape
    <3>1. link[<<m.src, m.dst>>].isInitiating
      BY <1>0 DEF ProseInv, MessageShape, SenderOk
    <3> QED BY <3>1, <2>1, <2>2, MessageFacts DEF CountInv, RequestShape
  <2>4. AnswersBounded'
    <3> SUFFICES ASSUME NEW e \in Pairs, link'[e].isInitiating
                 PROVE  net[Request(e)'] + net[Accept(Peer(e))] + net[Reject(Peer(e))]
                          <= link'[e].rtxCounter + 1
      BY <2>1 DEF AnswersBounded, Accept, Reject
    <3>1. link'[e] = link[e] /\ Request(e)' = Request(e)
      BY <2>2 DEF Request
    <3> QED BY <3>1 DEF CountInv, AnswersBounded
  <2> QED BY <1>0, <2>3, <2>4 DEF CountInv
<1>3. ASSUME NEW m \in Message, Receive(m) PROVE CountInv'
  <2> DEFINE d == Receiver(m)
  <2>1. d \in Pairs /\ link[d] \in Links /\ net[m] > 0
    BY <1>0, <1>3, MessageFacts
       DEF Receive, AcceptRequest, RejectRequest, AcceptAgain, ProcessAccept,
           ProcessReject, IgnoreMessage, Arrives
  <2>2. \A e \in Pairs : SameCount(e)
    <3>1. CASE AcceptRequest(m) \/ ProcessAccept(m)
      <4>1. PICK timer \in BOOLEAN : SwitchToEstablished(d, timer)
        BY <2>1, <3>1 DEF AcceptRequest, ProcessAccept, Links
      <4>2. /\ \A e \in Pairs : e # d => link'[e] = link[e]
            /\ link'[d].isInitiating = link[d].isInitiating
            /\ link'[d].rtxCounter = link[d].rtxCounter
        BY <1>0, <2>1, <4>1, SwitchFacts
      <4>3. link'[d].code = link[d].code
        BY <1>0, <2>1, <4>1, SwitchCode
      <4> QED BY <4>2, <4>3 DEF SameCount
    <3>2. CASE RejectRequest(m) \/ ProcessReject(m)
      <4>1. \/ link' = [link EXCEPT ![d].state = "RELEASED"]
            \/ link' = [link EXCEPT ![d].state = "RELEASED", ![d].t5080 = FALSE]
        BY <3>2 DEF RejectRequest, ProcessReject
      <4>2. SameCount(d) /\ \A e \in Pairs : e # d => link'[e] = link[e]
        BY <1>0, <2>1, <4>1 DEF SameCount, Links
      <4> QED BY <4>2 DEF SameCount
    <3>3. CASE AcceptAgain(m) \/ IgnoreMessage(m)
      BY <3>3 DEF AcceptAgain, IgnoreMessage, SameCount
    <3> QED BY <1>3, <3>1, <3>2, <3>3 DEF Receive
  <2>3. CASE AcceptRequest(m) \/ RejectRequest(m) \/ AcceptAgain(m)
    <3>1. PICK r \in {Accept(d), Reject(d)} : Send(Without(m), r)
      BY <2>3 DEF AcceptRequest, RejectRequest, AcceptAgain
    <3>2. m.type = "Request"
      BY <2>3 DEF AcceptRequest, RejectRequest, AcceptAgain, Arrives
    <3>3. net' = With(Without(m), r)
      BY <3>1 DEF Send
    <3> QED BY <1>0, <2>1, <2>2, <3>2, <3>3, CountAnswer
  <2>4. CASE ProcessAccept(m) \/ ProcessReject(m) \/ IgnoreMessage(m)
    <3>1. net' = Without(m)
      BY <2>4 DEF ProcessAccept, ProcessReject, IgnoreMessage
    <3>2. \A x \in Message : net'[x] <= net[x]
      BY <1>0, <3>1 DEF Without, TypeOK
    <3> QED BY <1>0, <2>2, <3>2, CountDrain
  <2> QED BY <1>3, <2>3, <2>4 DEF Receive
<1>4. ASSUME NEW m \in Message, LoseMessage(m) PROVE CountInv'
  <2>1. \A x \in Message : net'[x] <= net[x]
    BY <1>0, <1>4 DEF LoseMessage, Without, TypeOK
  <2>2. \A e \in Pairs : SameCount(e)
    BY <1>4 DEF LoseMessage, SameCount
  <2> QED BY <1>0, <2>1, <2>2, CountDrain
<1>5. ASSUME NEW d \in Pairs, Retransmit(d) PROVE CountInv'
  <2>1. /\ link' = [link EXCEPT ![d].rtxCounter = @ + 1] /\ link[d] \in Links
        /\ net' = With(net, Request(d)) /\ link[d].isInitiating
    BY <1>0, <1>5 DEF Retransmit, Send, ProseInv, LinkShape
  <2>2. /\ link'[d].rtxCounter = link[d].rtxCounter + 1 /\ link'[d].code = link[d].code
        /\ link'[d].isInitiating /\ \A e \in Pairs : e # d => link'[e] = link[e]
    BY <1>0, <2>1 DEF Links
  <2>3. Request(d)' = Request(d)
    BY <2>2 DEF Request
  <2> QED BY <1>0, <2>1, <2>2, <2>3, CountRequest
<1>6. ASSUME NEW d \in Pairs, GiveUp(d) \/ NotifyDrbActivated(d) PROVE CountInv'
  <2>1. /\ net' = net /\ link[d] \in Links
        /\ \/ link' = [link EXCEPT ![d].t5080 = FALSE]
           \/ link' = [link EXCEPT ![d].pendingDrb = FALSE, ![d].activeDrb = TRUE]
    BY <1>0, <1>6 DEF GiveUp, NotifyDrbActivated
  <2>2. SameCount(d) /\ \A e \in Pairs : e # d => link'[e] = link[e]
    BY <1>0, <2>1 DEF SameCount, Links
  <2>3. \A e \in Pairs : SameCount(e)
    BY <2>2 DEF SameCount
  <2>4. \A m \in Message : net'[m] <= net[m]
    BY <1>0, <2>1 DEF TypeOK
  <2> QED BY <1>0, <2>3, <2>4, CountDrain
<1>7. CASE UNCHANGED vars
  <2>1. \A e \in Pairs : SameCount(e)
    BY <1>7 DEF vars, SameCount
  <2>2. \A m \in Message : net'[m] <= net[m]
    BY <1>0, <1>7 DEF vars, TypeOK
  <2> QED BY <1>0, <2>1, <2>2, CountDrain
<1> QED BY <1>1, <1>2, <1>3, <1>4, <1>5, <1>6, <1>7, ProseAssumption
     DEF Next, T5080Expiry

\* A link never has more messages in flight than Requests were sent for it.
THEOREM ProseAnswersBounded == Spec => []AnswersBounded
<1>1. CountInv => AnswersBounded
  BY DEF CountInv
<1> QED BY <1>1, InitCount, NextCount, PTL DEF Spec

=============================================================================
