-------------------------- MODULE NrSlUeProseDiscovery --------------------------
(***************************************************************************)
(* Discovery by the ProSe layer (src/model/nr-sl-ue-prose.cc): UEs         *)
(* announce applications and relay services (model A) or ask for them      *)
(* (model B) once per discovery interval, other UEs of the destination     *)
(* group listen or answer.  The two maps of the code, m_discoveryMap and   *)
(* m_relayMap, are kept as one map of services: <<"app", code>> and        *)
(* <<"relay", code>>.  The role of a relay service includes its model.     *)
(*                                                                         *)
(* SendDiscovery schedules its own repetition and nothing ever cancels it: *)
(* what a pending event does is decided by the entry the map holds when it *)
(* fires.  left counts the ticks until then.  A message is one copy for    *)
(* each other UE, which receives it, ignores it or loses it.               *)
(***************************************************************************)
EXTENDS Naturals, Functions, Bags

CONSTANTS
  UE,           \* the UEs, identified by their layer-2 id
  Group,        \* layer-2 ids of groups
  Service,      \* <<"app", code>> and <<"relay", code>>
  Scenario,     \* Scenario[u]: the <<service, role, dst>> u may start
  CodeModulus,  \* relay codes are sent in three octets: 2^24
  Interval,     \* m_discoveryInterval in ticks
  MaxStarts,    \* MaxStarts[u]: bound on the Add... calls of u
  MaxLost       \* bound on the messages the radio loses

AppRoles == {"Monitoring", "Announcing", "Discoveree", "Discoverer"}
RelayRoles == {"RemoteModelA", "RelayModelA", "RelayModelB", "RemoteModelB"}
Roles == AppRoles \cup RelayRoles
L2Id == UE \cup Group

ASSUME DiscoveryAssumption ==
  /\ Group \cap UE = {} /\ Service \subseteq {"app", "relay"} \X Nat
  /\ \A u \in UE : \A x \in Scenario[u] :
       /\ x[1] \in Service /\ x[3] \in Group
       /\ x[2] \in IF x[1][1] = "app" THEN AppRoles ELSE RelayRoles
  /\ CodeModulus \in Nat \ {0} /\ Interval \in Nat \ {0}
  /\ MaxStarts \in [UE -> Nat] /\ MaxLost \in Nat

\* A service code as it arrives: app codes fill four octets, relay codes three.
WireService(s) == IF s[1] = "app" THEN s ELSE <<s[1], s[2] % CodeModulus>>

Info == [role : Roles, dst : L2Id]
NoInfo == [role |-> "none", dst |-> "none"]
Event == [u : UE, s : Service, dst : Group, left : 0 .. Interval]
Message == {m \in [src : UE, to : UE, dst : L2Id, s : {WireService(x) : x \in Service},
                   content : {"announcement", "query", "response", "empty"}] :
              m.src # m.to}

VARIABLES
  info,        \* info[u][s]: the entry of m_discoveryMap or m_relayMap
  events,      \* scheduled SendDiscovery and SendRelayDiscovery, a bag
  monitored,   \* m_sidelinkRxDestinations of each UE
  activeRbs,   \* m_activeSlDiscoveryRbs of each UE
  net,         \* copies of messages in flight, a bag
  discovered,  \* receptions m_discoveryTrace has reported, as <<to, src, s>>
  started,     \* started[u][s]: Add... calls so far
  lost         \* messages lost so far

vars == <<info, events, monitored, activeRbs, net, discovered, started, lost>>

TypeOK ==
  /\ info \in [UE -> [Service -> Info \cup {NoInfo}]]
  /\ IsABag(events) /\ BagToSet(events) \subseteq Event
  /\ IsABag(net) /\ BagToSet(net) \subseteq Message
  /\ monitored \in [UE -> SUBSET L2Id] /\ activeRbs \in [UE -> SUBSET L2Id]
  /\ discovered \subseteq UE \X UE \X {WireService(s) : s \in Service}
  /\ started \in [UE -> [Service -> Nat]] /\ lost \in 0 .. MaxLost

Init ==
  /\ info = [u \in UE |-> [s \in Service |-> NoInfo]]
  /\ events = EmptyBag /\ net = EmptyBag
  /\ monitored = [u \in UE |-> {}] /\ activeRbs = [u \in UE |-> {}]
  /\ discovered = {} /\ started = [u \in UE |-> [s \in Service |-> 0]]
  /\ lost = 0

-----------------------------------------------------------------------------
(* SendDiscovery and SendRelayDiscovery.                                   *)

Announces(role) == role \in {"Announcing", "RelayModelA"}
Asks(role) == role \in {"Discoverer", "RemoteModelB"}
Answers(role) == role \in {"Discoveree", "RelayModelB"}
Listens(role) == role \in {"Monitoring", "RemoteModelA"}

\* What a UE sends is decided by the role its map holds now, a header that was
\* never filled in if that is the role of a listener.
Content(role) == CASE Announces(role) -> "announcement"
                   [] Asks(role) -> "query"
                   [] Answers(role) -> "response"
                   [] Listens(role) -> "empty"

\* Mutant: answers are repeated, too.
IsRepeatedAlways(role) == ~Listens(role)

\* Announcements and queries are repeated, answers are not.
IsRepeated(role) == Announces(role) \/ Asks(role)

One(x) == SetToBag({x})

\* A message of u, one copy for each other UE.
Copies(u, s, dst, content) ==
  SetToBag({m \in Message : /\ m.src = u /\ m.dst = dst /\ m.content = content
                            /\ m.s = WireService(s)})

\* Mutant: the repetition comes one tick late.
NextEventLate(u, s, dst) ==
  One([u |-> u, s |-> s, dst |-> dst, left |-> Interval + 1])

NextEvent(u, s, dst) == One([u |-> u, s |-> s, dst |-> dst, left |-> Interval])

\* Mutant: the next event is scheduled before the map is read.
SendDiscoveryForever(u, s, dst, i, evs, msgs) ==
  /\ events' = evs (+) NextEvent(u, s, dst)
  /\ \/ i[s] = NoInfo /\ net' = msgs /\ UNCHANGED activeRbs
     \/ /\ i[s] # NoInfo
        /\ activeRbs' = [activeRbs EXCEPT ![u] = @ \cup {dst}]
        /\ net' = msgs (+) Copies(u, s, dst, Content(i[s].role))

\* u calls SendDiscovery (s, dst) with the entries i of its map; evs and msgs
\* are the events and messages there are besides.
SendDiscovery(u, s, dst, i, evs, msgs) ==
  \/ i[s] = NoInfo /\ events' = evs /\ net' = msgs /\ UNCHANGED activeRbs
  \/ /\ i[s] # NoInfo
     /\ events' = IF IsRepeated(i[s].role) THEN evs (+) NextEvent(u, s, dst) ELSE evs
     /\ activeRbs' = [activeRbs EXCEPT ![u] = @ \cup {dst}]
     /\ net' = msgs (+) Copies(u, s, dst, Content(i[s].role))

-----------------------------------------------------------------------------
(* What the scenario and the simulator call.                               *)

\* Mutant: only the group is monitored, as if nobody ever answered.
ConfigureGroupOnly(u, dst) == monitored' = [monitored EXCEPT ![u] = @ \cup {dst}]

\* MonitorSelfL2Id and MonitorL2Id; nothing ever ends the monitoring.
ConfigureL2IdMonitoring(u, dst) ==
  monitored' = [monitored EXCEPT ![u] = @ \cup {u, dst}]

\* The entry after an Add: insert leaves an application's entry as it is.
Inserted(u, s, new) ==
  IF info[u][s] = NoInfo THEN [info[u] EXCEPT ![s] = new] ELSE info[u]

\* AddDiscoveryApp and AddRelayDiscovery; the latter asserts that the code is new.
Add(u, s, role, dst) ==
  /\ SumFunction(started[u]) < MaxStarts[u]
  /\ s[1] = "relay" => info[u][s] = NoInfo
  /\ LET i == Inserted(u, s, [role |-> role, dst |-> dst])
     IN  /\ info' = [info EXCEPT ![u] = i]
         /\ \/ IsRepeated(role) /\ SendDiscovery(u, s, dst, i, events, net)
            \/ ~IsRepeated(role) /\ UNCHANGED <<events, activeRbs, net>>
  /\ ConfigureL2IdMonitoring(u, dst)
  /\ started' = [started EXCEPT ![u][s] = @ + 1]
  /\ UNCHANGED <<discovered, lost>>

\* RemoveDiscoveryApp and RemoveRelayDiscovery, called with the stored role.
Remove(u, s) ==
  /\ info[u][s] # NoInfo
  /\ info' = [info EXCEPT ![u][s] = NoInfo]
  /\ UNCHANGED <<events, monitored, activeRbs, net, discovered, started, lost>>

\* A scheduled call of SendDiscovery or SendRelayDiscovery.
Fire(e) ==
  /\ e.left = 0 /\ BagIn(e, events)
  /\ SendDiscovery(e.u, e.s, e.dst, info[e.u], events (-) One(e), net)
  /\ UNCHANGED <<info, monitored, discovered, started, lost>>

\* IsMonitoringApp and IsMonitoringRelay.
IsMonitoring(content, role) ==
  \/ content = "announcement" /\ Listens(role)
  \/ content = "query" /\ Answers(role)
  \/ content = "response" /\ Asks(role)

Without(m) == net (-) One(m)

\* The PHY passes on what is sent to a monitored id; DoReceiveNrSlDiscovery
\* reports what the UE is interested in and answers queries.
Interested(m) ==
  /\ m.dst \in monitored[m.to]
  /\ m.s \in Service /\ info[m.to][m.s] # NoInfo
  /\ IsMonitoring(m.content, info[m.to][m.s].role)

\* Mutant: the answer goes to the group of the service.
AnswerToGroup(m) ==
  IF m.content = "query"
  THEN SendDiscovery(m.to, m.s, info[m.to][m.s].dst, info[m.to], events, Without(m))
  ELSE net' = Without(m) /\ UNCHANGED <<events, activeRbs>>

Answer(m) ==
  IF m.content = "query"
  THEN SendDiscovery(m.to, m.s, m.src, info[m.to], events, Without(m))
  ELSE net' = Without(m) /\ UNCHANGED <<events, activeRbs>>

DoReceiveNrSlDiscovery(m) ==
  /\ BagIn(m, net) /\ Interested(m)
  /\ discovered' = discovered \cup {<<m.to, m.src, m.s>>}
  /\ Answer(m)
  /\ UNCHANGED <<info, monitored, started, lost>>

Ignore(m) ==
  /\ BagIn(m, net) /\ ~Interested(m)
  /\ net' = Without(m)
  /\ UNCHANGED <<info, events, monitored, activeRbs, discovered, started, lost>>

Lose(m) ==
  /\ BagIn(m, net) /\ lost < MaxLost
  /\ net' = Without(m) /\ lost' = lost + 1
  /\ UNCHANGED <<info, events, monitored, activeRbs, discovered, started>>

\* Time passes when no event is due; messages take less than a tick.
Tick ==
  /\ net = EmptyBag
  /\ \A e \in BagToSet(events) : e.left > 0
  /\ events' = [e \in {[x EXCEPT !.left = @ - 1] : x \in BagToSet(events)} |->
                  events[[e EXCEPT !.left = @ + 1]]]
  /\ UNCHANGED <<info, monitored, activeRbs, net, discovered, started, lost>>

Call == \E u \in UE : \/ \E x \in Scenario[u] : Add(u, x[1], x[2], x[3])
                      \/ \E s \in Service : Remove(u, s)
Receive(m) == DoReceiveNrSlDiscovery(m) \/ Ignore(m)

Run == \/ \E e \in BagToSet(events) : Fire(e)
       \/ \E m \in BagToSet(net) : Receive(m)
       \/ Tick

Next == Call \/ Run \/ \E m \in BagToSet(net) : Lose(m)

Spec == Init /\ [][Next]_vars

\* Events are executed, messages arrive and time passes.
FairSpec == Spec /\ WF_vars(Run)

-----------------------------------------------------------------------------
(* What discovery promises.                                                *)

Pending(u, s) == {e \in BagToSet(events) : e.u = u /\ e.s = s}

\* A service is sent more than once per interval only if it was started more
\* than once: firing, answering and removing never add a chain of events.
OneChainPerStart ==
  \A u \in UE, s \in Service :
    SumFunctionOnSet(events, Pending(u, s)) <= started[u][s]

\* A discoveree "responding to requests" sends its responses to the UE that
\* asked; one reaches a whole group only if the service was started again
\* while events of its former role were pending, or over another role.
ResponsesAreSolicited ==
  \A m \in BagToSet(net) : (m.content = "response" /\ m.dst \in Group)
    => \E s \in Service : WireService(s) = m.s /\ started[m.src][s] > 1

\* u's messages about s interest v, which monitors the group they go to.
Meet(u, v, s) ==
  LET i == info[u][s] IN
  /\ u # v /\ WireService(s) = s
  /\ Announces(i.role) \/ Asks(i.role)
  /\ i.dst \in monitored[v] /\ IsMonitoring(Content(i.role), info[v][s].role)

Found(u, v, s) == IF Asks(info[u][s].role) THEN <<u, v, s>> \in discovered
                                           ELSE <<v, u, s>> \in discovered

\* As long as both stay as they are, a monitoring UE discovers an announcing
\* one, and an asking UE gets the answer, although messages get lost.
ServicesAreDiscovered ==
  \A u, v \in UE, s \in Service :
    Meet(u, v, s) ~> (Found(u, v, s) \/ ~Meet(u, v, s))

\* After a service is removed its events come to an end, although nothing
\* cancels them.
RemovedServicesFallSilent ==
  \A u \in UE, s \in Service :
    (info[u][s] = NoInfo) ~> (Pending(u, s) = {} \/ info[u][s] # NoInfo)
=============================================================================
