----------------------- MODULE NrSlUeProseDiscoveryProofs -----------------------
(***************************************************************************)
(* What discovery promises, for any UEs, groups, services and scenarios:   *)
(* no message and no event is of a form the code does not handle, answers  *)
(* go to the UE that asked, and a service is repeated at most as often per *)
(* interval as it was started.                                             *)
(*                                                                         *)
(* Events and messages are bags.  The first part says what adding to a bag *)
(* and taking from it does.                                                *)
(***************************************************************************)
EXTENDS NrSlUeProseDiscovery, ListProofs

-----------------------------------------------------------------------------
(* Bags.                                                                   *)

\* Adding one copy of each member of a set.
LEMMA BagAdd ==
  ASSUME NEW B, IsABag(B), NEW S
  PROVE  /\ IsABag(B (+) SetToBag(S))
         /\ BagToSet(B (+) SetToBag(S)) = BagToSet(B) \cup S
         /\ \A e \in BagToSet(B) \cup S :
              (B (+) SetToBag(S))[e] = (IF e \in BagToSet(B) THEN B[e] ELSE 0)
                                         + (IF e \in S THEN 1 ELSE 0)
<1> DEFINE C == B (+) SetToBag(S)
<1>1. C = [e \in (DOMAIN B) \cup S |->
             (IF e \in DOMAIN B THEN B[e] ELSE 0) + (IF e \in S THEN 1 ELSE 0)]
  BY DEF SetToBag, (+)
<1>2. ASSUME NEW e \in (DOMAIN B) \cup S
      PROVE  C[e] \in {n \in Nat : n > 0}
  BY <1>1 DEF IsABag
<1>3. DOMAIN C = (DOMAIN B) \cup S
  BY <1>1
<1> QED BY <1>1, <1>2, <1>3 DEF IsABag, BagToSet

\* Taking one copy of a member.
LEMMA BagRemove ==
  ASSUME NEW B, IsABag(B), NEW x \in BagToSet(B)
  PROVE  /\ IsABag(B (-) SetToBag({x}))
         /\ BagToSet(B (-) SetToBag({x})) = IF B[x] = 1 THEN BagToSet(B) \ {x}
                                                        ELSE BagToSet(B)
         /\ \A e \in BagToSet(B (-) SetToBag({x})) :
              (B (-) SetToBag({x}))[e] = IF e = x THEN B[e] - 1 ELSE B[e]
<1> DEFINE C == B (-) SetToBag({x})
           D == [e \in DOMAIN B |-> IF e = x THEN B[e] - 1 ELSE B[e]]
<1>1. C = [e \in {d \in DOMAIN D : D[d] > 0} |-> D[e]]
  BY DEF SetToBag, (-)
<1>2. DOMAIN C = {d \in DOMAIN B : D[d] > 0}
  BY <1>1
<1>3. \A e \in DOMAIN B : B[e] \in Nat /\ B[e] > 0
  BY DEF IsABag
<1>4. \A e \in DOMAIN B : D[e] \in Nat
  BY <1>3
<1>5. \A e \in DOMAIN B : D[e] > 0 <=> (e # x \/ B[x] # 1)
  BY <1>3 DEF BagToSet
<1>6. x \in DOMAIN B
  BY DEF BagToSet
<1>7. DOMAIN C = IF B[x] = 1 THEN DOMAIN B \ {x} ELSE DOMAIN B
  BY <1>2, <1>5, <1>6
<1>8. \A e \in DOMAIN C : C[e] = D[e] /\ e \in DOMAIN B /\ D[e] > 0
  BY <1>1, <1>2
<1>9. C = [e \in DOMAIN C |-> C[e]]
  BY <1>1
<1>10. IsABag(C)
  <2> HIDE DEF C, D
  <2> QED BY <1>4, <1>8, <1>9 DEF IsABag
<1> QED BY <1>7, <1>8, <1>10 DEF BagToSet

-----------------------------------------------------------------------------
(* Sending.                                                                *)

Repetition(u, s, dst) == [u |-> u, s |-> s, dst |-> dst, left |-> Interval]

\* What u may put on the air about s with the entry i of its map.
Sent(m, u, s, dst, i) ==
  /\ m \in Message /\ m.src = u /\ m.dst = dst /\ m.s = WireService(s)
  /\ m.content = Content(i.role)

MapType == [Service -> Info \cup {NoInfo}]

\* SendDiscovery schedules at most its own repetition and sends at most the
\* message of the entry the map holds.
SentOnly(u, s, dst, entry, evs, msgs) ==
  /\ IsABag(events') /\ IsABag(net')
  /\ \A e \in BagToSet(events') :
       \/ e \in BagToSet(evs)
       \/ /\ entry \in Info /\ IsRepeated(entry.role) /\ e = Repetition(u, s, dst)
  /\ \A m \in BagToSet(net') :
       m \in BagToSet(msgs) \/ (entry \in Info /\ Sent(m, u, s, dst, entry))
  /\ activeRbs' \in {activeRbs, [activeRbs EXCEPT ![u] = @ \cup {dst}]}

\* SendDiscovery does no more than SentOnly allows.
LEMMA SendFacts ==
  ASSUME NEW u \in UE, NEW s \in Service, NEW dst, NEW i \in MapType, NEW evs, NEW msgs,
         IsABag(evs), IsABag(msgs), SendDiscovery(u, s, dst, i, evs, msgs)
  PROVE  SentOnly(u, s, dst, i[s], evs, msgs)
<1>1. CASE i[s] = NoInfo /\ events' = evs /\ net' = msgs /\ UNCHANGED activeRbs
  BY <1>1 DEF SentOnly
<1>2. CASE /\ i[s] # NoInfo
           /\ events' = IF IsRepeated(i[s].role) THEN evs (+) NextEvent(u, s, dst) ELSE evs
           /\ activeRbs' = [activeRbs EXCEPT ![u] = @ \cup {dst}]
           /\ net' = msgs (+) Copies(u, s, dst, Content(i[s].role))
  <2>1. i[s] \in Info
    BY <1>2 DEF MapType
  <2>2. /\ IsABag(evs (+) NextEvent(u, s, dst))
        /\ BagToSet(evs (+) NextEvent(u, s, dst)) = BagToSet(evs) \cup {Repetition(u, s, dst)}
    BY BagAdd DEF NextEvent, One, Repetition
  <2> DEFINE M == {m \in Message : /\ m.src = u /\ m.dst = dst
                                   /\ m.content = Content(i[s].role)
                                   /\ m.s = WireService(s)}
  <2>3. Copies(u, s, dst, Content(i[s].role)) = SetToBag(M)
    BY DEF Copies
  <2>4. IsABag(net') /\ BagToSet(net') = BagToSet(msgs) \cup M
    <3> HIDE DEF M
    <3> QED BY <1>2, <2>3, BagAdd
  <2>5. \A m \in M : Sent(m, u, s, dst, i[s])
    BY DEF Sent
  <2>6. /\ IsABag(events')
        /\ \A e \in BagToSet(events') :
             \/ e \in BagToSet(evs)
             \/ IsRepeated(i[s].role) /\ e = Repetition(u, s, dst)
    BY <1>2, <2>2
  <2> HIDE DEF M
  <2> QED BY <1>2, <2>1, <2>4, <2>5, <2>6 DEF SentOnly
<1> QED BY <1>1, <1>2 DEF SendDiscovery

-----------------------------------------------------------------------------
(* The inductive invariant.                                                *)

\* Every event and every entry goes back to a start of its service.
StartsAreCounted ==
  /\ \A e \in BagToSet(events) : started[e.u][e.s] > 0
  /\ \A u \in UE, s \in Service : info[u][s] # NoInfo => started[u][s] > 0

\* An answering entry has events pending only if the service was started twice:
\* the start of an answering role schedules nothing.
AnsweringEventsAreLeftOver ==
  \A e \in BagToSet(events) :
    info[e.u][e.s] # NoInfo /\ Answers(info[e.u][e.s].role) => started[e.u][e.s] > 1

DiscoveryInv ==
  TypeOK /\ StartsAreCounted /\ AnsweringEventsAreLeftOver /\ ResponsesAreSolicited

\* The parts of TypeOK that the bags are about.
BagsTyped ==
  /\ IsABag(events) /\ BagToSet(events) \subseteq Event
  /\ IsABag(net) /\ BagToSet(net) \subseteq Message
  /\ activeRbs \in [UE -> SUBSET L2Id]

\* A message of an answering entry to a group, if the service was started twice.
Excused(m) ==
  \E s \in Service : WireService(s) = m.s /\ started[m.src][s] > 1

\* The type of a bag is that of its elements.
LEMMA SentTyped ==
  ASSUME BagsTyped, NEW u \in UE, NEW s \in Service, NEW dst \in L2Id, NEW entry,
         IsRepeated(entry.role) => dst \in Group,
         NEW evs, BagToSet(evs) \subseteq Event,
         NEW msgs, BagToSet(msgs) \subseteq Message,
         SentOnly(u, s, dst, entry, evs, msgs)
  PROVE  BagsTyped'
<1>1. entry \in Info /\ IsRepeated(entry.role) => Repetition(u, s, dst) \in Event
  BY DiscoveryAssumption DEF Repetition, Event
<1>2. BagToSet(events') \subseteq Event
  BY <1>1 DEF SentOnly
<1>3. BagToSet(net') \subseteq Message
  BY DEF SentOnly, Sent
<1>4. activeRbs' \in [UE -> SUBSET L2Id]
  BY DEF SentOnly, BagsTyped
<1> QED BY <1>2, <1>3, <1>4 DEF SentOnly, BagsTyped

\* Without an element a bag is still a bag of the others.
LEMMA TakenTyped ==
  ASSUME NEW B, IsABag(B), NEW x \in BagToSet(B)
  PROVE  IsABag(B (-) One(x)) /\ BagToSet(B (-) One(x)) \subseteq BagToSet(B)
<1>1. /\ IsABag(B (-) One(x))
      /\ BagToSet(B (-) One(x)) = IF B[x] = 1 THEN BagToSet(B) \ {x} ELSE BagToSet(B)
  BY BagRemove DEF One
<1> QED BY <1>1

\* Initially nothing is stored, scheduled or sent.
LEMMA DiscoveryInit == Init => DiscoveryInv
<1> SUFFICES ASSUME Init PROVE DiscoveryInv
  OBVIOUS
<1>1. IsABag(EmptyBag) /\ BagToSet(EmptyBag) = {}
  BY DEF EmptyBag, SetToBag, IsABag, BagToSet
<1>2. TypeOK
  BY <1>1, DiscoveryAssumption DEF Init, TypeOK
<1>3. StartsAreCounted /\ AnsweringEventsAreLeftOver /\ ResponsesAreSolicited
  BY <1>1 DEF Init, StartsAreCounted, AnsweringEventsAreLeftOver, ResponsesAreSolicited
<1> QED BY <1>2, <1>3 DEF DiscoveryInv

\* Answering never repeats, announcing and asking are no answers.
LEMMA RoleFacts ==
  ASSUME NEW role
  PROVE  /\ Answers(role) => ~IsRepeated(role)
         /\ role \in Roles /\ Content(role) = "response" => Answers(role)
  BY DEF Answers, Announces, Asks, Listens, IsRepeated, Content, Roles, AppRoles, RelayRoles

\* A message that SendDiscovery sends to a group as an answer has a leftover
\* event or a second start behind it.
LEMMA SentExcused ==
  ASSUME DiscoveryInv, NEW u \in UE, NEW s \in Service, NEW dst, NEW entry,
         NEW evs, NEW msgs, BagToSet(msgs) \subseteq BagToSet(net),
         SentOnly(u, s, dst, entry, evs, msgs),
         entry \in Info /\ Answers(entry.role) /\ dst \in Group => started'[u][s] > 1,
         \A v \in UE, x \in Service : started[v][x] <= started'[v][x],
         started' \in [UE -> [Service -> Nat]]
  PROVE  ResponsesAreSolicited'
<1> SUFFICES ASSUME NEW m \in BagToSet(net'), m.content = "response", m.dst \in Group
             PROVE  Excused(m)'
  BY DEF ResponsesAreSolicited, Excused
<1>1. m \in BagToSet(msgs) \/ (entry \in Info /\ Sent(m, u, s, dst, entry))
  BY DEF SentOnly
<1>2. CASE m \in BagToSet(msgs)
  <2>1. m \in Message
    BY <1>2 DEF DiscoveryInv, TypeOK
  <2>2. PICK x \in Service : WireService(x) = m.s /\ started[m.src][x] > 1
    BY <1>2 DEF DiscoveryInv, ResponsesAreSolicited
  <2>3. m.src \in UE
    BY <2>1 DEF Message
  <2>4. started'[m.src][x] > 1
    BY <2>2, <2>3 DEF DiscoveryInv, TypeOK
  <2> QED BY <2>2, <2>4 DEF Excused
<1>3. CASE entry \in Info /\ Sent(m, u, s, dst, entry)
  <2>1. Answers(entry.role)
    BY <1>3, RoleFacts DEF Sent, Info
  <2>2. started'[u][s] > 1 /\ m.src = u /\ WireService(s) = m.s
    BY <1>3, <2>1 DEF Sent
  <2> QED BY <2>2 DEF Excused
<1> QED BY <1>1, <1>2, <1>3

-----------------------------------------------------------------------------
(* The steps.                                                              *)

\* A start: the entry that is inserted, or the one that was there, is sent.
LEMMA DiscoveryAdd ==
  ASSUME DiscoveryInv, NEW u \in UE, NEW x \in Scenario[u], Add(u, x[1], x[2], x[3])
  PROVE  DiscoveryInv'
<1> DEFINE s == x[1]
           role == x[2]
           dst == x[3]
           new == [role |-> role, dst |-> dst]
           i == Inserted(u, s, new)
<1>1. s \in Service /\ dst \in Group /\ role \in Roles
  BY DiscoveryAssumption DEF Roles
<1>2. new \in Info /\ info[u] \in MapType
  BY <1>1 DEF Info, L2Id, DiscoveryInv, TypeOK, MapType
<1>3. i \in MapType /\ i[s] # NoInfo
  <2>1. new # NoInfo
    BY <1>1 DEF NoInfo, Roles, AppRoles, RelayRoles
  <2> QED BY <1>1, <1>2, <2>1 DEF Inserted, MapType
<1>4. info' = [info EXCEPT ![u] = i]
  BY DEF Add
<1>5. started' = [started EXCEPT ![u][s] = @ + 1]
  BY DEF Add
<1>6. started \in [UE -> [Service -> Nat]]
  BY DEF DiscoveryInv, TypeOK
<1>7. /\ started' \in [UE -> [Service -> Nat]]
      /\ \A v \in UE, y \in Service : started[v][y] <= started'[v][y]
      /\ started'[u][s] = started[u][s] + 1
  BY <1>1, <1>5, <1>6
<1>8. \/ SentOnly(u, s, dst, i[s], events, net)
      \/ UNCHANGED <<events, activeRbs, net>>
  <2>1. \/ SendDiscovery(u, s, dst, i, events, net)
        \/ UNCHANGED <<events, activeRbs, net>>
    BY DEF Add
  <2>2. IsABag(events) /\ IsABag(net)
    BY DEF DiscoveryInv, TypeOK
  <2> HIDE DEF i, s, dst
  <2> QED BY <1>1, <1>3, <2>1, <2>2, SendFacts
<1>9. /\ \A v \in UE, y \in Service : (v # u \/ y # s) => info'[v][y] = info[v][y]
      /\ info'[u][s] = IF info[u][s] = NoInfo THEN new ELSE info[u][s]
      /\ info' \in [UE -> [Service -> Info \cup {NoInfo}]]
  <2>1. info \in [UE -> [Service -> Info \cup {NoInfo}]]
    BY DEF DiscoveryInv, TypeOK
  <2>2. i = IF info[u][s] = NoInfo THEN [info[u] EXCEPT ![s] = new] ELSE info[u]
    BY DEF Inserted
  <2> HIDE DEF i, new, s
  <2> QED BY <1>1, <1>2, <1>4, <2>1, <2>2
<1>10. i[s] = info'[u][s]
  BY <1>4, DiscoveryInv DEF DiscoveryInv, TypeOK
<1>11. BagsTyped /\ BagToSet(events) \subseteq Event /\ BagToSet(net) \subseteq Message
  BY DEF DiscoveryInv, TypeOK, BagsTyped
<1> HIDE DEF i, new, s, role, dst
<1>12. BagsTyped'
  <2>1. CASE SentOnly(u, s, dst, i[s], events, net)
    <3>1. dst \in L2Id
      BY <1>1 DEF L2Id
    <3> QED BY <1>1, <1>11, <2>1, <3>1, SentTyped
  <2>2. CASE UNCHANGED <<events, activeRbs, net>>
    BY <1>11, <2>2 DEF BagsTyped
  <2> QED BY <1>8, <2>1, <2>2
<1>13. TypeOK'
  <2>1. monitored' = [monitored EXCEPT ![u] = @ \cup {u, dst}] /\ UNCHANGED <<discovered, lost>>
    BY DEF Add, ConfigureL2IdMonitoring, dst
  <2>2. monitored' \in [UE -> SUBSET L2Id]
    BY <1>1, <2>1 DEF DiscoveryInv, TypeOK, L2Id
  <2> QED BY <1>7, <1>9, <1>12, <2>1, <2>2 DEF DiscoveryInv, TypeOK, BagsTyped
<1>14. \A e \in BagToSet(events') :
         e \in BagToSet(events) \/ (e.u = u /\ e.s = s /\ IsRepeated(i[s].role))
  <2>1. CASE SentOnly(u, s, dst, i[s], events, net)
    BY <2>1 DEF SentOnly, Repetition
  <2> QED BY <1>8, <2>1
<1>15. \A e \in BagToSet(events) : e.u \in UE /\ e.s \in Service /\ started[e.u][e.s] > 0
  BY <1>11 DEF Event, DiscoveryInv, StartsAreCounted
<1>16. started[u][s] \in Nat
  BY <1>1, <1>6
<1>17. StartsAreCounted'
  <2>1. \A e \in BagToSet(events') : started'[e.u][e.s] > 0
    <3> SUFFICES ASSUME NEW e \in BagToSet(events') PROVE started'[e.u][e.s] > 0
      OBVIOUS
    <3>1. CASE e.u = u /\ e.s = s
      BY <1>7, <1>16, <3>1
    <3>2. CASE e \in BagToSet(events)
      BY <1>6, <1>7, <1>15, <3>2
    <3> QED BY <1>14, <3>1, <3>2
  <2>2. \A v \in UE, y \in Service : info'[v][y] # NoInfo => started'[v][y] > 0
    <3> SUFFICES ASSUME NEW v \in UE, NEW y \in Service, info'[v][y] # NoInfo
                 PROVE  started'[v][y] > 0
      OBVIOUS
    <3>1. CASE v = u /\ y = s
      BY <1>7, <1>16, <3>1
    <3>2. CASE v # u \/ y # s
      <4>1. info[v][y] # NoInfo
        BY <1>9, <3>2
      <4>2. started[v][y] > 0
        BY <4>1 DEF DiscoveryInv, StartsAreCounted
      <4> QED BY <1>6, <1>7, <4>2
    <3> QED BY <3>1, <3>2
  <2> QED BY <2>1, <2>2 DEF StartsAreCounted
<1>18. AnsweringEventsAreLeftOver'
  <2> SUFFICES ASSUME NEW e \in BagToSet(events'),
                      info'[e.u][e.s] # NoInfo, Answers(info'[e.u][e.s].role)
               PROVE  started'[e.u][e.s] > 1
    BY DEF AnsweringEventsAreLeftOver
  <2>1. e \in BagToSet(events)
    BY <1>10, <1>14, RoleFacts
  <2>2. e.u \in UE /\ e.s \in Service /\ started[e.u][e.s] > 0
    BY <1>15, <2>1
  <2>3. CASE e.u = u /\ e.s = s
    BY <1>7, <1>16, <2>2, <2>3
  <2>4. CASE e.u # u \/ e.s # s
    <3>1. info'[e.u][e.s] = info[e.u][e.s]
      BY <1>9, <2>2, <2>4
    <3>2. started[e.u][e.s] > 1
      BY <2>1, <3>1 DEF DiscoveryInv, AnsweringEventsAreLeftOver
    <3> QED BY <1>6, <1>7, <2>2, <3>2
  <2> QED BY <2>3, <2>4
<1>19. ResponsesAreSolicited'
  <2>1. CASE SentOnly(u, s, dst, i[s], events, net)
    <3>1. IsRepeated(role) \/ UNCHANGED <<events, activeRbs, net>>
      BY DEF Add, role
    <3>2. CASE UNCHANGED <<events, activeRbs, net>>
      BY <1>6, <1>7, <1>11, <3>2 DEF DiscoveryInv, ResponsesAreSolicited, Message
    <3>3. CASE IsRepeated(role)
      <4>1. Answers(i[s].role) => info[u][s] # NoInfo
        BY <1>9, <1>10, <3>3, RoleFacts DEF new
      <4>2. Answers(i[s].role) => started[u][s] > 0
        BY <1>1, <4>1 DEF DiscoveryInv, StartsAreCounted
      <4>3. Answers(i[s].role) => started'[u][s] > 1
        BY <1>7, <1>16, <4>2
      <4> QED BY <1>1, <1>7, <2>1, <4>3, SentExcused
    <3> QED BY <3>1, <3>2, <3>3
  <2>2. CASE UNCHANGED <<events, activeRbs, net>>
    BY <1>6, <1>7, <1>11, <2>2 DEF DiscoveryInv, ResponsesAreSolicited, Message
  <2> QED BY <1>8, <2>1, <2>2
<1> QED BY <1>13, <1>17, <1>18, <1>19 DEF DiscoveryInv

\* A removal only forgets an entry.
LEMMA DiscoveryRemove ==
  ASSUME DiscoveryInv, NEW u \in UE, NEW s \in Service, Remove(u, s)
  PROVE  DiscoveryInv'
<1>1. /\ info' = [info EXCEPT ![u][s] = NoInfo]
      /\ UNCHANGED <<events, monitored, activeRbs, net, discovered, started, lost>>
  BY DEF Remove
<1>2. info \in [UE -> [Service -> Info \cup {NoInfo}]]
  BY DEF DiscoveryInv, TypeOK
<1>3. /\ info' \in [UE -> [Service -> Info \cup {NoInfo}]]
      /\ \A v \in UE, y \in Service : info'[v][y] # NoInfo => info'[v][y] = info[v][y]
  BY <1>1, <1>2
<1>4. TypeOK'
  BY <1>1, <1>3 DEF DiscoveryInv, TypeOK
<1>5. StartsAreCounted'
  BY <1>1, <1>3 DEF DiscoveryInv, StartsAreCounted
<1>6. \A e \in BagToSet(events) : e.u \in UE /\ e.s \in Service
  BY DEF DiscoveryInv, TypeOK, Event
<1>7. AnsweringEventsAreLeftOver'
  BY <1>1, <1>3, <1>6 DEF DiscoveryInv, AnsweringEventsAreLeftOver
<1>8. ResponsesAreSolicited'
  BY <1>1 DEF DiscoveryInv, ResponsesAreSolicited
<1> QED BY <1>4, <1>5, <1>7, <1>8 DEF DiscoveryInv

\* An event becomes at most its repetition, and sends what the map holds now.
LEMMA DiscoveryFire ==
  ASSUME DiscoveryInv, NEW e \in BagToSet(events), Fire(e)
  PROVE  DiscoveryInv'
<1> DEFINE u == e.u
           s == e.s
           dst == e.dst
           entry == info[u][s]
           evs == events (-) One(e)
<1>1. BagsTyped /\ BagToSet(events) \subseteq Event /\ BagToSet(net) \subseteq Message
  BY DEF DiscoveryInv, TypeOK, BagsTyped
<1>2. u \in UE /\ s \in Service /\ dst \in Group /\ dst \in L2Id
  BY <1>1 DEF Event, L2Id
<1>3. IsABag(evs) /\ BagToSet(evs) \subseteq BagToSet(events)
  BY <1>1, TakenTyped DEF BagsTyped
<1>4. /\ SendDiscovery(u, s, dst, info[u], evs, net)
      /\ UNCHANGED <<info, monitored, discovered, started, lost>>
  BY DEF Fire
<1>5. info[u] \in MapType
  BY <1>2 DEF MapType, DiscoveryInv, TypeOK
<1> HIDE DEF u, s, dst, evs
<1>6. SentOnly(u, s, dst, entry, evs, net)
  BY <1>1, <1>2, <1>3, <1>4, <1>5, SendFacts DEF BagsTyped
<1> HIDE DEF entry
<1>7. BagsTyped'
  <2>1. BagToSet(evs) \subseteq Event
    BY <1>1, <1>3
  <2> QED BY <1>1, <1>2, <1>6, <2>1, SentTyped
<1>8. TypeOK'
  BY <1>4, <1>7 DEF DiscoveryInv, TypeOK, BagsTyped
<1>9. \A f \in BagToSet(events') :
        f \in BagToSet(events) \/ (f.u = u /\ f.s = s /\ IsRepeated(entry.role))
  BY <1>3, <1>6 DEF SentOnly, Repetition
<1>10. started[u][s] > 0
  BY DEF DiscoveryInv, StartsAreCounted, u, s
<1>11. StartsAreCounted'
  BY <1>4, <1>9, <1>10 DEF DiscoveryInv, StartsAreCounted
<1>12. AnsweringEventsAreLeftOver'
  BY <1>4, <1>9, RoleFacts DEF DiscoveryInv, AnsweringEventsAreLeftOver, entry
<1>13. ResponsesAreSolicited'
  <2>1. entry \in Info /\ Answers(entry.role) => started'[u][s] > 1
    <3>1. entry \in Info => entry # NoInfo
      BY DEF Info, NoInfo, Roles, AppRoles, RelayRoles
    <3> QED BY <1>4, <3>1 DEF DiscoveryInv, AnsweringEventsAreLeftOver, entry, u, s
  <2>2. started' = started /\ started \in [UE -> [Service -> Nat]]
    BY <1>4 DEF DiscoveryInv, TypeOK
  <2>3. \A v \in UE, x \in Service : started[v][x] <= started'[v][x]
    BY <2>2
  <2> QED BY <1>2, <1>6, <2>1, <2>2, <2>3, SentExcused
<1> QED BY <1>8, <1>11, <1>12, <1>13 DEF DiscoveryInv

\* Messages that are consumed leave the bag of the others.
LEMMA DiscoveryTaken ==
  ASSUME DiscoveryInv, NEW m \in BagToSet(net), net' = Without(m), lost' \in 0 .. MaxLost,
         UNCHANGED <<info, events, monitored, activeRbs, started>>,
         discovered' \subseteq UE \X UE \X {WireService(s) : s \in Service}
  PROVE  DiscoveryInv'
<1>1. IsABag(net') /\ BagToSet(net') \subseteq BagToSet(net)
  BY TakenTyped DEF Without, DiscoveryInv, TypeOK
<1>2. TypeOK'
  BY <1>1 DEF DiscoveryInv, TypeOK
<1>3. StartsAreCounted'
  BY DEF DiscoveryInv, StartsAreCounted
<1>4. AnsweringEventsAreLeftOver'
  BY DEF DiscoveryInv, AnsweringEventsAreLeftOver
<1>5. ResponsesAreSolicited'
  BY <1>1 DEF DiscoveryInv, ResponsesAreSolicited
<1> QED BY <1>2, <1>3, <1>4, <1>5 DEF DiscoveryInv

\* A query is answered to the UE it came from, by an entry that does not repeat.
LEMMA DiscoveryReceive ==
  ASSUME DiscoveryInv, NEW m \in BagToSet(net), DoReceiveNrSlDiscovery(m)
  PROVE  DiscoveryInv'
<1>1. /\ m \in Message /\ m.src \in UE /\ m.to \in UE
      /\ m.s \in {WireService(s) : s \in Service}
  BY DEF DiscoveryInv, TypeOK, Message
<1>2. /\ m.s \in Service /\ info[m.to][m.s] # NoInfo
      /\ IsMonitoring(m.content, info[m.to][m.s].role)
  BY DEF DoReceiveNrSlDiscovery, Interested
<1>3. /\ discovered' = discovered \cup {<<m.to, m.src, m.s>>}
      /\ UNCHANGED <<info, monitored, started, lost>>
  BY DEF DoReceiveNrSlDiscovery
<1>4. discovered' \subseteq UE \X UE \X {WireService(s) : s \in Service}
  BY <1>1, <1>3 DEF DiscoveryInv, TypeOK
<1>5. Answer(m)
  BY DEF DoReceiveNrSlDiscovery
<1>6. CASE m.content # "query"
  <2>1. net' = Without(m) /\ UNCHANGED <<events, activeRbs>>
    BY <1>5, <1>6 DEF Answer
  <2>2. lost' \in 0 .. MaxLost
    BY <1>3 DEF DiscoveryInv, TypeOK
  <2> QED BY <1>3, <1>4, <2>1, <2>2, DiscoveryTaken
<1>7. CASE m.content = "query"
  <2> DEFINE u == m.to
             s == m.s
             dst == m.src
             entry == info[u][s]
             msgs == Without(m)
  <2>1. SendDiscovery(u, s, dst, info[u], events, msgs)
    BY <1>5, <1>7 DEF Answer
  <2>2. u \in UE /\ s \in Service /\ dst \in UE /\ dst \in L2Id /\ dst \notin Group
    BY <1>1, <1>2, DiscoveryAssumption DEF L2Id
  <2>3. Answers(entry.role)
    BY <1>2, <1>7 DEF IsMonitoring
  <2>4. info[u] \in MapType
    BY <2>2 DEF MapType, DiscoveryInv, TypeOK
  <2>5. IsABag(msgs) /\ BagToSet(msgs) \subseteq BagToSet(net)
    BY TakenTyped DEF Without, DiscoveryInv, TypeOK
  <2>6. BagsTyped /\ BagToSet(events) \subseteq Event /\ BagToSet(net) \subseteq Message
    BY DEF DiscoveryInv, TypeOK, BagsTyped
  <2> HIDE DEF u, s, dst, msgs
  <2>7. SentOnly(u, s, dst, entry, events, msgs)
    BY <2>1, <2>2, <2>4, <2>5, <2>6, SendFacts DEF BagsTyped
  <2> HIDE DEF entry
  <2>8. ~IsRepeated(entry.role)
    BY <2>3, RoleFacts
  <2>9. BagsTyped'
    <3>1. BagToSet(msgs) \subseteq Message
      BY <2>5, <2>6
    <3> QED BY <2>2, <2>6, <2>7, <2>8, <3>1, SentTyped
  <2>10. TypeOK'
    BY <1>3, <1>4, <2>9 DEF DiscoveryInv, TypeOK, BagsTyped
  <2>11. \A e \in BagToSet(events') : e \in BagToSet(events)
    BY <2>7, <2>8 DEF SentOnly
  <2>12. StartsAreCounted' /\ AnsweringEventsAreLeftOver'
    BY <1>3, <2>11 DEF DiscoveryInv, StartsAreCounted, AnsweringEventsAreLeftOver
  <2>13. ResponsesAreSolicited'
    <3>1. started' = started /\ started \in [UE -> [Service -> Nat]]
      BY <1>3 DEF DiscoveryInv, TypeOK
    <3>2. \A v \in UE, x \in Service : started[v][x] <= started'[v][x]
      BY <3>1
    <3> QED BY <2>2, <2>5, <2>7, <3>1, <3>2, SentExcused
  <2> QED BY <2>10, <2>12, <2>13 DEF DiscoveryInv
<1> QED BY <1>6, <1>7

\* An event as it was one tick ago.
Older(e) == [e EXCEPT !.left = @ + 1]
Aged(e) == [e EXCEPT !.left = @ - 1]

\* A tick brings every event closer and loses none.
LEMMA TickFacts ==
  ASSUME DiscoveryInv, Tick
  PROVE  /\ events' = [e \in {Aged(x) : x \in BagToSet(events)} |-> events[Older(e)]]
         /\ BagToSet(events') = {Aged(x) : x \in BagToSet(events)}
         /\ \A x \in BagToSet(events) : /\ Aged(x) \in Event /\ Older(Aged(x)) = x
                                        /\ Aged(x).u = x.u /\ Aged(x).s = x.s
<1>1. events' = [e \in {Aged(x) : x \in BagToSet(events)} |-> events[Older(e)]]
  BY DEF Tick, Aged, Older
<1>2. BagToSet(events') = {Aged(x) : x \in BagToSet(events)}
  BY <1>1 DEF BagToSet
<1>3. ASSUME NEW x \in BagToSet(events)
      PROVE  /\ Aged(x) \in Event /\ Older(Aged(x)) = x
             /\ Aged(x).u = x.u /\ Aged(x).s = x.s
  <2>1. x \in Event /\ x.left > 0
    BY DEF DiscoveryInv, TypeOK, Tick
  <2>2. Interval \in Nat
    BY DiscoveryAssumption
  <2>3. PICK u \in UE, s \in Service, dst \in Group, left \in 0 .. Interval :
          x = [u |-> u, s |-> s, dst |-> dst, left |-> left]
    BY <2>1 DEF Event
  <2>4. Aged(x) = [u |-> u, s |-> s, dst |-> dst, left |-> left - 1]
    BY <2>3 DEF Aged
  <2>5. Older(Aged(x)) = [u |-> u, s |-> s, dst |-> dst, left |-> (left - 1) + 1]
    BY <2>4 DEF Older
  <2>6. left > 0 /\ left - 1 \in 0 .. Interval /\ (left - 1) + 1 = left
    BY <2>1, <2>2, <2>3
  <2>7. Aged(x) \in Event
    BY <2>4, <2>6 DEF Event
  <2>8. Older(Aged(x)) = x
    BY <2>3, <2>5, <2>6
  <2> QED BY <2>3, <2>4, <2>7, <2>8
<1> QED BY <1>1, <1>2, <1>3

\* Time changes nothing but the time that is left.
LEMMA DiscoveryTick ==
  ASSUME DiscoveryInv, Tick
  PROVE  DiscoveryInv'
<1>1. UNCHANGED <<info, monitored, activeRbs, net, discovered, started, lost>>
  BY DEF Tick
<1>2. \A e \in BagToSet(events') : \E x \in BagToSet(events) :
        /\ e \in Event /\ Older(e) = x /\ e.u = x.u /\ e.s = x.s
  BY TickFacts
<1>3. IsABag(events')
  <2>1. DOMAIN events' = BagToSet(events')
    BY DEF BagToSet
  <2>2. \A e \in BagToSet(events') : events'[e] = events[Older(e)]
    BY TickFacts
  <2>3. \A x \in BagToSet(events) : events[x] \in {n \in Nat : n > 0}
    BY DEF DiscoveryInv, TypeOK, IsABag, BagToSet
  <2>4. \A e \in BagToSet(events') : events'[e] \in {n \in Nat : n > 0}
    BY <1>2, <2>2, <2>3
  <2>5. events' = [e \in DOMAIN events' |-> events'[e]]
    BY TickFacts
  <2> QED BY <2>1, <2>4, <2>5 DEF IsABag
<1>4. TypeOK'
  BY <1>1, <1>2, <1>3 DEF DiscoveryInv, TypeOK
<1>5. StartsAreCounted' /\ AnsweringEventsAreLeftOver' /\ ResponsesAreSolicited'
  <2>1. StartsAreCounted'
    BY <1>1, <1>2 DEF DiscoveryInv, StartsAreCounted
  <2>2. AnsweringEventsAreLeftOver'
    BY <1>1, <1>2 DEF DiscoveryInv, AnsweringEventsAreLeftOver
  <2> QED BY <1>1, <2>1, <2>2 DEF DiscoveryInv, ResponsesAreSolicited
<1> QED BY <1>4, <1>5 DEF DiscoveryInv

\* Every step keeps the invariant.
LEMMA DiscoveryStep == DiscoveryInv /\ [Next]_vars => DiscoveryInv'
<1> SUFFICES ASSUME DiscoveryInv, [Next]_vars PROVE DiscoveryInv'
  OBVIOUS
<1>1. CASE Call
  BY <1>1, DiscoveryAdd, DiscoveryRemove DEF Call
<1>2. ASSUME NEW e \in BagToSet(events), Fire(e) PROVE DiscoveryInv'
  BY <1>2, DiscoveryFire
<1>3. ASSUME NEW m \in BagToSet(net), DoReceiveNrSlDiscovery(m) PROVE DiscoveryInv'
  BY <1>3, DiscoveryReceive
<1>4. ASSUME NEW m \in BagToSet(net), Ignore(m) PROVE DiscoveryInv'
  BY <1>4, DiscoveryTaken DEF Ignore, DiscoveryInv, TypeOK
<1>5. ASSUME NEW m \in BagToSet(net), Lose(m) PROVE DiscoveryInv'
  <2>1. lost' \in 0 .. MaxLost
    BY <1>5, DiscoveryAssumption DEF Lose, DiscoveryInv, TypeOK
  <2>2. discovered' \subseteq UE \X UE \X {WireService(s) : s \in Service}
    BY <1>5 DEF Lose, DiscoveryInv, TypeOK
  <2> QED BY <1>5, <2>1, <2>2, DiscoveryTaken DEF Lose
<1>6. CASE Tick
  BY <1>6, DiscoveryTick
<1>7. CASE UNCHANGED vars
  <2>1. TypeOK' /\ StartsAreCounted'
    BY <1>7 DEF vars, DiscoveryInv, TypeOK, StartsAreCounted
  <2>2. AnsweringEventsAreLeftOver' /\ ResponsesAreSolicited'
    BY <1>7 DEF vars, DiscoveryInv, AnsweringEventsAreLeftOver, ResponsesAreSolicited
  <2> QED BY <2>1, <2>2 DEF DiscoveryInv
<1> QED BY <1>1, <1>2, <1>3, <1>4, <1>5, <1>6, <1>7 DEF Next, Run, Receive

LEMMA DiscoveryAlways == Spec => []DiscoveryInv
<1> QED BY DiscoveryInit, DiscoveryStep, PTL DEF Spec

\* Type correctness: in particular nothing repeats a message to a single UE, no
\* header names a role that does not exist, and no event is later than one
\* m_discoveryInterval.
THEOREM DiscoveryTypeOK == Spec => []TypeOK
<1>1. DiscoveryInv => TypeOK
  BY DEF DiscoveryInv
<1> QED BY <1>1, DiscoveryAlways, PTL

\* DoReceiveNrSlDiscovery answers to the UE that asked; a response reaches a
\* whole group only if its service was started twice.
THEOREM DiscoveryResponsesAreSolicited == Spec => []ResponsesAreSolicited
<1>1. DiscoveryInv => ResponsesAreSolicited
  BY DEF DiscoveryInv
<1> QED BY <1>1, DiscoveryAlways, PTL

-----------------------------------------------------------------------------
(* Sums over finite sets.  SumFunctionOnSet adds in an arbitrary order; the *)
(* sum does not depend on it, nor on how the members are named.            *)

Chosen(s) == CHOOSE x \in s : TRUE

\* it maps every subset of S to the sum of f over it.
SumsUp(it, f, S) ==
  \A s \in SUBSET S :
    it[s] = IF s = {} THEN 0 ELSE f[Chosen(s)] + it[s \ {Chosen(s)}]

NatOn(f, S) == \A x \in S : f[x] \in Nat

\* The recursion of the sum has a solution.
LEMMA SumDef ==
  ASSUME NEW S, IsFiniteSet(S), NEW f, NatOn(f, S)
  PROVE  \E it \in [SUBSET S -> Nat] : SumsUp(it, f, S) /\ SumFunctionOnSet(f, S) = it[S]
<1> DEFINE n == Cardinality(S)
           Rec(it, s) == IF s = {} THEN 0 ELSE f[Chosen(s)] + it[s \ {Chosen(s)}]
           Good(k, it) == \A s \in SUBSET S : Cardinality(s) <= k => it[s] = Rec(it, s)
           G == {k \in 0 .. n : \E it \in [SUBSET S -> Nat] : Good(k, it)}
<1>1. \A s \in SUBSET S : IsFiniteSet(s) /\ Cardinality(s) \in 0 .. n
  <2>1. \A s \in SUBSET S : IsFiniteSet(s) /\ Cardinality(s) <= n
    BY FS_Subset
  <2>2. n \in Nat /\ \A s \in SUBSET S : Cardinality(s) \in Nat
    BY <2>1, FS_CardinalityType
  <2> QED BY <2>1, <2>2
<1>2. \A s \in SUBSET S : s # {} => /\ Chosen(s) \in s
                                    /\ s \ {Chosen(s)} \in SUBSET S
                                    /\ Cardinality(s \ {Chosen(s)}) = Cardinality(s) - 1
  <2> SUFFICES ASSUME NEW s \in SUBSET S, s # {}
               PROVE  /\ Chosen(s) \in s
                      /\ s \ {Chosen(s)} \in SUBSET S
                      /\ Cardinality(s \ {Chosen(s)}) = Cardinality(s) - 1
    OBVIOUS
  <2>1. Chosen(s) \in s
    BY DEF Chosen
  <2>2. Cardinality(s \ {Chosen(s)}) = Cardinality(s) - 1
    BY <1>1, <2>1, FS_RemoveElement
  <2> QED BY <2>1, <2>2
<1>3. n \in Nat
  BY FS_CardinalityType
<1>4. 0 \in G
  <2> DEFINE it == [s \in SUBSET S |-> 0]
  <2>1. \A s \in SUBSET S : Cardinality(s) <= 0 => s = {}
    <3>1. \A s \in SUBSET S : Cardinality(s) = 0 => s = {}
      BY <1>1, FS_EmptySet
    <3>2. \A s \in SUBSET S : Cardinality(s) <= 0 => Cardinality(s) = 0
      BY <1>1, <1>3
    <3> QED BY <3>1, <3>2
  <2>2. Good(0, it)
    BY <2>1
  <2>3. it \in [SUBSET S -> Nat]
    OBVIOUS
  <2>4. 0 \in 0 .. n
    BY <1>3
  <2> HIDE DEF it, Good, n
  <2> QED BY <2>2, <2>3, <2>4
<1>5. ASSUME NEW k \in 0 .. n - 1, k \in G
      PROVE  k + 1 \in G
  <2>1. PICK h \in [SUBSET S -> Nat] : Good(k, h)
    BY <1>5
  <2> DEFINE it == [s \in SUBSET S |-> Rec(h, s)]
  <2>2. it \in [SUBSET S -> Nat]
    <3>1. ASSUME NEW s \in SUBSET S PROVE Rec(h, s) \in Nat
      <4>1. s # {} => f[Chosen(s)] \in Nat /\ h[s \ {Chosen(s)}] \in Nat
        BY <1>2, <2>1 DEF NatOn
      <4> QED BY <4>1
    <3> HIDE DEF Rec
    <3> QED BY <3>1
  <2>3. ASSUME NEW s \in SUBSET S, Cardinality(s) <= k + 1
        PROVE  it[s] = Rec(it, s)
    <3>1. CASE s = {}
      BY <3>1
    <3>2. CASE s # {}
      <4> DEFINE r == s \ {Chosen(s)}
      <4>1. r \in SUBSET S /\ Cardinality(r) <= k
        BY <1>1, <1>2, <1>3, <2>3, <3>2
      <4>2. h[r] = Rec(h, r)
        BY <2>1, <4>1
      <4>3. it[r] = Rec(h, r)
        BY <4>1
      <4>4. it[s] = f[Chosen(s)] + h[r]
        BY <3>2
      <4>5. Rec(it, s) = f[Chosen(s)] + it[r]
        BY <3>2
      <4> QED BY <4>2, <4>3, <4>4, <4>5
    <3> QED BY <3>1, <3>2
  <2>4. Good(k + 1, it)
    BY <2>3
  <2>5. k + 1 \in 0 .. n
    BY <1>3
  <2> HIDE DEF it, Good, n
  <2> QED BY <2>2, <2>4, <2>5
<1>6. \A k \in 0 .. n : k \in G
  <2> HIDE DEF G, n
  <2> QED BY <1>3, <1>4, <1>5, InductionUpTo
<1>7. PICK it \in [SUBSET S -> Nat] : Good(n, it)
  <2>1. n \in G
    <3> HIDE DEF G, n
    <3> QED BY <1>3, <1>6
  <2> HIDE DEF Good
  <2> QED BY <2>1
<1>8. \A s \in SUBSET S : it[s] = Rec(it, s)
  BY SMTT(40), <1>1, <1>3, <1>7
<1> DEFINE Fix(h) == h = [s \in SUBSET S |->
                            IF s = {} THEN 0
                            ELSE f[CHOOSE x \in s : TRUE] + h[s \ {CHOOSE x \in s : TRUE}]]
           sol == CHOOSE h : Fix(h)
<1>9. SumFunctionOnSet(f, S) = sol[S]
  BY Zenon DEF SumFunctionOnSet, FoldFunctionOnSet, MapThenFoldSet
<1>10. Fix(it)
  BY <1>8 DEF Chosen
<1>11. Fix(sol)
  <2> HIDE DEF Fix
  <2> QED BY <1>10, Zenon
<1>12. SumsUp(sol, f, S)
  <2> HIDE DEF sol
  <2> QED BY <1>11 DEF SumsUp, Chosen
<1>13. sol \in [SUBSET S -> Nat]
  <2>1. sol = it
    <3> DEFINE E == {k \in 0 .. n : \A s \in SUBSET S : Cardinality(s) <= k => sol[s] = it[s]}
    <3> HIDE DEF sol
    <3>1. \A s \in SUBSET S : sol[s] = Rec(sol, s)
      BY <1>12 DEF SumsUp
    <3>2. 0 \in E
      <4>1. \A s \in SUBSET S : Cardinality(s) <= 0 => s = {}
        <5>1. \A s \in SUBSET S : Cardinality(s) = 0 => s = {}
          BY <1>1, FS_EmptySet
        <5>2. \A s \in SUBSET S : Cardinality(s) <= 0 => Cardinality(s) = 0
          BY <1>1, <1>3
        <5> QED BY <5>1, <5>2
      <4>2. sol[{}] = 0 /\ it[{}] = 0
        BY <1>8, <3>1
      <4> QED BY <1>3, <4>1, <4>2
    <3>3. ASSUME NEW k \in 0 .. n - 1, k \in E
          PROVE  k + 1 \in E
      <4>1. ASSUME NEW s \in SUBSET S, Cardinality(s) <= k + 1
            PROVE  sol[s] = it[s]
        <5>1. CASE s = {}
          BY <1>8, <3>1, <5>1
        <5>2. CASE s # {}
          <6>1. s \ {Chosen(s)} \in SUBSET S /\ Cardinality(s \ {Chosen(s)}) <= k
            BY <1>1, <1>2, <1>3, <4>1, <5>2
          <6>2. sol[s \ {Chosen(s)}] = it[s \ {Chosen(s)}]
            BY <3>3, <6>1
          <6> QED BY <1>8, <3>1, <5>2, <6>2
        <5> QED BY <5>1, <5>2
      <4>2. k + 1 \in 0 .. n
        BY <1>3
      <4> QED BY <4>1, <4>2
    <3>4. \A k \in 0 .. n : k \in E
      <4> HIDE DEF E, n
      <4> QED BY <1>3, <3>2, <3>3, InductionUpTo
    <3>5. \A s \in SUBSET S : sol[s] = it[s]
      BY <1>1, <1>3, <3>4
    <3>6. sol = [s \in SUBSET S |-> sol[s]]
      BY <1>11
    <3> QED BY <3>5, <3>6
  <2> HIDE DEF sol
  <2> QED BY <2>1
<1> HIDE DEF sol
<1> QED BY <1>9, <1>12, <1>13

\* The members of R, renamed.
Renamed(b, R) == {b[x] : x \in R}

Injective(b, S) == \A x, y \in S : b[x] = b[y] => x = y

\* g gives the new names the values f gives the old ones.
SameUnder(b, f, g, S) == \A x \in S : g[b[x]] = f[x]

Splits(it, f, S) == \A R \in SUBSET S : \A x \in R : it[R] = f[x] + it[R \ {x}]

Agree(it, jt, b, R) == it[R] = jt[Renamed(b, R)]

\* Any member may be added last.
LEMMA SumSplit ==
  ASSUME NEW S, IsFiniteSet(S), NEW f, NatOn(f, S),
         NEW it \in [SUBSET S -> Nat], SumsUp(it, f, S)
  PROVE  Splits(it, f, S)
<1> DEFINE n == Cardinality(S)
           Good(R) == \A x \in R : it[R] = f[x] + it[R \ {x}]
           G == {k \in 0 .. n : \A R \in SUBSET S : Cardinality(R) = k => Good(R)}
<1>1. \A R \in SUBSET S : IsFiniteSet(R) /\ Cardinality(R) \in 0 .. n
  <2>1. \A R \in SUBSET S : IsFiniteSet(R) /\ Cardinality(R) <= n
    BY FS_Subset
  <2>2. n \in Nat /\ \A R \in SUBSET S : Cardinality(R) \in Nat
    BY <2>1, FS_CardinalityType
  <2> QED BY <2>1, <2>2
<1>2. \A R \in SUBSET S : \A x \in R : Cardinality(R \ {x}) = Cardinality(R) - 1
  BY <1>1, FS_RemoveElement
<1>3. n \in Nat
  BY FS_CardinalityType
<1>4. 0 \in G
  <2>1. \A R \in SUBSET S : Cardinality(R) = 0 => R = {}
    BY <1>1, FS_EmptySet
  <2> QED BY <1>3, <2>1
<1>5. ASSUME NEW k \in 0 .. n - 1, k \in G
      PROVE  k + 1 \in G
  <2>1. k + 1 \in 0 .. n
    BY <1>3
  <2>2. ASSUME NEW R \in SUBSET S, Cardinality(R) = k + 1, NEW x \in R
        PROVE  it[R] = f[x] + it[R \ {x}]
    <3> DEFINE c == Chosen(R)
    <3>1. c \in R
      BY <2>2 DEF Chosen
    <3>2. it[R] = f[c] + it[R \ {c}]
      BY <2>2 DEF SumsUp
    <3>3. CASE c = x
      BY <3>2, <3>3
    <3>4. CASE c # x
      <4> DEFINE P == R \ {c}
                 Q == R \ {x}
                 O == P \ {x}
      <4>1. P \in SUBSET S /\ Q \in SUBSET S /\ O \in SUBSET S /\ x \in P /\ c \in Q /\ Q \ {c} = O
        BY <2>2, <3>1, <3>4
      <4>2. Cardinality(P) = k /\ Cardinality(Q) = k
        <5>1. Cardinality(P) = Cardinality(R) - 1 /\ Cardinality(Q) = Cardinality(R) - 1
          BY <1>2, <2>2, <3>1
        <5> QED BY <1>3, <2>2, <5>1
      <4> HIDE DEF P, Q, O
      <4>3. Good(P) /\ Good(Q)
        BY <1>5, <4>1, <4>2
      <4>4. it[P] = f[x] + it[O]
        BY <4>1, <4>3 DEF O
      <4>5. it[Q] = f[c] + it[O]
        BY <4>1, <4>3
      <4>6. f[x] \in Nat /\ f[c] \in Nat /\ it[O] \in Nat
        BY <2>2, <3>1, <4>1 DEF NatOn
      <4>7. it[R] = f[c] + it[P]
        BY <3>2 DEF P
      <4>8. it[R] = f[x] + it[Q]
        BY <4>4, <4>5, <4>6, <4>7
      <4> QED BY <4>8 DEF Q
    <3> QED BY <3>3, <3>4
  <2> QED BY <2>1, <2>2
<1>6. \A k \in 0 .. n : k \in G
  <2> HIDE DEF G, n
  <2> QED BY <1>3, <1>4, <1>5, InductionUpTo
<1>7. \A R \in SUBSET S : Good(R)
  BY <1>1, <1>6
<1> QED BY <1>7 DEF Splits

\* Two sums agree on sets whose members have the same values under other names.
LEMMA SumsAgree ==
  ASSUME NEW S, IsFiniteSet(S), NEW f, NatOn(f, S),
         NEW it \in [SUBSET S -> Nat], SumsUp(it, f, S),
         NEW T, IsFiniteSet(T), NEW g, NatOn(g, T),
         NEW jt \in [SUBSET T -> Nat], SumsUp(jt, g, T),
         NEW U \in SUBSET S, NEW b, Renamed(b, U) \subseteq T, Injective(b, U),
         SameUnder(b, f, g, U)
  PROVE  Agree(it, jt, b, U)
<1> DEFINE n == Cardinality(U)
           G == {k \in 0 .. n : \A R \in SUBSET U : Cardinality(R) = k => it[R] = jt[Renamed(b, R)]}
<1>1. \A R \in SUBSET U : IsFiniteSet(R) /\ Cardinality(R) \in 0 .. n
  <2>1. IsFiniteSet(U)
    BY FS_Subset
  <2>2. \A R \in SUBSET U : IsFiniteSet(R) /\ Cardinality(R) <= n
    BY <2>1, FS_Subset
  <2>3. n \in Nat /\ \A R \in SUBSET U : Cardinality(R) \in Nat
    BY <2>1, <2>2, FS_CardinalityType
  <2> QED BY <2>2, <2>3
<1>2. n \in Nat
  BY <1>1
<1>3. 0 \in G
  <2>1. \A R \in SUBSET U : Cardinality(R) = 0 => R = {}
    BY <1>1, FS_EmptySet
  <2>2. it[{}] = 0 /\ jt[{}] = 0
    BY DEF SumsUp
  <2>3. Renamed(b, {}) = {}
    BY DEF Renamed
  <2>4. 0 \in 0 .. n
    BY <1>2
  <2>5. \A R \in SUBSET U : Cardinality(R) = 0 => it[R] = jt[Renamed(b, R)]
    BY <2>1, <2>2, <2>3
  <2> HIDE DEF n
  <2> QED BY <2>4, <2>5
<1>4. ASSUME NEW k \in 0 .. n - 1, k \in G
      PROVE  k + 1 \in G
  <2>1. k + 1 \in 0 .. n
    BY <1>2
  <2>2. ASSUME NEW R \in SUBSET U, Cardinality(R) = k + 1
        PROVE  it[R] = jt[Renamed(b, R)]
    <3>1. R # {}
      <4>1. Cardinality(R) # 0
        <5> HIDE DEF n
        <5> QED BY <1>2, <2>2
      <4>2. Cardinality({}) = 0
        BY FS_EmptySet
      <4> QED BY <4>1, <4>2
    <3>2. PICK x \in R : TRUE
      BY <3>1
    <3> DEFINE P == R \ {x}
               B == Renamed(b, R)
    <3>3. Cardinality(P) = k
      BY SMTT(40), <1>1, <1>2, <2>2, <3>2, FS_RemoveElement
    <3>4. it[P] = jt[Renamed(b, P)]
      BY <1>4, <3>3
    <3>5. Renamed(b, P) = B \ {b[x]}
      BY <2>2, <3>2 DEF Renamed, Injective
    <3>6. b[x] \in B /\ B \in SUBSET T
      BY <2>2, <3>2 DEF Renamed
    <3>7. Splits(it, f, S) /\ Splits(jt, g, T)
      BY SumSplit
    <3>8. it[R] = f[x] + it[P]
      BY <2>2, <3>2, <3>7 DEF Splits
    <3> HIDE DEF B, P
    <3>9. jt[B] = g[b[x]] + jt[B \ {b[x]}]
      BY <3>6, <3>7 DEF Splits
    <3>10. g[b[x]] = f[x]
      BY <2>2, <3>2 DEF SameUnder
    <3> QED BY <3>4, <3>5, <3>8, <3>9, <3>10 DEF B
  <2> QED BY <2>1, <2>2
<1>5. \A k \in 0 .. n : k \in G
  <2> HIDE DEF G, n
  <2> QED BY <1>2, <1>3, <1>4, InductionUpTo
<1>6. U \in SUBSET U /\ n \in 0 .. n
  BY <1>2
<1> QED BY <1>5, <1>6 DEF Agree

\* Renaming the members does not change a sum.
LEMMA SumRenamed ==
  ASSUME NEW S, IsFiniteSet(S), NEW f, NatOn(f, S), NEW b, Injective(b, S),
         NEW g, SameUnder(b, f, g, S)
  PROVE  /\ IsFiniteSet(Renamed(b, S))
         /\ SumFunctionOnSet(f, S) \in Nat
         /\ SumFunctionOnSet(f, S) = SumFunctionOnSet(g, Renamed(b, S))
<1> DEFINE T == Renamed(b, S)
           h == [x \in S |-> b[x]]
<1>1. IsFiniteSet(T)
  <2>1. h \in Surjection(S, T)
    BY DEF Renamed, Surjection
  <2> HIDE DEF h
  <2> QED BY <2>1, FS_Surjection
<1>2. NatOn(g, T)
  BY DEF NatOn, Renamed, SameUnder
<1>3. PICK it \in [SUBSET S -> Nat] : SumsUp(it, f, S) /\ SumFunctionOnSet(f, S) = it[S]
  BY SumDef
<1>4. PICK jt \in [SUBSET T -> Nat] : SumsUp(jt, g, T) /\ SumFunctionOnSet(g, T) = jt[T]
  <2> HIDE DEF T
  <2> QED BY <1>1, <1>2, SumDef
<1>5. S \in SUBSET S /\ T \subseteq T
  OBVIOUS
<1>6. Agree(it, jt, b, S)
  <2>1. Renamed(b, S) \subseteq T
    OBVIOUS
  <2> HIDE DEF T
  <2> QED BY <1>1, <1>2, <1>3, <1>4, <1>5, <2>1, SumsAgree
<1> QED BY <1>1, <1>3, <1>4, <1>6 DEF Agree

\* A sum is that of the others and one member.
LEMMA SumWithout ==
  ASSUME NEW S, IsFiniteSet(S), NEW f, NatOn(f, S), NEW x \in S
  PROVE  /\ SumFunctionOnSet(f, S) \in Nat
         /\ SumFunctionOnSet(f, S \ {x}) \in Nat
         /\ SumFunctionOnSet(f, S) = f[x] + SumFunctionOnSet(f, S \ {x})
<1> DEFINE R == S \ {x}
           b == [y \in S |-> y]
<1>1. IsFiniteSet(R) /\ NatOn(f, R) /\ R \in SUBSET S
  BY FS_Subset DEF NatOn
<1>2. PICK it \in [SUBSET S -> Nat] : SumsUp(it, f, S) /\ SumFunctionOnSet(f, S) = it[S]
  BY SumDef
<1>3. PICK jt \in [SUBSET R -> Nat] : SumsUp(jt, f, R) /\ SumFunctionOnSet(f, R) = jt[R]
  <2> HIDE DEF R
  <2> QED BY <1>1, SumDef
<1>4. it[S] = f[x] + it[R]
  <2>1. Splits(it, f, S)
    BY <1>2, SumSplit
  <2> QED BY <2>1 DEF Splits
<1>5. Renamed(b, R) = R /\ Injective(b, R) /\ SameUnder(b, f, f, R)
  BY DEF Renamed, Injective, SameUnder
<1>6. Agree(it, jt, b, R)
  <2> HIDE DEF R, b
  <2>1. Renamed(b, R) \subseteq R
    BY <1>5
  <2> QED BY <1>1, <1>2, <1>3, <1>5, <2>1, SumsAgree
<1>7. it[S] \in Nat /\ jt[R] \in Nat
  BY <1>2, <1>3
<1> QED BY <1>2, <1>3, <1>4, <1>5, <1>6, <1>7 DEF Agree

-----------------------------------------------------------------------------
(* Chains of events.                                                       *)

Of(B, u, s) == {e \in BagToSet(B) : e.u = u /\ e.s = s}
Chains(B, u, s) == SumFunctionOnSet(B, Of(B, u, s))

\* 1 for an event of u about s, 0 for another.
Unit(e, u, s) == IF e.u = u /\ e.s = s THEN 1 ELSE 0

FiniteBag(B) == IsABag(B) /\ IsFiniteSet(BagToSet(B))

\* The number of events of a service is a number.
LEMMA ChainsType ==
  ASSUME NEW B, FiniteBag(B), NEW u, NEW s
  PROVE  IsFiniteSet(Of(B, u, s)) /\ NatOn(B, Of(B, u, s)) /\ Chains(B, u, s) \in Nat
<1>1. IsFiniteSet(Of(B, u, s))
  <2>1. Of(B, u, s) \in SUBSET BagToSet(B)
    BY DEF Of
  <2> QED BY <2>1, FS_Subset DEF FiniteBag
<1>2. NatOn(B, Of(B, u, s))
  BY DEF NatOn, Of, FiniteBag, IsABag, BagToSet
<1>3. PICK it \in [SUBSET Of(B, u, s) -> Nat] :
        SumsUp(it, B, Of(B, u, s)) /\ SumFunctionOnSet(B, Of(B, u, s)) = it[Of(B, u, s)]
  BY <1>1, <1>2, SumDef
<1> QED BY <1>1, <1>2, <1>3 DEF Chains

\* C has the events of B and one x more.
OneMore(C, B, x) ==
  /\ BagToSet(C) = BagToSet(B) \cup {x}
  /\ \A e \in BagToSet(C) : e # x => C[e] = B[e]
  /\ C[x] = IF x \in BagToSet(B) THEN B[x] + 1 ELSE 1

\* One event more counts for its own service.
LEMMA ChainsOneMore ==
  ASSUME NEW B, FiniteBag(B), NEW C, FiniteBag(C), NEW x, OneMore(C, B, x), NEW u, NEW s
  PROVE  Chains(C, u, s) = Chains(B, u, s) + Unit(x, u, s)
<1> DEFINE P == Of(B, u, s)
           Q == Of(C, u, s)
           R == P \ {x}
           same == [y \in R |-> y]
<1>1. /\ IsFiniteSet(P) /\ NatOn(B, P) /\ Chains(B, u, s) \in Nat
      /\ IsFiniteSet(Q) /\ NatOn(C, Q) /\ Chains(C, u, s) \in Nat
  BY ChainsType
<1>2. Q \ {x} = R
  BY DEF Of, OneMore
<1>3. SumFunctionOnSet(B, R) = SumFunctionOnSet(C, R) /\ SumFunctionOnSet(B, R) \in Nat
  <2>1. IsFiniteSet(R) /\ NatOn(B, R)
    BY <1>1, FS_Subset DEF NatOn
  <2>2. Injective(same, R) /\ Renamed(same, R) = R
    BY DEF Injective, Renamed
  <2>3. SameUnder(same, B, C, R)
    BY DEF SameUnder, OneMore, Of
  <2> HIDE DEF R, same
  <2> QED BY <2>1, <2>2, <2>3, SumRenamed
<1>4. CASE ~(x.u = u /\ x.s = s)
  <2>1. P = R /\ Q = R
    BY <1>2, <1>4 DEF Of
  <2>2. Chains(B, u, s) = SumFunctionOnSet(B, R) /\ Chains(C, u, s) = SumFunctionOnSet(C, R)
    BY <2>1 DEF Chains
  <2> HIDE DEF P, Q, R
  <2> QED BY <1>1, <1>3, <1>4, <2>2 DEF Unit
<1>5. CASE x.u = u /\ x.s = s
  <2>1. x \in Q
    BY <1>5 DEF Of, OneMore
  <2>2. Chains(C, u, s) = C[x] + SumFunctionOnSet(C, R)
    <3> HIDE DEF P, Q, R
    <3>1. SumFunctionOnSet(C, Q) = C[x] + SumFunctionOnSet(C, Q \ {x})
      BY <1>1, <2>1, SumWithout
    <3> QED BY <1>2, <3>1 DEF Chains, Q
  <2>3. CASE x \in BagToSet(B)
    <3>1. x \in P
      BY <1>5, <2>3 DEF Of
    <3>2. Chains(B, u, s) = B[x] + SumFunctionOnSet(B, R)
      <4> HIDE DEF P
      <4>1. SumFunctionOnSet(B, P) = B[x] + SumFunctionOnSet(B, P \ {x})
        BY <1>1, <3>1, SumWithout
      <4> QED BY <4>1 DEF Chains, P
    <3>3. C[x] = B[x] + 1 /\ B[x] \in Nat
      BY <1>1, <2>3, <3>1 DEF OneMore, NatOn
    <3> HIDE DEF P, Q, R
    <3> QED BY <1>3, <1>5, <2>2, <3>2, <3>3 DEF Unit
  <2>4. CASE x \notin BagToSet(B)
    <3>1. P = R
      BY <2>4 DEF Of
    <3>2. C[x] = 1
      BY <2>4 DEF OneMore
    <3>3. Chains(B, u, s) = SumFunctionOnSet(B, R)
      BY <3>1 DEF Chains
    <3> HIDE DEF P, Q, R
    <3> QED BY <1>3, <1>5, <2>2, <3>2, <3>3 DEF Unit
  <2> QED BY <2>3, <2>4
<1> QED BY <1>4, <1>5

\* Adding one event to a bag, and taking one from it.
LEMMA ChainsAdd ==
  ASSUME NEW B, FiniteBag(B), NEW x
  PROVE  FiniteBag(B (+) One(x)) /\ OneMore(B (+) One(x), B, x)
<1> DEFINE C == B (+) One(x)
<1>1. /\ IsABag(C) /\ BagToSet(C) = BagToSet(B) \cup {x}
      /\ \A e \in BagToSet(B) \cup {x} :
           C[e] = (IF e \in BagToSet(B) THEN B[e] ELSE 0) + (IF e \in {x} THEN 1 ELSE 0)
  BY BagAdd DEF One, FiniteBag
<1>2. IsFiniteSet(BagToSet(C))
  <2> HIDE DEF C
  <2> QED BY <1>1, FS_AddElement DEF FiniteBag
<1>3. \A e \in BagToSet(B) : B[e] \in Nat
  BY DEF FiniteBag, IsABag, BagToSet
<1> HIDE DEF C
<1>4. \A e \in BagToSet(C) : e # x => C[e] = B[e]
  BY <1>1, <1>3
<1>5. C[x] = IF x \in BagToSet(B) THEN B[x] + 1 ELSE 1
  BY <1>1, <1>3
<1> QED BY <1>1, <1>2, <1>4, <1>5 DEF FiniteBag, OneMore, C

LEMMA ChainsTake ==
  ASSUME NEW B, FiniteBag(B), NEW x \in BagToSet(B)
  PROVE  FiniteBag(B (-) One(x)) /\ OneMore(B, B (-) One(x), x)
<1> DEFINE C == B (-) One(x)
<1>1. /\ IsABag(C)
      /\ BagToSet(C) = IF B[x] = 1 THEN BagToSet(B) \ {x} ELSE BagToSet(B)
      /\ \A e \in BagToSet(C) : C[e] = IF e = x THEN B[e] - 1 ELSE B[e]
  BY BagRemove DEF One, FiniteBag
<1> HIDE DEF C
<1>2. IsFiniteSet(BagToSet(C))
  <2>1. BagToSet(C) \in SUBSET BagToSet(B)
    BY <1>1
  <2> QED BY <2>1, FS_Subset DEF FiniteBag
<1>3. B[x] \in Nat /\ B[x] > 0
  BY DEF FiniteBag, IsABag, BagToSet
<1>4. BagToSet(B) = BagToSet(C) \cup {x}
  BY <1>1
<1>5. \A e \in BagToSet(B) : e # x => B[e] = C[e]
  BY <1>1
<1>6. B[x] = IF x \in BagToSet(C) THEN C[x] + 1 ELSE 1
  BY <1>1, <1>3
<1> QED BY <1>1, <1>2, <1>4, <1>5, <1>6 DEF FiniteBag, OneMore, C

-----------------------------------------------------------------------------
(* A service is sent at most as often per interval as it was started.      *)

ChainInv == DiscoveryInv /\ FiniteBag(events) /\ OneChainPerStart

\* OneChainPerStart in terms of the number of chains.
LEMMA ChainsMeaning ==
  /\ OneChainPerStart <=> \A u \in UE, s \in Service : Chains(events, u, s) <= started[u][s]
  /\ OneChainPerStart' <=> \A u \in UE, s \in Service : Chains(events', u, s) <= started'[u][s]
  BY DEF OneChainPerStart, Chains, Of, Pending

\* What SendDiscovery does to the events besides.
LEMMA SendChains ==
  ASSUME NEW u \in UE, NEW s \in Service, NEW dst, NEW i, NEW evs, NEW msgs,
         FiniteBag(evs), SendDiscovery(u, s, dst, i, evs, msgs)
  PROVE  /\ FiniteBag(events')
         /\ \/ events' = evs
            \/ /\ i[s] # NoInfo /\ IsRepeated(i[s].role)
               /\ \A v \in UE, y \in Service :
                    Chains(events', v, y) = Chains(evs, v, y) + (IF v = u /\ y = s THEN 1 ELSE 0)
<1>1. CASE events' = evs
  BY <1>1
<1>2. CASE i[s] # NoInfo /\ IsRepeated(i[s].role) /\ events' = evs (+) NextEvent(u, s, dst)
  <2> DEFINE x == Repetition(u, s, dst)
  <2>1. NextEvent(u, s, dst) = One(x)
    BY DEF NextEvent, Repetition
  <2>2. \A v \in UE, y \in Service : Unit(x, v, y) = IF v = u /\ y = s THEN 1 ELSE 0
    BY DEF Unit, Repetition
  <2> HIDE DEF x
  <2>3. FiniteBag(events') /\ OneMore(events', evs, x)
    BY <1>2, <2>1, ChainsAdd
  <2>4. \A v \in UE, y \in Service : Chains(events', v, y) = Chains(evs, v, y) + Unit(x, v, y)
    BY <2>3, ChainsOneMore
  <2> QED BY <1>2, <2>2, <2>3, <2>4
<1> QED BY <1>1, <1>2 DEF SendDiscovery

\* Initially there are none.
LEMMA ChainInit == Init => ChainInv
<1> SUFFICES ASSUME Init PROVE ChainInv
  OBVIOUS
<1>1. FiniteBag(events) /\ BagToSet(events) = {}
  BY FS_EmptySet DEF Init, EmptyBag, SetToBag, IsABag, BagToSet, FiniteBag
<1>2. ASSUME NEW u \in UE, NEW s \in Service
      PROVE  Chains(events, u, s) <= started[u][s]
  <2>1. Of(events, u, s) = {}
    BY <1>1 DEF Of
  <2>2. PICK it \in [SUBSET {} -> Nat] :
          SumsUp(it, events, {}) /\ SumFunctionOnSet(events, {}) = it[{}]
    <3>1. NatOn(events, {})
      BY DEF NatOn
    <3> QED BY <3>1, FS_EmptySet, SumDef
  <2>3. Chains(events, u, s) = 0
    BY <2>1, <2>2 DEF SumsUp, Chains
  <2>4. started[u][s] = 0
    BY DEF Init
  <2> QED BY <2>3, <2>4
<1>3. OneChainPerStart
  BY <1>2, ChainsMeaning
<1> QED BY <1>1, <1>3, DiscoveryInit DEF ChainInv

\* Every step keeps the chains: a start may add one, an event that fires is
\* taken before it is repeated, answers are not repeated and time only passes.
LEMMA ChainStep == ChainInv /\ [Next]_vars => ChainInv'
<1> SUFFICES ASSUME ChainInv, [Next]_vars PROVE ChainInv'
  OBVIOUS
<1>1. DiscoveryInv'
  BY DiscoveryStep DEF ChainInv
<1> USE DEF ChainInv
<1>2. started \in [UE -> [Service -> Nat]]
  BY DEF DiscoveryInv, TypeOK
<1>3. \A v \in UE, y \in Service :
        Chains(events, v, y) \in Nat /\ Chains(events, v, y) <= started[v][y]
  BY ChainsType, ChainsMeaning
<1>4. ASSUME UNCHANGED <<events, started>>
      PROVE  FiniteBag(events') /\ OneChainPerStart'
  BY <1>3, <1>4, ChainsMeaning
<1>5. ASSUME NEW u \in UE, NEW x \in Scenario[u], Add(u, x[1], x[2], x[3])
      PROVE  FiniteBag(events') /\ OneChainPerStart'
  <2> DEFINE s == x[1]
             i == Inserted(u, s, [role |-> x[2], dst |-> x[3]])
  <2>1. s \in Service
    BY DiscoveryAssumption
  <2>2. started' = [started EXCEPT ![u][s] = @ + 1]
    BY <1>5 DEF Add
  <2>3. \/ SendDiscovery(u, s, x[3], i, events, net)
        \/ events' = events
    BY <1>5 DEF Add
  <2> HIDE DEF s, i
  <2>4. FiniteBag(events') /\ (\/ events' = events
                               \/ \A v \in UE, y \in Service :
                                    Chains(events', v, y) = Chains(events, v, y)
                                      + (IF v = u /\ y = s THEN 1 ELSE 0))
    BY <2>1, <2>3, SendChains
  <2>5. ASSUME NEW v \in UE, NEW y \in Service
        PROVE  Chains(events', v, y) <= started'[v][y]
    <3>1. \/ Chains(events', v, y) = Chains(events, v, y)
          \/ Chains(events', v, y) = Chains(events, v, y) + (IF v = u /\ y = s THEN 1 ELSE 0)
      BY <2>4
    <3>2. started'[v][y] = started[v][y] + (IF v = u /\ y = s THEN 1 ELSE 0)
      BY <1>2, <2>1, <2>2
    <3>3. started[v][y] \in Nat
      BY <1>2
    <3> QED BY <1>3, <3>1, <3>2, <3>3
  <2> QED BY <2>4, <2>5, ChainsMeaning
<1>6. ASSUME NEW e \in BagToSet(events), Fire(e)
      PROVE  FiniteBag(events') /\ OneChainPerStart'
  <2> DEFINE u == e.u
             s == e.s
             evs == events (-) One(e)
  <2>1. u \in UE /\ s \in Service
    BY DEF DiscoveryInv, TypeOK, Event
  <2>2. SendDiscovery(u, s, e.dst, info[u], evs, net) /\ started' = started
    BY <1>6 DEF Fire
  <2>3. FiniteBag(evs) /\ OneMore(events, evs, e)
    BY ChainsTake
  <2> HIDE DEF evs
  <2>4. \A v \in UE, y \in Service :
          /\ Chains(events, v, y) = Chains(evs, v, y) + Unit(e, v, y)
          /\ Chains(evs, v, y) \in Nat
    BY <2>3, ChainsOneMore, ChainsType
  <2>5. FiniteBag(events') /\ (\/ events' = evs
                               \/ \A v \in UE, y \in Service :
                                    Chains(events', v, y) = Chains(evs, v, y)
                                      + (IF v = u /\ y = s THEN 1 ELSE 0))
    <3> HIDE DEF u, s
    <3> QED BY <2>1, <2>2, <2>3, SendChains
  <2>6. ASSUME NEW v \in UE, NEW y \in Service
        PROVE  Chains(events', v, y) <= started'[v][y]
    <3>1. \/ Chains(events', v, y) = Chains(evs, v, y)
          \/ Chains(events', v, y) = Chains(evs, v, y) + Unit(e, v, y)
      <4>1. Unit(e, v, y) = IF v = u /\ y = s THEN 1 ELSE 0
        BY DEF Unit
      <4> QED BY <2>5, <4>1
    <3>2. Unit(e, v, y) \in Nat
      BY DEF Unit
    <3> QED BY <1>2, <1>3, <2>2, <2>4, <3>1, <3>2
  <2> QED BY <2>5, <2>6, ChainsMeaning
<1>7. ASSUME NEW m \in BagToSet(net), DoReceiveNrSlDiscovery(m)
      PROVE  FiniteBag(events') /\ OneChainPerStart'
  <2>1. Answer(m) /\ started' = started /\ Interested(m)
    BY <1>7 DEF DoReceiveNrSlDiscovery
  <2>2. CASE m.content # "query"
    BY <1>4, <2>1, <2>2 DEF Answer
  <2>3. CASE m.content = "query"
    <3>1. /\ m.to \in UE /\ m.s \in Service
          /\ SendDiscovery(m.to, m.s, m.src, info[m.to], events, Without(m))
      BY <2>1, <2>3 DEF Answer, Interested, DiscoveryInv, TypeOK, Message
    <3>2. ~IsRepeated(info[m.to][m.s].role)
      BY <2>1, <2>3, RoleFacts DEF Interested, IsMonitoring
    <3>3. events' = events
      BY <3>1, <3>2, SendChains
    <3> QED BY <1>4, <2>1, <3>3
  <2> QED BY <2>2, <2>3
<1>8. ASSUME Tick
      PROVE  FiniteBag(events') /\ OneChainPerStart'
  <2>1. /\ started' = started
        /\ BagToSet(events') = {Aged(x) : x \in BagToSet(events)}
        /\ \A x \in BagToSet(events) : /\ Older(Aged(x)) = x
                                       /\ Aged(x).u = x.u /\ Aged(x).s = x.s
        /\ \A e \in BagToSet(events') : events'[e] = events[Older(e)]
    BY <1>8, TickFacts DEF Tick
  <2> DEFINE b == [x \in BagToSet(events) |-> Aged(x)]
  <2>2. \A S \in SUBSET BagToSet(events) : Injective(b, S)
    BY <2>1 DEF Injective
  <2>3. \A S \in SUBSET BagToSet(events) : SameUnder(b, events, events', S)
    BY <2>1 DEF SameUnder
  <2>4. Renamed(b, BagToSet(events)) = BagToSet(events')
    BY <2>1 DEF Renamed
  <2>5. \A v, y : Renamed(b, Of(events, v, y)) = Of(events', v, y)
    BY <2>1 DEF Renamed, Of
  <2> HIDE DEF b
  <2>6. IsABag(events')
    BY <1>1 DEF DiscoveryInv, TypeOK
  <2>7. FiniteBag(events')
    <3>1. NatOn(events, BagToSet(events))
      BY DEF NatOn, FiniteBag, IsABag, BagToSet
    <3>2. BagToSet(events) \in SUBSET BagToSet(events)
      OBVIOUS
    <3>3. IsFiniteSet(Renamed(b, BagToSet(events)))
      BY <2>2, <2>3, <3>1, <3>2, SumRenamed DEF FiniteBag
    <3> QED BY <2>4, <2>6, <3>3 DEF FiniteBag
  <2>8. ASSUME NEW v \in UE, NEW y \in Service
        PROVE  Chains(events', v, y) = Chains(events, v, y)
    <3>1. IsFiniteSet(Of(events, v, y)) /\ NatOn(events, Of(events, v, y))
      BY ChainsType
    <3>2. Of(events, v, y) \in SUBSET BagToSet(events)
      BY DEF Of
    <3>3. SumFunctionOnSet(events, Of(events, v, y))
            = SumFunctionOnSet(events', Renamed(b, Of(events, v, y)))
      BY <2>2, <2>3, <3>1, <3>2, SumRenamed
    <3> QED BY <2>5, <3>3 DEF Chains
  <2> QED BY <1>3, <2>1, <2>7, <2>8, ChainsMeaning
<1>9. ASSUME NEW u \in UE, NEW s \in Service, Remove(u, s)
      PROVE  FiniteBag(events') /\ OneChainPerStart'
  BY <1>4, <1>9 DEF Remove
<1>10. ASSUME NEW m \in BagToSet(net), Ignore(m) \/ Lose(m)
       PROVE  FiniteBag(events') /\ OneChainPerStart'
  BY <1>4, <1>10 DEF Ignore, Lose
<1>11. ASSUME UNCHANGED vars
       PROVE  FiniteBag(events') /\ OneChainPerStart'
  BY <1>4, <1>11 DEF vars
<1>12. FiniteBag(events') /\ OneChainPerStart'
  BY <1>5, <1>6, <1>7, <1>8, <1>9, <1>10, <1>11 DEF Next, Call, Run, Receive
<1> QED BY <1>1, <1>12

\* SendDiscovery schedules its own repetition and nothing cancels it: still a
\* service is sent at most as often per interval as it was started.
THEOREM DiscoveryOneChainPerStart == Spec => []OneChainPerStart
<1>1. ChainInv => OneChainPerStart
  BY DEF ChainInv
<1> QED BY <1>1, ChainInit, ChainStep, PTL DEF Spec
=============================================================================
