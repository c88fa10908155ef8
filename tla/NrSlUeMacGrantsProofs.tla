--------------------------- MODULE NrSlUeMacGrantsProofs ---------------------------
(***************************************************************************)
(* Proofs about NrSlUeMacGrants, for any channels, priorities, intervals,  *)
(* HARQ ids and windows.                                                   *)
(***************************************************************************)
EXTENDS NrSlUeMacGrants, WellFoundedInduction,
        FiniteSetTheorems, TLAPS

\* No two published grants share a HARQ process, and the process of one is
\* busy for its destination.
ProcessOfGrant ==
  /\ \A g, k \in slGrants : g.harqId = k.harqId => g = k
  /\ \A g \in slGrants : harq[g.harqId].dst = g.dst

\* A busy process is used by a published grant.
GrantOfProcess ==
  \A h \in HarqIds :
    ~IsHarqIdAvailable(h) => \E g \in slGrants : g.harqId = h

\* The ids collected at the trigger stay available until grants are published.
CollectedIdsAvailable ==
  phase = "allocate" => \A h \in harqIds : IsHarqIdAvailable(h)

\* The C_resel counter of a reservation is what the reselection counter has
\* left, and a number of full runs of it: it can be restarted while positive.
CountersFit ==
  \A g \in grantInfo : \E i \in Nat : g.cResel = i * g.prevResel + g.resel

HarqInv == /\ ProcessOfGrant /\ GrantOfProcess /\ CollectedIdsAvailable
           /\ HarqIdsReservedOnce

\* The inductive invariant.
GrantInv == TypeOK /\ CountersFit /\ HarqInv

-----------------------------------------------------------------------------
\* Smaller-than on the natural numbers, as a set of pairs.
NatLess == {ss \in Nat \X Nat : ss[1] < ss[2]}

\* A nonempty set of natural numbers has a minimum.
LEMMA NatMin ==
  ASSUME NEW S \in SUBSET Nat, S # {}
  PROVE  Min(S) \in S /\ \A y \in S : Min(S) <= y
<1>1. IsWellFoundedOn(NatLess, Nat)
  <2>1. IsWellFoundedOn(OpToRel(<, Nat), Nat)
    BY NatLessThanWellFounded
  <2> QED BY <2>1, Zenon DEF OpToRel, NatLess
<1>2. PICK x \in S : \A y \in S : <<y, x>> \notin NatLess
  BY <1>1, WFMin
<1>3. \A y \in S : ~(y < x)
  BY <1>2 DEF NatLess
<1>4. \A y \in S : x <= y
  BY <1>3
<1> QED BY <1>4 DEF Min

\* A nonempty set of bounded numbers has a maximum.
LEMMA BoundedMax ==
  ASSUME NEW b \in Nat, NEW S \in SUBSET (0 .. b), S # {}
  PROVE  Max(S) \in S /\ \A y \in S : Max(S) >= y
<1> DEFINE rest == {b - y : y \in S}
<1>1. rest \in SUBSET Nat /\ rest # {}
  <2>1. \A y \in S : y \in 0 .. b /\ b - y \in Nat
    BY SMT
  <2> QED BY <2>1
<1>2. Min(rest) \in rest /\ \A z \in rest : Min(rest) <= z
  BY <1>1, NatMin
<1>3. PICK x \in S : Min(rest) = b - x
  BY <1>2
<1>4. \A y \in S : x >= y
  <2> TAKE y \in S
  <2>1. b - y \in rest
    OBVIOUS
  <2>2. b - x <= b - y
    BY ZenonT(40), <1>2, <1>3, <2>1
  <2>3. x \in 0 .. b /\ y \in 0 .. b
    OBVIOUS
  <2> QED BY SMTT(30), <2>2, <2>3
<1> QED BY <1>4 DEF Max

\* The highest priority among some channels is that of one of them.
LEMMA TopFacts ==
  ASSUME NEW S \in SUBSET Channel, S # {}
  PROVE  Top(S, Priority) # {} /\ Top(S, Priority) \subseteq S
<1>1. Levels(S, Priority) \in SUBSET (0 .. 255) /\ Levels(S, Priority) # {}
  <2>1. \A c \in S : Priority[c] \in 0 .. 255
    BY GrantAssumption
  <2> QED BY <2>1 DEF Levels
<1>2. Max(Levels(S, Priority)) \in Levels(S, Priority)
  <2>1. 255 \in Nat
    OBVIOUS
  <2> QED BY <1>1, <2>1, BoundedMax
<1> QED BY <1>2 DEF Top, AtLevel, Levels

\* The reference channel is one of the channels to serve.
LEMMA ReferenceFacts ==
  ASSUME NEW S \in SUBSET Channel, S # {}
  PROVE  LcIdOfRef(S, Priority, Rri) \in S
<1> DEFINE dynamic == IsDynamicGrant(S, Priority, Rri)
           same == {c \in Top(S, Priority) : (Rri[c] = 0) = dynamic}
<1>1. Top(S, Priority) # {} /\ Top(S, Priority) \subseteq S
  BY TopFacts
<1>2. dynamic \in BOOLEAN
  BY DEF IsDynamicGrant
<1>3. same # {}
  <2>1. CASE PrioToSps
    BY <1>1, <1>2, <2>1 DEF IsDynamicGrant
  <2>2. CASE ~PrioToSps
    BY <1>1, <1>2, <2>2 DEF IsDynamicGrant
  <2> QED BY <2>1, <2>2
<1>4. same \in SUBSET Nat
  BY <1>1, GrantAssumption
<1>5. Min(same) \in same
  BY <1>3, <1>4, NatMin
<1> QED BY <1>1, <1>5 DEF LcIdOfRef

\* The destination that is served is a destination.
LEMMA DestinationFacts ==
  ASSUME toSched \in SUBSET Channel, toSched # {}
  PROVE  /\ DstToServe \in Destination
         /\ {c \in toSched : DstOf[c] = DstToServe} # {}
<1> DEFINE highest == Max({Priority[c] : c \in toSched})
           dsts == {DstOf[c] : c \in {d \in toSched : Priority[d] = highest}}
<1>1. {Priority[c] : c \in toSched} \in SUBSET (0 .. 255)
  BY GrantAssumption
<1>2. highest \in {Priority[c] : c \in toSched}
  <2> DEFINE levels == {Priority[c] : c \in toSched}
  <2>1. 255 \in Nat /\ levels # {} /\ levels \in SUBSET (0 .. 255)
    BY <1>1
  <2> HIDE DEF levels
  <2>2. Max(levels) \in levels
    BY <2>1, BoundedMax
  <2> QED BY <2>2 DEF levels
<1>3. dsts # {} /\ dsts \in SUBSET Destination
  BY ZenonT(40), <1>2, GrantAssumption
<1>4. Min(dsts) \in dsts
  BY <1>3, NatMin, GrantAssumption
<1>5. DstToServe = Min(dsts)
  BY DEF DstToServe
<1> QED BY <1>3, <1>4, <1>5

-----------------------------------------------------------------------------
\* The records the scheduler creates and changes are grants, with the HARQ id
\* and destination they should have.

\* A repeated block is a set of slots.
LEMMA RepeatFacts ==
  ASSUME NEW S \in SUBSET Nat, NEW period \in Nat, NEW times \in Nat
  PROVE  Repeat(S, period, times) \in SUBSET Nat
  BY DEF Repeat

\* A reservation made by the allocation is well typed.
LEMMA NewGrantFacts ==
  ASSUME NEW d \in Destination, NEW lcs \in SUBSET Channel,
         NEW S \in SlotChoices, NEW h \in HarqIds, NEW rri \in Nat,
         NEW counter \in ReselCounters, now \in Nat
  PROVE  LET g == NewGrant(d, lcs, S, h, rri, counter)
         IN  /\ g \in GrantInfo /\ g.harqId = h /\ g.dst = d
             /\ \E i \in Nat : g.cResel = i * g.prevResel + g.resel
<1>1. S \in SUBSET Nat /\ S # {} /\ Cardinality(S) \in Nat
  <2>1. S \in SUBSET ((now + T1) .. (now + T2)) /\ S # {}
    BY DEF SlotChoices, TxOpportunities
  <2>2. now + T1 \in Int /\ now + T2 \in Int
    BY GrantAssumption
  <2>3. IsFiniteSet(S)
    BY <2>1, <2>2, FS_Interval, FS_Subset
  <2>4. (now + T1) .. (now + T2) \subseteq Nat
    BY GrantAssumption
  <2> QED BY <2>1, <2>3, <2>4, FS_CardinalityType
<1>2. Min(S) \in Nat
  BY <1>1, NatMin
<1>3. counter \in Nat /\ ReselFactor * counter \in Nat
  BY GrantAssumption
<1>4. CASE rri = 0
  BY <1>1, <1>2, <1>4 DEF NewGrant, SinglePduGrant, GrantInfo
<1>5. CASE rri # 0
  <2> DEFINE g == SpsGrant(d, lcs, S, h, rri, counter)
  <2>1. /\ Repeat(S, rri, ReselFactor * counter) \in SUBSET Nat
        /\ Repeat({Min(S)}, rri, ReselFactor * counter) \in SUBSET Nat
    BY <1>1, <1>2, <1>3, RepeatFacts
  <2>2. g \in GrantInfo /\ g.harqId = h /\ g.dst = d
    BY <1>1, <1>3, <2>1 DEF SpsGrant, GrantInfo
  <2>3. ReselFactor * counter = (ReselFactor - 1) * counter + counter
    BY <1>3, GrantAssumption
  <2>4. ReselFactor - 1 \in Nat
    BY GrantAssumption
  <2>5. g.cResel = (ReselFactor - 1) * g.prevResel + g.resel
    BY <2>3 DEF SpsGrant
  <2> QED BY <1>5, <2>2, <2>4, <2>5 DEF NewGrant
<1> QED BY <1>4, <1>5

\* Publishing takes one block off a reservation and counts it.
LEMMA AfterPublishFacts ==
  ASSUME TypeOK, CountersFit, NEW g \in DueGrants, ~IsDynamic(g)
  PROVE  LET r == AfterPublish(g)
         IN  /\ r \in GrantInfo /\ r.harqId = g.harqId /\ r.dst = g.dst
             /\ r.rri = g.rri
             /\ \E i \in Nat : r.cResel = i * r.prevResel + r.resel
<1> DEFINE w == WithoutBlock(g)
<1>1. g \in GrantInfo /\ g \in grantInfo /\ g.resel > 0
  BY DEF TypeOK, DueGrants, Due
<1>2. /\ w \in GrantInfo /\ w.harqId = g.harqId /\ w.dst = g.dst
      /\ w.rri = g.rri /\ w.resel = g.resel /\ w.prevResel = g.prevResel
      /\ w.cResel = g.cResel
  BY <1>1 DEF WithoutBlock, GrantInfo
<1>3. PICK i \in Nat : g.cResel = i * g.prevResel + g.resel
  BY <1>1 DEF CountersFit
<1>4. i * g.prevResel \in Nat /\ g.resel \in Nat /\ g.cResel \in Nat
      /\ g.prevResel \in Nat
  BY <1>1 DEF GrantInfo
<1>5. g.resel - 1 \in Nat /\ g.cResel - 1 \in Nat
      /\ g.cResel - 1 = i * g.prevResel + (g.resel - 1)
  BY <1>1, <1>3, <1>4
<1>6. w.resel - 1 \in Nat /\ w.cResel - 1 \in Nat
  BY <1>2, <1>5
<1> DEFINE r == AfterPublish(g)
<1>7. /\ r \in GrantInfo /\ r.harqId = w.harqId /\ r.dst = w.dst
      /\ r.rri = w.rri /\ r.prevResel = w.prevResel
      /\ r.resel = w.resel - 1 /\ r.cResel = w.cResel - 1
  <2> HIDE DEF w
  <2>1. r = [w EXCEPT !.resel = @ - 1, !.cResel = @ - 1]
    BY DEF AfterPublish, w
  <2> HIDE DEF r
  <2> QED BY <1>2, <1>6, <2>1 DEF GrantInfo
<1> QED BY <1>2, <1>5, <1>7

\* A kept reservation runs its reselection counter once more.
LEMMA KeptFacts ==
  ASSUME TypeOK, CountersFit, NEW g \in grantInfo, Spent(g), MayBeKept(g)
  PROVE  LET r == [g EXCEPT !.resel = g.prevResel]
         IN  /\ r \in GrantInfo /\ r.harqId = g.harqId /\ r.dst = g.dst
             /\ r.rri = g.rri
             /\ \E i \in Nat : r.cResel = i * r.prevResel + r.resel
<1> DEFINE r == [g EXCEPT !.resel = g.prevResel]
<1>1. g \in GrantInfo /\ g.resel = 0 /\ g.cResel > 0
  BY DEF TypeOK, Spent, MayBeKept
<1>2. /\ r \in GrantInfo /\ r.harqId = g.harqId /\ r.dst = g.dst
      /\ r.rri = g.rri /\ r.resel = g.prevResel /\ r.prevResel = g.prevResel
      /\ r.cResel = g.cResel
  BY <1>1 DEF GrantInfo
<1>3. PICK i \in Nat : g.cResel = i * g.prevResel + g.resel
  BY DEF CountersFit
<1>4. g.prevResel \in Nat /\ g.cResel \in Nat
  BY <1>1 DEF GrantInfo
<1>5. i # 0
  BY <1>1, <1>3, <1>4
<1>6. i - 1 \in Nat /\ i * g.prevResel = (i - 1) * g.prevResel + g.prevResel
  BY <1>4, <1>5
<1>7. g.cResel = (i - 1) * g.prevResel + g.prevResel
  BY <1>1, <1>3, <1>4, <1>6
<1> QED BY <1>2, <1>6, <1>7

\* Publishing makes a grant of the MAC out of a reservation.
LEMMA PublishedFacts ==
  ASSUME TypeOK, NEW g \in grantInfo
  PROVE  /\ Published(g) \in Grant
         /\ Published(g).harqId = g.harqId /\ Published(g).dst = g.dst
  BY DEF TypeOK, Published, TransportBlock, GrantInfo, Grant

\* A transmission uses up one slot of a grant.
LEMMA TransmittedFacts ==
  ASSUME TypeOK, NEW g \in slGrants
  PROVE  /\ Transmitted(g) \in Grant
         /\ Transmitted(g).harqId = g.harqId /\ Transmitted(g).dst = g.dst
<1>1. g \in Grant
  BY DEF TypeOK
<1>2. g.slots \ {now} \in SUBSET Nat /\ g.tbTxCounter + 1 \in Nat
  BY <1>1 DEF Grant
<1> QED BY <1>1, <1>2 DEF Transmitted, Grant

\* An id that is taken from the unused ones is one of them.
LEMMA UnusedIdFacts ==
  ASSUME TypeOK, UnusedHarqIds(grantInfo) # {}
  PROVE  Min(UnusedHarqIds(grantInfo)) \in UnusedHarqIds(grantInfo)
<1>1. UnusedHarqIds(grantInfo) \in SUBSET Nat
  BY GrantAssumption DEF TypeOK, UnusedHarqIds
<1> QED BY <1>1, NatMin

-----------------------------------------------------------------------------
\* The invariant of the grants and their HARQ processes holds at the start
\* (DoInitialize creates neither).
THEOREM InitGrants == Init => GrantInv
<1> SUFFICES ASSUME Init PROVE GrantInv
  OBVIOUS
<1>1. TypeOK
  BY DEF Init, TypeOK, Phases, FreeProcess
<1>2. CountersFit
  BY DEF Init, CountersFit
<1>3. HarqInv
  BY DEF Init, HarqInv, ProcessOfGrant, GrantOfProcess, CollectedIdsAvailable,
         HarqIdsReservedOnce, IsHarqIdAvailable, FreeProcess
<1> QED BY <1>1, <1>2, <1>3 DEF GrantInv

\* The reselection check restarts counters and drops reservations.
LEMMA TriggerStep ==
  ASSUME GrantInv, Trigger
  PROVE  GrantInv'
<1>1. PICK kept \in SUBSET {g \in grantInfo :
                              Spent(g) /\ HasData(g) /\ MayBeKept(g)} :
        grantInfo' = Reselect(grantInfo, kept)
  BY DEF Trigger
<1>2. \A r \in grantInfo' : \E g \in grantInfo :
        /\ r.harqId = g.harqId /\ r.dst = g.dst
        /\ r \in GrantInfo
        /\ \E i \in Nat : r.cResel = i * r.prevResel + r.resel
        /\ \/ r = g /\ ~(Spent(g) /\ HasData(g))
           \/ Spent(g) /\ HasData(g) /\ r = [g EXCEPT !.resel = g.prevResel]
  <2> SUFFICES ASSUME NEW r \in grantInfo'
               PROVE  \E g \in grantInfo :
                        /\ r.harqId = g.harqId /\ r.dst = g.dst
                        /\ r \in GrantInfo
                        /\ \E i \in Nat : r.cResel = i * r.prevResel + r.resel
                        /\ \/ r = g /\ ~(Spent(g) /\ HasData(g))
                           \/ /\ Spent(g) /\ HasData(g)
                              /\ r = [g EXCEPT !.resel = g.prevResel]
    OBVIOUS
  <2>1. CASE r \in grantInfo /\ ~(Spent(r) /\ HasData(r))
    BY <2>1 DEF GrantInv, TypeOK, CountersFit
  <2>2. ASSUME NEW g \in kept, r = [g EXCEPT !.resel = g.prevResel]
        PROVE  /\ g \in grantInfo /\ Spent(g) /\ HasData(g)
               /\ r.harqId = g.harqId /\ r.dst = g.dst /\ r \in GrantInfo
               /\ \E i \in Nat : r.cResel = i * r.prevResel + r.resel
    <3>1. g \in grantInfo /\ Spent(g) /\ HasData(g) /\ MayBeKept(g)
      OBVIOUS
    <3> QED BY <2>2, <3>1, KeptFacts DEF GrantInv
  <2> QED BY <1>1, <2>1, <2>2 DEF Reselect
<1>3. TypeOK'
  <2>1. grantInfo' \subseteq GrantInfo
    BY <1>2
  <2>2. harqIds' \subseteq HarqIds /\ toSched' \subseteq Channel
    BY DEF Trigger, GetAvailableHarqIds, NeedScheduling
  <2> QED BY <2>1, <2>2 DEF GrantInv, TypeOK, Trigger, Phases
<1>4. CountersFit'
  BY <1>2 DEF CountersFit
<1>5. HarqIdsReservedOnce'
  <2>1. \A r, q \in grantInfo' : r.harqId = q.harqId => r = q
    BY <1>2 DEF GrantInv, HarqInv, HarqIdsReservedOnce
  <2>2. \A r \in grantInfo', k \in slGrants : r.harqId = k.harqId => r.dst = k.dst
    BY <1>2 DEF GrantInv, HarqInv, HarqIdsReservedOnce
  <2> QED BY <2>1, <2>2 DEF HarqIdsReservedOnce, Trigger
<1>6. CollectedIdsAvailable'
  BY DEF Trigger, CollectedIdsAvailable, GetAvailableHarqIds, IsHarqIdAvailable
<1>7. ProcessOfGrant' /\ GrantOfProcess'
  BY DEF GrantInv, HarqInv, Trigger, ProcessOfGrant, GrantOfProcess,
         IsHarqIdAvailable
<1> QED BY <1>3, <1>4, <1>5, <1>6, <1>7 DEF GrantInv, HarqInv

\* A grant created with an unused HARQ id, or with that of the reservation of
\* the same destination it replaces, keeps the ids apart.
LEMMA AllocateStep ==
  ASSUME GrantInv, Allocate
  PROVE  GrantInv'
<1> DEFINE d == DstToServe
           needing == {c \in toSched : DstOf[c] = d}
           rri == IF IsDynamicGrant(needing, Priority, Rri) THEN 0
                  ELSE Rri[LcIdOfRef(needing, Priority, Rri)]
<1>1. /\ d \in Destination
      /\ needing \in SUBSET Channel /\ needing # {}
  BY DestinationFacts DEF Allocate, GrantInv, TypeOK
<1>2. rri \in Nat
  BY <1>1, ReferenceFacts, GrantAssumption
<1>3. PICK group \in Selections(needing, Priority, Rri) :
      \E lcs \in Allocations(group, Priority) :
      \E S \in SlotChoices, counter \in ReselCounters :
        CreateGrant(d, lcs, S, rri, counter) /\ toSched' = toSched \ lcs
  BY Zenon DEF Allocate
<1>4. PICK lcs \in Allocations(group, Priority) :
      \E S \in SlotChoices, counter \in ReselCounters :
        CreateGrant(d, lcs, S, rri, counter) /\ toSched' = toSched \ lcs
  BY <1>3
<1>5. PICK S \in SlotChoices, counter \in ReselCounters :
        CreateGrant(d, lcs, S, rri, counter) /\ toSched' = toSched \ lcs
  BY <1>4
<1> DEFINE new(h) == NewGrant(d, lcs, S, h, rri, counter)
<1>6. lcs \in SUBSET Channel
  <2>1. group \in SUBSET needing
    BY Zenon DEF Selections
  <2>2. lcs \in SUBSET group
    BY DEF Allocations
  <2> QED BY <1>1, <2>1, <2>2
<1> HIDE DEF d, needing, rri
<1>7. \A h \in HarqIds :
        /\ new(h) \in GrantInfo /\ new(h).harqId = h /\ new(h).dst = d
        /\ \E i \in Nat : new(h).cResel = i * new(h).prevResel + new(h).resel
  BY <1>1, <1>2, <1>6, NewGrantFacts DEF GrantInv, TypeOK
<1> HIDE DEF new
<1>8. UNCHANGED <<now, phase, harqIds, slGrants, harq, buffer>>
      /\ phase = "allocate"
  BY DEF Allocate
<1>9. \/ grantInfo' = grantInfo
      \/ \E kept \in SUBSET grantInfo, h \in HarqIds :
           /\ grantInfo' = kept \cup {new(h)}
           /\ \/ h \in UnusedHarqIds(grantInfo)
              \/ \E old \in grantInfo :
                   old.harqId = h /\ old.dst = d /\ old \notin kept
  <2>1. CASE /\ UnusedHarqIds(grantInfo) # {}
             /\ grantInfo' = grantInfo \cup {new(Min(UnusedHarqIds(grantInfo)))}
    <3>1. Min(UnusedHarqIds(grantInfo)) \in UnusedHarqIds(grantInfo)
      BY <2>1, UnusedIdFacts DEF GrantInv
    <3>2. UnusedHarqIds(grantInfo) \subseteq HarqIds
      BY DEF UnusedHarqIds, GrantInv, TypeOK
    <3> QED BY <2>1, <3>1, <3>2
  <2>2. ASSUME NEW old \in Exhausted(d, rri),
               grantInfo' = (grantInfo \ {old}) \cup {new(old.harqId)}
        PROVE  \E kept \in SUBSET grantInfo, h \in HarqIds :
                 /\ grantInfo' = kept \cup {new(h)}
                 /\ \E o \in grantInfo :
                      o.harqId = h /\ o.dst = d /\ o \notin kept
    <3>1. old \in grantInfo /\ old.dst = d /\ old.harqId \in HarqIds
      BY DEF Exhausted, GrantInv, TypeOK, GrantInfo
    <3> DEFINE kept == grantInfo \ {old}
    <3>2. /\ kept \in SUBSET grantInfo /\ old \notin kept
          /\ grantInfo' = kept \cup {new(old.harqId)}
      BY <2>2
    <3> HIDE DEF kept
    <3> QED BY <3>1, <3>2
  <2>3. \/ /\ UnusedHarqIds(grantInfo) # {}
           /\ grantInfo' = grantInfo \cup {new(Min(UnusedHarqIds(grantInfo)))}
        \/ grantInfo' = grantInfo
        \/ \E old \in Exhausted(d, rri) :
             grantInfo' = (grantInfo \ {old}) \cup {new(old.harqId)}
    BY <1>5 DEF CreateGrant, new
  <2> QED BY <2>1, <2>2, <2>3
<1>10. TypeOK'
  <2>1. grantInfo' \subseteq GrantInfo
    BY <1>7, <1>9 DEF GrantInv, TypeOK
  <2> QED BY <1>5, <1>8, <2>1 DEF GrantInv, TypeOK
<1>11. CountersFit'
  BY <1>7, <1>9 DEF GrantInv, CountersFit
<1>12. HarqIdsReservedOnce'
  <2>1. CASE grantInfo' = grantInfo
    BY <1>8, <2>1 DEF GrantInv, HarqInv, HarqIdsReservedOnce
  <2>2. ASSUME NEW kept \in SUBSET grantInfo, NEW h \in HarqIds,
               grantInfo' = kept \cup {new(h)},
               h \in UnusedHarqIds(grantInfo)
        PROVE  HarqIdsReservedOnce'
    <3>1. \A g \in grantInfo : g.harqId # h
      BY <2>2 DEF UnusedHarqIds
    <3>2. IsHarqIdAvailable(h)
      BY <1>8, <2>2 DEF GrantInv, HarqInv, CollectedIdsAvailable, UnusedHarqIds
    <3>3. \A k \in slGrants : k.harqId # h
      BY <3>2, GrantAssumption DEF GrantInv, TypeOK, Grant, HarqInv,
         ProcessOfGrant, IsHarqIdAvailable, NoDst
    <3> QED BY <1>7, <1>8, <2>2, <3>1, <3>3
            DEF GrantInv, HarqInv, HarqIdsReservedOnce
  <2>3. ASSUME NEW kept \in SUBSET grantInfo, NEW h \in HarqIds,
               grantInfo' = kept \cup {new(h)},
               NEW old \in grantInfo,
               old.harqId = h /\ old.dst = d /\ old \notin kept
        PROVE  HarqIdsReservedOnce'
    <3>1. \A g \in kept : g.harqId # h
      BY <2>3 DEF GrantInv, HarqInv, HarqIdsReservedOnce
    <3>2. \A k \in slGrants : k.harqId = h => k.dst = d
      BY <2>3 DEF GrantInv, HarqInv, HarqIdsReservedOnce
    <3> QED BY <1>7, <1>8, <2>3, <3>1, <3>2
            DEF GrantInv, HarqInv, HarqIdsReservedOnce
  <2> QED BY <1>9, <2>1, <2>2, <2>3
<1>13. ProcessOfGrant' /\ GrantOfProcess' /\ CollectedIdsAvailable'
  BY <1>8 DEF GrantInv, HarqInv, ProcessOfGrant, GrantOfProcess,
              CollectedIdsAvailable, IsHarqIdAvailable
<1> QED BY <1>10, <1>11, <1>12, <1>13 DEF GrantInv, HarqInv

\* Publishing takes free processes, one for each grant that is due.
LEMMA PublishStep ==
  ASSUME GrantInv, Publish
  PROVE  GrantInv'
<1> DEFINE periodic == {g \in DueGrants : ~IsDynamic(g)}
<1>1. /\ grantInfo' = (grantInfo \ DueGrants) \cup {AfterPublish(g) : g \in periodic}
      /\ slGrants' = slGrants \cup {Published(g) : g \in DueGrants}
      /\ buffer' = [c \in Channel |-> IF \E g \in DueGrants : c \in Burst(g)
                                      THEN buffer[c] - 1 ELSE buffer[c]]
      /\ phase' = "transmit" /\ UNCHANGED <<now, harqIds, toSched>>
  BY DEF Publish
<1>2. DueGrants \subseteq grantInfo
      /\ \A g \in DueGrants : IsHarqIdAvailable(g.harqId)
  BY DEF Publish, PublishFails, HarqBusy, DueGrants
<1>3. \A g, k \in DueGrants : g.harqId = k.harqId => g = k
  BY <1>2 DEF GrantInv, HarqInv, HarqIdsReservedOnce
<1>4. \A h \in HarqIds :
        /\ (\A g \in DueGrants : g.harqId # h) => harq'[h] = harq[h]
        /\ \A g \in DueGrants : g.harqId = h =>
             harq'[h] = [dst |-> g.dst, burst |-> Burst(g)]
  <2> TAKE h \in HarqIds
  <2>1. harq'[h] = IF \E g \in DueGrants : g.harqId = h
                   THEN LET g == CHOOSE d \in DueGrants : d.harqId = h
                        IN  [dst |-> g.dst, burst |-> Burst(g)]
                   ELSE harq[h]
    BY DEF Publish
  <2>2. ASSUME NEW g \in DueGrants, g.harqId = h
        PROVE  harq'[h] = [dst |-> g.dst, burst |-> Burst(g)]
    <3>1. (CHOOSE d \in DueGrants : d.harqId = h) = g
      BY <1>3, <2>2
    <3> QED BY <2>1, <2>2, <3>1
  <2> QED BY <2>1, <2>2
<1>5. \A g \in DueGrants :
        /\ g \in GrantInfo /\ Published(g) \in Grant
        /\ Published(g).harqId = g.harqId /\ Published(g).dst = g.dst
  BY <1>2, PublishedFacts DEF GrantInv, TypeOK
<1>6. \A g \in periodic :
        /\ AfterPublish(g) \in GrantInfo /\ AfterPublish(g).harqId = g.harqId
        /\ AfterPublish(g).dst = g.dst
        /\ \E i \in Nat :
             AfterPublish(g).cResel = i * AfterPublish(g).prevResel + AfterPublish(g).resel
  BY AfterPublishFacts DEF GrantInv
<1>7. \A r \in grantInfo' : \E g \in grantInfo :
        /\ r.harqId = g.harqId /\ r.dst = g.dst
        /\ \/ r = g /\ g \notin DueGrants
           \/ g \in DueGrants /\ r = AfterPublish(g)
  BY <1>1, <1>2, <1>6
<1>8. \A k \in slGrants' :
        \/ k \in slGrants
        \/ \E g \in DueGrants :
             k = Published(g) /\ k.harqId = g.harqId /\ k.dst = g.dst
  BY <1>1, <1>5
\* A published grant of before uses no process that is due now.
<1>9. \A k \in slGrants, g \in DueGrants : k.harqId # g.harqId
  BY <1>2, GrantAssumption DEF GrantInv, TypeOK, Grant, HarqInv,
     ProcessOfGrant, IsHarqIdAvailable, NoDst
<1> HIDE DEF periodic
<1>10. TypeOK'
  <2>1. grantInfo' \subseteq GrantInfo /\ slGrants' \subseteq Grant
    BY <1>1, <1>5, <1>6, <1>7 DEF GrantInv, TypeOK, periodic
  <2>2. harq' \in [HarqIds -> [dst : Destination \cup {NoDst},
                               burst : SUBSET Channel]]
    <3>1. \A h \in HarqIds : harq'[h] \in [dst : Destination \cup {NoDst},
                                           burst : SUBSET Channel]
      <4> TAKE h \in HarqIds
      <4>1. CASE \A g \in DueGrants : g.harqId # h
        BY <1>4, <4>1 DEF GrantInv, TypeOK
      <4>2. ASSUME NEW g \in DueGrants, g.harqId = h
            PROVE  harq'[h] \in [dst : Destination \cup {NoDst},
                                 burst : SUBSET Channel]
        <5>1. harq'[h] = [dst |-> g.dst, burst |-> Burst(g)]
          BY <1>4, <4>2
        <5>2. g.dst \in Destination /\ Burst(g) \subseteq Channel
          BY <1>5 DEF GrantInfo, Burst
        <5> QED BY <5>1, <5>2
      <4> QED BY <4>1, <4>2
    <3>2. harq' = [h \in HarqIds |-> harq'[h]]
      BY DEF Publish
    <3> QED BY <3>1, <3>2
  <2>3. buffer' \in [Channel -> Nat]
    <3>1. \A c \in Channel : buffer[c] \in Nat
      BY DEF GrantInv, TypeOK
    <3>2. \A c \in Channel, g \in DueGrants : c \in Burst(g) => buffer[c] > 0
      BY DEF Burst
    <3> QED BY <1>1, <3>1, <3>2
  <2> QED BY <1>1, <2>1, <2>2, <2>3 DEF GrantInv, TypeOK, Phases
<1>11. CountersFit'
  BY <1>1, <1>6, <1>7 DEF GrantInv, CountersFit, periodic
<1>12. HarqIdsReservedOnce'
  <2>1. \A r, q \in grantInfo' : r.harqId = q.harqId => r = q
    BY <1>7 DEF GrantInv, HarqInv, HarqIdsReservedOnce
  <2>2. \A r \in grantInfo', k \in slGrants' : r.harqId = k.harqId => r.dst = k.dst
    BY <1>2, <1>7, <1>8 DEF GrantInv, HarqInv, HarqIdsReservedOnce
  <2> QED BY <2>1, <2>2 DEF HarqIdsReservedOnce
<1>13. ProcessOfGrant'
  <2>1. \A g, k \in slGrants' : g.harqId = k.harqId => g = k
    BY <1>3, <1>8, <1>9 DEF GrantInv, HarqInv, ProcessOfGrant
  <2>2. ASSUME NEW k \in slGrants'
        PROVE  harq'[k.harqId].dst = k.dst
    <3>1. CASE k \in slGrants
      <4>1. k.harqId \in HarqIds
        BY <3>1 DEF GrantInv, TypeOK, Grant
      <4>2. harq'[k.harqId] = harq[k.harqId]
        BY <1>4, <1>9, <3>1, <4>1
      <4> QED BY <3>1, <4>2 DEF GrantInv, HarqInv, ProcessOfGrant
    <3>2. ASSUME NEW g \in DueGrants, k.harqId = g.harqId, k.dst = g.dst
          PROVE  harq'[k.harqId].dst = k.dst
      <4>1. k.harqId \in HarqIds
        BY <1>5, <3>2 DEF GrantInfo
      <4>2. harq'[k.harqId] = [dst |-> g.dst, burst |-> Burst(g)]
        BY <1>4, <3>2, <4>1
      <4> QED BY <3>2, <4>2
    <3> QED BY <1>8, <3>1, <3>2
  <2> QED BY <2>1, <2>2 DEF ProcessOfGrant
<1>14. GrantOfProcess'
  <2> SUFFICES ASSUME NEW h \in HarqIds, harq'[h].dst # NoDst
               PROVE  \E g \in slGrants' : g.harqId = h
    BY DEF GrantOfProcess, IsHarqIdAvailable
  <2>1. CASE \A g \in DueGrants : g.harqId # h
    BY <1>1, <1>4, <2>1 DEF GrantInv, HarqInv, GrantOfProcess, IsHarqIdAvailable
  <2>2. CASE \E g \in DueGrants : g.harqId = h
    BY <1>1, <1>5, <2>2
  <2> QED BY <2>1, <2>2
<1>15. CollectedIdsAvailable'
  BY <1>1 DEF CollectedIdsAvailable
<1> QED BY <1>10, <1>11, <1>12, <1>13, <1>14, <1>15 DEF GrantInv, HarqInv

\* A transmission keeps the ids of the grants it does not complete, and frees
\* the process of one it does.
LEMMA TransmitStep ==
  ASSUME GrantInv, Transmit
  PROVE  GrantInv'
<1> DEFINE ongoing == {k \in slGrants : InSlot(k) /\ ~LastTransmission(k)}
<1>1. /\ slGrants' = {g \in slGrants : ~InSlot(g)}
                       \cup {Transmitted(g) : g \in ongoing}
      /\ harq' = [h \in HarqIds |->
                    IF \E g \in slGrants : g.harqId = h /\ LastTransmission(g)
                    THEN FreeProcess ELSE harq[h]]
      /\ now' = now + 1 /\ phase' = "idle"
      /\ UNCHANGED <<harqIds, toSched, grantInfo, buffer>>
  BY DEF Transmit
<1>2. \A g \in ongoing :
        /\ Transmitted(g) \in Grant
        /\ Transmitted(g).harqId = g.harqId /\ Transmitted(g).dst = g.dst
  BY TransmittedFacts DEF GrantInv
<1>3. \A r \in slGrants' : \E g \in slGrants :
        /\ ~LastTransmission(g)
        /\ \/ r = g /\ ~InSlot(g)
           \/ r = Transmitted(g) /\ InSlot(g)
        /\ r.harqId = g.harqId /\ r.dst = g.dst
  BY <1>1, <1>2 DEF LastTransmission
<1>4. \A g, k \in slGrants : g.harqId = k.harqId => g = k
  BY DEF GrantInv, HarqInv, ProcessOfGrant
<1>5. TypeOK'
  <2>1. slGrants' \subseteq Grant
    BY <1>1, <1>2 DEF GrantInv, TypeOK
  <2>2. harq' \in [HarqIds -> [dst : Destination \cup {NoDst},
                               burst : SUBSET Channel]]
    BY <1>1 DEF GrantInv, TypeOK, FreeProcess
  <2> QED BY <1>1, <2>1, <2>2 DEF GrantInv, TypeOK, Phases
<1>6. CountersFit' /\ CollectedIdsAvailable'
  BY <1>1 DEF GrantInv, CountersFit, CollectedIdsAvailable
<1>7. HarqIdsReservedOnce'
  BY <1>1, <1>3 DEF GrantInv, HarqInv, HarqIdsReservedOnce
<1>8. ProcessOfGrant'
  <2>1. \A r, q \in slGrants' : r.harqId = q.harqId => r = q
    BY <1>3, <1>4
  <2>2. ASSUME NEW r \in slGrants'
        PROVE  harq'[r.harqId].dst = r.dst
    <3>1. PICK g \in slGrants : /\ ~LastTransmission(g)
                                /\ r.harqId = g.harqId /\ r.dst = g.dst
      BY <1>3
    <3>2. g.harqId \in HarqIds
      BY DEF GrantInv, TypeOK, Grant
    <3>3. harq'[g.harqId] = harq[g.harqId]
      BY <1>1, <1>4, <3>1, <3>2
    <3> QED BY <3>1, <3>3 DEF GrantInv, HarqInv, ProcessOfGrant
  <2> QED BY <2>1, <2>2 DEF ProcessOfGrant
<1>9. GrantOfProcess'
  <2> SUFFICES ASSUME NEW h \in HarqIds, harq'[h].dst # NoDst
               PROVE  \E g \in slGrants' : g.harqId = h
    BY DEF GrantOfProcess, IsHarqIdAvailable
  <2>1. harq'[h] = harq[h]
        /\ \A g \in slGrants : g.harqId = h => ~LastTransmission(g)
    BY <1>1 DEF FreeProcess
  <2>2. PICK g \in slGrants : g.harqId = h
    BY <2>1 DEF GrantInv, HarqInv, GrantOfProcess, IsHarqIdAvailable
  <2>3. g \in slGrants' \/ g \in ongoing
    BY <1>1, <2>1, <2>2
  <2> QED BY <1>1, <1>2, <2>2, <2>3
<1> QED BY <1>5, <1>6, <1>7, <1>8, <1>9 DEF GrantInv, HarqInv

\* Every step of the UE MAC and of its scheduler keeps it.
THEOREM NextGrants == GrantInv /\ [Next]_vars => GrantInv'
<1> SUFFICES ASSUME GrantInv, [Next]_vars PROVE GrantInv'
  OBVIOUS
<1> USE DEF GrantInv, HarqInv
<1>1. ASSUME NEW c \in Channel, ReportBufferStatus(c) PROVE GrantInv'
  <2>1. TypeOK'
    BY <1>1 DEF ReportBufferStatus, TypeOK
  <2>2. CountersFit' /\ HarqInv'
    BY <1>1 DEF ReportBufferStatus, CountersFit, ProcessOfGrant,
       GrantOfProcess, CollectedIdsAvailable, HarqIdsReservedOnce,
       IsHarqIdAvailable
  <2> QED BY <2>1, <2>2
<1>2. CASE Trigger
  BY <1>2, TriggerStep
<1>3. CASE TriggerWithoutHarq
  BY <1>3 DEF TriggerWithoutHarq, TypeOK, Phases, CountersFit, ProcessOfGrant,
     GrantOfProcess, CollectedIdsAvailable, HarqIdsReservedOnce,
     IsHarqIdAvailable
<1>4. CASE Allocate
  BY <1>4, AllocateStep
<1>5. CASE AllocationEnds
  BY <1>5 DEF AllocationEnds, TypeOK, Phases, CountersFit, ProcessOfGrant,
     GrantOfProcess, CollectedIdsAvailable, HarqIdsReservedOnce,
     IsHarqIdAvailable
<1>6. CASE Publish
  BY <1>6, PublishStep
<1>7. CASE Transmit
  BY <1>7, TransmitStep
<1>8. CASE UNCHANGED vars
  BY <1>8 DEF vars, TypeOK, CountersFit, ProcessOfGrant, GrantOfProcess,
     CollectedIdsAvailable, HarqIdsReservedOnce, IsHarqIdAvailable
<1> QED BY <1>1, <1>2, <1>3, <1>4, <1>5, <1>6, <1>7, <1>8 DEF Next

-----------------------------------------------------------------------------
\* In every reachable state the grants are well typed, counted down as created,
\* and each HARQ process that is busy belongs to one published grant.
THEOREM GrantInvariant == Spec => []GrantInv
  BY InitGrants, NextGrants, PTL DEF Spec

\* TypeOK: counters that are decremented when a block is published, and a
\* reselection counter restarted when a reservation is kept, never fall below
\* zero.
THEOREM GrantsTypeOK == Spec => []TypeOK
<1>1. GrantInv => TypeOK
  BY DEF GrantInv
<1> QED BY <1>1, GrantInvariant, PTL

\* No HARQ process leaks or serves two blocks: it is busy exactly while one
\* published grant uses it (DoSchedUeNrSlConfigInd, DoNrSlSlotIndication).
THEOREM GrantsHarqFollowsGrants == Spec => []HarqFollowsGrants
<1>1. GrantInv => HarqFollowsGrants
  <2> SUFFICES ASSUME GrantInv, NEW h \in HarqIds
               PROVE  LET users == {g \in slGrants : g.harqId = h}
                      IN  IF IsHarqIdAvailable(h) THEN users = {}
                          ELSE \E g \in slGrants :
                                 users = {g} /\ g.dst = harq[h].dst
    BY DEF HarqFollowsGrants
  <2> DEFINE users == {g \in slGrants : g.harqId = h}
  <2>1. CASE IsHarqIdAvailable(h)
    BY <2>1, GrantAssumption DEF GrantInv, TypeOK, Grant, HarqInv,
       ProcessOfGrant, IsHarqIdAvailable, NoDst
  <2>2. CASE ~IsHarqIdAvailable(h)
    <3>1. PICK g \in slGrants : g.harqId = h
      BY <2>2 DEF GrantInv, HarqInv, GrantOfProcess
    <3>2. users = {g} /\ g.dst = harq[h].dst
      BY <3>1 DEF GrantInv, HarqInv, ProcessOfGrant
    <3> QED BY <2>2, <3>2
  <2> QED BY <2>1, <2>2
<1> QED BY <1>1, GrantInvariant, PTL

\* GetUnusedHarqId never hands out an id that a reservation holds or that
\* another destination's block in flight uses.
THEOREM GrantsHarqIdsReservedOnce == Spec => []HarqIdsReservedOnce
<1>1. GrantInv => HarqIdsReservedOnce
  BY DEF GrantInv, HarqInv
<1> QED BY <1>1, GrantInvariant, PTL

-----------------------------------------------------------------------------
(***************************************************************************)
(* The scheduler never lets two grants with slots left serve the same      *)
(* logical channel.  The argument: the channels the trigger wants to       *)
(* schedule have no grant with slots, an allocation serves only channels   *)
(* among them and takes those off the list, and nothing else gives a grant *)
(* more channels or new slots.                                             *)
(***************************************************************************)

\* A channel that still needs scheduling is served by no grant with slots.
ScheduledHaveNoGrant ==
  \A c \in toSched, g \in grantInfo : HasSlots(g) => c \notin g.lcs

ChannelInv == OneGrantPerChannel /\ ScheduledHaveNoGrant

\* A grant takes over channels and slots of another: it has the same channels
\* and no slots the other had not.
TakesOver(r, g) == r.lcs = g.lcs /\ (HasSlots(r) => HasSlots(g))

\* Grants that take over those of before, each from another one, serve a
\* channel once if those did.
LEMMA TakingOverKeeps ==
  ASSUME OneGrantPerChannel,
         \A r, q \in grantInfo' : r # q =>
           \E g, k \in grantInfo : g # k /\ TakesOver(r, g) /\ TakesOver(q, k)
  PROVE  OneGrantPerChannel'
  BY DEF OneGrantPerChannel, TakesOver, HasSlots

-----------------------------------------------------------------------------
\* The channels that are served are among those that need scheduling.
LEMMA ServedChannels ==
  ASSUME NEW needing, NEW group \in Selections(needing, Priority, Rri),
         NEW lcs \in Allocations(group, Priority)
  PROVE  lcs \subseteq needing
<1>1. group \in SUBSET needing
  BY Zenon DEF Selections
<1>2. lcs \in SUBSET group
  BY DEF Allocations
<1> QED BY <1>1, <1>2

\* The channels of a new grant are the ones it was created for.
LEMMA NewGrantChannels ==
  ASSUME NEW d, NEW lcs, NEW S, NEW h, NEW rri, NEW counter
  PROVE  NewGrant(d, lcs, S, h, rri, counter).lcs = lcs
  BY DEF NewGrant, SinglePduGrant, SpsGrant

\* An allocation serves channels that had no grant.
LEMMA AllocateChannels ==
  ASSUME ChannelInv, Allocate
  PROVE  ChannelInv'
<1> DEFINE needing == {c \in toSched : DstOf[c] = DstToServe}
           rri == IF IsDynamicGrant(needing, Priority, Rri) THEN 0
                  ELSE Rri[LcIdOfRef(needing, Priority, Rri)]
<1>1. PICK group \in Selections(needing, Priority, Rri) :
      \E lcs \in Allocations(group, Priority) :
      \E S \in SlotChoices, counter \in ReselCounters :
        CreateGrant(DstToServe, lcs, S, rri, counter) /\ toSched' = toSched \ lcs
  BY Zenon DEF Allocate
<1>2. PICK lcs \in Allocations(group, Priority) :
      \E S \in SlotChoices, counter \in ReselCounters :
        CreateGrant(DstToServe, lcs, S, rri, counter) /\ toSched' = toSched \ lcs
  BY <1>1
<1>3. PICK S \in SlotChoices, counter \in ReselCounters :
        CreateGrant(DstToServe, lcs, S, rri, counter) /\ toSched' = toSched \ lcs
  BY <1>2
<1>4. lcs \subseteq needing
  BY ServedChannels
<1>5. lcs \subseteq toSched
  BY <1>4
<1> HIDE DEF needing, rri
<1> DEFINE new(h) == NewGrant(DstToServe, lcs, S, h, rri, counter)
<1>6. \A h : new(h).lcs = lcs
  BY NewGrantChannels
<1>7. \/ grantInfo' = grantInfo
      \/ \E kept \in SUBSET grantInfo : \E h : grantInfo' = kept \cup {new(h)}
  <2>1. CASE UnusedHarqIds(grantInfo) # {}
             /\ grantInfo' = grantInfo \cup {new(Min(UnusedHarqIds(grantInfo)))}
    BY <2>1
  <2>2. ASSUME NEW old \in Exhausted(DstToServe, rri),
               grantInfo' = (grantInfo \ {old}) \cup {new(old.harqId)}
        PROVE  \E kept \in SUBSET grantInfo : \E h : grantInfo' = kept \cup {new(h)}
    <3>1. grantInfo \ {old} \in SUBSET grantInfo
      OBVIOUS
    <3> QED BY <2>2, <3>1
  <2>3. \/ /\ UnusedHarqIds(grantInfo) # {}
           /\ grantInfo' = grantInfo \cup {new(Min(UnusedHarqIds(grantInfo)))}
        \/ grantInfo' = grantInfo
        \/ \E old \in Exhausted(DstToServe, rri) :
             grantInfo' = (grantInfo \ {old}) \cup {new(old.harqId)}
    BY <1>3 DEF CreateGrant, new
  <2> QED BY <2>1, <2>2, <2>3
<1>8. \A r \in grantInfo' : r \in grantInfo \/ r.lcs = lcs
  BY <1>6, <1>7
<1>9. \A r, q \in grantInfo' : r \notin grantInfo /\ q \notin grantInfo => r = q
  BY <1>7
<1> HIDE DEF new
<1>10. OneGrantPerChannel'
  <2> SUFFICES ASSUME NEW r \in grantInfo', NEW q \in grantInfo',
                      HasSlots(r), HasSlots(q), r # q
               PROVE  r.lcs \cap q.lcs = {}
    BY DEF OneGrantPerChannel, HasSlots
  <2>1. CASE r \in grantInfo /\ q \in grantInfo
    BY <2>1 DEF ChannelInv, OneGrantPerChannel
  <2>2. CASE r \in grantInfo /\ q \notin grantInfo
    BY <1>5, <1>8, <2>2 DEF ChannelInv, ScheduledHaveNoGrant
  <2>3. CASE r \notin grantInfo /\ q \in grantInfo
    BY <1>5, <1>8, <2>3 DEF ChannelInv, ScheduledHaveNoGrant
  <2> QED BY <1>9, <2>1, <2>2, <2>3
<1>11. ScheduledHaveNoGrant'
  <2> SUFFICES ASSUME NEW c \in toSched', NEW g \in grantInfo', HasSlots(g)
               PROVE  c \notin g.lcs
    BY DEF ScheduledHaveNoGrant, HasSlots
  <2>1. c \in toSched /\ c \notin lcs
    BY <1>3
  <2> QED BY <1>8, <2>1 DEF ChannelInv, ScheduledHaveNoGrant
<1> QED BY <1>10, <1>11 DEF ChannelInv

-----------------------------------------------------------------------------
\* The reselection check drops grants or restarts their counters, and looks
\* for the channels without a grant afterwards.
LEMMA TriggerChannels ==
  ASSUME GrantInv, ChannelInv, Trigger
  PROVE  ChannelInv'
<1>1. PICK kept \in SUBSET {g \in grantInfo :
                              Spent(g) /\ HasData(g) /\ MayBeKept(g)} :
        grantInfo' = Reselect(grantInfo, kept)
  BY DEF Trigger
<1> DEFINE restarted(g) == [g EXCEPT !.resel = g.prevResel]
<1>2. \A g \in grantInfo : TakesOver(g, g) /\ TakesOver(restarted(g), g)
  <2> TAKE g \in grantInfo
  <2>1. g \in GrantInfo
    BY DEF GrantInv, TypeOK
  <2>2. restarted(g).lcs = g.lcs /\ restarted(g).slots = g.slots
    BY <2>1 DEF GrantInfo
  <2> HIDE DEF restarted
  <2> QED BY <2>2 DEF TakesOver, HasSlots
<1>3. \A r \in grantInfo' : \E g \in grantInfo :
        \/ r = g /\ ~(Spent(g) /\ HasData(g))
        \/ r = restarted(g) /\ Spent(g) /\ HasData(g)
  BY <1>1 DEF Reselect
<1> HIDE DEF restarted
<1>4. \A r, q \in grantInfo' : r # q =>
        \E g, k \in grantInfo : g # k /\ TakesOver(r, g) /\ TakesOver(q, k)
  <2> SUFFICES ASSUME NEW r \in grantInfo', NEW q \in grantInfo', r # q
               PROVE  \E g, k \in grantInfo :
                        g # k /\ TakesOver(r, g) /\ TakesOver(q, k)
    OBVIOUS
  <2>1. PICK g \in grantInfo :
          \/ r = g /\ ~(Spent(g) /\ HasData(g))
          \/ r = restarted(g) /\ Spent(g) /\ HasData(g)
    BY <1>3
  <2>2. PICK k \in grantInfo :
          \/ q = k /\ ~(Spent(k) /\ HasData(k))
          \/ q = restarted(k) /\ Spent(k) /\ HasData(k)
    BY <1>3
  <2>3. g # k
    BY <2>1, <2>2
  <2>4. TakesOver(r, g) /\ TakesOver(q, k)
    BY <1>2, <2>1, <2>2
  <2> QED BY <2>3, <2>4
<1>5. OneGrantPerChannel'
  BY <1>4, TakingOverKeeps DEF ChannelInv
<1>6. ScheduledHaveNoGrant'
  <2>1. \A c \in toSched', g \in grantInfo' : HasSlots(g) => c \notin g.lcs
    BY DEF Trigger, NeedScheduling
  <2> QED BY <2>1 DEF ScheduledHaveNoGrant, HasSlots
<1> QED BY <1>5, <1>6 DEF ChannelInv

\* Publishing only takes slots off grants.
LEMMA PublishChannels ==
  ASSUME GrantInv, ChannelInv, Publish
  PROVE  ChannelInv'
<1>1. /\ grantInfo' = (grantInfo \ DueGrants)
           \cup {AfterPublish(g) : g \in {d \in DueGrants : ~IsDynamic(d)}}
      /\ toSched' = toSched /\ DueGrants \subseteq grantInfo
  BY DEF Publish, DueGrants
<1>2. \A g \in grantInfo : TakesOver(g, g) /\ TakesOver(AfterPublish(g), g)
  <2> TAKE g \in grantInfo
  <2>1. g \in GrantInfo
    BY DEF GrantInv, TypeOK
  <2> DEFINE w == WithoutBlock(g)
             r == AfterPublish(g)
  <2>2. w.lcs = g.lcs /\ w.slots = g.slots \ TransportBlock(g) /\ w \in GrantInfo
    BY <2>1 DEF WithoutBlock, GrantInfo
  <2>3. r = [w EXCEPT !.resel = @ - 1, !.cResel = @ - 1]
    BY DEF AfterPublish
  <2> HIDE DEF w, r
  <2>4. r.lcs = w.lcs /\ r.slots = w.slots
    BY <2>2, <2>3 DEF GrantInfo
  <2>5. TakesOver(r, g)
    BY <2>2, <2>4 DEF TakesOver, HasSlots
  <2> QED BY <2>5 DEF TakesOver, r
<1>3. \A r \in grantInfo' : \E g \in grantInfo :
        \/ r = g /\ g \notin DueGrants
        \/ r = AfterPublish(g) /\ g \in DueGrants
  BY <1>1
<1>4. OneGrantPerChannel'
  <2>1. \A r, q \in grantInfo' : r # q =>
          \E g, k \in grantInfo : g # k /\ TakesOver(r, g) /\ TakesOver(q, k)
    <3> SUFFICES ASSUME NEW r \in grantInfo', NEW q \in grantInfo', r # q
                 PROVE  \E g, k \in grantInfo :
                          g # k /\ TakesOver(r, g) /\ TakesOver(q, k)
      OBVIOUS
    <3>1. PICK g \in grantInfo : \/ r = g /\ g \notin DueGrants
                                 \/ r = AfterPublish(g) /\ g \in DueGrants
      BY <1>3
    <3>2. PICK k \in grantInfo : \/ q = k /\ k \notin DueGrants
                                 \/ q = AfterPublish(k) /\ k \in DueGrants
      BY <1>3
    <3>3. g # k /\ TakesOver(r, g) /\ TakesOver(q, k)
      BY <1>2, <3>1, <3>2
    <3> QED BY <3>3
  <2> QED BY <2>1, TakingOverKeeps DEF ChannelInv
<1>5. ScheduledHaveNoGrant'
  <2> SUFFICES ASSUME NEW c \in toSched, NEW r \in grantInfo', HasSlots(r)
               PROVE  c \notin r.lcs
    BY <1>1 DEF ScheduledHaveNoGrant, HasSlots
  <2>1. PICK g \in grantInfo : TakesOver(r, g)
    BY <1>2, <1>3
  <2> QED BY <2>1 DEF ChannelInv, ScheduledHaveNoGrant, TakesOver
<1> QED BY <1>4, <1>5 DEF ChannelInv

-----------------------------------------------------------------------------
\* No step gives two reservations a channel in common.
LEMMA NextChannels == GrantInv /\ ChannelInv /\ [Next]_vars => ChannelInv'
<1> SUFFICES ASSUME GrantInv, ChannelInv, [Next]_vars
             PROVE  ChannelInv'
  OBVIOUS
<1> USE DEF ChannelInv, OneGrantPerChannel, ScheduledHaveNoGrant, HasSlots
<1>1. ASSUME NEW c \in Channel, ReportBufferStatus(c) PROVE ChannelInv'
  BY <1>1 DEF ReportBufferStatus
<1>2. CASE Trigger
  BY <1>2, TriggerChannels
<1>3. CASE TriggerWithoutHarq
  BY <1>3 DEF TriggerWithoutHarq
<1>4. CASE Allocate
  BY <1>4, AllocateChannels
<1>5. CASE AllocationEnds
  BY <1>5 DEF AllocationEnds
<1>6. CASE Publish
  BY <1>6, PublishChannels
<1>7. CASE Transmit
  BY <1>7 DEF Transmit
<1>8. CASE UNCHANGED vars
  BY <1>8 DEF vars
<1> QED BY <1>1, <1>2, <1>3, <1>4, <1>5, <1>6, <1>7, <1>8 DEF Next

\* A logical channel has at most one grant with slots left, whatever the
\* reselection check keeps or drops and in whatever order destinations are
\* served (TxResourceReselectionCheck, DoSchedUeNrSlTriggerReq).
THEOREM GrantsOneGrantPerChannel == Spec => []OneGrantPerChannel
<1>1. Init => ChannelInv
  BY DEF Init, ChannelInv, OneGrantPerChannel, ScheduledHaveNoGrant
<1>2. ChannelInv => OneGrantPerChannel
  BY DEF ChannelInv
<1> QED BY <1>1, <1>2, NextChannels, GrantInvariant, PTL DEF Spec

-----------------------------------------------------------------------------
(***************************************************************************)
(* The slots of reservations and of published grants.  A reservation is a  *)
(* block of slots repeated at its interval; since the selection window is  *)
(* not longer than the interval (WindowAssumption), the repetitions do not *)
(* overlap, and the front of the ordered slot set up to the next new-data  *)
(* slot is exactly one of them.  So every published block has the slots of *)
(* its transmissions, and its last one is reached.                         *)
(***************************************************************************)

\* How many blocks are left in a reservation.
BlocksLeft(g) == IF IsDynamic(g) THEN 1 ELSE g.cResel

\* S is the next block of g: nSelected slots, fewer apart than the interval.
NextBlock(g, S) ==
  /\ S # {} /\ IsFiniteSet(S) /\ Cardinality(S) = g.nSelected
  /\ ~IsDynamic(g) => \A s, t \in S : s < t + g.rri
  /\ g.slots = Repeat(S, g.rri, BlocksLeft(g))
  /\ g.news = Repeat({Min(S)}, g.rri, BlocksLeft(g))

ReservationsAreBlocks ==
  \A g \in grantInfo : \E S \in SUBSET Nat : NextBlock(g, S)

\* A published grant has the slots of its missing transmissions ahead of it.
OnSchedule(g) ==
  /\ IsFiniteSet(g.slots) /\ g.slots # {}
  /\ \A s \in g.slots : s >= now
  /\ Cardinality(g.slots) = g.nSelected - (g.tbTxCounter - 1)

ScheduleInv ==
  /\ ReservationsAreBlocks
  /\ \A g \in slGrants : OnSchedule(g)

-----------------------------------------------------------------------------
\* Arithmetic of repetitions.

\* A positive multiple is one period more than the previous one.
LEMMA Multiple ==
  ASSUME NEW i \in Nat, NEW p \in Nat
  PROVE  /\ i * p \in Nat
         /\ i # 0 => i - 1 \in Nat /\ i * p = (i - 1) * p + p
  OBVIOUS

\* What is in a set and below all of it is its minimum.
LEMMA MinUnique ==
  ASSUME NEW S \in SUBSET Nat, NEW m \in S, \A x \in S : m <= x
  PROVE  Min(S) = m
<1>1. Min(S) \in S /\ \A y \in S : Min(S) <= y
  BY NatMin
<1>2. Min(S) <= m /\ m <= Min(S) /\ Min(S) \in Nat
  BY <1>1
<1> QED BY <1>2

\* Every repetition of every slot of the block is there,
LEMMA RepeatHas ==
  ASSUME NEW S \in SUBSET Nat, NEW p \in Nat, NEW n \in Nat,
         NEW s \in S, NEW i \in Nat, i < n
  PROVE  s + i * p \in Repeat(S, p, n)
<1>1. i \in 0 .. n - 1
  OBVIOUS
<1> QED BY <1>1 DEF Repeat

\* and nothing else is.
LEMMA RepeatOnly ==
  ASSUME NEW S \in SUBSET Nat, NEW p \in Nat, NEW n \in Nat,
         NEW x \in Repeat(S, p, n)
  PROVE  \E s \in S, i \in Nat : i < n /\ x = s + i * p
<1>1. PICK s \in S, i \in 0 .. n - 1 : x = s + i * p
  BY DEF Repeat
<1>2. i \in Nat /\ i < n
  OBVIOUS
<1> QED BY <1>1, <1>2

\* The first repetition is the block itself.
LEMMA RepeatFront ==
  ASSUME NEW S \in SUBSET Nat, S # {}, NEW p \in Nat, NEW n \in Nat \ {0}
  PROVE  /\ S \subseteq Repeat(S, p, n)
         /\ Min(Repeat(S, p, n)) = Min(S)
<1>1. \A s \in S : s \in Repeat(S, p, n)
  <2> TAKE s \in S
  <2>1. s + 0 * p \in Repeat(S, p, n)
    BY RepeatHas
  <2>2. s \in Nat /\ s + 0 * p = s
    OBVIOUS
  <2> QED BY <2>1, <2>2
<1>2. Min(S) \in S /\ \A s \in S : Min(S) <= s
  BY NatMin
<1>3. Repeat(S, p, n) \in SUBSET Nat
  BY RepeatFacts
<1>4. \A x \in Repeat(S, p, n) : Min(S) <= x
  <2> TAKE x \in Repeat(S, p, n)
  <2>1. PICK s \in S, i \in Nat : i < n /\ x = s + i * p
    BY RepeatOnly
  <2>2. s \in Nat /\ i * p \in Nat /\ Min(S) <= s /\ Min(S) \in Nat
    BY <1>2, Multiple
  <2> QED BY <2>1, <2>2
<1>5. Min(Repeat(S, p, n)) = Min(S)
  BY <1>1, <1>2, <1>3, <1>4, MinUnique
<1> QED BY <1>1, <1>5

\* A block one interval later.
Shift(S, p) == {s + p : s \in S}

\* A block moved by an interval keeps its size, and its first slot moves with it.
LEMMA ShiftFacts ==
  ASSUME NEW S \in SUBSET Nat, S # {}, IsFiniteSet(S), NEW p \in Nat
  PROVE  /\ Shift(S, p) \in SUBSET Nat /\ Shift(S, p) # {}
         /\ IsFiniteSet(Shift(S, p))
         /\ Cardinality(Shift(S, p)) = Cardinality(S)
         /\ Min(Shift(S, p)) = Min(S) + p
         /\ Shift({Min(S)}, p) = {Min(Shift(S, p))}
<1> DEFINE T == Shift(S, p)
           f == [s \in S |-> s + p]
<1>1. T \in SUBSET Nat /\ T # {}
  <2>1. \A s \in S : s + p \in Nat
    OBVIOUS
  <2>2. PICK s \in S : TRUE
    OBVIOUS
  <2>3. s + p \in T
    BY DEF Shift
  <2> QED BY <2>1, <2>3 DEF Shift
<1>2. f \in [S -> T] /\ \A y \in T : \E s \in S : f[s] = y
  BY DEF Shift
<1>3. \A s, t \in S : f[s] = f[t] => s = t
  <2> TAKE s, t \in S
  <2>1. s \in Nat /\ t \in Nat /\ f[s] = s + p /\ f[t] = t + p
    OBVIOUS
  <2> HIDE DEF f
  <2> QED BY <2>1
<1>4. f \in Bijection(S, T)
  <2> HIDE DEF f, T
  <2> QED BY <1>2, <1>3 DEF Bijection, Injection, Surjection, IsInjective
<1>5. IsFiniteSet(T) /\ Cardinality(T) = Cardinality(S)
  BY <1>4, FS_Bijection DEF ExistsBijection
<1>6. Min(S) \in S /\ \A s \in S : Min(S) <= s
  BY NatMin
<1>7. Min(T) = Min(S) + p
  <2>1. Min(S) + p \in T
    BY <1>6 DEF Shift
  <2>2. \A y \in T : Min(S) + p <= y
    <3> SUFFICES ASSUME NEW s \in S PROVE Min(S) + p <= s + p
      BY DEF Shift
    <3>1. s \in Nat /\ Min(S) \in Nat /\ Min(S) <= s
      BY <1>6
    <3> HIDE DEF f, T
    <3> QED BY <3>1
  <2> HIDE DEF T
  <2> QED BY <1>1, <2>1, <2>2, MinUnique
<1>8. Shift({Min(S)}, p) = {Min(T)}
  BY <1>7 DEF Shift
<1> QED BY <1>1, <1>5, <1>7, <1>8

\* Without its first block, a repetition starts one interval later.
LEMMA RepeatRest ==
  ASSUME NEW S \in SUBSET Nat, S # {}, IsFiniteSet(S),
         NEW p \in Nat, NEW n \in Nat \ {0},
         \A s, t \in S : s < t + p
  PROVE  Repeat(S, p, n) \ S = Repeat(Shift(S, p), p, n - 1)
<1>1. n - 1 \in Nat /\ Shift(S, p) \in SUBSET Nat
  <2>1. Shift(S, p) \in SUBSET Nat
    BY ShiftFacts
  <2>2. n - 1 \in Nat
    OBVIOUS
  <2> QED BY <2>1, <2>2
<1>2. ASSUME NEW x \in Repeat(S, p, n), x \notin S
      PROVE  x \in Repeat(Shift(S, p), p, n - 1)
  <2>1. PICK s \in S, i \in Nat : i < n /\ x = s + i * p
    BY <1>2, RepeatOnly
  <2>2. i # 0
    BY <1>2, <2>1
  <2>3. i - 1 \in Nat /\ i * p = (i - 1) * p + p /\ (i - 1) * p \in Nat
    BY <2>2, Multiple
  <2>4. s + p \in Shift(S, p)
    BY DEF Shift
  <2>5. x = (s + p) + (i - 1) * p /\ i - 1 < n - 1
    BY <2>1, <2>3
  <2>6. (s + p) + (i - 1) * p \in Repeat(Shift(S, p), p, n - 1)
    BY <1>1, <2>3, <2>4, <2>5, RepeatHas
  <2> QED BY <2>5, <2>6
<1>3. ASSUME NEW x \in Repeat(Shift(S, p), p, n - 1)
      PROVE  x \in Repeat(S, p, n) /\ x \notin S
  <2>1. PICK y \in Shift(S, p), j \in Nat : j < n - 1 /\ x = y + j * p
    BY ZenonT(40), <1>1, <1>3, RepeatOnly
  <2>2. PICK s \in S : y = s + p
    BY DEF Shift
  <2>3. j * p \in Nat /\ j + 1 \in Nat /\ (j + 1) * p = j * p + p /\ j + 1 < n
    BY <2>1, Multiple
  <2>4. x = s + (j + 1) * p
    BY <2>1, <2>2, <2>3
  <2>5. x \in Repeat(S, p, n)
    <3>1. s + (j + 1) * p \in Repeat(S, p, n)
      BY <2>3, RepeatHas
    <3> QED BY <2>4, <3>1
  <2>6. ~(x < s + p)
    BY <2>1, <2>2, <2>3
  <2>7. x \notin S
    BY <2>6
  <2> QED BY <2>5, <2>7
<1> QED BY <1>2, <1>3

\* A single repetition is the block.
LEMMA RepeatOnce ==
  ASSUME NEW S \in SUBSET Nat, NEW p \in Nat
  PROVE  Repeat(S, p, 1) = S
<1>1. ASSUME NEW x \in Repeat(S, p, 1) PROVE x \in S
  <2>1. PICK s \in S, i \in Nat : i < 1 /\ x = s + i * p
    BY <1>1, RepeatOnly
  <2>2. s \in Nat /\ i = 0
    BY <2>1
  <2>3. x = s
    BY <2>1, <2>2
  <2> QED BY <2>3
<1>2. ASSUME NEW s \in S PROVE s \in Repeat(S, p, 1)
  <2>1. s + 0 * p \in Repeat(S, p, 1)
    BY RepeatHas
  <2>2. s \in Nat /\ s + 0 * p = s
    OBVIOUS
  <2> QED BY <2>1, <2>2
<1> QED BY <1>1, <1>2

-----------------------------------------------------------------------------
\* Blocks of a reservation.

\* What is published of a reservation is its next block.
LEMMA TransportBlockIsNext ==
  ASSUME NEW g \in GrantInfo, NEW S \in SUBSET Nat, NextBlock(g, S),
         BlocksLeft(g) # 0
  PROVE  First(g) = Min(S) /\ TransportBlock(g) = S
<1> DEFINE p == g.rri
           n == BlocksLeft(g)
           m == Min(S)
<1>1. p \in Nat /\ n \in Nat \ {0}
  BY DEF GrantInfo, BlocksLeft
<1>2. /\ S # {} /\ g.slots = Repeat(S, p, n) /\ g.news = Repeat({m}, p, n)
      /\ ~IsDynamic(g) => \A s, t \in S : s < t + p
  BY DEF NextBlock
<1>3. m \in S /\ m \in Nat /\ \A s \in S : m <= s
  BY <1>2, NatMin
<1>4. IsDynamic(g) => n = 1
  BY DEF BlocksLeft
<1>5. ~IsDynamic(g) => p > 0
  BY <1>1 DEF IsDynamic
<1> HIDE DEF p, n, m
<1>6. First(g) = m
  BY <1>1, <1>2, RepeatFront DEF First, m
<1>7. \A k \in g.news : k = m \/ (~IsDynamic(g) /\ k >= m + p)
  <2> SUFFICES ASSUME NEW k \in Repeat({m}, p, n), k # m
               PROVE  ~IsDynamic(g) /\ k >= m + p
    BY <1>2
  <2>1. {m} \in SUBSET Nat
    BY <1>3
  <2>2. PICK i \in Nat : i < n /\ k = m + i * p
    <3>1. n \in Nat
      BY <1>1
    <3>2. \E s \in {m}, i \in Nat : i < n /\ k = s + i * p
      BY ZenonT(40), <1>1, <2>1, <3>1, RepeatOnly
    <3> QED BY <3>2
  <2>3. i # 0
    BY <1>1, <1>3, <2>2
  <2>4. i - 1 \in Nat /\ i * p = (i - 1) * p + p /\ (i - 1) * p \in Nat
    BY <1>1, <2>3, Multiple
  <2>5. k >= m + p
    BY <1>1, <1>3, <2>2, <2>4
  <2>6. ~(n = 1)
    BY <2>2, <2>3
  <2> QED BY <1>4, <2>5, <2>6
<1>8. m \in g.news
  <2>1. {m} \in SUBSET Nat
    BY <1>3
  <2> QED BY <1>1, <1>2, <2>1, RepeatFront
<1>9. ASSUME NEW s \in S PROVE s \in TransportBlock(g)
  <2>1. s \in g.slots
    BY <1>1, <1>2, RepeatFront
  <2>2. ASSUME NEW k \in g.news, k <= s PROVE k = m
    <3>1. CASE ~IsDynamic(g) /\ k >= m + p
      <4>1. s < m + p
        BY <1>2, <1>3, <3>1
      <4>2. s \in Nat /\ k \in Nat
        <5>1. Repeat({m}, p, n) \in SUBSET Nat
          BY <1>1, <1>3, RepeatFacts
        <5> QED BY <1>2, <5>1
      <4> QED BY <1>1, <1>3, <2>2, <3>1, <4>1, <4>2
    <3> QED BY <1>7, <3>1
  <2> QED BY <1>6, <2>1, <2>2 DEF TransportBlock
<1>10. ASSUME NEW x \in TransportBlock(g) PROVE x \in S
  <2>1. x \in g.slots /\ \A k \in g.news : k <= x => k = m
    BY <1>6 DEF TransportBlock
  <2>2. PICK s \in S, i \in Nat : i < n /\ x = s + i * p
    <3>1. n \in Nat /\ x \in Repeat(S, p, n)
      BY <1>1, <1>2, <2>1
    <3> QED BY <1>1, <3>1, RepeatOnly
  <2>3. s \in Nat /\ i * p \in Nat /\ m <= s
    BY <1>1, <1>3, Multiple
  <2>4. m + i * p \in g.news
    <3>1. {m} \in SUBSET Nat /\ m \in {m}
      BY <1>3
    <3> QED BY <1>1, <1>2, <2>2, <3>1, RepeatHas
  <2>5. m + i * p <= x
    BY <1>3, <2>2, <2>3
  <2>6. m + i * p = m
    BY <2>1, <2>4, <2>5
  <2>7. x = s
    BY <1>3, <2>2, <2>3, <2>6
  <2> QED BY <2>7
<1> QED BY <1>6, <1>9, <1>10 DEF m

\* After publishing, the blocks of a reservation start one interval later.
LEMMA RestIsBlocks ==
  ASSUME NEW g \in GrantInfo, NEW S \in SUBSET Nat, NextBlock(g, S),
         ~IsDynamic(g), g.resel # 0, g.cResel # 0
  PROVE  NextBlock(AfterPublish(g), Shift(S, g.rri))
<1> DEFINE p == g.rri
           n == g.cResel
           w == WithoutBlock(g)
           r == AfterPublish(g)
           T == Shift(S, p)
<1>1. p \in Nat /\ p # 0 /\ n \in Nat \ {0} /\ BlocksLeft(g) = n
  BY DEF GrantInfo, IsDynamic, BlocksLeft
<1>2. First(g) = Min(S) /\ TransportBlock(g) = S
  BY <1>1, TransportBlockIsNext
<1>3. /\ S # {} /\ IsFiniteSet(S) /\ Cardinality(S) = g.nSelected
      /\ \A s, t \in S : s < t + p
      /\ g.slots = Repeat(S, p, n) /\ g.news = Repeat({Min(S)}, p, n)
  BY <1>1 DEF NextBlock
<1>4. /\ T \in SUBSET Nat /\ T # {} /\ IsFiniteSet(T)
      /\ Cardinality(T) = g.nSelected
      /\ Shift({Min(S)}, p) = {Min(T)}
  BY <1>1, <1>3, ShiftFacts
<1>5. \A s, t \in T : s < t + p
  <2> SUFFICES ASSUME NEW s \in S, NEW t \in S PROVE s + p < (t + p) + p
    BY DEF Shift
  <2>1. s \in Nat /\ t \in Nat /\ s < t + p
    BY <1>3
  <2> HIDE DEF p
  <2> QED BY <1>1, <2>1
<1>6. g.slots \ S = Repeat(T, p, n - 1)
  <2>1. Repeat(S, p, n) \ S = Repeat(T, p, n - 1)
    <3> HIDE DEF p, n
    <3> QED BY <1>1, <1>3, RepeatRest DEF T
  <2> QED BY <1>3, <2>1
<1>7. g.news \ {Min(S)} = Repeat({Min(T)}, p, n - 1)
  <2>1. Min(S) \in Nat
    BY <1>3, NatMin
  <2>2. {Min(S)} \in SUBSET Nat /\ {Min(S)} # {} /\ IsFiniteSet({Min(S)})
    BY <2>1, FS_Singleton
  <2>3. \A s, t \in {Min(S)} : s < t + p
    BY <1>1, <2>1
  <2>4. Repeat({Min(S)}, p, n) \ {Min(S)} = Repeat(Shift({Min(S)}, p), p, n - 1)
    <3> HIDE DEF p, n
    <3> QED BY <1>1, <2>2, <2>3, RepeatRest
  <2> QED BY <1>3, <1>4, <2>4
<1>8. /\ w \in GrantInfo /\ w.slots = g.slots \ S /\ w.news = g.news \ {Min(S)}
      /\ w.nSelected = g.nSelected /\ w.rri = p /\ w.resel = g.resel /\ w.cResel = n
  BY <1>2 DEF WithoutBlock, GrantInfo
<1>9. /\ r.slots = w.slots /\ r.news = w.news /\ r.nSelected = w.nSelected
      /\ r.rri = w.rri /\ r.cResel = w.cResel - 1
  <2> HIDE DEF w
  <2>1. r = [w EXCEPT !.resel = @ - 1, !.cResel = @ - 1]
    BY DEF AfterPublish, w
  <2> HIDE DEF r
  <2> QED BY <1>8, <2>1 DEF GrantInfo
<1> HIDE DEF w, r, T, p, n
<1>10. ~IsDynamic(r) /\ BlocksLeft(r) = n - 1
  BY <1>1, <1>8, <1>9 DEF IsDynamic, BlocksLeft
<1>11. NextBlock(r, T)
  BY <1>4, <1>5, <1>6, <1>7, <1>8, <1>9, <1>10 DEF NextBlock
<1> QED BY <1>11 DEF r, T, p

\* A new grant is its slots, repeated at an interval that the window fits in.
LEMMA NewGrantIsBlocks ==
  ASSUME NEW d, NEW lcs, NEW S \in SlotChoices, NEW h, NEW rri \in Nat,
         NEW counter \in ReselCounters, now \in Nat,
         rri # 0 => T2 - T1 + 1 <= rri
  PROVE  S \in SUBSET Nat /\ NextBlock(NewGrant(d, lcs, S, h, rri, counter), S)
<1> DEFINE g == NewGrant(d, lcs, S, h, rri, counter)
<1>1. S \in SUBSET ((now + T1) .. (now + T2)) /\ S # {}
  BY DEF SlotChoices, TxOpportunities
<1>2. now + T1 \in Nat /\ now + T2 \in Nat
  BY GrantAssumption
<1>3. S \in SUBSET Nat /\ IsFiniteSet(S)
  <2>1. (now + T1) .. (now + T2) \subseteq Nat
    BY <1>2
  <2>2. IsFiniteSet((now + T1) .. (now + T2))
    BY <1>2, FS_Interval
  <2> QED BY <1>1, <2>1, <2>2, FS_Subset
<1>4. Min(S) \in Nat
  BY <1>1, <1>3, NatMin
<1>5. CASE rri = 0
  <2>1. g = SinglePduGrant(d, lcs, S, h)
    BY <1>5 DEF NewGrant
  <2>2. /\ g.nSelected = Cardinality(S) /\ g.rri = 0
        /\ g.slots = S /\ g.news = {Min(S)}
    BY <2>1 DEF SinglePduGrant
  <2> HIDE DEF g
  <2>3. IsDynamic(g) /\ BlocksLeft(g) = 1
    BY <2>2 DEF IsDynamic, BlocksLeft
  <2>4. Repeat(S, 0, 1) = S
    BY <1>3, RepeatOnce
  <2>5. {Min(S)} \in SUBSET Nat
    BY <1>4
  <2>6. Repeat({Min(S)}, 0, 1) = {Min(S)}
    BY <2>5, RepeatOnce
  <2>7. NextBlock(g, S)
    BY <1>1, <1>3, <2>2, <2>3, <2>4, <2>6 DEF NextBlock
  <2> QED BY <1>3, <2>7 DEF g
<1>6. CASE rri # 0
  <2>1. g = SpsGrant(d, lcs, S, h, rri, counter)
    BY <1>6 DEF NewGrant
  <2>2. /\ g.nSelected = Cardinality(S) /\ g.rri = rri
        /\ g.slots = Repeat(S, rri, ReselFactor * counter)
        /\ g.news = Repeat({Min(S)}, rri, ReselFactor * counter)
        /\ g.cResel = ReselFactor * counter
    BY <2>1 DEF SpsGrant
  <2> HIDE DEF g
  <2>3. ~IsDynamic(g) /\ BlocksLeft(g) = ReselFactor * counter
    BY <1>6, <2>2 DEF IsDynamic, BlocksLeft
  <2>4. \A s, t \in S : s < t + rri
    <3> TAKE s, t \in S
    <3>1. s \in (now + T1) .. (now + T2) /\ t \in (now + T1) .. (now + T2)
      BY <1>1
    <3>2. T1 \in Nat /\ T2 \in Nat /\ T2 - T1 + 1 <= rri
      BY <1>6, GrantAssumption
    <3> QED BY <1>2, <3>1, <3>2
  <2>5. NextBlock(g, S)
    BY <1>1, <1>3, <2>2, <2>3, <2>4 DEF NextBlock
  <2> QED BY <1>3, <2>5 DEF g
<1> QED BY <1>5, <1>6

-----------------------------------------------------------------------------
\* The steps of the scheduler and the MAC.

\* Restarting the reselection counter leaves the blocks alone.
LEMMA TriggerSchedule ==
  ASSUME GrantInv, ScheduleInv, Trigger
  PROVE  ScheduleInv'
<1>1. PICK kept \in SUBSET {g \in grantInfo :
                              Spent(g) /\ HasData(g) /\ MayBeKept(g)} :
        grantInfo' = Reselect(grantInfo, kept)
  BY DEF Trigger
<1>2. \A r \in grantInfo' : \E g \in grantInfo :
        r = g \/ r = [g EXCEPT !.resel = g.prevResel]
  BY <1>1 DEF Reselect
<1>3. ASSUME NEW r \in grantInfo'
      PROVE  \E S \in SUBSET Nat : NextBlock(r, S)
  <2>1. PICK g \in grantInfo : r = g \/ r = [g EXCEPT !.resel = g.prevResel]
    BY <1>2
  <2>2. g \in GrantInfo
    BY DEF GrantInv, TypeOK
  <2>3. /\ r.nSelected = g.nSelected /\ r.rri = g.rri /\ r.slots = g.slots
        /\ r.news = g.news /\ r.cResel = g.cResel
    BY <2>1, <2>2 DEF GrantInfo
  <2>4. PICK S \in SUBSET Nat : NextBlock(g, S)
    BY DEF ScheduleInv, ReservationsAreBlocks
  <2>5. NextBlock(r, S)
    BY <2>3, <2>4 DEF NextBlock, BlocksLeft, IsDynamic
  <2> QED BY <2>5
<1>4. ReservationsAreBlocks'
  BY <1>3 DEF ReservationsAreBlocks, NextBlock, BlocksLeft, IsDynamic
<1>5. \A g \in slGrants' : OnSchedule(g)'
  BY DEF ScheduleInv, Trigger, OnSchedule
<1> QED BY <1>4, <1>5 DEF ScheduleInv

\* A new reservation consists of blocks.
LEMMA AllocateSchedule ==
  ASSUME GrantInv, ScheduleInv, Allocate
  PROVE  ScheduleInv'
<1> DEFINE needing == {c \in toSched : DstOf[c] = DstToServe}
           rri == IF IsDynamicGrant(needing, Priority, Rri) THEN 0
                  ELSE Rri[LcIdOfRef(needing, Priority, Rri)]
<1>1. needing \in SUBSET Channel /\ needing # {}
  BY DestinationFacts DEF Allocate, GrantInv, TypeOK
<1>2. LcIdOfRef(needing, Priority, Rri) \in Channel
  BY <1>1, ReferenceFacts
<1>3. rri \in Nat /\ (rri # 0 => T2 - T1 + 1 <= rri)
  <2>1. \A c \in Channel : Rri[c] \in Nat
    BY GrantAssumption
  <2> QED BY <1>2, <2>1, WindowAssumption
<1>4. PICK group \in Selections(needing, Priority, Rri) :
      \E lcs \in Allocations(group, Priority) :
      \E S \in SlotChoices, counter \in ReselCounters :
        CreateGrant(DstToServe, lcs, S, rri, counter) /\ toSched' = toSched \ lcs
  BY Zenon DEF Allocate
<1>5. PICK lcs \in Allocations(group, Priority) :
      \E S \in SlotChoices, counter \in ReselCounters :
        CreateGrant(DstToServe, lcs, S, rri, counter) /\ toSched' = toSched \ lcs
  BY <1>4
<1>6. PICK S \in SlotChoices, counter \in ReselCounters :
        CreateGrant(DstToServe, lcs, S, rri, counter) /\ toSched' = toSched \ lcs
  BY <1>5
<1> HIDE DEF needing, rri
<1> DEFINE new(h) == NewGrant(DstToServe, lcs, S, h, rri, counter)
<1>7. S \in SUBSET Nat /\ \A h : NextBlock(new(h), S)
  BY <1>3, NewGrantIsBlocks DEF GrantInv, TypeOK
<1>8. \A r \in grantInfo' : r \in grantInfo \/ \E h : r = new(h)
  BY <1>6 DEF CreateGrant, new
<1> HIDE DEF new
<1>9. ReservationsAreBlocks'
  <2>1. \A r \in grantInfo' : \E B \in SUBSET Nat : NextBlock(r, B)
    BY <1>7, <1>8 DEF ScheduleInv, ReservationsAreBlocks
  <2> QED BY <2>1 DEF ReservationsAreBlocks, NextBlock, BlocksLeft, IsDynamic
<1>10. \A g \in slGrants' : OnSchedule(g)'
  BY DEF ScheduleInv, Allocate, OnSchedule
<1> QED BY <1>9, <1>10 DEF ScheduleInv

\* Publishing moves whole blocks that are not in the past.
LEMMA PublishSchedule ==
  ASSUME GrantInv, ScheduleInv, Publish
  PROVE  ScheduleInv'
<1>1. /\ grantInfo' = (grantInfo \ DueGrants)
           \cup {AfterPublish(g) : g \in {d \in DueGrants : ~IsDynamic(d)}}
      /\ slGrants' = slGrants \cup {Published(g) : g \in DueGrants}
      /\ now' = now
  BY DEF Publish
<1>2. ASSUME NEW g \in DueGrants
      PROVE  /\ g \in grantInfo /\ g \in GrantInfo /\ First(g) \in Int
             /\ ~IsDynamic(g) => g.resel # 0 /\ g.cResel # 0
             /\ BlocksLeft(g) # 0 /\ ~StaleSlot(g)
  <2>1. g \in grantInfo /\ g \in GrantInfo /\ (IsDynamic(g) \/ g.resel > 0)
    BY DEF DueGrants, Due, GrantInv, TypeOK
  <2>2. ~IsDynamic(g) => g.resel # 0 /\ g.cResel # 0
    <3>1. PICK i \in Nat : g.cResel = i * g.prevResel + g.resel
      BY <2>1 DEF GrantInv, CountersFit
    <3>2. g.resel \in Nat /\ g.prevResel \in Nat /\ i * g.prevResel \in Nat
      BY <2>1 DEF GrantInfo
    <3> QED BY <2>1, <3>1, <3>2
  <2>3. BlocksLeft(g) # 0
    BY <2>2 DEF BlocksLeft
  <2>4. ~StaleSlot(g)
    BY DEF Publish, PublishFails
  <2>5. PICK S \in SUBSET Nat : NextBlock(g, S)
    BY <2>1 DEF ScheduleInv, ReservationsAreBlocks
  <2>6. First(g) = Min(S) /\ S # {}
    BY <2>1, <2>3, <2>5, TransportBlockIsNext DEF NextBlock
  <2>7. First(g) \in Int
    <3>1. Min(S) \in S
      BY <2>6, NatMin
    <3>2. \A s \in S : s \in Int
      BY <2>5
    <3> QED BY <2>6, <3>1, <3>2
  <2> QED BY <2>1, <2>2, <2>3, <2>4, <2>7
<1>3. ASSUME NEW r \in grantInfo'
      PROVE  \E S \in SUBSET Nat : NextBlock(r, S)
  <2>1. CASE r \in grantInfo
    BY <2>1 DEF ScheduleInv, ReservationsAreBlocks
  <2>2. ASSUME NEW g \in DueGrants, ~IsDynamic(g), r = AfterPublish(g)
        PROVE  \E S \in SUBSET Nat : NextBlock(r, S)
    <3>1. g \in grantInfo /\ g \in GrantInfo /\ g.resel # 0 /\ g.cResel # 0
      BY <1>2, <2>2
    <3>2. PICK S \in SUBSET Nat : NextBlock(g, S)
      BY <3>1 DEF ScheduleInv, ReservationsAreBlocks
    <3>3. NextBlock(r, Shift(S, g.rri))
      BY <2>2, <3>1, <3>2, RestIsBlocks
    <3>4. Shift(S, g.rri) \in SUBSET Nat
      BY <3>1, <3>2, ShiftFacts DEF NextBlock, GrantInfo
    <3> QED BY <3>3, <3>4
  <2> QED BY <1>1, <2>1, <2>2
<1>4. ReservationsAreBlocks'
  BY <1>3 DEF ReservationsAreBlocks, NextBlock, BlocksLeft, IsDynamic
<1>5. ASSUME NEW g \in DueGrants PROVE OnSchedule(Published(g))
  <2>1. g \in grantInfo /\ g \in GrantInfo /\ BlocksLeft(g) # 0 /\ ~StaleSlot(g)
    BY <1>2
  <2>2. PICK S \in SUBSET Nat : NextBlock(g, S)
    BY <2>1 DEF ScheduleInv, ReservationsAreBlocks
  <2>3. First(g) = Min(S) /\ TransportBlock(g) = S
    BY <2>1, <2>2, TransportBlockIsNext
  <2>4. S # {} /\ IsFiniteSet(S) /\ Cardinality(S) = g.nSelected
    BY <2>2 DEF NextBlock
  <2>5. Min(S) \in Nat /\ \A s \in S : Min(S) <= s
    BY <2>4, NatMin
  <2>6. \A s \in S : s >= now
    <3>1. now \in Nat /\ ~(Min(S) < now)
      BY <2>1, <2>3 DEF StaleSlot, GrantInv, TypeOK
    <3> QED BY <2>5, <3>1
  <2>7. /\ Published(g).slots = S /\ Published(g).nSelected = g.nSelected
        /\ Published(g).tbTxCounter = 1
    BY <2>3 DEF Published
  <2>8. Cardinality(S) = g.nSelected - (1 - 1)
    BY <2>1, <2>4 DEF GrantInfo
  <2> QED BY <2>4, <2>6, <2>7, <2>8 DEF OnSchedule
<1>6. \A g \in slGrants' : OnSchedule(g)'
  <2>1. \A g \in slGrants' : OnSchedule(g)
    BY <1>1, <1>5 DEF ScheduleInv
  <2> QED BY <1>1, <2>1 DEF OnSchedule
<1> QED BY <1>4, <1>6 DEF ScheduleInv

\* A transmission uses the slot of now, and a grant that has more of them
\* keeps them.
LEMMA TransmitSchedule ==
  ASSUME GrantInv, ScheduleInv, Transmit
  PROVE  ScheduleInv'
<1>1. /\ slGrants' = {g \in slGrants : ~InSlot(g)}
           \cup {Transmitted(g) :
                   g \in {k \in slGrants : InSlot(k) /\ ~LastTransmission(k)}}
      /\ now' = now + 1 /\ grantInfo' = grantInfo
  BY DEF Transmit
<1>2. now \in Nat
  BY DEF GrantInv, TypeOK
<1>3. ReservationsAreBlocks'
  BY <1>1 DEF ScheduleInv, ReservationsAreBlocks, NextBlock, BlocksLeft, IsDynamic
<1>4. ASSUME NEW g \in slGrants
      PROVE  /\ g \in Grant /\ OnSchedule(g) /\ g.slots \in SUBSET Nat
             /\ First(g) \in g.slots /\ First(g) \in Nat
             /\ \A s \in g.slots : First(g) <= s
  <2>1. g \in Grant /\ OnSchedule(g)
    BY DEF GrantInv, TypeOK, ScheduleInv
  <2>2. g.slots \in SUBSET Nat /\ g.slots # {}
    BY <2>1 DEF Grant, OnSchedule
  <2> QED BY <2>1, <2>2, NatMin DEF First
<1>5. ASSUME NEW g \in slGrants, ~InSlot(g) PROVE OnSchedule(g)'
  <2>1. OnSchedule(g) /\ First(g) # now
    BY <1>4, <1>5 DEF InSlot, HasSlots, OnSchedule
  <2>2. First(g) >= now /\ First(g) \in Nat
    BY <1>4, <2>1 DEF OnSchedule
  <2>3. \A s \in g.slots : s >= now + 1
    BY <1>2, <1>4, <2>1, <2>2
  <2> QED BY <1>1, <2>1, <2>3 DEF OnSchedule
<1>6. ASSUME NEW g \in slGrants, InSlot(g), ~LastTransmission(g),
             NEW r, r = Transmitted(g)
      PROVE  OnSchedule(r)'
  <2> DEFINE rest == g.slots \ {now}
  <2>1. /\ r.slots = rest /\ r.nSelected = g.nSelected
        /\ r.tbTxCounter = g.tbTxCounter + 1
    BY <1>4, <1>6 DEF Transmitted, Grant
  <2>2. now \in g.slots
    BY <1>4, <1>6 DEF InSlot
  <2>3. g.tbTxCounter # g.nSelected /\ g.tbTxCounter \in Nat /\ g.nSelected \in Nat
    BY <1>4, <1>6 DEF LastTransmission, Grant
  <2>4. /\ IsFiniteSet(rest) /\ Cardinality(rest) = Cardinality(g.slots) - 1
        /\ IsFiniteSet(g.slots)
        /\ Cardinality(g.slots) = g.nSelected - (g.tbTxCounter - 1)
    BY <1>4, <2>2, FS_RemoveElement DEF OnSchedule
  <2>5. Cardinality(rest) = g.nSelected - ((g.tbTxCounter + 1) - 1)
    BY <2>3, <2>4
  <2>6. rest # {}
    <3>1. Cardinality({}) = 0
      BY FS_EmptySet
    <3> HIDE DEF rest
    <3> QED BY <2>3, <2>5, <3>1
  <2>7. \A s \in rest : s >= now + 1
    BY <1>2, <1>4 DEF OnSchedule
  <2> HIDE DEF rest
  <2> QED BY <1>1, <2>1, <2>4, <2>5, <2>6, <2>7 DEF OnSchedule
<1>7. \A r \in slGrants' : OnSchedule(r)'
  <2> TAKE r \in slGrants'
  <2>1. \/ r \in slGrants /\ ~InSlot(r)
        \/ \E g \in slGrants :
             InSlot(g) /\ ~LastTransmission(g) /\ r = Transmitted(g)
    BY <1>1
  <2> QED BY <1>5, <1>6, <2>1
<1> QED BY <1>3, <1>7 DEF ScheduleInv

\* Every step keeps the slots of the reservations ahead of the current one.
LEMMA NextSchedule == GrantInv /\ ScheduleInv /\ [Next]_vars => ScheduleInv'
<1> SUFFICES ASSUME GrantInv, ScheduleInv, [Next]_vars
             PROVE  ScheduleInv'
  OBVIOUS
<1> USE DEF ScheduleInv, ReservationsAreBlocks, NextBlock, BlocksLeft,
            IsDynamic, OnSchedule
<1>1. ASSUME NEW c \in Channel, ReportBufferStatus(c) PROVE ScheduleInv'
  BY <1>1 DEF ReportBufferStatus
<1>2. CASE Trigger
  BY <1>2, TriggerSchedule
<1>3. CASE TriggerWithoutHarq
  BY <1>3 DEF TriggerWithoutHarq
<1>4. CASE Allocate
  BY <1>4, AllocateSchedule
<1>5. CASE AllocationEnds
  BY <1>5 DEF AllocationEnds
<1>6. CASE Publish
  BY <1>6, PublishSchedule
<1>7. CASE Transmit
  BY <1>7, TransmitSchedule
<1>8. CASE UNCHANGED vars
  BY <1>8 DEF vars
<1> QED BY <1>1, <1>2, <1>3, <1>4, <1>5, <1>6, <1>7, <1>8 DEF Next

\* There is no reservation at the start.
LEMMA InitSchedule == Init => ScheduleInv
  BY DEF Init, ScheduleInv, ReservationsAreBlocks

\* In every reachable state the slots of a reservation are whole blocks ahead
\* of the current slot, and a published grant has one slot per transmission left.
THEOREM ScheduleInvariant == Spec => []ScheduleInv
  BY InitSchedule, NextSchedule, GrantInvariant, PTL DEF Spec

\* A published grant has exactly the slots of its missing transmissions,
\* none of them in the past: the counter comparison in DoNrSlSlotIndication
\* meets its last slot, and the assertion "Empty grant in m_slGrants" holds.
THEOREM GrantsKeepSchedule == Spec => []GrantsStayOnSchedule
<1>1. GrantInv /\ ScheduleInv => GrantsStayOnSchedule
  <2> SUFFICES ASSUME GrantInv, ScheduleInv, NEW g \in slGrants
               PROVE  /\ HasSlots(g) /\ First(g) >= now
                      /\ Cardinality(g.slots) = g.nSelected - (g.tbTxCounter - 1)
    BY DEF GrantsStayOnSchedule
  <2>1. OnSchedule(g) /\ g \in Grant
    BY DEF ScheduleInv, GrantInv, TypeOK
  <2>2. g.slots \in SUBSET Nat /\ g.slots # {}
    BY <2>1 DEF OnSchedule, Grant
  <2>3. First(g) \in g.slots
    BY <2>2, NatMin DEF First
  <2> QED BY <2>1, <2>3 DEF OnSchedule, HasSlots
<1> QED BY <1>1, GrantInvariant, ScheduleInvariant, PTL

-----------------------------------------------------------------------------
\* How many slots a reservation holds.

\* Slots of a later repetition come later.
LEMMA RepeatLater ==
  ASSUME NEW S \in SUBSET Nat, NEW p \in Nat, \A s, t \in S : s < t + p,
         NEW s \in S, NEW t \in S, NEW i \in Nat, NEW j \in Nat, i < j
  PROVE  s + i * p < t + j * p
<1>1. s \in Nat /\ t \in Nat /\ s < t + p
  OBVIOUS
<1>2. PICK k \in Nat : j = (i + 1) + k
  <2>1. j - (i + 1) \in Nat /\ j = (i + 1) + (j - (i + 1))
    OBVIOUS
  <2> QED BY <2>1
<1>3. j * p = i * p + p + k * p
  BY <1>2
<1>4. i * p \in Nat /\ k * p \in Nat
  BY Multiple
<1> QED BY <1>1, <1>3, <1>4

\* Repetitions that do not overlap have as many slots as n blocks.
LEMMA RepeatCardinality ==
  ASSUME NEW S \in SUBSET Nat, IsFiniteSet(S), NEW p \in Nat, NEW n \in Nat,
         \A s, t \in S : s < t + p
  PROVE  Cardinality(Repeat(S, p, n)) = n * Cardinality(S)
<1> DEFINE P == S \X (0 .. n - 1)
           R == Repeat(S, p, n)
           f == [x \in P |-> x[1] + x[2] * p]
<1>1. \A s \in S, i \in 0 .. n - 1 : f[<<s, i>>] = s + i * p
  OBVIOUS
<1>2. \A x \in P : \E s \in S, i \in 0 .. n - 1 : x = <<s, i>> /\ f[x] = s + i * p
  <2> TAKE x \in P
  <2>1. x[1] \in S /\ x[2] \in 0 .. n - 1 /\ x = <<x[1], x[2]>>
    OBVIOUS
  <2>2. f[x] = x[1] + x[2] * p
    OBVIOUS
  <2> HIDE DEF f, P
  <2> QED BY <2>1, <2>2
<1>3. \A x \in P : f[x] \in R
  BY <1>2 DEF Repeat
<1>4. \A y \in R : \E x \in P : f[x] = y
  <2> TAKE y \in R
  <2>1. PICK s \in S, i \in 0 .. n - 1 : y = s + i * p
    BY DEF Repeat
  <2>2. <<s, i>> \in P /\ f[<<s, i>>] = s + i * p
    BY <1>1
  <2> HIDE DEF P, f
  <2> QED BY <2>1, <2>2
<1>5. \A x, y \in P : f[x] = f[y] => x = y
  <2> SUFFICES ASSUME NEW x \in P, NEW y \in P, f[x] = f[y]
               PROVE  x = y
    OBVIOUS
  <2>1. PICK s \in S, i \in 0 .. n - 1 : x = <<s, i>> /\ f[x] = s + i * p
    BY <1>2
  <2>2. PICK t \in S, j \in 0 .. n - 1 : y = <<t, j>> /\ f[y] = t + j * p
    BY <1>2
  <2> HIDE DEF P, f
  <2>3. s \in Nat /\ t \in Nat /\ i \in Nat /\ j \in Nat
    OBVIOUS
  <2>4. s + i * p = t + j * p
    BY <2>1, <2>2
  <2>5. i * p \in Nat /\ j * p \in Nat
    BY <2>3, Multiple
  <2>6. ~(i < j)
    <3>1. i < j => s + i * p < t + j * p
      BY <2>3, RepeatLater
    <3> QED BY <2>3, <2>4, <2>5, <3>1
  <2>7. ~(j < i)
    <3>1. j < i => t + j * p < s + i * p
      BY <2>3, RepeatLater
    <3> QED BY <2>3, <2>4, <2>5, <3>1
  <2>8. i = j
    BY <2>3, <2>6, <2>7
  <2>9. s = t
    BY <2>3, <2>4, <2>5, <2>8
  <2> QED BY <2>1, <2>2, <2>8, <2>9
<1>6. f \in Bijection(P, R)
  <2>1. f \in [P -> R] /\ DOMAIN f = P
    BY <1>3
  <2> HIDE DEF f, P, R
  <2> QED BY <1>4, <1>5, <2>1 DEF Bijection, Injection, Surjection, IsInjective
<1>7. IsFiniteSet(0 .. n - 1) /\ Cardinality(0 .. n - 1) = n
  <2>1. 0 \in Int /\ n - 1 \in Int
    OBVIOUS
  <2> QED BY <2>1, FS_Interval
<1>8. IsFiniteSet(P) /\ Cardinality(P) = Cardinality(S) * n
  BY <1>7, FS_Product
<1>9. Cardinality(R) = Cardinality(P)
  <2> HIDE DEF f, P, R
  <2> QED BY <1>6, <1>8, FS_Bijection DEF ExistsBijection
<1>10. Cardinality(S) \in Nat
  BY FS_CardinalityType
<1>11. Cardinality(S) * n = n * Cardinality(S)
  BY <1>10
<1> QED BY <1>8, <1>9, <1>11

\* Whatever was published and kept, a reservation holds one whole block for
\* each unit of its C_resel counter, enough for the reselection counter to
\* run out (CreateSpsGrantInfo, CheckForGrantsToPublish).
THEOREM GrantsHoldWholeBlocks == Spec => []ReservationsHoldWholeBlocks
<1>1. GrantInv /\ ScheduleInv => ReservationsHoldWholeBlocks
  <2> SUFFICES ASSUME GrantInv, ScheduleInv, NEW g \in grantInfo, ~IsDynamic(g)
               PROVE  /\ g.resel <= g.cResel
                      /\ Cardinality(g.news) = g.cResel
                      /\ Cardinality(g.slots) = g.cResel * g.nSelected
    BY DEF ReservationsHoldWholeBlocks
  <2>1. g \in GrantInfo
    BY DEF GrantInv, TypeOK
  <2>2. /\ g.rri \in Nat /\ g.rri # 0 /\ g.cResel \in Nat /\ g.resel \in Nat
        /\ g.prevResel \in Nat /\ BlocksLeft(g) = g.cResel
    BY <2>1 DEF GrantInfo, IsDynamic, BlocksLeft
  <2>3. g.resel <= g.cResel
    <3>1. PICK i \in Nat : g.cResel = i * g.prevResel + g.resel
      BY DEF GrantInv, CountersFit
    <3>2. i * g.prevResel \in Nat
      BY <2>2
    <3> QED BY <2>2, <3>1, <3>2
  <2>4. PICK S \in SUBSET Nat : NextBlock(g, S)
    BY DEF ScheduleInv, ReservationsAreBlocks
  <2>5. /\ S # {} /\ IsFiniteSet(S) /\ Cardinality(S) = g.nSelected
        /\ \A s, t \in S : s < t + g.rri
        /\ g.slots = Repeat(S, g.rri, g.cResel)
        /\ g.news = Repeat({Min(S)}, g.rri, g.cResel)
    BY <2>2, <2>4 DEF NextBlock
  <2>6. Cardinality(g.slots) = g.cResel * g.nSelected
    BY <2>2, <2>5, RepeatCardinality
  <2>7. Cardinality(g.news) = g.cResel
    <3>1. Min(S) \in Nat
      BY <2>5, NatMin
    <3>2. /\ {Min(S)} \in SUBSET Nat /\ IsFiniteSet({Min(S)})
          /\ Cardinality({Min(S)}) = 1
      BY <3>1, FS_Singleton
    <3>3. \A s, t \in {Min(S)} : s < t + g.rri
      BY <2>2, <3>1
    <3>4. Cardinality(Repeat({Min(S)}, g.rri, g.cResel)) = g.cResel * 1
      BY <2>2, <3>2, <3>3, RepeatCardinality
    <3> QED BY <2>2, <2>5, <3>4
  <2> QED BY <2>3, <2>6, <2>7
<1> QED BY <1>1, GrantInvariant, ScheduleInvariant, PTL

-----------------------------------------------------------------------------
(***************************************************************************)
(* Reservations are published in time.  A reservation that has never been  *)
(* kept has its next slot T1 or more ahead until it is published, so the   *)
(* assertions of CheckForGrantsToPublish hold for it.  For a kept one only *)
(* the second of them does: run grants_stale shows the first violated.     *)
(***************************************************************************)

\* A reservation starts with ReselFactor runs of its reselection counter; i of
\* them are left besides the current one.
RunsLeft(g, i) == i < ReselFactor /\ g.cResel = i * g.prevResel + g.resel

CountersStartFull ==
  \A g \in grantInfo :
    ~IsDynamic(g) => g.prevResel # 0 /\ \E i \in Nat : RunsLeft(g, i)

\* The slots of a transmit phase are already published.
Horizon == IF phase = "transmit" THEN now + T1 + 1 ELSE now + T1

Active(g) == NeverKept(g) /\ HasSlots(g) /\ (IsDynamic(g) \/ g.resel > 0)

NextSlotAhead == \A g \in grantInfo : Active(g) => First(g) >= Horizon

PublishInv == CountersStartFull /\ NextSlotAhead

-----------------------------------------------------------------------------
\* A kept reservation is recognized by its counters.
LEMMA KeptIsRecognized ==
  ASSUME TypeOK, NEW g \in grantInfo, ~IsDynamic(g), Spent(g), MayBeKept(g),
         g.prevResel # 0, NEW i \in Nat, RunsLeft(g, i),
         NEW r, r = [g EXCEPT !.resel = g.prevResel]
  PROVE  /\ ~IsDynamic(r) /\ r.prevResel # 0 /\ ~NeverKept(r)
         /\ \E j \in Nat : RunsLeft(r, j)
<1> DEFINE p == g.prevResel
<1>1. g \in GrantInfo /\ g.resel = 0 /\ g.cResel > 0
  BY DEF TypeOK, Spent, MayBeKept
<1>2. /\ r.resel = p /\ r.prevResel = p /\ r.cResel = g.cResel /\ r.rri = g.rri
  BY <1>1 DEF GrantInfo
<1>3. p \in Nat /\ p # 0 /\ ReselFactor \in Nat /\ i < ReselFactor
  BY <1>1, GrantAssumption DEF GrantInfo, RunsLeft
<1> HIDE DEF p
<1>4. g.cResel = i * p
  <2>1. g.cResel = i * p + 0
    BY <1>1 DEF RunsLeft, p
  <2>2. i * p \in Nat
    BY <1>3, Multiple
  <2> QED BY <2>1, <2>2
<1>5. i # 0
  BY <1>1, <1>3, <1>4
<1>6. i - 1 \in Nat /\ i * p = (i - 1) * p + p /\ i - 1 < ReselFactor
  BY <1>3, <1>5, Multiple
<1>7. RunsLeft(r, i - 1)
  BY <1>2, <1>4, <1>6 DEF RunsLeft
<1>8. ReselFactor * p # i * p
  <2>1. PICK k \in Nat : ReselFactor = i + k /\ k # 0
    <3>1. ReselFactor - i \in Nat /\ ReselFactor = i + (ReselFactor - i)
          /\ ReselFactor - i # 0
      BY <1>3
    <3> QED BY <3>1
  <2>2. ReselFactor * p = i * p + k * p
    BY <1>3, <2>1
  <2>3. k * p = (k - 1) * p + p /\ (k - 1) * p \in Nat /\ i * p \in Nat
    <3>1. k - 1 \in Nat /\ k * p = (k - 1) * p + p
      BY <1>3, <2>1, Multiple
    <3> QED BY <1>3, <3>1, Multiple
  <2> QED BY <1>3, <2>2, <2>3
<1>9. ~IsDynamic(r) /\ ~NeverKept(r)
  <2>1. r.rri # 0
    BY <1>2 DEF IsDynamic
  <2>2. ReselFactor * r.prevResel - r.cResel # r.prevResel - r.resel
    <3>1. ReselFactor * p \in Nat /\ i * p \in Nat
      BY <1>3, Multiple
    <3>2. ReselFactor * p - i * p # p - p
      BY <1>3, <1>8, <3>1
    <3> QED BY <1>2, <1>4, <3>2
  <2> QED BY <2>1, <2>2 DEF NeverKept, IsDynamic
<1> QED BY <1>2, <1>3, <1>6, <1>7, <1>9

\* The reselection keeps PublishInv,
LEMMA TriggerPublishInv ==
  ASSUME GrantInv, PublishInv, Trigger
  PROVE  PublishInv'
<1>1. PICK kept \in SUBSET {g \in grantInfo :
                              Spent(g) /\ HasData(g) /\ MayBeKept(g)} :
        grantInfo' = Reselect(grantInfo, kept)
  BY DEF Trigger
<1>2. now' = now /\ phase' = "allocate" /\ phase = "idle" /\ Horizon' = Horizon
  BY DEF Trigger, Horizon
<1>3. ASSUME NEW r \in grantInfo'
      PROVE  /\ ~IsDynamic(r) => r.prevResel # 0 /\ \E i \in Nat : RunsLeft(r, i)
             /\ Active(r) => First(r) >= Horizon
  <2>1. CASE r \in grantInfo
    BY <2>1 DEF PublishInv, CountersStartFull, NextSlotAhead
  <2>2. ASSUME NEW g \in grantInfo, Spent(g), MayBeKept(g),
               r = [g EXCEPT !.resel = g.prevResel]
        PROVE  /\ ~IsDynamic(r) => r.prevResel # 0 /\ \E i \in Nat : RunsLeft(r, i)
               /\ Active(r) => First(r) >= Horizon
    <3>1. ~IsDynamic(g)
      BY <2>2 DEF Spent
    <3>2. PICK i \in Nat : RunsLeft(g, i) /\ g.prevResel # 0
      BY <3>1 DEF PublishInv, CountersStartFull
    <3>3. r.prevResel # 0 /\ ~NeverKept(r) /\ \E j \in Nat : RunsLeft(r, j)
      BY <2>2, <3>1, <3>2, KeptIsRecognized DEF GrantInv
    <3> QED BY <3>3 DEF Active
  <2> QED BY <1>1, <2>1, <2>2 DEF Reselect
<1>4. CountersStartFull'
  BY <1>3 DEF CountersStartFull, IsDynamic, RunsLeft
<1>5. NextSlotAhead'
  BY <1>2, <1>3 DEF NextSlotAhead, Active, NeverKept, HasSlots, IsDynamic, First
<1> QED BY <1>4, <1>5 DEF PublishInv

\* A new grant has full counters and lies in the selection window.
LEMMA NewGrantAhead ==
  ASSUME TypeOK, NEW d, NEW lcs, NEW S \in SlotChoices, NEW h, NEW rri \in Nat,
         NEW counter \in ReselCounters, rri # 0 => T2 - T1 + 1 <= rri,
         NEW g, g = NewGrant(d, lcs, S, h, rri, counter)
  PROVE  /\ ~IsDynamic(g) => g.prevResel # 0 /\ \E i \in Nat : RunsLeft(g, i)
         /\ First(g) >= now + T1
<1>1. now \in Nat /\ T1 \in Nat /\ counter \in Nat \ {0} /\ ReselFactor \in Nat \ {0}
  BY GrantAssumption DEF TypeOK
<1>2. S \in SUBSET Nat /\ NextBlock(g, S)
  BY <1>1, NewGrantIsBlocks
<1>3. S # {} /\ \A s \in S : s >= now + T1
  BY DEF SlotChoices, TxOpportunities
<1>4. Min(S) >= now + T1
  BY <1>2, <1>3, NatMin
<1>5. CASE rri = 0
  <2>1. g.rri = 0 /\ g.slots = S
    BY <1>5 DEF NewGrant, SinglePduGrant
  <2> QED BY <1>4, <2>1 DEF IsDynamic, First
<1>6. CASE rri # 0
  <2>1. /\ g.rri = rri /\ g.prevResel = counter /\ g.resel = counter
        /\ g.cResel = ReselFactor * counter
        /\ g.slots = Repeat(S, rri, ReselFactor * counter)
    BY <1>6 DEF NewGrant, SpsGrant
  <2>2. /\ ReselFactor - 1 \in Nat
        /\ ReselFactor * counter = (ReselFactor - 1) * counter + counter
        /\ (ReselFactor - 1) * counter \in Nat
    <3>1. /\ ReselFactor - 1 \in Nat
          /\ ReselFactor * counter = (ReselFactor - 1) * counter + counter
      BY <1>1, Multiple
    <3> QED BY <1>1, <3>1, Multiple
  <2>3. RunsLeft(g, ReselFactor - 1)
    BY <1>1, <2>1, <2>2 DEF RunsLeft
  <2>4. ReselFactor * counter \in Nat \ {0}
    BY <1>1, <2>2
  <2>5. First(g) = Min(S)
    BY <1>2, <1>3, <2>1, <2>4, RepeatFront DEF First
  <2> QED BY <1>1, <1>4, <2>1, <2>2, <2>3, <2>5
<1> QED BY <1>5, <1>6

\* so does the allocation,
LEMMA AllocatePublishInv ==
  ASSUME GrantInv, PublishInv, Allocate
  PROVE  PublishInv'
<1> DEFINE needing == {c \in toSched : DstOf[c] = DstToServe}
           rri == IF IsDynamicGrant(needing, Priority, Rri) THEN 0
                  ELSE Rri[LcIdOfRef(needing, Priority, Rri)]
<1>1. needing \in SUBSET Channel /\ needing # {}
  BY DestinationFacts DEF Allocate, GrantInv, TypeOK
<1>2. LcIdOfRef(needing, Priority, Rri) \in Channel
  BY <1>1, ReferenceFacts
<1>3. rri \in Nat /\ (rri # 0 => T2 - T1 + 1 <= rri)
  <2>1. \A c \in Channel : Rri[c] \in Nat
    BY GrantAssumption
  <2> QED BY <1>2, <2>1, WindowAssumption
<1>4. PICK group \in Selections(needing, Priority, Rri) :
      \E lcs \in Allocations(group, Priority) :
      \E S \in SlotChoices, counter \in ReselCounters :
        CreateGrant(DstToServe, lcs, S, rri, counter) /\ toSched' = toSched \ lcs
  BY Zenon DEF Allocate
<1>5. PICK lcs \in Allocations(group, Priority) :
      \E S \in SlotChoices, counter \in ReselCounters :
        CreateGrant(DstToServe, lcs, S, rri, counter) /\ toSched' = toSched \ lcs
  BY <1>4
<1>6. PICK S \in SlotChoices, counter \in ReselCounters :
        CreateGrant(DstToServe, lcs, S, rri, counter) /\ toSched' = toSched \ lcs
  BY <1>5
<1> HIDE DEF needing, rri
<1> DEFINE new(h) == NewGrant(DstToServe, lcs, S, h, rri, counter)
<1>7. \A r \in grantInfo' : r \in grantInfo \/ \E h : r = new(h)
  BY <1>6 DEF CreateGrant, new
<1>8. \A h, g : g = new(h) =>
        /\ ~IsDynamic(g) => g.prevResel # 0 /\ \E i \in Nat : RunsLeft(g, i)
        /\ First(g) >= now + T1
  BY <1>3, NewGrantAhead DEF GrantInv
<1>9. Horizon = now + T1 /\ Horizon' = Horizon
  BY DEF Allocate, Horizon
<1> HIDE DEF new
<1>10. \A r \in grantInfo' :
         /\ ~IsDynamic(r) => r.prevResel # 0 /\ \E i \in Nat : RunsLeft(r, i)
         /\ Active(r) => First(r) >= Horizon
  BY <1>7, <1>8, <1>9 DEF PublishInv, CountersStartFull, NextSlotAhead
<1>11. CountersStartFull'
  BY <1>10 DEF CountersStartFull, IsDynamic, RunsLeft
<1>12. NextSlotAhead'
  BY <1>9, <1>10 DEF NextSlotAhead, Active, NeverKept, HasSlots, IsDynamic, First
<1> QED BY <1>11, <1>12 DEF PublishInv

\* The next block of a published reservation is an interval after the slot
\* that was due.
LEMMA PublishPublishInv ==
  ASSUME GrantInv, ScheduleInv, PublishInv, Publish
  PROVE  PublishInv'
<1>1. /\ grantInfo' = (grantInfo \ DueGrants)
           \cup {AfterPublish(g) : g \in {d \in DueGrants : ~IsDynamic(d)}}
      /\ Horizon = now + T1 /\ Horizon' = now + T1 + 1
  BY DEF Publish, Horizon
<1>2. now \in Nat /\ T1 \in Nat
  BY GrantAssumption DEF GrantInv, TypeOK
<1>3. ASSUME NEW g \in grantInfo, g \notin DueGrants
      PROVE  /\ ~IsDynamic(g) => g.prevResel # 0 /\ \E i \in Nat : RunsLeft(g, i)
             /\ Active(g) => First(g) >= now + T1 + 1
  <2>1. ~IsDynamic(g) => g.prevResel # 0 /\ \E i \in Nat : RunsLeft(g, i)
    BY DEF PublishInv, CountersStartFull
  <2>2. ASSUME Active(g) PROVE First(g) >= now + T1 + 1
    <3>1. First(g) >= now + T1 /\ ~(First(g) <= now + T1)
      BY <1>1, <1>3, <2>2 DEF PublishInv, NextSlotAhead, DueGrants, Due, Active
    <3>2. g.slots \in SUBSET Nat /\ g.slots # {}
      BY <2>2 DEF GrantInv, TypeOK, GrantInfo, Active, HasSlots
    <3>3. First(g) \in g.slots
      BY <3>2, NatMin DEF First
    <3>4. First(g) \in Nat
      BY <3>2, <3>3
    <3> QED BY <1>2, <3>1, <3>4
  <2> QED BY <2>1, <2>2
<1>4. ASSUME NEW g \in DueGrants, ~IsDynamic(g), NEW r, r = AfterPublish(g)
      PROVE  /\ ~IsDynamic(r) => r.prevResel # 0 /\ \E i \in Nat : RunsLeft(r, i)
             /\ Active(r) => First(r) >= now + T1 + 1
  <2>1. g \in grantInfo /\ g \in GrantInfo /\ g.resel > 0
    BY <1>4 DEF DueGrants, Due, GrantInv, TypeOK
  <2>2. /\ g.resel \in Nat /\ g.prevResel \in Nat /\ g.cResel \in Nat
        /\ g.rri \in Nat /\ g.rri # 0
    BY <1>4, <2>1 DEF GrantInfo, IsDynamic
  <2>3. PICK i \in Nat : RunsLeft(g, i) /\ g.prevResel # 0
    BY <1>4, <2>1 DEF PublishInv, CountersStartFull
  <2>4. g.cResel # 0
    <3>1. i * g.prevResel \in Nat /\ g.cResel = i * g.prevResel + g.resel
      BY <2>2, <2>3 DEF RunsLeft
    <3> QED BY <2>1, <2>2, <3>1
  <2>5. /\ r.prevResel = g.prevResel /\ r.resel = g.resel - 1
        /\ r.cResel = g.cResel - 1 /\ r.rri = g.rri
        /\ r.slots = g.slots \ TransportBlock(g)
    <3> DEFINE w == WithoutBlock(g)
    <3>1. /\ w \in GrantInfo /\ w.slots = g.slots \ TransportBlock(g)
          /\ w.prevResel = g.prevResel /\ w.resel = g.resel
          /\ w.cResel = g.cResel /\ w.rri = g.rri
      BY <2>1 DEF WithoutBlock, GrantInfo
    <3>2. r = [w EXCEPT !.resel = @ - 1, !.cResel = @ - 1]
      BY <1>4 DEF AfterPublish
    <3> HIDE DEF w
    <3> QED BY <3>1, <3>2 DEF GrantInfo
  <2>6. RunsLeft(r, i)
    <3>1. i * g.prevResel \in Nat /\ g.cResel = i * g.prevResel + g.resel
      BY <2>2, <2>3 DEF RunsLeft
    <3>2. g.cResel - 1 = i * g.prevResel + (g.resel - 1)
      BY <2>2, <3>1
    <3> QED BY <2>3, <2>5, <3>2 DEF RunsLeft
  <2>7. ASSUME Active(r) PROVE First(r) >= now + T1 + 1
    <3>1. PICK S \in SUBSET Nat : NextBlock(g, S)
      BY <2>1 DEF ScheduleInv, ReservationsAreBlocks
    <3>2. BlocksLeft(g) # 0 /\ S # {} /\ IsFiniteSet(S)
      BY <1>4, <2>4, <3>1 DEF BlocksLeft, NextBlock
    <3>3. First(g) = Min(S) /\ Min(S) \in Nat
      <4>1. First(g) = Min(S)
        BY <2>1, <3>1, <3>2, TransportBlockIsNext
      <4>2. Min(S) \in Nat
        BY <3>2, NatMin
      <4> QED BY <4>1, <4>2
    <3>4. NextBlock(r, Shift(S, g.rri))
      BY <1>4, <2>1, <2>2, <2>4, <3>1, RestIsBlocks
    <3>5. /\ Shift(S, g.rri) \in SUBSET Nat /\ Shift(S, g.rri) # {}
          /\ Min(Shift(S, g.rri)) = Min(S) + g.rri
      BY <2>2, <3>2, ShiftFacts
    <3>6. First(r) = Min(S) + g.rri
      <4>1. r.slots = Repeat(Shift(S, g.rri), g.rri, g.cResel - 1)
        BY <1>4, <2>5, <3>4 DEF NextBlock, BlocksLeft, IsDynamic
      <4>2. g.cResel - 1 # 0
        <5>1. Repeat(Shift(S, g.rri), g.rri, 0) = {}
          BY DEF Repeat
        <5> QED BY <2>7, <4>1, <5>1 DEF Active, HasSlots
      <4>3. g.cResel - 1 \in Nat \ {0}
        BY <2>2, <2>4, <4>2
      <4> QED BY <2>2, <3>5, <4>1, <4>3, RepeatFront DEF First
    <3>7. Active(g)
      <4>1. NeverKept(g)
        <5>1. ReselFactor * g.prevResel - (g.cResel - 1) = g.prevResel - (g.resel - 1)
          BY <1>4, <2>5, <2>7 DEF Active, NeverKept, IsDynamic
        <5>2. ReselFactor * g.prevResel \in Nat
          BY <2>2, GrantAssumption
        <5>3. ReselFactor * g.prevResel - g.cResel = g.prevResel - g.resel
          BY <2>2, <5>1, <5>2
        <5> QED BY <5>3 DEF NeverKept
      <4>2. HasSlots(g)
        BY <2>5, <2>7 DEF Active, HasSlots
      <4> QED BY <2>1, <4>1, <4>2 DEF Active
    <3>8. First(g) >= now + T1
      BY <1>1, <2>1, <3>7 DEF PublishInv, NextSlotAhead
    <3> QED BY <1>2, <2>2, <3>3, <3>6, <3>8
  <2> QED BY <2>3, <2>5, <2>6, <2>7
<1>5. \A r \in grantInfo' :
        /\ ~IsDynamic(r) => r.prevResel # 0 /\ \E i \in Nat : RunsLeft(r, i)
        /\ Active(r) => First(r) >= now + T1 + 1
  <2> TAKE r \in grantInfo'
  <2>1. \/ r \in grantInfo /\ r \notin DueGrants
        \/ \E g \in DueGrants : ~IsDynamic(g) /\ r = AfterPublish(g)
    BY <1>1
  <2> QED BY <1>3, <1>4, <2>1
<1>6. CountersStartFull'
  BY <1>5 DEF CountersStartFull, IsDynamic, RunsLeft
<1>7. NextSlotAhead'
  BY <1>1, <1>5 DEF NextSlotAhead, Active, NeverKept, HasSlots, IsDynamic, First
<1> QED BY <1>6, <1>7 DEF PublishInv

\* and so does every step.
LEMMA NextPublishInv ==
  GrantInv /\ ScheduleInv /\ PublishInv /\ [Next]_vars => PublishInv'
<1> SUFFICES ASSUME GrantInv, ScheduleInv, PublishInv, [Next]_vars
             PROVE  PublishInv'
  OBVIOUS
<1> USE DEF PublishInv, CountersStartFull, NextSlotAhead, Active, NeverKept,
            HasSlots, IsDynamic, First, RunsLeft
<1>1. ASSUME NEW c \in Channel, ReportBufferStatus(c) PROVE PublishInv'
  BY <1>1 DEF ReportBufferStatus, Horizon
<1>2. CASE Trigger
  BY <1>2, TriggerPublishInv
<1>3. CASE TriggerWithoutHarq
  BY <1>3 DEF TriggerWithoutHarq, Horizon
<1>4. CASE Allocate
  BY <1>4, AllocatePublishInv
<1>5. CASE AllocationEnds
  BY <1>5 DEF AllocationEnds, Horizon
<1>6. CASE Publish
  BY <1>6, PublishPublishInv
<1>7. CASE Transmit
  <2>1. grantInfo' = grantInfo
    BY <1>7 DEF Transmit
  <2>2. Horizon' = Horizon
    <3>1. Horizon = now + T1 + 1 /\ Horizon' = (now + 1) + T1
      BY <1>7 DEF Transmit, Horizon
    <3>2. now \in Nat /\ T1 \in Nat
      BY GrantAssumption DEF GrantInv, TypeOK
    <3> QED BY <3>1, <3>2
  <2> QED BY <2>1, <2>2
<1>8. CASE UNCHANGED vars
  BY <1>8 DEF vars, Horizon
<1> QED BY <1>1, <1>2, <1>3, <1>4, <1>5, <1>6, <1>7, <1>8 DEF Next

-----------------------------------------------------------------------------
\* The assertions of CheckForGrantsToPublish, "Stale slot in m_grantInfo" and
\* the one on the new data indicator, hold for every reservation that has not
\* been kept.
THEOREM GrantsNoStaleSlotUnlessKept == Spec => []NoStaleSlotUnlessKept
<1>1. Init => PublishInv
  BY DEF Init, PublishInv, CountersStartFull, NextSlotAhead
<1>2. GrantInv /\ ScheduleInv /\ PublishInv => NoStaleSlotUnlessKept
  <2> SUFFICES ASSUME GrantInv, ScheduleInv, PublishInv, phase = "publish",
                      NEW g \in DueGrants, NeverKept(g)
               PROVE  ~StaleSlot(g) /\ ~NoNewData(g)
    BY DEF NoStaleSlotUnlessKept
  <2>1. g \in grantInfo /\ g \in GrantInfo /\ (IsDynamic(g) \/ g.resel > 0)
    BY DEF DueGrants, Due, GrantInv, TypeOK
  <2>2. BlocksLeft(g) \in Nat \ {0}
    <3>1. PICK i \in Nat : g.cResel = i * g.prevResel + g.resel
      BY <2>1 DEF GrantInv, CountersFit
    <3>2. /\ g.resel \in Nat /\ g.prevResel \in Nat /\ g.cResel \in Nat
          /\ i * g.prevResel \in Nat
      BY <2>1 DEF GrantInfo
    <3> QED BY <2>1, <3>1, <3>2 DEF BlocksLeft
  <2>3. PICK S \in SUBSET Nat : NextBlock(g, S)
    BY <2>1 DEF ScheduleInv, ReservationsAreBlocks
  <2>4. /\ S # {} /\ g.slots = Repeat(S, g.rri, BlocksLeft(g))
        /\ g.news = Repeat({Min(S)}, g.rri, BlocksLeft(g)) /\ g.rri \in Nat
    BY <2>1, <2>3 DEF NextBlock, GrantInfo
  <2>5. Min(S) \in S /\ Min(S) \in Nat
    BY <2>4, NatMin
  <2>6. First(g) = Min(S) /\ HasSlots(g)
    BY <2>2, <2>4, <2>5, RepeatFront DEF First, HasSlots
  <2>7. ~NoNewData(g)
    <3>1. {Min(S)} \in SUBSET Nat /\ {Min(S)} # {}
      BY <2>5
    <3>2. {Min(S)} \subseteq Repeat({Min(S)}, g.rri, BlocksLeft(g))
      BY <2>2, <2>4, <3>1, RepeatFront
    <3>3. Min(S) \in g.news
      BY <2>4, <3>2
    <3> QED BY <2>6, <3>3 DEF NoNewData
  <2>8. ~StaleSlot(g)
    <3>1. First(g) >= now + T1
      BY <2>1, <2>6 DEF PublishInv, NextSlotAhead, Active, Horizon
    <3>2. now \in Nat /\ T1 \in Nat
      BY GrantAssumption DEF GrantInv, TypeOK
    <3> QED BY <2>5, <2>6, <3>1, <3>2 DEF StaleSlot
  <2> QED BY <2>7, <2>8
<1> QED BY <1>1, <1>2, NextPublishInv, GrantInvariant, ScheduleInvariant, PTL
        DEF Spec


-----------------------------------------------------------------------------
(***************************************************************************)
(* Blocks of different grants, and of the same reservation one after the   *)
(* other.  A step that changes reservations creates one in the window, or  *)
(* takes the next block off some, or leaves their slots alone.             *)
(***************************************************************************)

\* A block of a reservation fits the selection window it was chosen in.
FitsWindow(S) == \A s, t \in S : s <= t + (T2 - T1)

\* S is the next block of g, and g repeats it at the interval of a channel.
BlockOf(g, S) ==
  /\ NextBlock(g, S) /\ FitsWindow(S)
  /\ \E c \in Channel : g.rri \in {0, Rri[c]}

BlocksFit == \A g \in grantInfo : \E S \in SUBSET Nat : BlockOf(g, S)

\* r has the slots and the HARQ id of g.
SameSlots(r, g) ==
  /\ r.harqId = g.harqId /\ r.rri = g.rri /\ r.nSelected = g.nSelected
  /\ r.slots = g.slots /\ r.news = g.news /\ r.cResel = g.cResel

\* The block moves with its slots.
LEMMA SameBlock ==
  ASSUME NEW r, NEW g, SameSlots(r, g), NEW S, BlockOf(g, S)
  PROVE  BlockOf(r, S)
  BY DEF SameSlots, BlockOf, NextBlock, BlocksLeft, IsDynamic

\* A block is not longer than an interval.
LEMMA BlockFacts ==
  ASSUME NEW g \in GrantInfo, NEW S \in SUBSET Nat, BlockOf(g, S)
  PROVE  /\ g.rri \in Nat /\ BlocksLeft(g) \in Nat
         /\ S # {} /\ IsFiniteSet(S)
         /\ g.slots = Repeat(S, g.rri, BlocksLeft(g))
         /\ ~IsDynamic(g) => g.rri # 0 /\ T2 - T1 + 1 <= g.rri
         /\ IsDynamic(g) => g.rri = 0 /\ BlocksLeft(g) = 1
<1>1. g.rri \in Nat /\ BlocksLeft(g) \in Nat
  BY DEF GrantInfo, BlocksLeft
<1>2. ~IsDynamic(g) => g.rri # 0 /\ T2 - T1 + 1 <= g.rri
  BY WindowAssumption DEF BlockOf, IsDynamic
<1> QED BY <1>1, <1>2 DEF BlockOf, NextBlock, IsDynamic, BlocksLeft

\* A slot of a reservation is one of its block, some intervals later.
LEMMA SlotOfBlock ==
  ASSUME NEW g \in GrantInfo, NEW S \in SUBSET Nat, BlockOf(g, S),
         NEW x \in g.slots
  PROVE  \E s \in S, i \in Nat : i < BlocksLeft(g) /\ x = s + i * g.rri
<1>1. PICK p \in Nat, n \in Nat : p = g.rri /\ n = BlocksLeft(g)
  BY BlockFacts
<1>2. x \in Repeat(S, p, n)
  BY <1>1, BlockFacts
<1>3. \E s \in S, i \in Nat : i < n /\ x = s + i * p
  BY <1>2, RepeatOnly
<1> QED BY <1>1, <1>3

\* A new grant has a block in the selection window, in slots that no other
\* grant has.
NewBlock(g, S) ==
  /\ BlockOf(g, S)
  /\ \A s \in S : /\ now + T1 <= s /\ s <= now + T2
                  /\ \A k \in grantInfo \cup slGrants : s \notin k.slots

\* The first block of a new reservation is the set of slots chosen for it,
\* within the window and apart from every slot already granted.
LEMMA NewGrantBlock ==
  ASSUME TypeOK, NEW S \in SlotChoices, NEW counter \in ReselCounters,
         NEW c \in Channel, NEW rri \in {0, Rri[c]}, NEW d, NEW lcs, NEW h
  PROVE  S \in SUBSET Nat /\ NewBlock(NewGrant(d, lcs, S, h, rri, counter), S)
<1> DEFINE g == NewGrant(d, lcs, S, h, rri, counter)
<1>1. /\ now \in Nat /\ T1 \in Nat /\ T2 \in Nat /\ rri \in Nat
      /\ rri # 0 => T2 - T1 + 1 <= rri
  BY GrantAssumption, WindowAssumption DEF TypeOK
<1>2. S \in SUBSET Nat /\ NextBlock(g, S)
  BY <1>1, NewGrantIsBlocks
<1>3. g.rri = rri
  BY DEF NewGrant, SinglePduGrant, SpsGrant
<1>4. \A s \in S : s \in (now + T1) .. (now + T2) /\ s \notin GrantedSlots
  BY DEF SlotChoices, TxOpportunities
<1>5. \A s \in S : \A k \in grantInfo \cup slGrants : s \notin k.slots
  BY <1>4 DEF GrantedSlots
<1>6. FitsWindow(S)
  BY <1>1, <1>2, <1>4 DEF FitsWindow
<1> HIDE DEF g
<1>7. BlockOf(g, S)
  BY <1>2, <1>3, <1>6 DEF BlockOf
<1>8. \A s \in S : now + T1 <= s /\ s <= now + T2
  BY <1>4
<1> QED BY <1>2, <1>5, <1>7, <1>8 DEF NewBlock, g

\* The counters a reservation is created with.
StartsFull(r) ==
  ~IsDynamic(r) =>
    r.resel \in Nat \ {0} /\ r.cResel = ReselFactor * r.resel

\* What Allocate does to the reservations.
Created(r) ==
  /\ \E S \in SUBSET Nat : NewBlock(r, S)
  /\ \/ r.harqId \in harqIds /\ \A g \in grantInfo : g.harqId # r.harqId
     \/ \E old \in grantInfo :
          ~HasSlots(old) /\ r.harqId = old.harqId /\ old \notin grantInfo'
  /\ \A q \in grantInfo' : q # r => q \in grantInfo
  /\ StartsFull(r)

\* The allocation keeps the reservations and adds new ones only.
LEMMA AllocateCreates ==
  ASSUME GrantInv, Allocate, NEW r \in grantInfo'
  PROVE  r \in grantInfo \/ Created(r)
<1> DEFINE needing == {c \in toSched : DstOf[c] = DstToServe}
           rri == IF IsDynamicGrant(needing, Priority, Rri) THEN 0
                  ELSE Rri[LcIdOfRef(needing, Priority, Rri)]
<1>1. needing \in SUBSET Channel /\ needing # {}
  BY DestinationFacts DEF Allocate, GrantInv, TypeOK
<1>2. PICK c \in Channel : c = LcIdOfRef(needing, Priority, Rri)
  BY <1>1, ReferenceFacts
<1>3. rri \in {0, Rri[c]}
  BY <1>2
<1>4. PICK group \in Selections(needing, Priority, Rri) :
      \E lcs \in Allocations(group, Priority) :
      \E S \in SlotChoices, counter \in ReselCounters :
        CreateGrant(DstToServe, lcs, S, rri, counter) /\ toSched' = toSched \ lcs
  BY Zenon DEF Allocate
<1>5. PICK lcs \in Allocations(group, Priority) :
      \E S \in SlotChoices, counter \in ReselCounters :
        CreateGrant(DstToServe, lcs, S, rri, counter) /\ toSched' = toSched \ lcs
  BY <1>4
<1>6. PICK S \in SlotChoices, counter \in ReselCounters :
        CreateGrant(DstToServe, lcs, S, rri, counter) /\ toSched' = toSched \ lcs
  BY <1>5
<1> HIDE DEF needing, rri
<1> DEFINE new(h) == NewGrant(DstToServe, lcs, S, h, rri, counter)
<1>7. /\ S \in SUBSET Nat
      /\ \A h : NewBlock(new(h), S) /\ new(h).harqId = h /\ StartsFull(new(h))
  <2>1. \A h : new(h).harqId = h
    BY DEF NewGrant, SinglePduGrant, SpsGrant
  <2>2. \A h : StartsFull(new(h))
    BY GrantAssumption DEF StartsFull, NewGrant, SinglePduGrant, SpsGrant, IsDynamic
  <2> HIDE DEF StartsFull
  <2> QED BY <1>3, <2>1, <2>2, NewGrantBlock DEF GrantInv
<1>8. \/ grantInfo' = grantInfo
      \/ \E h : /\ h \in harqIds /\ \A g \in grantInfo : g.harqId # h
                /\ grantInfo' = grantInfo \cup {new(h)}
      \/ \E old \in grantInfo :
           /\ ~HasSlots(old)
           /\ grantInfo' = (grantInfo \ {old}) \cup {new(old.harqId)}
  <2>1. CASE /\ UnusedHarqIds(grantInfo) # {}
             /\ grantInfo' = grantInfo \cup {new(Min(UnusedHarqIds(grantInfo)))}
    <3>1. Min(UnusedHarqIds(grantInfo)) \in UnusedHarqIds(grantInfo)
      BY <2>1, UnusedIdFacts DEF GrantInv
    <3> HIDE DEF new
    <3> QED BY <2>1, <3>1 DEF UnusedHarqIds
  <2>2. CASE grantInfo' = grantInfo
    BY <2>2
  <2>3. ASSUME NEW old \in Exhausted(DstToServe, rri),
               grantInfo' = (grantInfo \ {old}) \cup {new(old.harqId)}
        PROVE  \E g \in grantInfo :
                 /\ ~HasSlots(g)
                 /\ grantInfo' = (grantInfo \ {g}) \cup {new(g.harqId)}
    <3> HIDE DEF new
    <3> QED BY <2>3 DEF Exhausted
  <2> QED BY <1>6, <2>1, <2>2, <2>3 DEF CreateGrant
<1> HIDE DEF new
<1>9. CASE grantInfo' = grantInfo
  BY <1>9
<1>10. ASSUME NEW h \in harqIds, \A g \in grantInfo : g.harqId # h,
              grantInfo' = grantInfo \cup {new(h)}
       PROVE  r \in grantInfo \/ Created(r)
  BY <1>7, <1>10 DEF Created
<1>11. ASSUME NEW old \in grantInfo, ~HasSlots(old),
              grantInfo' = (grantInfo \ {old}) \cup {new(old.harqId)}
       PROVE  r \in grantInfo \/ Created(r)
  <2>1. SUFFICES ASSUME r = new(old.harqId), r # old, r \notin grantInfo
                 PROVE  Created(r)
    BY <1>11
  <2> QED BY <1>7, <1>11, <2>1 DEF Created
<1> QED BY <1>8, <1>9, <1>10, <1>11

\* Where a reservation comes from.
LEMMA ReservationSteps ==
  ASSUME GrantInv, [Next]_vars, NEW r \in grantInfo'
  PROVE  \/ \E g \in grantInfo : SameSlots(r, g) /\ (Publish => g \notin DueGrants)
         \/ Publish /\ \E g \in DueGrants : ~IsDynamic(g) /\ r = AfterPublish(g)
         \/ Allocate /\ Created(r)
<1>1. CASE Trigger
  <2>1. PICK kept \in SUBSET {g \in grantInfo :
                                Spent(g) /\ HasData(g) /\ MayBeKept(g)} :
          grantInfo' = Reselect(grantInfo, kept)
    BY <1>1 DEF Trigger
  <2>2. PICK g \in grantInfo : r = g \/ r = [g EXCEPT !.resel = g.prevResel]
    BY <2>1 DEF Reselect
  <2>3. g \in GrantInfo
    BY DEF GrantInv, TypeOK
  <2>4. SameSlots(r, g)
    BY <2>2, <2>3 DEF SameSlots, GrantInfo
  <2>5. ~Publish
    BY <1>1 DEF Trigger, Publish
  <2> QED BY <2>4, <2>5
<1>2. CASE Allocate
  <2>1. r \in grantInfo \/ Created(r)
    BY <1>2, AllocateCreates
  <2>2. ~Publish
    BY <1>2 DEF Allocate, Publish
  <2> QED BY <1>2, <2>1, <2>2 DEF SameSlots
<1>3. CASE Publish
  <2>1. \/ r \in grantInfo /\ r \notin DueGrants
        \/ \E g \in DueGrants : ~IsDynamic(g) /\ r = AfterPublish(g)
    BY <1>3 DEF Publish
  <2> QED BY <1>3, <2>1 DEF SameSlots
<1>4. CASE grantInfo' = grantInfo /\ ~Publish
  BY <1>4 DEF SameSlots
<1>5. ASSUME NEW c \in Channel, ReportBufferStatus(c)
      PROVE  grantInfo' = grantInfo /\ ~Publish
  BY <1>5 DEF ReportBufferStatus, Publish
<1>6. CASE TriggerWithoutHarq
  BY <1>4, <1>6 DEF TriggerWithoutHarq, Publish
<1>7. CASE AllocationEnds
  BY <1>4, <1>7 DEF AllocationEnds, Publish
<1>8. CASE Transmit
  BY <1>4, <1>8 DEF Transmit, Publish
<1>9. CASE UNCHANGED vars
  BY <1>3, <1>4, <1>9 DEF vars
<1> QED BY <1>1, <1>2, <1>3, <1>4, <1>5, <1>6, <1>7, <1>8, <1>9 DEF Next

\* A reservation that is due has a block left.
LEMMA DueFacts ==
  ASSUME GrantInv, NEW g \in DueGrants
  PROVE  /\ g \in grantInfo /\ g \in GrantInfo /\ BlocksLeft(g) # 0
         /\ ~IsDynamic(g) => g.resel # 0 /\ g.cResel # 0
         /\ First(g) <= now + T1
<1>1. /\ g \in grantInfo /\ g \in GrantInfo /\ (IsDynamic(g) \/ g.resel > 0)
      /\ First(g) <= now + T1
  BY DEF DueGrants, Due, GrantInv, TypeOK
<1>2. ~IsDynamic(g) => g.resel # 0 /\ g.cResel # 0
  <2>1. PICK i \in Nat : g.cResel = i * g.prevResel + g.resel
    BY <1>1 DEF GrantInv, CountersFit
  <2>2. g.resel \in Nat /\ g.prevResel \in Nat /\ i * g.prevResel \in Nat
    BY <1>1 DEF GrantInfo
  <2> QED BY <1>1, <2>1, <2>2
<1> QED BY <1>1, <1>2 DEF BlocksLeft

\* What publishing takes off a reservation, and what it leaves.
LEMMA BlockIsPublished ==
  ASSUME GrantInv, NEW g \in DueGrants, NEW S \in SUBSET Nat, BlockOf(g, S)
  PROVE  /\ First(g) = Min(S) /\ Published(g).slots = S /\ S \subseteq g.slots
         /\ Published(g).harqId = g.harqId
         /\ \A r : r = AfterPublish(g) /\ ~IsDynamic(g) =>
              /\ r.harqId = g.harqId /\ r.rri = g.rri
              /\ r.slots = g.slots \ S /\ BlockOf(r, Shift(S, g.rri))
<1>1. /\ g \in grantInfo /\ g \in GrantInfo /\ BlocksLeft(g) # 0
      /\ ~IsDynamic(g) => g.resel # 0 /\ g.cResel # 0
  BY DueFacts
<1>2. /\ g.rri \in Nat /\ BlocksLeft(g) \in Nat \ {0} /\ S # {} /\ IsFiniteSet(S)
      /\ g.slots = Repeat(S, g.rri, BlocksLeft(g))
  BY <1>1, BlockFacts
<1>3. First(g) = Min(S) /\ TransportBlock(g) = S
  BY <1>1, TransportBlockIsNext DEF BlockOf
<1>4. S \subseteq g.slots
  <2>1. PICK p \in Nat, n \in Nat \ {0} : p = g.rri /\ n = BlocksLeft(g)
    BY <1>2
  <2>2. S \subseteq Repeat(S, p, n)
    BY <1>2, RepeatFront
  <2> QED BY <1>2, <2>1, <2>2
<1>5. ASSUME NEW r, r = AfterPublish(g), ~IsDynamic(g)
      PROVE  /\ r.harqId = g.harqId /\ r.rri = g.rri
             /\ r.slots = g.slots \ S /\ BlockOf(r, Shift(S, g.rri))
  <2>1. r.harqId = g.harqId /\ r.rri = g.rri
    BY <1>1, <1>5, AfterPublishFacts DEF GrantInv
  <2>2. r.slots = g.slots \ S
    <3> DEFINE w == WithoutBlock(g)
    <3>1. w \in GrantInfo /\ w.slots = g.slots \ S
      BY <1>1, <1>3 DEF WithoutBlock, GrantInfo
    <3>2. r = [w EXCEPT !.resel = @ - 1, !.cResel = @ - 1]
      BY <1>5 DEF AfterPublish
    <3> HIDE DEF w
    <3> QED BY <3>1, <3>2 DEF GrantInfo
  <2>3. NextBlock(r, Shift(S, g.rri))
    BY <1>1, <1>5, RestIsBlocks DEF BlockOf
  <2>4. FitsWindow(Shift(S, g.rri))
    <3>1. \A s, t \in S : s + g.rri <= (t + g.rri) + (T2 - T1)
      <4>1. T1 \in Nat /\ T2 \in Nat
        BY GrantAssumption
      <4> QED BY <1>2, <4>1 DEF BlockOf, FitsWindow
    <3> QED BY <3>1 DEF FitsWindow, Shift
  <2> QED BY <2>1, <2>2, <2>3, <2>4 DEF BlockOf
<1> QED BY <1>3, <1>4, <1>5 DEF Published

\* No step tears a block: each reservation holds its next block whole.
LEMMA NextBlocksFit == GrantInv /\ BlocksFit /\ [Next]_vars => BlocksFit'
<1> SUFFICES ASSUME GrantInv, BlocksFit, [Next]_vars
             PROVE  BlocksFit'
  OBVIOUS
<1>1. ASSUME NEW r \in grantInfo'
      PROVE  \E S \in SUBSET Nat : BlockOf(r, S)
  <2>1. ASSUME NEW g \in grantInfo, SameSlots(r, g)
        PROVE  \E S \in SUBSET Nat : BlockOf(r, S)
    BY <2>1, SameBlock DEF BlocksFit
  <2>2. ASSUME NEW g \in DueGrants, ~IsDynamic(g), r = AfterPublish(g)
        PROVE  \E S \in SUBSET Nat : BlockOf(r, S)
    <3>1. g \in grantInfo /\ g \in GrantInfo
      BY DueFacts
    <3>2. PICK S \in SUBSET Nat : BlockOf(g, S)
      BY <3>1 DEF BlocksFit
    <3>3. BlockOf(r, Shift(S, g.rri))
      BY <2>2, <3>2, BlockIsPublished
    <3>4. Shift(S, g.rri) \in SUBSET Nat
      BY <3>1, <3>2, BlockFacts, ShiftFacts
    <3> QED BY <3>3, <3>4
  <2>3. Created(r) => \E S \in SUBSET Nat : BlockOf(r, S)
    BY DEF Created, NewBlock
  <2> QED BY <2>1, <2>2, <2>3, ReservationSteps
<1> QED BY <1>1 DEF BlocksFit, BlockOf, NextBlock, FitsWindow, BlocksLeft, IsDynamic

\* In every reachable state the reservations hold whole blocks.
LEMMA BlocksFitInvariant == Spec => []BlocksFit
<1>1. Init => BlocksFit
  BY DEF Init, BlocksFit
<1> QED BY <1>1, NextBlocksFit, GrantInvariant, PTL DEF Spec

\* Where a published grant comes from.
LEMMA PublishedSteps ==
  ASSUME [Next]_vars, GrantInv, NEW q \in slGrants'
  PROVE  \/ \E k \in slGrants : q.harqId = k.harqId /\ q.slots \subseteq k.slots
         \/ Publish /\ \E g \in DueGrants : q = Published(g)
<1>1. CASE Publish
  BY <1>1 DEF Publish
<1>2. CASE Transmit
  <2>1. \/ q \in slGrants
        \/ \E k \in slGrants : q = Transmitted(k)
    BY <1>2 DEF Transmit
  <2>2. ASSUME NEW k \in slGrants, q = Transmitted(k)
        PROVE  q.harqId = k.harqId /\ q.slots \subseteq k.slots
    <3>1. k \in Grant
      BY DEF GrantInv, TypeOK
    <3> QED BY <2>2, <3>1 DEF Transmitted, Grant
  <2> QED BY <2>1, <2>2
<1>3. CASE slGrants' = slGrants
  BY <1>3
<1> QED BY <1>1, <1>2, <1>3 DEF Next, vars, ReportBufferStatus, Trigger,
           TriggerWithoutHarq, Allocate, AllocationEnds

-----------------------------------------------------------------------------
(***************************************************************************)
(* The HARQ process of a reservation is free again when its next block is  *)
(* published.  Two things have to be excluded, and the code does not: a    *)
(* selection window that reaches as far as the interval, with which the    *)
(* last slot of a block may come after the next is published; and that an  *)
(* exhausted reservation hands its HARQ id to a new one.                   *)
(***************************************************************************)

\* The selection window ends before the reservation repeats.
ShortWindow == \A c \in Channel : Rri[c] # 0 => T2 < Rri[c]

\* No reservation has run out of slots.
NoneExhausted == \A g \in grantInfo : HasSlots(g)

\* What is left of a block precedes the next block of its reservation by more
\* than the time a block is published ahead, in whichever slot that is.
BlocksFollow ==
  \A g \in grantInfo, k \in slGrants :
    g.harqId = k.harqId => \A s \in k.slots, t \in g.slots : s + T1 < t

\* The block that is published and what it leaves behind.
LEMMA NextBlockFollows ==
  ASSUME ShortWindow, GrantInv, BlocksFit, NEW g \in DueGrants, ~IsDynamic(g),
         NEW r, r = AfterPublish(g),
         NEW s \in Published(g).slots, NEW t \in r.slots
  PROVE  s + T1 < t
<1>1. g \in grantInfo /\ g \in GrantInfo /\ g.cResel # 0
  BY DueFacts
<1>2. PICK S \in SUBSET Nat : BlockOf(g, S)
  BY <1>1 DEF BlocksFit
<1>3. s \in S /\ r.rri = g.rri /\ BlockOf(r, Shift(S, g.rri))
  BY <1>2, BlockIsPublished
<1>4. /\ g.rri \in Nat /\ g.rri # 0
      /\ Shift(S, g.rri) \in SUBSET Nat
  BY <1>1, <1>2, BlockFacts, ShiftFacts
<1>5. r \in GrantInfo
  BY <1>1, AfterPublishFacts DEF GrantInv
<1>6. /\ BlocksLeft(r) \in Nat
      /\ r.slots = Repeat(Shift(S, g.rri), g.rri, BlocksLeft(r))
  BY <1>3, <1>4, <1>5, BlockFacts
<1>7. PICK u \in Shift(S, g.rri), i \in Nat : t = u + i * g.rri
  BY <1>4, <1>6, RepeatOnly
<1>8. PICK v \in S : u = v + g.rri
  BY DEF Shift
<1>9. T2 < g.rri /\ s <= v + (T2 - T1)
  BY <1>2, <1>3, <1>4 DEF BlockOf, ShortWindow, FitsWindow
<1>10. i * g.rri \in Nat
  BY <1>4, Multiple
<1>11. s \in Nat /\ v \in Nat /\ T1 \in Nat /\ T2 \in Nat
  BY <1>3, GrantAssumption
<1>12. s + T1 < v + g.rri
  BY <1>4, <1>9, <1>11
<1>13. t = v + g.rri + i * g.rri
  BY <1>7, <1>8
<1> QED BY <1>4, <1>10, <1>11, <1>12, <1>13

\* While the window is shorter than the interval, what is published stays
\* clear of the next block of the same reservation.
LEMMA NextBlocksFollow ==
  ASSUME ShortWindow, GrantInv, BlocksFit, NoneExhausted, BlocksFollow,
         [Next]_vars
  PROVE  BlocksFollow'
<1> SUFFICES ASSUME NEW r \in grantInfo', NEW q \in slGrants',
                    r.harqId = q.harqId, NEW s \in q.slots, NEW t \in r.slots
             PROVE  s + T1 < t
  BY DEF BlocksFollow
<1>1. ASSUME NEW k \in slGrants, q.harqId = k.harqId, q.slots \subseteq k.slots
      PROVE  s + T1 < t
  <2>1. ASSUME NEW g \in grantInfo, SameSlots(r, g)
        PROVE  s + T1 < t
    BY <1>1, <2>1 DEF BlocksFollow, SameSlots
  <2>2. ASSUME NEW g \in DueGrants, ~IsDynamic(g), r = AfterPublish(g)
        PROVE  s + T1 < t
    <3>1. g \in grantInfo
      BY DueFacts
    <3>2. PICK S \in SUBSET Nat : BlockOf(g, S)
      BY <3>1 DEF BlocksFit
    <3>3. \A a : a = AfterPublish(g) =>
                   a.harqId = g.harqId /\ a.slots = g.slots \ S
      BY <2>2, <3>2, BlockIsPublished
    <3>4. r.harqId = g.harqId /\ r.slots = g.slots \ S
      BY <2>2, <3>3
    <3> QED BY <1>1, <3>1, <3>4 DEF BlocksFollow
  <2>3. ~(Allocate /\ Created(r))
    <3> SUFFICES ASSUME Allocate, Created(r) PROVE FALSE
      OBVIOUS
    <3>1. r.harqId \in harqIds
      BY DEF Created, NoneExhausted
    <3>2. harq[k.harqId].dst = NoDst
      BY <1>1, <3>1 DEF GrantInv, HarqInv, CollectedIdsAvailable, Allocate,
                        IsHarqIdAvailable
    <3>3. harq[k.harqId].dst = k.dst /\ k.dst \in Destination
      BY DEF GrantInv, HarqInv, ProcessOfGrant, TypeOK, Grant
    <3> QED BY <3>2, <3>3, GrantAssumption DEF NoDst
  <2> QED BY <2>1, <2>2, <2>3, ReservationSteps
<1>2. ASSUME NEW d \in DueGrants, Publish, q = Published(d)
      PROVE  s + T1 < t
  <2>1. d \in grantInfo /\ q.harqId = d.harqId
    BY <1>2, DueFacts, PublishedFacts DEF GrantInv
  <2>2. \A g \in grantInfo : g.harqId = r.harqId => g = d
    BY <2>1 DEF GrantInv, HarqInv, HarqIdsReservedOnce
  <2>3. ASSUME NEW g \in DueGrants, ~IsDynamic(g), r = AfterPublish(g)
        PROVE  s + T1 < t
    <3>1. g \in grantInfo /\ r.harqId = g.harqId
      BY <2>3, DueFacts, AfterPublishFacts DEF GrantInv
    <3>2. g = d
      BY <2>2, <3>1
    <3> QED BY <1>2, <2>3, <3>2, NextBlockFollows
  <2>4. ASSUME NEW g \in grantInfo, SameSlots(r, g), g \notin DueGrants
        PROVE  FALSE
    BY <2>2, <2>4 DEF SameSlots
  <2>5. ~Allocate
    BY <1>2 DEF Allocate, Publish
  <2> QED BY <1>2, <2>3, <2>4, <2>5, ReservationSteps
<1> QED BY <1>1, <1>2, PublishedSteps

\* A due reservation whose process is busy would have a block in flight with
\* a slot that is not past, and itself be published only T1 slots ahead.
LEMMA BusyWouldOverlap ==
  ASSUME GrantInv, ScheduleInv, BlocksFit, BlocksFollow
  PROVE  HarqFreeWhenPublished
<1> SUFFICES ASSUME NEW g \in DueGrants, HarqBusy(g) PROVE FALSE
  BY DEF HarqFreeWhenPublished
<1>1. g \in grantInfo /\ g \in GrantInfo /\ BlocksLeft(g) # 0 /\ First(g) <= now + T1
  BY DueFacts
<1>2. PICK S \in SUBSET Nat : BlockOf(g, S)
  BY <1>1 DEF BlocksFit
<1>3. First(g) = Min(S) /\ S \subseteq g.slots /\ S # {}
  BY <1>1, <1>2, BlockIsPublished, BlockFacts
<1>4. Min(S) \in S /\ Min(S) \in Nat
  BY <1>3, NatMin
<1>5. PICK k \in slGrants : k.harqId = g.harqId
  BY <1>1 DEF HarqBusy, GrantInv, HarqInv, GrantOfProcess, GrantInfo
<1>6. PICK s \in k.slots : s >= now
  BY DEF ScheduleInv, OnSchedule
<1>7. s \in Nat
  BY DEF GrantInv, TypeOK, Grant
<1>8. s + T1 < Min(S)
  BY <1>1, <1>3, <1>4, <1>5 DEF BlocksFollow
<1>9. now \in Nat /\ T1 \in Nat
  BY GrantAssumption DEF GrantInv, TypeOK
<1> QED BY <1>1, <1>3, <1>4, <1>6, <1>7, <1>8, <1>9

\* The abort "Unable to assign granted HARQ ID" of DoSchedUeNrSlConfigInd is
\* never reached, however often reservations are kept and published late, as
\* long as none has run out of slots.
THEOREM GrantsHarqFreeWhenPublished ==
  ASSUME ShortWindow
  PROVE  Spec /\ []NoneExhausted => []HarqFreeWhenPublished
<1>1. Init => BlocksFollow
  BY DEF Init, BlocksFollow
<1>2. GrantInv /\ BlocksFit /\ NoneExhausted /\ BlocksFollow /\ [Next]_vars
        => BlocksFollow'
  BY NextBlocksFollow
<1>3. GrantInv /\ ScheduleInv /\ BlocksFit /\ BlocksFollow => HarqFreeWhenPublished
  BY BusyWouldOverlap
<1> QED BY <1>1, <1>2, <1>3, GrantInvariant, ScheduleInvariant,
           BlocksFitInvariant, PTL DEF Spec

-----------------------------------------------------------------------------
\* While no reservation is kept, it ends with its first run of the reselection
\* counter and never runs out of slots.
KeepsNone == ~KeepProbable /\ ReselFactor > 1

RunsToSpare ==
  \A g \in grantInfo :
    ~IsDynamic(g) => g.resel \in Nat /\ g.cResel \in Nat /\ g.resel < g.cResel

\* Without the keep probability a reservation is given up before its slots end.
LEMMA NextRunsToSpare ==
  ASSUME KeepsNone, GrantInv, RunsToSpare, [Next]_vars
  PROVE  RunsToSpare'
<1> DEFINE Spare(r) ==
      ~IsDynamic(r) => r.resel \in Nat /\ r.cResel \in Nat /\ r.resel < r.cResel
<1>1. CASE Trigger
  <2>1. PICK kept \in SUBSET {g \in grantInfo :
                                Spent(g) /\ HasData(g) /\ MayBeKept(g)} :
          grantInfo' = Reselect(grantInfo, kept)
    BY <1>1 DEF Trigger
  <2>2. kept = {}
    BY <2>1 DEF MayBeKept, KeepsNone
  <2>3. grantInfo' \subseteq grantInfo
    BY <2>1, <2>2 DEF Reselect
  <2> QED BY <2>3 DEF RunsToSpare, IsDynamic
<1>2. CASE Allocate
  <2>1. ASSUME NEW r \in grantInfo', Created(r) PROVE Spare(r)
    <3>1. SUFFICES ASSUME ~IsDynamic(r) PROVE Spare(r)
      OBVIOUS
    <3>2. r.resel \in Nat \ {0} /\ r.cResel = ReselFactor * r.resel
      BY <2>1, <3>1 DEF Created, StartsFull
    <3>3. ReselFactor \in Nat /\ ReselFactor > 1
      BY GrantAssumption DEF KeepsNone
    <3>4. PICK n \in Nat : ReselFactor = n + 2
      <4>1. ReselFactor - 2 \in Nat /\ ReselFactor = (ReselFactor - 2) + 2
        BY <3>3
      <4> QED BY <4>1
    <3>5. r.cResel = n * r.resel + 2 * r.resel /\ n * r.resel \in Nat
      BY <3>2, <3>4
    <3> QED BY <3>2, <3>5
  <2>2. \A r \in grantInfo' : Spare(r)
    BY <1>2, <2>1, AllocateCreates DEF RunsToSpare
  <2> QED BY <2>2 DEF RunsToSpare, IsDynamic
<1>3. CASE Publish
  <2>1. ASSUME NEW g \in DueGrants, ~IsDynamic(g), NEW r, r = AfterPublish(g)
        PROVE  Spare(r)
    <3>1. g \in grantInfo /\ g \in GrantInfo /\ g.resel # 0
      BY <2>1, DueFacts
    <3>2. g.resel \in Nat /\ g.cResel \in Nat /\ g.resel < g.cResel
      BY <2>1, <3>1 DEF RunsToSpare
    <3>3. r.resel = g.resel - 1 /\ r.cResel = g.cResel - 1
      <4> DEFINE w == WithoutBlock(g)
      <4>1. w \in GrantInfo /\ w.resel = g.resel /\ w.cResel = g.cResel
        BY <3>1 DEF WithoutBlock, GrantInfo
      <4>2. r = [w EXCEPT !.resel = @ - 1, !.cResel = @ - 1]
        BY <2>1 DEF AfterPublish
      <4> HIDE DEF w
      <4> QED BY <4>1, <4>2 DEF GrantInfo
    <3> QED BY <3>1, <3>2, <3>3
  <2>2. \A r \in grantInfo' :
          \/ r \in grantInfo
          \/ \E g \in DueGrants : ~IsDynamic(g) /\ r = AfterPublish(g)
    BY <1>3 DEF Publish
  <2>3. \A r \in grantInfo' : Spare(r)
    BY <2>1, <2>2 DEF RunsToSpare
  <2> QED BY <2>3 DEF RunsToSpare, IsDynamic
<1>4. CASE grantInfo' = grantInfo
  BY <1>4 DEF RunsToSpare, IsDynamic
<1> QED BY <1>1, <1>2, <1>3, <1>4 DEF Next, vars, ReportBufferStatus,
           TriggerWithoutHarq, AllocationEnds, Transmit

\* A reservation that has runs to spare has a block left to publish.
LEMMA SpareHasSlots ==
  ASSUME GrantInv, BlocksFit, RunsToSpare
  PROVE  NoneExhausted
<1> SUFFICES ASSUME NEW g \in grantInfo PROVE HasSlots(g)
  BY DEF NoneExhausted
<1>1. g \in GrantInfo
  BY DEF GrantInv, TypeOK
<1>2. PICK S \in SUBSET Nat : BlockOf(g, S)
  BY DEF BlocksFit
<1>3. /\ S # {} /\ g.rri \in Nat /\ BlocksLeft(g) \in Nat
      /\ g.slots = Repeat(S, g.rri, BlocksLeft(g))
  BY <1>1, <1>2, BlockFacts
<1>4. BlocksLeft(g) # 0
  BY DEF RunsToSpare, BlocksLeft
<1>5. PICK p \in Nat, n \in Nat \ {0} : g.slots = Repeat(S, p, n)
  BY <1>3, <1>4
<1>6. S \subseteq Repeat(S, p, n)
  BY <1>3, RepeatFront
<1> QED BY <1>3, <1>5, <1>6 DEF HasSlots

\* With a keep probability of zero, the hypothesis on reservations is met and
\* the abort is never reached.
THEOREM GrantsHarqFreeUnlessKept ==
  ASSUME ShortWindow, KeepsNone
  PROVE  Spec => []HarqFreeWhenPublished
<1>1. Init => RunsToSpare
  BY DEF Init, RunsToSpare
<1>2. GrantInv /\ RunsToSpare /\ [Next]_vars => RunsToSpare'
  BY NextRunsToSpare
<1>3. GrantInv /\ BlocksFit /\ RunsToSpare => NoneExhausted
  BY SpareHasSlots
<1>4. Spec => []NoneExhausted
  BY <1>1, <1>2, <1>3, GrantInvariant, BlocksFitInvariant, PTL DEF Spec
<1> QED BY <1>4, GrantsHarqFreeWhenPublished, PTL

-----------------------------------------------------------------------------
(***************************************************************************)
(* No two transmissions in one slot.  The scheduler compares only the      *)
(* first block of a new reservation with the slots already taken.  That is *)
(* enough if all reservations repeat at one interval: two that meet later  *)
(* meet within the window, or one block of the older is in flight there.   *)
(***************************************************************************)

\* All periodic channels have the same interval.
EqualIntervals ==
  \A c, d \in Channel : Rri[c] # 0 /\ Rri[d] # 0 => Rri[c] = Rri[d]

\* Slot s of the next block of g is within the window, or so is the one an
\* interval before it, which is past or in flight.
Recent(g, s) ==
  \/ s <= now + T2
  \/ /\ ~IsDynamic(g) /\ s - g.rri <= now + T2
     /\ s - g.rri < now \/ \E k \in slGrants : s - g.rri \in k.slots

BlocksRecent ==
  \A g \in grantInfo, S \in SUBSET Nat :
    BlockOf(g, S) /\ HasSlots(g) => \A s \in S : Recent(g, s)

SlotsInReach == \A k \in slGrants : \A s \in k.slots : s <= now + T2

ReservedApart ==
  \A g, k \in grantInfo : g.harqId # k.harqId => g.slots \cap k.slots = {}

InFlightApart ==
  \A g \in grantInfo, k \in slGrants : g.slots \cap k.slots = {}

SlotInv == /\ BlocksRecent /\ SlotsInReach /\ ReservedApart
           /\ InFlightApart /\ OneTransmissionPerSlot

-----------------------------------------------------------------------------
\* A block with slots left is determined by them.
LEMMA BlockUnique ==
  ASSUME NEW g \in GrantInfo, NEW S \in SUBSET Nat, BlockOf(g, S), HasSlots(g)
  PROVE  S = TransportBlock(g)
<1>1. BlocksLeft(g) # 0
  <2>1. Repeat(S, g.rri, 0) = {}
    BY DEF Repeat
  <2> QED BY <2>1, BlockFacts DEF HasSlots
<1> QED BY <1>1, TransportBlockIsNext DEF BlockOf

\* An interval after a slot of the window is behind the window.
LEMMA BeyondWindow ==
  ASSUME NEW n \in Nat, NEW s \in Nat, n + T1 <= s, NEW p \in Nat,
         T2 - T1 + 1 <= p, NEW i \in Nat, i # 0
  PROVE  ~(s + i * p <= n + T2)
<1>1. T1 \in Nat /\ T2 \in Nat
  BY GrantAssumption
<1>2. i * p = (i - 1) * p + p /\ (i - 1) * p \in Nat
  BY Multiple
<1> QED BY <1>1, <1>2

\* A new grant shares no slot with what is in reach.
LEMMA NewSlotsBeyond ==
  ASSUME TypeOK, NEW r \in GrantInfo, NEW S \in SUBSET Nat, NewBlock(r, S),
         NEW x \in r.slots
  PROVE  x \in S \/ ~(x <= now + T2)
<1>1. /\ r.rri \in Nat /\ BlocksLeft(r) \in Nat
      /\ r.slots = Repeat(S, r.rri, BlocksLeft(r))
      /\ ~IsDynamic(r) => r.rri # 0 /\ T2 - T1 + 1 <= r.rri
      /\ IsDynamic(r) => r.rri = 0 /\ BlocksLeft(r) = 1
  BY BlockFacts DEF NewBlock
<1>2. PICK s \in S, i \in Nat : i < BlocksLeft(r) /\ x = s + i * r.rri
  BY SlotOfBlock DEF NewBlock
<1>3. now + T1 <= s /\ s \in Nat /\ now \in Nat
  BY DEF NewBlock, TypeOK
<1>4. CASE i = 0
  BY <1>1, <1>2, <1>3, <1>4
<1>5. CASE i # 0
  <2>1. ~IsDynamic(r)
    BY <1>1, <1>2, <1>5
  <2> QED BY <1>1, <1>2, <1>3, <1>5, <2>1, BeyondWindow
<1> QED BY <1>4, <1>5

\* Nor does it meet a reservation, now or an interval later.
LEMMA NewSlotsMissReservation ==
  ASSUME EqualIntervals, TypeOK, BlocksFit, SlotInv,
         NEW r \in GrantInfo, NEW S \in SUBSET Nat, NewBlock(r, S),
         NEW g \in grantInfo
  PROVE  r.slots \cap g.slots = {}
<1> SUFFICES ASSUME NEW x \in r.slots, x \in g.slots PROVE FALSE
  OBVIOUS
<1>1. g \in GrantInfo /\ HasSlots(g) /\ now \in Nat
  BY DEF TypeOK, HasSlots
<1>2. PICK B \in SUBSET Nat : BlockOf(g, B)
  BY DEF BlocksFit
<1>3. \A b \in B : Recent(g, b)
  BY <1>1, <1>2 DEF SlotInv, BlocksRecent
<1>4. /\ g.rri \in Nat /\ BlocksLeft(g) \in Nat
      /\ g.slots = Repeat(B, g.rri, BlocksLeft(g))
      /\ IsDynamic(g) => g.rri = 0 /\ BlocksLeft(g) = 1
  BY <1>1, <1>2, BlockFacts
<1>5. /\ r.rri \in Nat /\ BlocksLeft(r) \in Nat
      /\ r.slots = Repeat(S, r.rri, BlocksLeft(r))
      /\ ~IsDynamic(r) => r.rri # 0 /\ T2 - T1 + 1 <= r.rri
      /\ IsDynamic(r) => r.rri = 0 /\ BlocksLeft(r) = 1
  BY BlockFacts DEF NewBlock
<1>6. \A s \in S : s \in Nat /\ now + T1 <= s /\ s \notin g.slots
  BY DEF NewBlock
<1>7. x \notin S /\ ~(x <= now + T2)
  BY <1>6, NewSlotsBeyond
<1>8. PICK s \in S, i \in Nat : i < BlocksLeft(r) /\ x = s + i * r.rri
  BY SlotOfBlock DEF NewBlock
<1>9. PICK b \in B, j \in Nat : j < BlocksLeft(g) /\ x = b + j * g.rri
  BY <1>1, <1>2, SlotOfBlock
<1>10. i # 0 /\ ~IsDynamic(r)
  BY <1>5, <1>6, <1>7, <1>8
<1>11. ~IsDynamic(g)
  <2> SUFFICES ASSUME IsDynamic(g) PROVE FALSE
    OBVIOUS
  <2>1. x = b
    BY <1>4, <1>9
  <2>2. b <= now + T2
    BY <1>3 DEF Recent
  <2> QED BY <1>7, <2>1, <2>2
<1>12. g.rri = r.rri
  <2>1. r.rri # 0 /\ g.rri # 0
    BY <1>10, <1>11 DEF IsDynamic
  <2>2. PICK c \in Channel : g.rri = Rri[c]
    BY <1>2, <2>1 DEF BlockOf
  <2>3. PICK d \in Channel : r.rri = Rri[d]
    BY <2>1 DEF NewBlock, BlockOf
  <2> QED BY <2>1, <2>2, <2>3 DEF EqualIntervals
<1>13. PICK p \in Nat : p = r.rri /\ T2 - T1 + 1 <= p
  BY <1>5, <1>10
<1>14. s + i * p = b + j * p
  BY <1>8, <1>9, <1>12, <1>13
<1>15. CASE i <= j
  <2>1. PICK d \in Nat : j = i + d
    <3>1. j - i \in Nat /\ j = i + (j - i)
      BY <1>15
    <3> QED BY <3>1
  <2>2. j * p = i * p + d * p /\ i * p \in Nat /\ d * p \in Nat
    BY <2>1
  <2>3. s = b + d * p
    BY <1>6, <1>14, <2>2
  <2>4. d < BlocksLeft(g)
    BY <1>4, <1>9, <2>1
  <2>5. s \in g.slots
    BY <1>4, <1>12, <1>13, <2>3, <2>4, RepeatHas
  <2> QED BY <1>6, <2>5
<1>16. CASE j < i
  <2>1. PICK d \in Nat : i = j + (d + 1)
    <3>1. i - j - 1 \in Nat /\ i = j + ((i - j - 1) + 1)
      BY <1>16
    <3> QED BY <3>1
  <2>2. i * p = j * p + (d + 1) * p /\ j * p \in Nat
    BY <2>1
  <2>3. b = s + (d + 1) * p /\ (d + 1) * p = d * p + p /\ d * p \in Nat
    <3>1. (d + 1) * p = d * p + p /\ d * p \in Nat
      OBVIOUS
    <3>2. (d + 1) * p \in Nat
      BY <3>1
    <3> QED BY <1>6, <1>14, <2>2, <3>1, <3>2
  <2>4. ~(b <= now + T2)
    <3>1. d + 1 \in Nat /\ d + 1 # 0
      OBVIOUS
    <3> QED BY <1>1, <1>6, <1>13, <2>3, <3>1, BeyondWindow
  <2>5. /\ b - p <= now + T2
        /\ b - p < now \/ \E k \in slGrants : b - p \in k.slots
    BY <1>3, <1>12, <1>13, <2>4 DEF Recent
  <2>6. b - p = s + d * p
    BY <1>6, <2>3
  <2>7. d = 0
    BY <1>1, <1>6, <1>13, <2>5, <2>6, BeyondWindow
  <2>8. b - p = s
    BY <1>6, <2>6, <2>7
  <2>9. ~(s < now)
    BY <1>1, <1>6, GrantAssumption
  <2>10. PICK k \in slGrants : s \in k.slots
    BY <2>5, <2>8, <2>9
  <2> QED BY <2>10 DEF NewBlock
<1> QED BY <1>15, <1>16

-----------------------------------------------------------------------------
\* Time does not go back.
LEMMA NowGrows ==
  ASSUME GrantInv, [Next]_vars
  PROVE  now \in Nat /\ now' \in Nat /\ now <= now'
<1>1. now \in Nat
  BY DEF GrantInv, TypeOK
<1>2. now' = now \/ now' = now + 1
  BY DEF Next, vars, ReportBufferStatus, Trigger, TriggerWithoutHarq, Allocate,
         AllocationEnds, Publish, Transmit
<1> QED BY <1>1, <1>2

\* A reservation that is not new has no new slots.
LEMMA ReservationShrinks ==
  ASSUME GrantInv, BlocksFit, [Next]_vars, NEW r \in grantInfo'
  PROVE  \/ \E g \in grantInfo : r.harqId = g.harqId /\ r.slots \subseteq g.slots
         \/ Allocate /\ Created(r)
<1>1. ASSUME NEW g \in DueGrants, ~IsDynamic(g), r = AfterPublish(g)
      PROVE  \E k \in grantInfo : r.harqId = k.harqId /\ r.slots \subseteq k.slots
  <2>1. g \in grantInfo
    BY DueFacts
  <2>2. PICK S \in SUBSET Nat : BlockOf(g, S)
    BY <2>1 DEF BlocksFit
  <2>3. \A a : a = AfterPublish(g) =>
                 a.harqId = g.harqId /\ a.slots = g.slots \ S
    BY <1>1, <2>2, BlockIsPublished
  <2> QED BY <1>1, <2>1, <2>3
<1>2. ASSUME NEW g \in grantInfo, SameSlots(r, g)
      PROVE  \E k \in grantInfo : r.harqId = k.harqId /\ r.slots \subseteq k.slots
  BY <1>2 DEF SameSlots
<1> QED BY <1>1, <1>2, ReservationSteps

\* What is published are slots of a reservation, within the window.
LEMMA PublishedSlots ==
  ASSUME GrantInv, BlocksFit, NEW d \in DueGrants
  PROVE  /\ d \in grantInfo /\ Published(d).harqId = d.harqId
         /\ Published(d).slots \subseteq d.slots
         /\ \A s \in Published(d).slots : s \in Nat /\ s <= now + T2
         /\ \A r : r = AfterPublish(d) /\ ~IsDynamic(d) =>
              r.slots = d.slots \ Published(d).slots
<1>1. d \in grantInfo /\ d \in GrantInfo /\ First(d) <= now + T1
  BY DueFacts
<1>2. PICK S \in SUBSET Nat : BlockOf(d, S)
  BY <1>1 DEF BlocksFit
<1>3. /\ First(d) = Min(S) /\ Published(d).slots = S /\ S \subseteq d.slots
      /\ Published(d).harqId = d.harqId
      /\ \A r : r = AfterPublish(d) /\ ~IsDynamic(d) => r.slots = d.slots \ S
  <2>1. /\ First(d) = Min(S) /\ Published(d).slots = S /\ S \subseteq d.slots
        /\ Published(d).harqId = d.harqId
    BY <1>2, BlockIsPublished
  <2>2. ASSUME NEW r, r = AfterPublish(d), ~IsDynamic(d)
        PROVE  r.slots = d.slots \ S
    <3>1. \A a : a = AfterPublish(d) => a.slots = d.slots \ S
      BY <1>2, <2>2, BlockIsPublished
    <3> QED BY <2>2, <3>1
  <2> QED BY <2>1, <2>2
<1>4. S # {}
  BY <1>1, <1>2, BlockFacts
<1>5. Min(S) \in S
  BY <1>4, NatMin
<1>6. now \in Nat /\ T1 \in Nat /\ T2 \in Nat
  BY GrantAssumption DEF GrantInv, TypeOK
<1>7. \A s \in S : s <= Min(S) + (T2 - T1)
  BY <1>2, <1>5 DEF BlockOf, FitsWindow
<1>8. ASSUME NEW s \in S PROVE s \in Nat /\ s <= now + T2
  <2>1. s \in Nat /\ Min(S) \in Nat /\ Min(S) <= now + T1
    BY <1>1, <1>3, <1>5
  <2>2. s <= Min(S) + (T2 - T1)
    BY <1>7
  <2> QED BY <1>6, <2>1, <2>2
<1> QED BY <1>1, <1>3, <1>8

\* A slot in flight is transmitted in or stays in flight.
LEMMA InFlightStays ==
  ASSUME GrantInv, ScheduleInv, [Next]_vars, NEW k \in slGrants, NEW x \in k.slots
  PROVE  x < now' \/ \E q \in slGrants' : x \in q.slots
<1>1. CASE Transmit
  <2>1. /\ slGrants' = {g \in slGrants : ~InSlot(g)}
             \cup {Transmitted(g) :
                     g \in {n \in slGrants : InSlot(n) /\ ~LastTransmission(n)}}
        /\ now' = now + 1 /\ now \in Nat
    BY <1>1 DEF Transmit, GrantInv, TypeOK
  <2>2. CASE x = now
    BY <2>1, <2>2
  <2>3. CASE ~InSlot(k)
    BY <2>1, <2>3
  <2>4. CASE InSlot(k) /\ ~LastTransmission(k) /\ x # now
    <3>1. Transmitted(k) \in slGrants'
      BY <2>1, <2>4
    <3>2. k \in Grant
      BY DEF GrantInv, TypeOK
    <3>3. x \in Transmitted(k).slots
      BY <2>4, <3>2 DEF Transmitted, Grant
    <3> QED BY <3>1, <3>3
  <2>5. CASE LastTransmission(k) /\ x # now
    <3>1. k \in Grant /\ OnSchedule(k) /\ InSlot(k) /\ k.tbTxCounter = k.nSelected
      BY <2>5 DEF GrantInv, TypeOK, ScheduleInv, LastTransmission
    <3>2. k.slots \in SUBSET Nat /\ k.slots # {} /\ k.nSelected \in Nat
      BY <3>1 DEF Grant, OnSchedule
    <3>3. now \in k.slots
      BY <3>1, <3>2, NatMin DEF InSlot, First
    <3>4. IsFiniteSet(k.slots) /\ Cardinality(k.slots) = 1
      BY <3>1, <3>2 DEF OnSchedule
    <3>5. PICK y : k.slots = {y}
      BY <3>4, FS_Singleton
    <3> QED BY <2>5, <3>3, <3>5
  <2> QED BY <2>2, <2>3, <2>4, <2>5 DEF LastTransmission
<1>2. CASE Publish
  BY <1>2 DEF Publish
<1>3. CASE slGrants' = slGrants
  BY <1>3
<1> QED BY <1>1, <1>2, <1>3 DEF Next, vars, ReportBufferStatus, Trigger,
           TriggerWithoutHarq, Allocate, AllocationEnds

-----------------------------------------------------------------------------
\* With equal intervals no two reservations come to have a slot in common.
LEMMA NextReservedApart ==
  ASSUME EqualIntervals, GrantInv, GrantInv', BlocksFit, SlotInv, [Next]_vars
  PROVE  ReservedApart'
<1> SUFFICES ASSUME NEW r \in grantInfo', NEW q \in grantInfo',
                    r.harqId # q.harqId
             PROVE  r.slots \cap q.slots = {}
  BY DEF ReservedApart
<1>1. ASSUME NEW a \in grantInfo', NEW b \in grantInfo', a.harqId # b.harqId,
             Created(a)
      PROVE  a.slots \cap b.slots = {}
  <2>1. b \in grantInfo /\ a \in GrantInfo
    BY <1>1 DEF Created, GrantInv, TypeOK, GrantInfo
  <2>2. PICK S \in SUBSET Nat : NewBlock(a, S)
    BY <1>1 DEF Created
  <2> QED BY <2>1, <2>2, NewSlotsMissReservation DEF GrantInv
<1>2. CASE Created(r)
  BY <1>1, <1>2
<1>3. CASE Created(q)
  <2>1. q.slots \cap r.slots = {}
    BY <1>1, <1>3
  <2> QED BY <2>1
<1>4. ASSUME NEW g \in grantInfo, r.harqId = g.harqId, r.slots \subseteq g.slots,
             NEW k \in grantInfo, q.harqId = k.harqId, q.slots \subseteq k.slots
      PROVE  r.slots \cap q.slots = {}
  <2>1. g.slots \cap k.slots = {}
    BY <1>4 DEF SlotInv, ReservedApart
  <2> QED BY <1>4, <2>1
<1> QED BY <1>2, <1>3, <1>4, ReservationShrinks

\* No reservation comes to have a slot in common with a published grant.
LEMMA NextInFlightApart ==
  ASSUME GrantInv, GrantInv', BlocksFit, SlotInv, [Next]_vars
  PROVE  InFlightApart'
<1> SUFFICES ASSUME NEW r \in grantInfo', NEW q \in slGrants'
             PROVE  r.slots \cap q.slots = {}
  BY DEF InFlightApart
<1>1. ASSUME NEW k \in slGrants, q.slots \subseteq k.slots
      PROVE  r.slots \cap q.slots = {}
  <2>1. ASSUME NEW g \in grantInfo, r.slots \subseteq g.slots
        PROVE  r.slots \cap q.slots = {}
    <3>1. g.slots \cap k.slots = {}
      BY DEF SlotInv, InFlightApart
    <3> QED BY <1>1, <2>1, <3>1
  <2>2. ASSUME Created(r), NEW x \in r.slots
        PROVE  x \notin k.slots
    <3>1. r \in GrantInfo
      BY DEF GrantInv, TypeOK, GrantInfo
    <3>2. PICK S \in SUBSET Nat : NewBlock(r, S)
      BY <2>2 DEF Created
    <3>3. x \in S \/ ~(x <= now + T2)
      BY <2>2, <3>1, <3>2, NewSlotsBeyond DEF GrantInv
    <3>4. x \in S => x \notin k.slots
      BY <3>2 DEF NewBlock
    <3>5. x \in k.slots => x <= now + T2
      BY DEF SlotInv, SlotsInReach
    <3> QED BY <3>3, <3>4, <3>5
  <2> QED BY <1>1, <2>1, <2>2, ReservationShrinks
<1>2. ASSUME NEW d \in DueGrants, Publish, q = Published(d)
      PROVE  r.slots \cap q.slots = {}
  <2>1. d \in grantInfo /\ q.slots \subseteq d.slots
    BY <1>2, PublishedSlots
  <2>2. ASSUME NEW g \in grantInfo, g # d, r.slots \subseteq g.slots
        PROVE  r.slots \cap q.slots = {}
    <3>1. g.slots \cap d.slots = {}
      BY <2>1, <2>2 DEF SlotInv, ReservedApart, GrantInv, HarqInv,
                        HarqIdsReservedOnce
    <3> QED BY <2>1, <2>2, <3>1
  <2>3. ASSUME NEW g \in DueGrants, ~IsDynamic(g), r = AfterPublish(g)
        PROVE  r.slots \cap q.slots = {}
    <3>1. g \in grantInfo
      BY PublishedSlots
    <3>2. \A a : a = AfterPublish(g) => a.slots = g.slots \ Published(g).slots
      BY <2>3, PublishedSlots
    <3>3. r.slots = g.slots \ Published(g).slots
      BY <2>3, <3>2
    <3>4. CASE g = d
      BY <1>2, <3>3, <3>4
    <3>5. CASE g # d
      BY <2>2, <3>1, <3>3, <3>5
    <3> QED BY <3>4, <3>5
  <2>4. ASSUME NEW g \in grantInfo, SameSlots(r, g), g \notin DueGrants
        PROVE  r.slots \cap q.slots = {}
    BY <2>2, <2>4 DEF SameSlots
  <2>5. ~Allocate
    BY <1>2 DEF Allocate, Publish
  <2> QED BY <1>2, <2>3, <2>4, <2>5, ReservationSteps
<1> QED BY <1>1, <1>2, PublishedSteps

\* Nor do two published grants: a grant takes its slots from a reservation.
LEMMA NextTransmissionsApart ==
  ASSUME GrantInv, BlocksFit, SlotInv, [Next]_vars
  PROVE  OneTransmissionPerSlot'
<1> SUFFICES ASSUME NEW a \in slGrants', NEW b \in slGrants', a.harqId # b.harqId
             PROVE  a.slots \cap b.slots = {}
  BY DEF OneTransmissionPerSlot
<1> DEFINE Old(q, k) == q.harqId = k.harqId /\ q.slots \subseteq k.slots
<1>1. \A q \in slGrants' : \/ \E k \in slGrants : Old(q, k)
                           \/ \E d \in DueGrants : q = Published(d)
  BY PublishedSteps
<1>2. ASSUME NEW g \in slGrants, Old(a, g), NEW k \in slGrants, Old(b, k)
      PROVE  a.slots \cap b.slots = {}
  <2>1. g.slots \cap k.slots = {}
    BY <1>2 DEF SlotInv, OneTransmissionPerSlot
  <2> QED BY <1>2, <2>1
<1>3. ASSUME NEW q, NEW n, NEW k \in slGrants, Old(q, k),
             NEW d \in DueGrants, n = Published(d)
      PROVE  n.slots \cap q.slots = {}
  <2>1. d \in grantInfo /\ n.slots \subseteq d.slots
    BY <1>3, PublishedSlots
  <2>2. d.slots \cap k.slots = {}
    BY <2>1 DEF SlotInv, InFlightApart
  <2> QED BY <1>3, <2>1, <2>2
<1>4. ASSUME NEW g \in DueGrants, a = Published(g),
             NEW k \in DueGrants, b = Published(k)
      PROVE  a.slots \cap b.slots = {}
  <2>1. /\ g \in grantInfo /\ a.harqId = g.harqId /\ a.slots \subseteq g.slots
        /\ k \in grantInfo /\ b.harqId = k.harqId /\ b.slots \subseteq k.slots
    BY <1>4, PublishedSlots
  <2>2. g.slots \cap k.slots = {}
    BY <2>1 DEF SlotInv, ReservedApart
  <2> QED BY <2>1, <2>2
<1> HIDE DEF Old
<1> QED BY <1>1, <1>2, <1>3, <1>4

\* No slot of a published grant lies beyond the window.
LEMMA NextSlotsInReach ==
  ASSUME GrantInv, BlocksFit, SlotInv, [Next]_vars
  PROVE  SlotsInReach'
<1> SUFFICES ASSUME NEW q \in slGrants', NEW s \in q.slots
             PROVE  s <= now' + T2
  BY DEF SlotsInReach
<1>1. s \in Nat /\ s <= now + T2
  <2>1. ASSUME NEW k \in slGrants, q.slots \subseteq k.slots
        PROVE  s \in Nat /\ s <= now + T2
    <3>1. s \in k.slots /\ k \in Grant
      BY <2>1 DEF GrantInv, TypeOK
    <3> QED BY <3>1 DEF SlotInv, SlotsInReach, Grant
  <2>2. ASSUME NEW d \in DueGrants, q = Published(d)
        PROVE  s \in Nat /\ s <= now + T2
    BY <2>2, PublishedSlots
  <2> QED BY <2>1, <2>2, PublishedSteps
<1>2. T2 \in Nat
  BY GrantAssumption
<1> QED BY <1>1, <1>2, NowGrows

\* The window moves forward with the slot it starts from.
LEMMA ReachGrows ==
  ASSUME NEW n \in Nat, NEW m \in Nat, n <= m, NEW t \in Nat, NEW x \in Int, x <= n + t
  PROVE  x <= m + t
OBVIOUS

\* What is recent stays so.
LEMMA RecentStays ==
  ASSUME GrantInv, ScheduleInv, [Next]_vars, NEW g \in GrantInfo, NEW s \in Nat,
         Recent(g, s), NEW r, r.rri = g.rri
  PROVE  Recent(r, s)'
<1>1. T2 \in Nat /\ g.rri \in Nat /\ (IsDynamic(r) <=> IsDynamic(g))
  BY GrantAssumption DEF GrantInfo, IsDynamic
<1>2. s - g.rri \in Int /\ now \in Nat /\ now' \in Nat /\ now <= now'
  BY <1>1, NowGrows
<1>3. CASE s <= now + T2
  <2>1. T2 \in Nat /\ now \in Nat /\ now' \in Nat /\ now <= now' /\ s \in Int
    BY <1>1, <1>2
  <2>2. s <= now' + T2
    BY <1>3, <2>1, ReachGrows, Zenon
  <2> QED BY <2>2 DEF Recent
<1>4. CASE /\ ~IsDynamic(g) /\ s - g.rri <= now + T2
           /\ s - g.rri < now \/ \E k \in slGrants : s - g.rri \in k.slots
  <2>1. s - g.rri <= now' + T2
    BY <1>1, <1>2, <1>4
  <2>2. s - g.rri < now' \/ \E q \in slGrants' : s - g.rri \in q.slots
    <3>1. CASE s - g.rri < now
      BY <1>2, <3>1
    <3>2. CASE \E k \in slGrants : s - g.rri \in k.slots
      BY <3>2, InFlightStays
    <3> QED BY <1>4, <3>1, <3>2
  <2> QED BY <1>1, <1>4, <2>1, <2>2 DEF Recent, IsDynamic
<1> QED BY <1>3, <1>4 DEF Recent

\* The first block of every reservation stays recent.
LEMMA NextBlocksRecent ==
  ASSUME GrantInv, GrantInv', ScheduleInv, BlocksFit, SlotInv, [Next]_vars
  PROVE  BlocksRecent'
<1>1. ASSUME NEW r \in grantInfo', NEW S \in SUBSET Nat, BlockOf(r, S),
             HasSlots(r), NEW s \in S
      PROVE  Recent(r, s)'
  <2>1. r \in GrantInfo /\ S = TransportBlock(r) /\ s \in Nat
    <3>1. r \in GrantInfo
      BY DEF GrantInv, TypeOK, GrantInfo
    <3> QED BY <1>1, <3>1, BlockUnique
  <2>2. ASSUME NEW g \in grantInfo, SameSlots(r, g)
        PROVE  Recent(r, s)'
    <3>1. BlockOf(g, S) /\ HasSlots(g) /\ r.rri = g.rri
      <4>1. SameSlots(g, r)
        BY <2>2 DEF SameSlots
      <4> QED BY <1>1, <4>1, SameBlock DEF SameSlots, HasSlots
    <3>2. Recent(g, s) /\ g \in GrantInfo
      BY <3>1 DEF SlotInv, BlocksRecent, GrantInv, TypeOK
    <3> QED BY <2>1, <3>1, <3>2, RecentStays
  <2>3. ASSUME Publish, NEW g \in DueGrants, ~IsDynamic(g), r = AfterPublish(g)
        PROVE  Recent(r, s)'
    <3>1. g \in grantInfo /\ g \in GrantInfo
      BY DueFacts
    <3>2. PICK B \in SUBSET Nat : BlockOf(g, B)
      BY <3>1 DEF BlocksFit
    <3>3. /\ r.rri = g.rri /\ BlockOf(r, Shift(B, g.rri))
      BY <2>3, <3>2, BlockIsPublished
    <3>4. g.rri \in Nat /\ g.rri # 0 /\ Shift(B, g.rri) \in SUBSET Nat
      BY <2>3, <3>1, <3>2, BlockFacts, ShiftFacts
    <3>5. S = Shift(B, g.rri)
      BY <1>1, <2>1, <3>3, <3>4, BlockUnique
    <3>6. PICK b \in B : s = b + g.rri
      BY <3>5 DEF Shift
    <3>7. Published(g).slots = B
      BY <3>2, BlockIsPublished
    <3>8. b <= now + T2
      BY <3>7, PublishedSlots
    <3>9. Published(g) \in slGrants' /\ now' = now
      BY <2>3 DEF Publish
    <3>10. s - r.rri = b
      BY <3>3, <3>4, <3>6
    <3>11. ~IsDynamic(r)
      BY <3>3, <3>4 DEF IsDynamic
    <3>12. \E k \in slGrants' : s - r.rri \in k.slots
      BY <3>7, <3>9, <3>10
    <3>13. s - r.rri <= now' + T2
      BY <3>8, <3>9, <3>10
    <3> QED BY <3>11, <3>12, <3>13 DEF Recent, IsDynamic
  <2>4. ASSUME Allocate, Created(r)
        PROVE  Recent(r, s)'
    <3>1. PICK B \in SUBSET Nat : NewBlock(r, B)
      BY <2>4 DEF Created
    <3>2. S = B
      BY <1>1, <2>1, <3>1, BlockUnique DEF NewBlock
    <3>3. s <= now + T2 /\ now' = now
      BY <2>4, <3>1, <3>2 DEF NewBlock, Allocate
    <3> QED BY <3>3 DEF Recent
  <2> QED BY <2>2, <2>3, <2>4, ReservationSteps
<1> QED BY <1>1 DEF BlocksRecent, BlockOf, NextBlock, FitsWindow, BlocksLeft,
           IsDynamic, HasSlots

\* While all periodic channels have one interval, no two published grants have
\* a slot in common, although the scheduler looks only at the first block of a
\* reservation (GetNrSlCandidateResources and the filter of granted slots).
THEOREM GrantsOneTransmissionPerSlot ==
  ASSUME EqualIntervals
  PROVE  Spec => []OneTransmissionPerSlot
<1>1. Init => SlotInv
  BY DEF Init, SlotInv, BlocksRecent, SlotsInReach, ReservedApart, InFlightApart,
         OneTransmissionPerSlot
<1>2. GrantInv /\ GrantInv' /\ ScheduleInv /\ BlocksFit /\ SlotInv /\ [Next]_vars
        => SlotInv'
  <2> SUFFICES ASSUME GrantInv, GrantInv', ScheduleInv, BlocksFit, SlotInv,
                      [Next]_vars
               PROVE  SlotInv'
    OBVIOUS
  <2>1. BlocksRecent' /\ SlotsInReach'
    BY NextBlocksRecent, NextSlotsInReach
  <2>2. ReservedApart' /\ InFlightApart' /\ OneTransmissionPerSlot'
    BY NextReservedApart, NextInFlightApart, NextTransmissionsApart
  <2> QED BY <2>1, <2>2 DEF SlotInv
<1>3. SlotInv => OneTransmissionPerSlot
  BY DEF SlotInv
<1> QED BY <1>1, <1>2, <1>3, GrantInvariant, ScheduleInvariant,
           BlocksFitInvariant, PTL DEF Spec

-----------------------------------------------------------------------------
(***************************************************************************)
(* The prioritization.  Its loops skip an entry only behind one that was   *)
(* emptied, and then nothing is computed anew.                             *)
(***************************************************************************)

\* The entry with the highest priority.
LEMMA TopEntryFacts ==
  ASSUME NEW C \in SUBSET Nat, NEW S \in SUBSET C, S # {}, NEW b \in Nat,
         NEW prio \in [C -> 0 .. b]
  PROVE  /\ Top(S, prio) # {} /\ Top(S, prio) \subseteq S
         /\ Top(S, prio) = {c \in S : \A d \in S : prio[d] <= prio[c]}
<1> DEFINE m == Max(Levels(S, prio))
<1>1. \A c \in S : prio[c] \in 0 .. b
  OBVIOUS
<1>2. Levels(S, prio) \in SUBSET (0 .. b) /\ Levels(S, prio) # {}
  BY <1>1 DEF Levels
<1>3. m \in Levels(S, prio) /\ \A y \in Levels(S, prio) : m >= y
  BY <1>2, BoundedMax
<1>4. m \in 0 .. b
  BY <1>2, <1>3
<1>5. Top(S, prio) = {c \in S : prio[c] = m}
  BY DEF Top, AtLevel
<1> HIDE DEF m
<1>6. PICK t \in S : prio[t] = m
  BY <1>3 DEF Levels
<1>7. \A d \in S : prio[d] <= m
  BY <1>1, <1>3, <1>4 DEF Levels
<1>8. \A c \in S : (\A d \in S : prio[d] <= prio[c]) <=> prio[c] = m
  <2>1. ASSUME NEW c \in S, \A d \in S : prio[d] <= prio[c] PROVE prio[c] = m
    <3>1. m <= prio[c] /\ prio[c] <= m /\ prio[c] \in Nat /\ m \in Nat
      BY <1>1, <1>4, <1>6, <1>7, <2>1
    <3> QED BY <3>1
  <2>2. ASSUME NEW c \in S, prio[c] = m PROVE \A d \in S : prio[d] <= prio[c]
    BY <1>7, <2>2
  <2> QED BY <2>1, <2>2
<1> QED BY <1>5, <1>6, <1>8

\* The reference channel of the code is the one its comments describe, and it
\* is of the scheduling type that is selected.
LEMMA PreferredFacts ==
  ASSUME NEW C \in SUBSET Nat, NEW S \in SUBSET C, S # {}, NEW b \in Nat,
         NEW prio \in [C -> 0 .. b], NEW rri \in [C -> Nat]
  PROVE  LET ref == LcIdOfRef(S, prio, rri)
         IN  /\ ref \in S /\ ref = Reference(S, prio, rri)
             /\ (rri[ref] = 0) = IsDynamicGrant(S, prio, rri)
<1> DEFINE top == Top(S, prio)
           sps == {c \in top : rri[c] # 0}
           dynamic == IsDynamicGrant(S, prio, rri)
           chosen == {c \in top : (rri[c] = 0) = dynamic}
           preferred == Preferred(S, prio, rri)
<1>1. /\ top # {} /\ top \subseteq S
      /\ top = {c \in S : \A d \in S : prio[d] <= prio[c]}
  BY TopEntryFacts
<1>2. dynamic = IF PrioToSps THEN sps = {} ELSE sps # top
  BY DEF IsDynamicGrant
<1>3. preferred = {c \in top : (rri[c] # 0) = PrioToSps}
  BY <1>1 DEF Preferred
<1>4. LcIdOfRef(S, prio, rri) = Min(chosen)
  BY DEF LcIdOfRef
<1>5. Reference(S, prio, rri) = IF preferred # {} THEN Min(preferred) ELSE Min(top)
  BY <1>1 DEF Reference
<1>6. PrioToSps \in BOOLEAN
  BY LcpAssumption
<1> HIDE DEF top, dynamic, preferred
<1>7. chosen # {} /\ chosen = IF preferred # {} THEN preferred ELSE top
  <2>1. CASE PrioToSps
    <3>1. preferred = sps /\ dynamic = (sps = {})
      BY <2>1, <1>2, <1>3
    <3>2. CASE sps = {}
      <4>1. chosen = top
        BY <3>1, <3>2
      <4> QED BY <3>1, <3>2, <4>1, <1>1
    <3>3. CASE sps # {}
      <4>1. chosen = sps
        BY <3>1, <3>3
      <4> QED BY <3>1, <3>3, <4>1
    <3> QED BY <3>2, <3>3
  <2>2. CASE ~PrioToSps
    <3>1. preferred = {c \in top : rri[c] = 0} /\ dynamic = (sps # top)
      BY <2>2, <1>2, <1>3, <1>6
    <3>2. CASE sps = top
      <4>1. preferred = {} /\ chosen = top
        BY <3>1, <3>2
      <4> QED BY <4>1, <1>1
    <3>3. CASE sps # top
      <4>1. preferred # {} /\ chosen = preferred
        BY <3>1, <3>3
      <4> QED BY <4>1
    <3> QED BY <3>2, <3>3
  <2> QED BY <2>1, <2>2
<1>8. chosen \in SUBSET Nat
  BY <1>1
<1>9. Min(chosen) \in chosen
  BY <1>7, <1>8, NatMin
<1>10. Min(chosen) = Reference(S, prio, rri)
  BY <1>5, <1>7
<1>11. Min(chosen) \in S /\ (rri[Min(chosen)] = 0) = dynamic
  BY <1>1, <1>9
<1> QED BY <1>4, <1>10, <1>11 DEF dynamic

\* A loop that empties no entry visits every entry, downwards
LEMMA VisitedDownAll ==
  ASSUME NEW S, NEW prio, NEW rri, NEW dynamic, Levels(S, prio) \in SUBSET Nat,
         \A p \in Levels(S, prio) : OfType(AtLevel(S, prio, p), rri, dynamic) # {}
  PROVE  VisitedDown(S, prio, rri, dynamic) = Levels(S, prio)
<1> DEFINE L == Levels(S, prio)
           Above(p) == {q \in L : q > p}
           Behind(v, p) == LET q == Min(Above(p))
                           IN  \/ ~v[q]
                               \/ OfType(AtLevel(S, prio, q), rri, dynamic) # {}
           Rec(v) == v = [p \in L |-> Above(p) = {} \/ Behind(v, p)]
           visited == CHOOSE v : Rec(v)
<1>1. VisitedDown(S, prio, rri, dynamic) = {p \in L : visited[p]}
  BY DEF VisitedDown
<1>2. ASSUME NEW p \in L PROVE \A v : Above(p) = {} \/ Behind(v, p)
  <2>1. CASE Above(p) # {}
    <3>1. Above(p) \in SUBSET Nat
      OBVIOUS
    <3>2. Min(Above(p)) \in L
      BY <2>1, <3>1, NatMin
    <3> QED BY <3>2
  <2> QED BY <2>1
<1> HIDE DEF L, Above, Behind
<1>3. Rec([p \in L |-> TRUE])
  <2>1. \A p \in L : (Above(p) = {} \/ Behind([q \in L |-> TRUE], p)) = TRUE
    BY <1>2
  <2> QED BY <2>1
<1>4. Rec(visited)
  BY <1>3
<1> HIDE DEF visited
<1>5. \A p \in L : visited[p]
  BY <1>2, <1>4
<1> QED BY <1>1, <1>5 DEF L

\* and upwards.
LEMMA VisitedUpAll ==
  ASSUME NEW S, NEW prio, NEW rri, NEW ref, NEW b \in Nat,
         Levels(S, prio) \in SUBSET (0 .. b),
         \A p \in Levels(S, prio) :
           \E c \in AtLevel(S, prio, p) : rri[c] = rri[ref]
  PROVE  VisitedUp(S, prio, rri, ref) = Levels(S, prio)
<1> DEFINE L == Levels(S, prio)
           Under(p) == {q \in L : q < p}
           Behind(v, p) == LET q == Max(Under(p))
                           IN  \/ ~v[q]
                               \/ \E c \in AtLevel(S, prio, q) : rri[c] = rri[ref]
           Rec(v) == v = [p \in L |-> Under(p) = {} \/ Behind(v, p)]
           visited == CHOOSE v : Rec(v)
<1>1. VisitedUp(S, prio, rri, ref) = {p \in L : visited[p]}
  BY DEF VisitedUp
<1>2. ASSUME NEW p \in L PROVE \A v : Under(p) = {} \/ Behind(v, p)
  <2>1. CASE Under(p) # {}
    <3>1. Under(p) \in SUBSET (0 .. b)
      OBVIOUS
    <3>2. Max(Under(p)) \in L
      BY <2>1, <3>1, BoundedMax
    <3> QED BY <3>2
  <2> QED BY <2>1
<1> HIDE DEF L, Under, Behind
<1>3. Rec([p \in L |-> TRUE])
  <2>1. \A p \in L : (Under(p) = {} \/ Behind([q \in L |-> TRUE], p)) = TRUE
    BY <1>2
  <2> QED BY <2>1
<1>4. Rec(visited)
  BY <1>3
<1> HIDE DEF visited
<1>5. \A p \in L : visited[p]
  BY <1>2, <1>4
<1> QED BY <1>1, <1>5 DEF L

\* Applying a function again and again while a condition holds has a
\* collection of outcomes from every value: the least one.
Outcomes(f, X, next, again) ==
  f = [x \in X |-> {next[x]} \cup (IF x \in again THEN f[next[x]] ELSE {})]

LEMMA RepeatedOutcomes ==
  ASSUME NEW X, NEW next \in [X -> X], NEW again \in SUBSET X
  PROVE  \E f : Outcomes(f, X, next, again)
<1> DEFINE Closed(f) == \A x \in X : /\ next[x] \in f[x]
                                     /\ x \in again => f[next[x]] \subseteq f[x]
           least == [x \in X |-> {y \in X : \A f \in [X -> SUBSET X] :
                                             Closed(f) => y \in f[x]}]
           one == [x \in X |-> {next[x]} \cup (IF x \in again THEN least[next[x]] ELSE {})]
<1>1. \A x \in X : next[x] \in X
  OBVIOUS
<1>2. \A x \in X : next[x] \in least[x]
  BY <1>1
<1>3. ASSUME NEW x \in X, x \in again PROVE least[next[x]] \subseteq least[x]
  BY <1>1, <1>3
<1>4. least \in [X -> SUBSET X] /\ one \in [X -> SUBSET X]
  BY <1>1
<1>5. \A x \in X : one[x] = {next[x]} \cup (IF x \in again THEN least[next[x]] ELSE {})
  OBVIOUS
<1>6. \A x \in X, f \in [X -> SUBSET X] : Closed(f) => least[x] \subseteq f[x]
  OBVIOUS
<1> HIDE DEF least, one
<1>7. \A x \in X : one[x] \subseteq least[x]
  BY <1>2, <1>3, <1>5
<1>8. Closed(one)
  BY <1>1, <1>5, <1>7
<1> HIDE DEF Closed
<1>9. \A x \in X : one[x] = least[x]
  BY <1>4, <1>6, <1>7, <1>8
<1>10. least = [x \in X |-> {next[x]} \cup (IF x \in again THEN least[next[x]] ELSE {})]
  <2>1. least = [x \in X |-> least[x]]
    BY <1>4
  <2> QED BY <2>1, <1>5, <1>9
<1> QED BY <1>10 DEF Outcomes

\* Where the filter does not pass the end it is applied once.
LEMMA OneOutcome ==
  ASSUME NEW S, NEW prio, NEW rri, NEW dynamic,
         ~RunsPastEnd(S, prio, rri, dynamic)
  PROVE  TypeFilterOutcomes(S, prio, rri, dynamic) =
           {TypeFilter(S, prio, rri, dynamic)}
<1> DEFINE X == SUBSET S
           Kept(T) == TypeFilter(T, prio, rri, dynamic)
           Past(T) == RunsPastEnd(T, prio, rri, dynamic)
           next == [T \in X |-> Kept(T)]
           again == {T \in X : Past(T)}
           Rec(f) == f = [T \in X |-> {Kept(T)} \cup (IF Past(T) THEN f[Kept(T)] ELSE {})]
           outcomes == CHOOSE f : Rec(f)
<1>1. TypeFilterOutcomes(S, prio, rri, dynamic) = outcomes[S]
  BY DEF TypeFilterOutcomes
<1>2. \A T \in X : Kept(T) \in X /\ Past(T) \in BOOLEAN
  BY DEF TypeFilter, RunsPastEnd
<1> HIDE DEF X, Kept, Past
<1>3. next \in [X -> X] /\ again \in SUBSET X
  BY <1>2
<1>4. \A T \in X : next[T] = Kept(T) /\ (T \in again <=> Past(T))
  OBVIOUS
<1> HIDE DEF next, again
<1>5. \E f : Rec(f)
  <2>1. PICK f : Outcomes(f, X, next, again)
    BY <1>3, RepeatedOutcomes
  <2> QED BY <1>4, <2>1 DEF Outcomes
<1>6. Rec(outcomes)
  BY <1>5
<1> HIDE DEF outcomes
<1>7. S \in X /\ ~Past(S)
  BY DEF X, Past
<1>8. outcomes[S] = {Kept(S)}
  BY <1>6, <1>7
<1> QED BY <1>1, <1>8 DEF Kept

\* Whatever the priorities and intervals, the channels selected are those with
\* the scheduling type and interval of the reference channel, unless an entry
\* of the map is emptied.
LEMMA SelectionFacts ==
  ASSUME NEW C \in SUBSET Nat, NEW S \in SUBSET C, S # {}, NEW b \in Nat,
         NEW prio \in [C -> 0 .. b], NEW rri \in [C -> Nat],
         \A p \in Levels(S, prio) :
           AtLevel(SameAttributes(S, prio, rri), prio, p) # {}
  PROVE  Selections(S, prio, rri) = {SameAttributes(S, prio, rri)}
<1> DEFINE dynamic == IsDynamicGrant(S, prio, rri)
           ref == LcIdOfRef(S, prio, rri)
           same == SameAttributes(S, prio, rri)
           typed == OfType(S, rri, dynamic)
<1>1. ref \in S /\ ref = Reference(S, prio, rri) /\ (rri[ref] = 0) = dynamic
  BY PreferredFacts
<1>2. same = {c \in S : rri[c] = rri[ref]}
  BY <1>1 DEF SameAttributes
<1>3. typed = {c \in S : (rri[c] = 0) = dynamic}
  BY DEF OfType
<1>4. Levels(S, prio) \in SUBSET (0 .. b) /\ Levels(S, prio) \in SUBSET Nat
  <2>1. \A c \in S : prio[c] \in 0 .. b
    OBVIOUS
  <2> QED BY <2>1 DEF Levels
<1> HIDE DEF dynamic, ref, same, typed
<1>5. same \subseteq typed /\ same \subseteq S /\ typed \subseteq S
  BY <1>1, <1>2, <1>3
<1>6. ASSUME NEW p \in Levels(S, prio)
      PROVE  \E c \in same : prio[c] = p
  BY DEF same, AtLevel
<1>7. \A p \in Levels(S, prio) : OfType(AtLevel(S, prio, p), rri, dynamic) # {}
  <2>1. ASSUME NEW p \in Levels(S, prio)
        PROVE  OfType(AtLevel(S, prio, p), rri, dynamic) # {}
    <3>1. PICK c \in same : prio[c] = p
      BY <1>6
    <3>2. c \in S /\ (rri[c] = 0) = dynamic
      BY <1>3, <1>5
    <3> QED BY <3>1, <3>2 DEF OfType, AtLevel
  <2> QED BY <2>1
<1>8. \A c \in S : prio[c] \in Levels(S, prio)
  BY DEF Levels
<1>9. TypeFilter(S, prio, rri, dynamic) = typed
  <2>1. VisitedDown(S, prio, rri, dynamic) = Levels(S, prio)
    BY <1>4, <1>7, VisitedDownAll
  <2> QED BY <2>1, <1>8, <1>5 DEF TypeFilter, typed
<1>10. ~RunsPastEnd(S, prio, rri, dynamic)
  <2>1. Levels(S, prio) # {}
    BY DEF Levels
  <2>2. Min(Levels(S, prio)) \in Levels(S, prio)
    BY <1>4, <2>1, NatMin
  <2> QED BY <1>7, <2>2 DEF RunsPastEnd
<1>11. TypeFilterOutcomes(S, prio, rri, dynamic) = {typed}
  BY <1>9, <1>10, OneOutcome
<1>12. CASE dynamic
  <2>1. typed = same
    BY <1>12, <1>1, <1>2, <1>3
  <2>2. Selections(S, prio, rri) = {T \in SUBSET S : T = typed}
    BY <1>11, <1>12 DEF Selections, dynamic
  <2> QED BY <2>1, <2>2, <1>5 DEF same
<1>13. CASE ~dynamic
  <2>1. Levels(typed, prio) = Levels(S, prio)
    <3>1. \A p \in Levels(S, prio) : \E c \in typed : prio[c] = p
      BY <1>5, <1>6
    <3> QED BY <3>1, <1>5 DEF Levels
  <2>2. \A p \in Levels(typed, prio) :
          \E c \in AtLevel(typed, prio, p) : rri[c] = rri[ref]
    <3>1. ASSUME NEW p \in Levels(typed, prio)
          PROVE  \E c \in AtLevel(typed, prio, p) : rri[c] = rri[ref]
      <4>1. PICK c \in same : prio[c] = p
        BY <1>6, <2>1
      <4>2. c \in typed /\ rri[c] = rri[ref]
        BY <1>2, <1>5
      <4> QED BY <4>1, <4>2 DEF AtLevel
    <3> QED BY <3>1
  <2>3. VisitedUp(typed, prio, rri, ref) = Levels(typed, prio)
    BY <1>4, <2>1, <2>2, VisitedUpAll
  <2>4. RriFilter(typed, prio, rri, ref) = same
    BY <1>2, <1>5, <1>8, <2>1, <2>3 DEF RriFilter
  <2>5. Selections(S, prio, rri) =
          {T \in SUBSET S : T = RriFilter(typed, prio, rri, ref)}
    BY <1>11, <1>13 DEF Selections, dynamic, ref
  <2> QED BY <2>4, <2>5, <1>5 DEF same
<1>14. dynamic \in BOOLEAN
  BY <1>1
<1> QED BY <1>12, <1>13, <1>14

\* The prioritization selects the channels of one scheduling type and one
\* interval, those of the reference channel, for any number of channels and
\* whatever their priorities and intervals, unless it empties a priority.
THEOREM LcpSelectsSameAttributes ==
  ASSUME NEW C \in SUBSET Nat, NEW S \in SUBSET C, S # {}, NEW b \in Nat,
         NEW prio \in [C -> 0 .. b], NEW rri \in [C -> Nat]
  PROVE  SelectsSameAttributes(S, prio, rri)
BY SelectionFacts DEF SelectsSameAttributes

\* So it does in every reachable state.
THEOREM GrantsSelectSameAttributes == Spec => []SelectsSameAttributesIfNoneEmptied
<1> DEFINE n == Cardinality(Channel)
<1>1. n \in Nat /\ Channel \in SUBSET Nat
  BY GrantAssumption, FS_CardinalityType
<1>2. ASSUME NEW need \in (SUBSET Channel) \ {{}},
             NEW prio \in [Channel -> 1 .. n], NEW rri \in [Channel -> 0 .. n]
      PROVE  SelectsSameAttributes(need, prio, rri)
  <2>1. prio \in [Channel -> 0 .. n] /\ rri \in [Channel -> Nat]
    BY <1>1
  <2>2. need \in SUBSET Channel /\ need # {}
    OBVIOUS
  <2> HIDE DEF n
  <2> QED BY <1>1, <2>1, <2>2, LcpSelectsSameAttributes
<1>3. SelectsSameAttributesIfNoneEmptied
  BY <1>2 DEF SelectsSameAttributesIfNoneEmptied
<1> QED BY <1>3, PTL
=============================================================================
