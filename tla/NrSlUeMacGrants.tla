---------------------------- MODULE NrSlUeMacGrants ----------------------------
(***************************************************************************)
(* The life of sidelink grants in one UE that selects its own resources:   *)
(* the scheduler (src/model/nr-sl-ue-mac-scheduler-default.cc) reserves    *)
(* slots and HARQ process ids in m_grantInfo and publishes one transport   *)
(* block of a reservation at a time, T1 slots ahead; the MAC               *)
(* (src/model/nr-ue-mac.cc) assigns the HARQ process, pulls the block from *)
(* the RLC and transmits it in its slots (m_slGrants); the HARQ entity     *)
(* (src/model/nr-sl-ue-mac-harq.cc) keeps the block until its last slot.   *)
(*                                                                         *)
(* Everything happens in NrUeMac::DoSlotIndication, once per slot: trigger *)
(* the scheduler, which checks, allocates and publishes, then transmit.    *)
(* The variable phase holds the place in that sequence; between two slots  *)
(* (phase "idle") the RLC reports its buffers.                             *)
(*                                                                         *)
(* Slots are those of the sidelink pool, numbered from 0.  Which of them   *)
(* sensing excludes is arbitrary here.  Blind retransmissions are enabled. *)
(* A state in which an assertion of the code fails has no further step.    *)
(***************************************************************************)
EXTENDS NrSlUeMacLcp, FiniteSets

CONSTANTS
  Channel,       \* logical channels, identified by their ids
  Destination,   \* layer-2 ids of the destinations
  DstOf,         \* DstOf[c]: the destination of channel c
  Priority,      \* Priority[c]: the priority of channel c
  Rri,           \* Rri[c]: reservation interval in slots, 0 if dynamic
  HarqIds,       \* the sidelink HARQ process ids
  T1, T2,        \* the selection window, in slots from the current one
  MaxTx,         \* SlMaxTxTransNumPssch: slots per transport block
  ReselCounters, \* the values the reselection counter is drawn from
  ReselFactor,   \* C_resel is this many times the counter: 10
  KeepProbable,  \* is SlProbResoKeep positive?
  MaxBuffer,     \* bound on the data of a channel
  MaxSlot        \* bound on time

ASSUME GrantAssumption ==
  /\ Channel \subseteq Nat \ {0} /\ IsFiniteSet(Channel)
  /\ Destination \subseteq Nat \ {0}
  /\ DstOf \in [Channel -> Destination]
  /\ Priority \in [Channel -> 0 .. 255]  \* uint8_t
  /\ Rri \in [Channel -> Nat]
  /\ HarqIds \subseteq Nat /\ IsFiniteSet(HarqIds)
  /\ T1 \in Nat /\ T2 \in Nat /\ T1 <= T2
  /\ MaxTx \in Nat \ {0}
  /\ ReselCounters \subseteq Nat \ {0}
  /\ ReselFactor \in Nat \ {0}
  /\ KeepProbable \in BOOLEAN
  /\ MaxBuffer \in Nat /\ MaxSlot \in Nat

\* The check of the window configuration: T2 - T1 + 1 <= interval.  The code
\* compares whole milliseconds, so above numerology 0 windows less than one
\* millisecond longer than the interval pass it as well.
ASSUME WindowAssumption ==
  \A c \in Channel : Rri[c] # 0 => T2 - T1 + 1 <= Rri[c]

VARIABLES
  now,        \* the current slot
  phase,      \* the place in the handling of the current slot
  harqIds,    \* the HARQ ids that were available at the trigger
  toSched,    \* channels that still need a grant in this trigger
  grantInfo,  \* m_grantInfo of the scheduler, as a set
  slGrants,   \* m_slGrants of the MAC, as a set
  harq,       \* m_nrSlHarqPktBuffer: destination and burst of each process
  buffer      \* data of each channel, as the RLC last reported it

vars == <<now, phase, harqIds, toSched, grantInfo, slGrants, harq, buffer>>

NoDst == 0
FreeProcess == [dst |-> NoDst, burst |-> {}]
Phases == {"idle", "allocate", "publish", "transmit"}

\* NrSlGrantInfo and NrSlGrant.  slots are the slot allocations, news those
\* of them that carry new data (ndi = 1).
GrantInfo == [dst : Destination, lcs : SUBSET Channel, rri : Nat,
              harqId : HarqIds, nSelected : Nat, slots : SUBSET Nat,
              news : SUBSET Nat, resel : Nat, prevResel : Nat, cResel : Nat]
Grant == [dst : Destination, harqId : HarqIds, nSelected : Nat,
          tbTxCounter : Nat, slots : SUBSET Nat]

IsDynamic(g) == g.rri = 0
First(g) == Min(g.slots)

TypeOK ==
  /\ now \in Nat /\ phase \in Phases
  /\ harqIds \subseteq HarqIds /\ toSched \subseteq Channel
  /\ grantInfo \subseteq GrantInfo /\ slGrants \subseteq Grant
  /\ harq \in [HarqIds -> [dst : Destination \cup {NoDst},
                           burst : SUBSET Channel]]
  /\ buffer \in [Channel -> Nat]

Init ==
  /\ now = 0 /\ phase = "idle"
  /\ harqIds = {} /\ toSched = {}
  /\ grantInfo = {} /\ slGrants = {}
  /\ harq = [h \in HarqIds |-> FreeProcess]
  /\ buffer = [c \in Channel |-> 0]

-----------------------------------------------------------------------------
\* The HARQ entity.

IsHarqIdAvailable(h) == harq[h].dst = NoDst
GetAvailableHarqIds == {h \in HarqIds : IsHarqIdAvailable(h)}

\* Mutant: the reservations that have not been published are forgotten.
UnusedHarqIdsIgnoringGrants(grants) == harqIds

\* GetUnusedHarqId: the available ids no grant of grants has reserved.
UnusedHarqIds(grants) == harqIds \ {g.harqId : g \in grants}

-----------------------------------------------------------------------------
\* The RLC enqueues data and reports its buffer.
ReportBufferStatus(c) ==
  /\ phase = "idle"
  /\ buffer[c] < MaxBuffer
  /\ buffer' = [buffer EXCEPT ![c] = @ + 1]
  /\ UNCHANGED <<now, phase, harqIds, toSched, grantInfo, slGrants, harq>>

(***************************************************************************)
(* TxResourceReselectionCheck.  A reservation is spent when its counter    *)
(* reached 0 with slots left.  If one of its channels has data, the coin   *)
(* decides whether it is kept and its counter restarted, or erased.        *)
(***************************************************************************)
HasSlots(g) == g.slots # {}
HasData(g) == \E c \in g.lcs : buffer[c] > 0
Spent(g) == ~IsDynamic(g) /\ HasSlots(g) /\ g.resel = 0
MayBeKept(g) == KeepProbable /\ g.cResel > 0
Reselect(grants, kept) ==
  {g \in grants : ~(Spent(g) /\ HasData(g))}
    \cup {[g EXCEPT !.resel = g.prevResel] : g \in kept}

\* Mutant: a channel with data asks for a grant although it has one.
NeedSchedulingAgain(grants) == {c \in Channel : buffer[c] > 0}

\* Channels with data that no grant with slots left serves.
NeedScheduling(grants) ==
  {c \in Channel : /\ buffer[c] > 0
                   /\ \A g \in grants : HasSlots(g) => c \notin g.lcs}

\* A slot begins: the MAC triggers the scheduler.  Without an available HARQ
\* id the scheduler goes straight to publishing.
TriggerWithoutHarq ==
  /\ phase = "idle" /\ now < MaxSlot
  /\ GetAvailableHarqIds = {}
  /\ harqIds' = {} /\ toSched' = {}
  /\ phase' = "publish"
  /\ UNCHANGED <<now, grantInfo, slGrants, harq, buffer>>

Trigger ==
  /\ phase = "idle" /\ now < MaxSlot
  /\ GetAvailableHarqIds # {}
  /\ harqIds' = GetAvailableHarqIds
  /\ \E kept \in SUBSET {g \in grantInfo :
                           Spent(g) /\ HasData(g) /\ MayBeKept(g)} :
       grantInfo' = Reselect(grantInfo, kept)
  /\ toSched' = NeedScheduling(grantInfo')
  /\ phase' = "allocate"
  /\ UNCHANGED <<now, slGrants, harq, buffer>>

-----------------------------------------------------------------------------
\* Allocation: LogicalChannelPrioritization and AttemptGrantAllocation.

\* The destination of the highest-priority channel, the smallest at a tie.
DstToServe ==
  LET highest == Max({Priority[c] : c \in toSched})
  IN  Min({DstOf[c] : c \in {d \in toSched : Priority[d] = highest}})

\* Mutant: only the reservations are filtered, not the published grants.
GrantedSlotsOfScheduler == UNION {g.slots : g \in grantInfo}

\* No two transmissions in one slot: the slots of published grants are
\* removed by the MAC and those of reservations by the scheduler.
GrantedSlots == UNION {g.slots : g \in grantInfo \cup slGrants}
TxOpportunities == ((now + T1) .. (now + T2)) \ GrantedSlots

\* RandomlySelectResources, whatever sensing left of the opportunities.
SlotChoices ==
  {S \in SUBSET TxOpportunities : S # {} /\ Cardinality(S) <= MaxTx}

Repeat(S, period, times) == {s + i * period : s \in S, i \in 0 .. times - 1}

SinglePduGrant(d, lcs, S, h) ==
  [dst |-> d, lcs |-> lcs, rri |-> 0, harqId |-> h,
   nSelected |-> Cardinality(S), slots |-> S, news |-> {Min(S)},
   resel |-> 0, prevResel |-> 0, cResel |-> 0]

SpsGrant(d, lcs, S, h, rri, counter) ==
  [dst |-> d, lcs |-> lcs, rri |-> rri, harqId |-> h,
   nSelected |-> Cardinality(S),
   slots |-> Repeat(S, rri, ReselFactor * counter),
   news |-> Repeat({Min(S)}, rri, ReselFactor * counter),
   resel |-> counter, prevResel |-> counter, cResel |-> ReselFactor * counter]

NewGrant(d, lcs, S, h, rri, counter) ==
  IF rri = 0 THEN SinglePduGrant(d, lcs, S, h)
  ELSE SpsGrant(d, lcs, S, h, rri, counter)

\* Reservations of d that ran out of slots.  The search for a grant to
\* update reads the first element of their empty slot set: it may match.
Exhausted(d, rri) ==
  {g \in grantInfo : g.dst = d /\ ~HasSlots(g) /\ rri \in {0, g.rri}}

\* CreateSpsGrant and CreateSinglePduGrant.  The matching grant keeps its
\* HARQ id; without one the lowest unused id is taken, if there is any.
CreateGrant(d, lcs, S, rri, counter) ==
  \/ /\ UnusedHarqIds(grantInfo) # {}
     /\ grantInfo' = grantInfo \cup
          {NewGrant(d, lcs, S, Min(UnusedHarqIds(grantInfo)), rri, counter)}
  \/ /\ UnusedHarqIds(grantInfo) = {}
     /\ grantInfo' = grantInfo
  \/ \E old \in Exhausted(d, rri) :
       grantInfo' = (grantInfo \ {old}) \cup
         {NewGrant(d, lcs, S, old.harqId, rri, counter)}

\* One destination is served; its served channels need no more scheduling,
\* even when no HARQ id was left for the grant.
Allocate ==
  /\ phase = "allocate" /\ toSched # {}
  /\ LET needing == {c \in toSched : DstOf[c] = DstToServe}
         rri == IF IsDynamicGrant(needing, Priority, Rri) THEN 0
                ELSE Rri[LcIdOfRef(needing, Priority, Rri)]
     IN  \E group \in Selections(needing, Priority, Rri) :
         \E lcs \in Allocations(group, Priority) :
         \E S \in SlotChoices, counter \in ReselCounters :
           /\ CreateGrant(DstToServe, lcs, S, rri, counter)
           /\ toSched' = toSched \ lcs
  /\ UNCHANGED <<now, phase, harqIds, slGrants, harq, buffer>>

\* Every channel is served, or no resources are found for the next
\* destination: then the remaining destinations are not tried either.
AllocationEnds ==
  /\ phase = "allocate"
  /\ toSched' = {}
  /\ phase' = "publish"
  /\ UNCHANGED <<now, harqIds, grantInfo, slGrants, harq, buffer>>

-----------------------------------------------------------------------------
\* Publishing: CheckForGrantsToPublish and DoSchedUeNrSlConfigInd.

\* Mutant: a reservation whose counter reached 0 is published all the same.
DueWhenSpent(g) == HasSlots(g) /\ First(g) <= now + T1
\* Mutant: published as soon as it lies in the selection window.
DueInWindow(g) == /\ IsDynamic(g) \/ g.resel > 0
                  /\ First(g) <= now + T2
Due(g) == /\ IsDynamic(g) \/ g.resel > 0
          /\ First(g) <= now + T1
DueGrants == {g \in grantInfo : Due(g)}

\* Mutant: the retransmission slots stay in the reservation.
TransportBlockFirst(g) == {First(g)}

\* The new data slot at the front and the retransmissions up to the next.
TransportBlock(g) ==
  {s \in g.slots : \A n \in g.news : n <= s => n = First(g)}

\* The assertions of the two functions.
StaleSlot(g) == First(g) < now
NoNewData(g) == First(g) \notin g.news
HarqBusy(g) == ~IsHarqIdAvailable(g.harqId)
PublishFails ==
  \E g \in DueGrants : StaleSlot(g) \/ NoNewData(g) \/ HarqBusy(g)

Published(g) ==
  [dst |-> g.dst, harqId |-> g.harqId, nSelected |-> g.nSelected,
   tbTxCounter |-> 1, slots |-> TransportBlock(g)]

WithoutBlock(g) ==
  [g EXCEPT !.slots = @ \ TransportBlock(g), !.news = @ \ {First(g)}]

\* Mutant: the C_resel counter is not decremented.
AfterPublishOneCounter(g) == [WithoutBlock(g) EXCEPT !.resel = @ - 1]

AfterPublish(g) ==
  [WithoutBlock(g) EXCEPT !.resel = @ - 1, !.cResel = @ - 1]

\* The RLC hands over data of every channel of the grant that has some.
Burst(g) == {c \in g.lcs : buffer[c] > 0}

Publish ==
  /\ phase = "publish" /\ ~PublishFails
  /\ grantInfo' = (grantInfo \ DueGrants)
                    \cup {AfterPublish(g) : g \in {d \in DueGrants : ~IsDynamic(d)}}
  /\ slGrants' = slGrants \cup {Published(g) : g \in DueGrants}
  /\ harq' = [h \in HarqIds |->
       IF \E g \in DueGrants : g.harqId = h
       THEN LET g == CHOOSE d \in DueGrants : d.harqId = h
            IN  [dst |-> g.dst, burst |-> Burst(g)]
       ELSE harq[h]]
  /\ buffer' = [c \in Channel |->
       IF \E g \in DueGrants : c \in Burst(g) THEN buffer[c] - 1 ELSE buffer[c]]
  /\ phase' = "transmit"
  /\ UNCHANGED <<now, harqIds, toSched>>

-----------------------------------------------------------------------------
\* Transmission: DoNrSlSlotIndication.

InSlot(g) == HasSlots(g) /\ First(g) = now
\* Mutant: the counter is compared one transmission too late.
LastTransmissionLate(g) == InSlot(g) /\ g.tbTxCounter = g.nSelected + 1
LastTransmission(g) == InSlot(g) /\ g.tbTxCounter = g.nSelected
Transmitted(g) ==
  [g EXCEPT !.slots = @ \ {now}, !.tbTxCounter = @ + 1]

\* Mutant: no fake feedback after the last slot.
TransmitWithoutFeedback ==
  /\ phase = "transmit"
  /\ \A g \in slGrants : HasSlots(g)
  /\ slGrants' = {g \in slGrants : ~InSlot(g)}
       \cup {Transmitted(g) : g \in {k \in slGrants : InSlot(k) /\ ~LastTransmission(k)}}
  /\ now' = now + 1 /\ phase' = "idle"
  /\ UNCHANGED <<harqIds, toSched, grantInfo, harq, buffer>>

\* After the last slot of a block, fake feedback frees its HARQ process.
Transmit ==
  /\ phase = "transmit"
  /\ \A g \in slGrants : HasSlots(g)
  /\ slGrants' = {g \in slGrants : ~InSlot(g)}
       \cup {Transmitted(g) : g \in {k \in slGrants : InSlot(k) /\ ~LastTransmission(k)}}
  /\ harq' = [h \in HarqIds |->
       IF \E g \in slGrants : g.harqId = h /\ LastTransmission(g)
       THEN FreeProcess ELSE harq[h]]
  /\ now' = now + 1 /\ phase' = "idle"
  /\ UNCHANGED <<harqIds, toSched, grantInfo, buffer>>

Next ==
  \/ \E c \in Channel : ReportBufferStatus(c)
  \/ Trigger \/ TriggerWithoutHarq
  \/ Allocate \/ AllocationEnds
  \/ Publish
  \/ Transmit

Spec == Init /\ [][Next]_vars
-----------------------------------------------------------------------------
\* A HARQ process is busy exactly while one published grant uses it, for the
\* destination of that grant: none leaks and none serves two blocks.
HarqFollowsGrants ==
  \A h \in HarqIds :
    LET users == {g \in slGrants : g.harqId = h}
    IN  IF IsHarqIdAvailable(h) THEN users = {}
        ELSE \E g \in slGrants : users = {g} /\ g.dst = harq[h].dst

\* Reservations never share a HARQ id, nor does one take the id of another's
\* block in flight: an id in both places belongs to one destination's
\* reservation and the block published from it.
HarqIdsReservedOnce ==
  /\ \A g, k \in grantInfo : g.harqId = k.harqId => g = k
  /\ \A g \in grantInfo, k \in slGrants :
       g.harqId = k.harqId => g.dst = k.dst

\* A published grant has exactly the slots of its missing transmissions, and
\* none is in the past: the last one is reached and frees the HARQ process
\* ("Empty grant in m_slGrants" never fires).
GrantsStayOnSchedule ==
  \A g \in slGrants :
    /\ HasSlots(g) /\ First(g) >= now
    /\ Cardinality(g.slots) = g.nSelected - (g.tbTxCounter - 1)

\* "Currently the PHY doesn't handle multiple PSSCH transmissions in the
\* same slot": no two grants of the MAC ever have a slot in common.
OneTransmissionPerSlot ==
  \A g, k \in slGrants : g.harqId # k.harqId => g.slots \cap k.slots = {}

\* The assertion "Stale slot in m_grantInfo" of CheckForGrantsToPublish: no
\* reservation to publish has let its next slot pass.
NoStaleSlot == phase = "publish" => \A g \in DueGrants : ~StaleSlot(g)

\* It holds for every reservation that has not been kept: its C_resel
\* counter went down together with its reselection counter.
NeverKept(g) ==
  IsDynamic(g) \/ ReselFactor * g.prevResel - g.cResel = g.prevResel - g.resel
NoStaleSlotUnlessKept ==
  phase = "publish" =>
    \A g \in DueGrants : NeverKept(g) => ~StaleSlot(g) /\ ~NoNewData(g)

\* The abort "Unable to assign granted HARQ ID" of DoSchedUeNrSlConfigInd:
\* the HARQ process of the previous block is free when the next one of the
\* same reservation is published.
HarqFreeWhenPublished ==
  phase = "publish" => \A g \in DueGrants : ~HarqBusy(g)

\* What is left of a reservation is a whole number of transport blocks, one
\* for each unit of the C_resel counter, enough for the counter to run out.
ReservationsHoldWholeBlocks ==
  \A g \in grantInfo :
    ~IsDynamic(g) =>
      /\ g.resel <= g.cResel
      /\ Cardinality(g.news) = g.cResel
      /\ Cardinality(g.slots) = g.cResel * g.nSelected

\* A channel is served by one grant at a time.
OneGrantPerChannel ==
  \A g, k \in grantInfo :
    HasSlots(g) /\ HasSlots(k) /\ g # k => g.lcs \cap k.lcs = {}

\* "Select destination's logical channels that will have the same grant
\* attributes": so it is for every assignment of priorities and of intervals,
\* 0 for a dynamic channel, not only that of the instance.  As many priorities
\* and intervals as there are channels are every case up to their names.  It
\* depends on no variable and is evaluated in the states of the first idle slot.
SelectsSameAttributesIfNoneEmptied ==
  now = 0 /\ phase = "idle" /\ toSched = {} =>
    LET n == Cardinality(Channel)
    IN  \A need \in (SUBSET Channel) \ {{}},
           prio \in [Channel -> 1 .. n], rri \in [Channel -> 0 .. n] :
          SelectsSameAttributes(need, prio, rri)
=============================================================================
