# A TLA+ verification of the ns-3 NR module with V2X and ProSe extensions

The repository simulates a 5G NR radio access network in ns-3: UEs and gNBs with their MAC, scheduler and PHY, NR V2X sidelink between UEs, and proximity services (ProSe: unicast direct links, discovery and UE-to-network relay) on top of the sidelink.
RLC, PDCP, RRC, the NAS and the EPC are in ns-3's LTE module and are not part of the repository.
This directory holds TLA+ models of the protocol logic, TLC runs that check them on small instances, and TLAPS proofs for every value of the constants.

Everything runs on one thread under the discrete-event simulator. What interleaves is not threads but events: messages and timers of different nodes, calls scheduled for the same instant, slots of different length and delay, answers that come back inside a call or after it.

## 1. Inventory

### Modelled components

**ProSe direct link** (`src/model/nr-sl-ue-prose-direct-link.cc`).
State: link state (INIT, ESTABLISHING, ESTABLISHED, RELEASING, RELEASED), role, timer T5080 and its retransmission counter, relay service code.
Operations: start as initiating or target instance, process Request, Accept and Reject, T5080 expiry.
Interacts with the ProSe layer by calls and callbacks (send message, state changed).
Hard: messages are lost and reordered; a Request may be repeated after it was answered.
Correct if: both sides agree; no handler meets a message in a state its author excluded; a wait is always covered by a timer; with few enough losses a link comes up.

**ProSe layer of the UE** (`nr-sl-ue-prose.cc`) and its **helper** (`helper/nr-sl-prose-helper.cc`).
State: the context of each direct link (instance, pending and active data bearer, relay role), the active signalling bearers, the relay services provided; for discovery, the maps of applications and relay services with their roles, the groups monitored, and one chain of periodic events per start.
Operations: add a connection, receive PC5-S and discovery messages, react to a link's new state (data bearer or relay path), bearer activation notice, add and remove discovery applications and relay services, send announcements, queries and answers.
Interacts with the NAS (bearers), the EPC (relay path) and the direct links.
Hard: the two ends are configured by separate events; the NAS may answer inside the call that asked; periodic events outlive their subject.
Correct if: the remote UE's traffic is diverted only to a relay that forwards it; whoever looks for a service finds it although messages are lost; a service that was removed is sent no longer.

**Sidelink scheduler of the UE** (`nr-sl-ue-mac-scheduler*.cc`).
State: destinations with their logical channels and buffer reports, `m_grantInfo`: the reservations with their slots, HARQ id and two counters.
Operations: buffer report, trigger (reselection check, prioritization, resource selection, grant creation, publication), channel configuration.
Correct if: a HARQ process serves one block at a time, no two transmissions share a slot, a reservation is published in time and in whole blocks, and a grant carries channels of equal attributes.

**Sidelink part of the UE MAC** (`nr-ue-mac.cc`) and its **HARQ entity** (`nr-sl-ue-mac-harq.cc`).
State: `m_slGrants`, the packet buffer of each sidelink HARQ process.
Operations: slot indication, grant reception, transmission, PSSCH reception.
Hard: the life of one block crosses three objects, with slots that pass in between.
Correct if: a block stays in its process until its last slot, and the process is then freed.

**Sensing and resource selection** (`nr-ue-mac.cc`).
State: the lists of sensed SCIs and of the UE's own transmissions.
Operations: ageing of both lists in each slot, reception of an SCI, `GetNrSlCandidateResourcesPrivate`: trimming, exclusion by history, projection of the sensed SCIs into the window, exclusion of the candidates they hit, relaxation of the threshold.
Hard: lists are erased from inside the loops over them; slots are compared as unsigned numbers; every SCI and the UE's own grant repeat with their own intervals.
Correct if: no candidate that a loud and fresh SCI reserves is offered, none is withheld without a reason, and nothing fresh is forgotten.

**Uplink part of the UE MAC** (`nr-ue-mac.cc`), **gNB MAC** (`nr-gnb-mac.cc`), **gNB scheduler** (`nr-mac-scheduler-ns3.cc`, `nr-mac-scheduler-ofdma.cc`, `nr-mac-scheduler-harq-rr.cc` and companions).
State: UE: queue sizes of the RLC, SR state, packet buffer of each HARQ process. gNB MAC: lists of scheduling requests, BSRs and HARQ feedback; downlink HARQ packet buffers per process and stream. Scheduler: uplink and downlink HARQ vectors with a timer per process, feedback still to be retransmitted, size of each logical channel group, CQI, allocations per slot.
Operations: buffer report, slot indication, DCI reception, reception of blocks, uplink and downlink trigger.
Interact by messages with fixed delays (SR, DCI, transport block, BSR, HARQ feedback) and, between gNB MAC and scheduler, by calls once per prepared slot.
Hard: the scheduler acts on what it believes is in the UE's buffer; retransmissions compete for a slot's symbols and, in the downlink, for beams; feedback races with the HARQ timer; the UE must keep exactly the block the gNB asks for again, and the gNB MAC exactly the packets of the streams that failed.
Correct if: no NACKed block is forgotten, feedback is for the block it is taken for, blocks of one slot do not overlap, a block is retransmitted until it is decoded or its versions are used up, and whatever is reported is sent in the end.

**UE and gNB PHY** (`nr-phy.cc`, `nr-gnb-phy.cc`, `nr-ue-phy.cc`) and the **channel access manager**.
State: at either end, the allocations of the slots ahead, the allocation of the current slot, the queue of control messages with a list for each slot of the L1-L2 latency, the messages encoded for the next control symbols; at the gNB the four tables generated from the TDD pattern; at the UE the feedback that waits for its slot.
Operations: start of a slot at the gNB (slot indications for the slots to prepare, MIB and SIB1, channel access, DCIs) and at the UE, DL CTRL, data, UL CTRL, end of the slot, random access preamble and response.
Hard: each side fills in a slot from another source, at another time; everything is an offset into a pattern; an idle slot stops the queue.
Correct if: both sides believe the same of every slot, HARQ feedback leaves in the slot its K1 promises, and no control message stays behind.

### Components not modelled

| Component | What it keeps and does | Why it is left out |
| --- | --- | --- |
| Spectrum PHY, HARQ PHY, interference | floating-point SINR and error models, the state of reception | only the outcome, ACK or NACK, matters to the MAC; it is arbitrary in `NrUplinkScheduling` and `NrDlHarq` |
| Bandwidth part managers | stateless routing of calls | no state to go wrong |
| Ideal RRC protocol | delays each message by a constant | the RRC itself is not in the repository |
| Uplink power control | closed and open loop, numeric | floating point |
| Frame timing (`sfnsf.cc`) | frame, subframe, slot arithmetic | the modules count slots; the arithmetic is a change of base |
| Sidelink resource pool factories | static map of TDD pattern and bitmap to slots | the pool class is in ns-3's LTE module; its slots are numbered consecutively |
| Error models, AMC, beamforming | tables and floating-point numbers | outside what TLA+ is good for; most of the repository's lines are these tables |
| Helpers, traces, examples, tests | set-up and statistics | no protocol state |

`PROJECT.json` lists the same components with their source files, and the hazards: each thing in this code that is hard to test, at its line, with the properties that cover it or the reason why none does.

## 2. Modules

| Module | Models | Extends |
| --- | --- | --- |
| `DirectLinkAgreement` | abstract: what link establishment promises | |
| `NrSlUeProse` | direct links, ProSe layer, relay path, lossy PC5 signalling | (instantiates `DirectLinkAgreement`) |
| `NrSlUeProseDiscovery` | discovery of applications and relays, both models | |
| `NrSlUeMacLcp` | logical channel prioritization, as operators | |
| `NrSlUeMacGrants` | sidelink scheduler × MAC × HARQ entity of one UE | `NrSlUeMacLcp` |
| `NrSlUeMacSensing` | sensing and resource selection of one UE | `Lists` |
| `StopAndWait` | abstract: what the HARQ processes of a link promise | |
| `NrUplinkScheduling` | UE MAC × gNB MAC × scheduler, uplink of one UE | (instantiates `StopAndWait`) |
| `NrDlHarq` | gNB MAC × OFDMA scheduler × UEs, downlink HARQ | (instantiates `StopAndWait`) |
| `NrPhySlots` | gNB PHY × UE PHY, slot by slot | |
| `Lists` | the loops over lists that the schedulers share: filtering, sums, places | |
| `ListProofs` | lemmas about `Lists`, recursion over an interval, induction over a set | `Lists` |
| `NrSlUeProseProofs` | theorems about `NrSlUeProse` | `NrSlUeProse` |
| `NrSlUeProseDiscoveryProofs` | theorems about `NrSlUeProseDiscovery` | `NrSlUeProseDiscovery`, `ListProofs` |
| `NrSlUeMacGrantsProofs` | theorems about `NrSlUeMacGrants` | `NrSlUeMacGrants` |
| `NrSlUeMacSensingProofs` | theorems about `NrSlUeMacSensing` | `NrSlUeMacSensing`, `ListProofs` |
| `NrUplinkSchedulingProofs` | theorems about `NrUplinkScheduling` | `NrUplinkScheduling`, `ListProofs` |
| `NrDlHarqProofs` | theorems about `NrDlHarq` | `NrDlHarq`, `ListProofs` |
| `NrPhySlotsProofs` | theorems about `NrPhySlots` | `NrPhySlots` |
| `MC...` | instances for TLC | the module named |

Operators whose comment starts with "Mutant" are not used by any action: each is a plausible mistake in the definition that follows it. With the mistake in place of the definition, a run of the module finds one of its properties violated; `PROJECT.json` says which.

### NrSlUeProse and DirectLinkAgreement

`link[<<u, p>>]` is the context and instance that UE `u` keeps for peer `p`. PC5-S messages run over RLC UM bearers, so `net` is a bag from which any message may be received or lost; duplicates arise from T5080's retransmissions.
`AddInitiatingConnection` and `AddTargetConnection` are the two calls the helper schedules for one instant (`due`); nothing else happens before both are done, because simulated time does not pass.
Each message handler is one action per outcome and includes the reaction of the ProSe layer: `SwitchToEstablished` is `SwitchToState` and the callback that configures the data bearer or the relay path. The NAS may answer `ActivateDirectLinkDataRadioBearer` inside the call or later; both orders are in `ActivateDataBearer`.
The relay service code is 32 bits wide and is serialized in three octets: `WireCode` is that truncation.
Branches that stop the simulation have no action; `FatalOnReceive` and `FatalOnExpiry` say when they would be taken.

`DirectLinkAgreement` knows neither messages nor timers: the target takes one verdict, the initiator learns that verdict, and diverts its traffic only to a target that forwards it. `NrSlUeProse` implements it; the mapping takes `verdict` from the state of the target's link, `outcome` from that of the initiator's, `forwarding` and `diverting` from the relay paths configured.

### NrSlUeProseDiscovery

`info[u]` is `m_discoveryMap` and `m_relayMap`, whose entries `insert` never overwrites (`Inserted`). `events` is a bag, because adding a service starts another chain of events even if one is pending; `Fire` looks up the entry the map holds at that time, as `SendDiscovery` does, and schedules its successor. A message to a group is one copy for each other UE; each is received, ignored or lost. A query is answered to the UE that asked (`Answer`); an event of a former role that finds the entry of a discoveree sends a response to the whole group.

### NrSlUeMacLcp and NrSlUeMacGrants

`NrSlUeMacLcp` follows the two loops that filter the priorities of a destination, including what erasing an entry does to the iterator of the loop: the next priority is skipped, and past the last one the standard library's tree either ends the loop or starts again, so the result is a set of outcomes.

`NrSlUeMacGrants` splits `DoSlotIndication` at the points where the objects hand over: `Trigger` (reselection check), `Allocate` (one destination at a time) and `AllocationEnds`, `Publish` (scheduler publishes, MAC assigns HARQ processes and pulls blocks from the RLC), `Transmit`. `phase` holds the place. The channel data is a number of units, the burst in a HARQ process the set of channels in it. Sensing is an arbitrary subset of the selection window; the draw of resources and of the reselection counter is arbitrary too.
Where the scheduler reads the first element of an empty slot set (the search for a reservation to update), either result of the comparison is possible (`Exhausted`).
In a state where an assertion of the code fails (`PublishFails`), there is no further step.

### NrSlUeMacSensing

The two lists are sequences, oldest first, aged in `SlotIndication` as the loops do it: an outdated entry is erased, which moves the iterator, and the loop moves it again, so every second one survives (`KeptRanks`). Before slot T0 the unsigned difference wraps and everything is outdated (`IsOutdated`).
Asking for resources changes nothing and is an operator, `CandidateResources`: it trims the lists (`TrimmedData`), leaves out the slots the UE could not hear (`AfterHistory`, undone as a whole when too little is left), projects the SCIs (`NumPeriods`, `FutSlotsBasedOnSens`), erases what they hit (`EraseFor`, with the iterator that already stands on the next candidate; `SiftNext` is one turn of the loop over the candidates) and repeats with a higher threshold. When all SCIs are too recent the code dereferences the reverse end of the list: `TrimIsUndefined`.

### StopAndWait

A HARQ process is free, or its block was sent, or answered. The answer names the parts of the block that were not decoded; those, and nothing else, are sent again in the next redundancy version, and the process takes another block only when nothing is left of the old one or its last version was answered. There are no lists, timers, slots or resources. Every process may take such a step in the same slot.
Uplink and downlink implement it, and neither has these states in one place: the mapping reads them from the process of the scheduler, what is in flight, and the lists of feedback received and buffered (`PlaceOf`). In the uplink a block has one part, and a process is `sent` from its DCI to the arrival of its block. In the downlink the parts are the streams; those being sent must have one version (`Version`), although the code counts versions for each stream.

### NrUplinkScheduling

A slot is four steps: the UE's slot indication (SR), the DCIs it receives, the blocks the gNB receives, and the scheduler. `pos` is the position in the TDD pattern, `UlSymbols[pos]` and `K2[pos]` say whether an uplink slot is prepared there, with how many symbols and for when. What is under way carries the number of slots left.
`ScheduleUl` is `DoSchedUlTriggerReq` with `DoScheduleUl`: timers, merged feedback, retransmissions in order as long as symbols are left, scheduling requests, the last BSR, and at most one new block. `NoUplink` is a slot in which the gNB MAC only collects.
Amounts of data are counted in units of what a scheduling request is given; a BSR rounds up to a multiple of `BsrStep`; the size of a grant is arbitrary, since the metric and the transport block size are.

### NrDlHarq

`DoSlotDlIndication` is one slot of the gNB MAC and the scheduler: `ResetExpiredHARQ`, `MergeHARQ` of buffered and new feedback, `ProcessHARQFeedbacks`, `ScheduleDlHarq` beam by beam, `DoScheduleDlData` in what is left, and the execution of the DCIs with the packets of `burst`, the MAC's buffer of each process and stream. `DoDlHarqFeedback` is the UE's answer, which the MAC collects; acknowledged streams have their buffers emptied. A block lies in a plane of symbols and RBGs; a retransmission keeps its area, divided anew by the symbols of its beam.
`Visited` keeps the order of the code: the process is set to wait before it is known whether its block fits, and what does not fit is buffered with its timer at 0.
The lists of a beam are sorted by a comparison that does not separate equal timers, so `SortDlHarq` is the set of all lists sorted that way, and `ComputeActiveHarq` a set too.

### NrPhySlots

A slot is the start at the gNB (`GnbStartSlot`), the start at the UE, DL CTRL, data, and UL CTRL with the end of the slot. The tables that `GenerateStructuresFromPattern` builds are operators: `HarqSlot` (K1), `DciSlot` (K0, K2), `ToSendDl`, `ToSendUl`, `GenerateDl`, `GenerateUl`. `GnbStartSlot` calls the MAC for each slot that must be prepared (the scheduler may leave its data out: `idle`), queues RAR, MIB and SIB1, decides with the channel access manager whether the slot starts (`Starts`), and if so takes the queue and encodes the DCIs (`Pops`). A slot that does not start leaves the queue where it is. At the UE a DCI of this slot changes the current slot, others a later one; `DlData` schedules the feedback.

## 3. Runs

| Run | Instance | Shows |
| --- | --- | --- |
| `prose` | 3 UEs, two connect to the third; plain, relay and truncated codes; 1 retransmission, 1 loss | no fatal branch, both sides agree, the procedure implements `DirectLinkAgreement`, T5080 covers every wait, the relay path; an acceptable link comes up |
| `grants` | an SPS and a dynamic channel, 2 HARQ ids, window of 3 slots, 2 transmissions, 8 slots | HARQ processes follow grants; a published grant reaches its last slot (`GrantsStayOnSchedule`); publication in time; whole blocks only (`ReservationsHoldWholeBlocks`) |
| `grants_shared` | two SPS channels of one destination and a dynamic one of another; reservations that run out | one transmission per slot, one grant per channel; prioritization of every assignment of priorities and intervals (`SelectsSameAttributesIfNoneEmptied`) |
| `grants_stale` (violation) | as `grants` | a reservation kept after an idle period has its next slot in the past |
| `uplink` | 3 HARQ processes, pattern of 4 slots of which 2 are uplink, 3 reports, 3 corrupted blocks, 3 symbols for blocks of 2 | the timer never interferes and the right block is repeated (`InFlightIsCurrent`), no NACK is lost, data is sent, each process is stop-and-wait (`ImplementsStopAndWait`) |
| `uplink_nack` (violation) | the same with slots that one block fills | NACKs behind the one that fills the slot are dropped |
| `sensing` | 8 slots, window of 3, sensing window of 3, 2 subchannels, SCIs of two UEs | no conflicting candidate; slots the UE could not hear are avoided (`DeafSlotsAvoided`); the lists forget neither too early (`FreshEntriesKept`) nor much too late (`OutdatedEntriesLeaveSoon`) |
| `sensing_exclusion` (violation) | window of 4 | a candidate is withheld with which nothing conflicts (`ExcludesOnlyConflicting`) |
| `dl_harq` | 3 UEs in 2 beams, 2 processes each, 2 streams, pattern of a full, a short and an uplink slot | packets and feedback are of the current block (`InFlightIsCurrent`), no NACK is lost, blocks of a slot do not overlap (`BlocksAreDisjoint`); retransmissions of one beam all get their turn; each process is stop-and-wait for the streams that failed |
| `dl_harq_starvation` (violation) | 2 UEs in 2 beams, 1 stream | two blocks that need more than half a slot are buffered for ever |
| `discovery` | 2 UEs, an application and two relay services, any role, a change of role, 1 loss | extra events come from restarts only (`OneChainPerStart`), answers are solicited (`ResponsesAreSolicited`), services are found, removed ones fall silent |
| `phy` | 11 patterns × N1 and N2 out of 0, 1, 2, 4; 12 slots, 2 idle allocations, 1 preamble | both sides agree on every slot, feedback on time, no control message left over |

### Bounds

- `prose`: `CodeModulus = 4` stands for 2^24: codes 4 and 5 arrive as 0 and 1, which are the two cases that differ (another service, a plain link). One retransmission is enough for an answer to be overtaken by a repeated Request and its answer. As many messages are lost as there are retransmissions, the most the code survives.
- `grants*`: eight slots are two intervals of four: a reservation is published, spent and kept, and its process reused. `ReselFactor` is 10 as in the code, and 1 in `grants_shared` and only there, so that reservations run out of slots. Two HARQ ids make channels compete. The prioritization is evaluated for three channels, priorities and intervals: the skipped entry is the neighbour of an emptied one, so three contain every pattern of skip and visit.
- `uplink`: two uplink slots whose feedback reaches the same call of the scheduler are needed for two NACKs to meet; three symbols for blocks of two make the second wait without filling the slot. `MaxCorrupted = MaxRv = 3`, so a block can use all its versions and succeed in the last. Three processes are as many as can be under way.
- `sensing`: eight slots are more than two sensing windows and one interval; four SCIs are more than the parity of the ageing loop needs; one SCI names a retransmission, one repeats within the window. `C_resel` 10 stands for the 50 and more of the code: no SCI is projected as far as ten intervals.
- `dl_harq`: two UEs in one beam and one in the other make retransmissions compete within and between beams. The feedback of both downlink slots arrives in the uplink slot; with `DlTimerAssumption` the timer does not expire before it. The short slot makes the areas of retransmissions be divided anew.
- `discovery`: an interval of two ticks, messages that arrive within a tick, as the code's messages do within an interval; two starts at one UE are a restart or a change of role; one message may be lost.
- `phy`: patterns of one to five slots with flexible and special slots before, after and between the others; the delays cover less than, as much as and more than a pattern; 12 slots are more than two of the longest patterns. The MIB period is 5, so it meets every position of a pattern of another length. Theorems hold for the rest.

`CHECK_DEADLOCK FALSE` is set where the system may stop: ProSe scenarios end, the sidelink grants, sensing and the PHY end at `MaxSlot`. The uplink, downlink and discovery runs check for deadlock: slots and ticks go by for ever, so a stop would be an assertion of the code or a call that nothing answers.

### Fairness

- ProSe (`FairSpec`): a scheduled call, the NAS's answer and T5080's expiry are events in the simulator's queue and are executed; a message that is not lost is delivered, since the number of losses is bounded. Weak fairness of each. The RLC and the application owe nothing.
- Uplink (`FairSpec`): slots go by, weak fairness of the steps of a slot. The RLC need not report.
- Downlink (`FairSpec`): the UE answers each block it was sent, and slots follow each other. Which blocks are decoded is arbitrary, so a block may be NACKed until its last version.
- Discovery (`FairSpec`): events are executed, messages arrive or were lost, time passes; nobody has to start or remove a service.

### Liveness

`EstablishedDespiteLoss` holds as long as no more messages are lost than T5080 retransmits. `DataIsSent` holds as long as no block exhausts its retransmissions: with one corrupted block more, the block and the BSR in it are gone, the UE is in SR state ACTIVE and sends no further scheduling request. The bound `MaxCorrupted <= MaxRv` is therefore part of the property's statement.
`BlocksFinishUnlessBeamsCompete` is what remains of "each block is retransmitted until it is decoded or given up" when the blocks of two beams never wait at the same time. `ServicesAreDiscovered` needs both UEs to stay as they are.

## 4. Findings

Each is a disagreement between the code and a comment, a document or an assertion in it, with a run whose counterexample shows it.

1. `grants_stale`: a reservation kept after an idle period fails the assertion "Stale slot in m_grantInfo".
2. `uplink_nack`: `ScheduleUlHarq` leaves its loop when no symbol is left and forgets the NACKs it has not looked at, although they should be buffered for the next slot. They are not repeated, and their processes stay blocked until the HARQ timer frees them.
3. `sensing_exclusion`: erasing a candidate leaves only the innermost of three loops; the next slot of the own grant is compared using the candidate that follows, which is erased too. The comments say that the evaluation of the erased candidate stops.
4. `dl_harq_starvation`: `ScheduleDlHarq` divides the symbols of the slot by the number of beams with NACKs before it knows whether any block fits, and resets the timer of what does not: two blocks of different beams that each need more than half a slot are never sent again, nor given up.

Beside each violated property, a passing run checks what does hold: `NoStaleSlotUnlessKept`, `NackIsKept` when no slot is filled exactly, `NoConflictingCandidate`, `BlocksFinishUnlessBeamsCompete`.

Seen while modelling, and part of the models, but without a run of their own:

- After its last retransmission T5080's expiry only writes a log line, although the comment says it releases the link (`nr-sl-ue-prose-direct-link.cc:426`, `:776`): the initiating UE waits for ever.
- The check of the selection window (`nr-ue-mac.cc:1481`) admits windows as long as the interval, with which a block is published while the previous one is in flight (`:2219`). It compares whole milliseconds (`:1479`), so above numerology 0 it admits windows that are longer by less than a millisecond, too; `WindowAssumption` is the check without the rounding and excludes these.
- Only the first period of a new reservation is checked against the slots already taken (`nr-sl-ue-mac-scheduler-default.cc:1058`, `:1211`): reservations of different intervals meet.
- Erasing a priority moves the iterator twice and skips the next one (`nr-sl-ue-mac-scheduler-default.cc:613`, against the comment at `:586`).
- A reservation whose slots are used up is replaced by one that may take the HARQ id of a block in flight.
- A downlink retransmission takes consecutive RBGs, notched ones too (`nr-mac-scheduler-harq-rr.cc:198`, against `nr-module.rst:1421`).
- Starting a discovery service twice doubles its events; a change of role while an event is pending sends an answer nobody asked for.
- `N0Delay` has no effect: `SetTddPattern` passes 0 (`nr-gnb-phy.cc:464`, against `nr-module.rst:1308`).
- With N1 = 0 a flexible slot promises feedback in itself (K1 = 0), but its messages have been taken: the feedback leaves with the next UL CTRL (`nr-ue-phy.cc:1236`).
- A slot that is not started leaves the control queue where it is (`nr-gnb-phy.cc:794`). A RAR held back so may be taken by an uplink slot with data, which has no DL CTRL to send it in; the assertion at `nr-gnb-phy.cc:949` that no message is left then fails in the next slot that starts, although the channel is always granted. `NoCtrlLeftOverUnlessDelayed` excludes this case and no other.
- A MIB or SIB1 adds a DL CTRL to an uplink slot, of which the UE knows nothing. `SlotsAgree` names the exception.

## 5. Proofs

The theorems hold for every value of the constants that satisfies the named assumptions (`ProseAssumption`, `DiscoveryAssumption`, `LcpAssumption`, `GrantAssumption`, `SensingAssumption`, `WindowAssumption`, `UplinkAssumption`, `DlHarqAssumption`, `DlTimerAssumption`, `PatternAssumption`, `SlotAssumption`), which TLC evaluates in every run of the module.

**ProSe** (`NrSlUeProseProofs`). The inductive invariant `ProseInv` is `TypeOK` with:
- `LinkShape`: where an initiating and a target instance can be; the timer runs only at an initiating UE that waits;
- `DueShape`: a target that is missing is added in the same instant;
- `MessageShape`: an Accept or Reject in flight was sent by a target that is ESTABLISHED or RELEASED, and a Request by an initiating UE;
- `InitiatorFollowsTarget` and `TimerCoversWait` themselves.

Agreement alone is not inductive: an Accept in flight from a target that has not decided would break it, which `MessageShape` excludes. `LinkStep` carries most of the proof: a step that changes one link without reopening a decision keeps the invariant if that link and the messages it adds conform. Theorems: `ProseTypeOK`, `ProseNoFatalError`, `ProseInitiatorFollowsTarget`, `ProseTimerCoversWait`, and the action property `ProseDecisionIsFinal`.

**ProSe path and refinement** (the second half of `NrSlUeProseProofs`). `PathInv` adds to `ProseInv` that both ends keep the same code (`CodesAgree`) and what data path a link has by its state, code and side (`PathOf`). It assumes `SameCodes`: the helper passes one code to both ends. Theorems: `ProseRemotePathHasRelay`; `ProseImplementsAgreement`: each step of the lossy, retransmitting procedure is a step of `DirectLinkAgreement` or leaves its variables; and, from a count of messages against Requests sent (`CountInv`) without that assumption, `ProseAnswersBounded`. What `DirectLinkAgreement` says of verdicts and paths in the terms of the code is `InitiatorFollowsTarget` and `RemotePathHasRelay`; the run checks them through the refinement, and they are theorems of their own, as is `DecisionIsFinal`.

**Grants.** `GrantInv` (`NrSlUeMacGrantsProofs`) is `TypeOK` with:
- `CountersFit`: `cResel = i * prevResel + resel` for some `i`. Publishing decrements both counters, keeping a spent reservation restarts one of them; without this the invariant does not exclude that `cResel` passes 0;
- `HarqInv`: each published grant has its process to itself (`ProcessOfGrant`), a busy process has a grant (`GrantOfProcess`), the ids collected at the trigger are still free during allocation (`CollectedIdsAvailable`), and no reservation shares an id (`HarqIdsReservedOnce`).

Theorems: `GrantsTypeOK`, `GrantsHarqFollowsGrants`, `GrantsHarqIdsReservedOnce`. They need no bound on time or on the number of channels, and not the assumption on the window.
Later parts of the module extend this invariant, each by what its property needs:
- channels: the channels the trigger wants scheduled have no grant with slots left (`ScheduledHaveNoGrant`), so `GrantsOneGrantPerChannel`;
- schedule: a reservation is a block of slots repeated at its interval (`NextBlock`). With a window no longer than the interval (`WindowAssumption`) repetitions do not overlap, and the front of the ordered slot set up to the next new-data slot is one block; a bijection between blocks and repetitions gives the cardinality. Theorems: `GrantsKeepSchedule`, `GrantsHoldWholeBlocks`;
- publication: a reservation that has never been kept has its next slot T1 or more ahead (`NextSlotAhead`), and a kept one is recognized by its counters (`CountersStartFull`). Theorem: `GrantsNoStaleSlotUnlessKept`, which makes the finding of `grants_stale` the only exception;
- blocks in flight: what is left of a published block ends more than T1 before the next block of its reservation (`BlocksFollow`), so its HARQ process is free when that block is published. `GrantsHarqFreeWhenPublished` has two hypotheses that the code does not enforce, and the abort on a busy process depends on both: the window ends before the interval (`ShortWindow`; the code's own check admits a window as long as the interval, whose last transmission may then follow the next publication), and no reservation runs out of slots (`NoneExhausted`; an exhausted one loses its HARQ id to a new reservation while its last block is in flight). `GrantsHarqFreeUnlessKept` derives the second from `KeepsNone`, the default probability of 0 to keep a reservation, with the code's factor of 10 (any above 1): it is then given up after one run of the counter and its slots last for several (`RunsToSpare`);
- slots: the scheduler compares the first block of a new reservation with the slots already taken, and not the repetitions of either. With one interval for all periodic channels (`EqualIntervals`) that is enough, and `SlotInv` says why: the next block of a reservation is within the window or an interval after one that is past or in flight (`Recent`), so two reservations that meet anywhere meet where the scheduler looks (`NewSlotsMissReservation`). Theorem: `GrantsOneTransmissionPerSlot`. With intervals of different lengths the property fails;
- prioritization: the loops of `NrSlUeMacLcp` skip an entry only behind one they emptied. So as long as none is emptied, the outcomes of a filter are a single one (`RepeatedOutcomes` is characterized as a least fixpoint, so no induction over its recursion is needed), and what is left are the channels of the scheduling type and interval of the reference channel. `LcpSelectsSameAttributes` says so of any channels, priorities and intervals, `GrantsSelectSameAttributes` of every reachable state.

The instances of the runs satisfy these hypotheses: in `grants` and `grants_shared` the window ends at 3 and intervals are 4, and no reservation of `grants` is exhausted within its 8 slots.

**PHY** (`NrPhySlotsProofs`). Every TDD pattern with a downlink and an uplink slot, or a flexible one, has within its length a slot for feedback (`HarqSlotFacts`) and one for a DCI (`DciSlotFacts`); both rest on the remainder being unique (`ModUnique`). `PhyInv` says that a downlink DCI is used in the slot that encodes it, so the K1 the UE keeps is that of the block it decodes (`DciInv`), which control symbols the UE expects (`UeSlotInv`), and that feedback waiting anywhere has its slot ahead (`FeedbackInv`). Theorem: `PhyFeedbackOnTime`, in which the one exception, N1 = 0 in a flexible slot, is written into the slot that is promised (`AnswerSlot`).
Its second half adds `AgreeInv`. `Sent(t)` is the one slot that carries the DCI of uplink slot `t`, and the MAC prepares `t` two slots before it; so it is known what the gNB holds for each slot ahead (`GnbContent`), which of it the UE has heard (`UeContent`), and in the queue each RAR is for a slot with a DL CTRL (`CtrlInv`). The lemma that makes this inductive is `NothingMissed`: a slot that carries a DCI has been prepared and has a DL CTRL. Theorems: `PhySlotsAgree`, `PhyNoCtrlLeftOver`, `PhyTypeOK`. None needs a bound on the length of the pattern, the delays or the time: `MaxLength`, `MaxDelay` and `MaxSlot` are any numbers.

**Lists** (`ListProofs`). The schedulers walk through lists. Induction over the members of a set of numbers (`InductionUpTo`), and the existence of the function a recursion over an interval defines (`FiniteRecursion`, `GuardedRecursion`), are lemmas; with them `Filter` is shown to keep exactly the chosen elements, in order (`FilterFacts`, `FilterElements`, `FilterDistinct`), and the intervals that partial sums delimit to be disjoint and within the total (`PartialSumsApart`).

**Uplink** (`NrUplinkSchedulingProofs`). `UplinkInv` is `TypeOK` with:
- `OneThing`: for a HARQ process at most one of its DCI, its block, its feedback and an entry of `m_ulHarqToRetransmit` exists;
- `InTime`: the timer of the process plus the time the DCI or the block still needs is less than the number of processes, so `ResetExpiredHARQ` never frees a process whose block is under way;
- `Current`: what is under way has the version of the process and the data of the UE's buffer.

Neither `Current` nor `OneThing` is inductive without `InTime`: a process freed early would be given to another block. `UplinkTypeOK` and `UplinkInFlightIsCurrent` need nothing else.
`UplinkNackIsKept` has the hypothesis `NeverFilled`: no mix of block sizes retransmitted in a slot uses up its symbols. It excludes exactly what the run `uplink_nack` shows, and the instance of the run `uplink` satisfies it (blocks of two symbols in slots of three). `SymbolsAreLeft` derives that the loop reaches every process.
`UplinkImplementsStopAndWait` has the same hypothesis, since a NACK that is dropped leaves its process busy until the timer erases it, which is no step of `StopAndWait`. Its proof adds `Fresh` to what `UplinkNackIsKept` needs: a free process is erased, so a new block starts at version 0, and the timer of a buffered NACK is 0. With `InTime` it follows that `ResetExpired` never frees a process at all (`NoneExpires`).
Each step of a slot is then compared with the steps of `StopAndWait` process by process (`ReceiveBlocksState`, `ProcessUlDciState`, `ScheduleUlState`).

**Downlink HARQ** (`NrDlHarqProofs`). `DlInv` is `TypeOK` with:
- `OneThing` and `Kept`: an active process has exactly one block in flight, feedback received or feedback buffered, and what exists is of an active process;
- `Sized`: the RBGs and symbols of a process are those of a block that fits a slot, so that dividing its area anew stays within the bandwidth;
- `InTime`: as in the uplink;
- `Current`: block and process are of one version and the MAC's burst still has the packets of each stream that failed. It says this of buffered and received feedback as well, which `InFlightIsCurrent` does not: a buffered NACK becomes a block in flight later;
- `BlocksAreDisjoint` itself.

One slot is a chain of loops, and the proof follows it: `MergeHARQ`, `ProcessHARQFeedbacks`, each beam of `ScheduleDlHarq` as an invariant of the fold over the list of retransmissions (a process already visited is sent or buffered, blocks placed so far lie before the starting point), then the new blocks, whose rectangles are delimited by partial sums of symbols and RBGs. No order of the retransmissions is assumed. Theorems: `DlHarqTypeOK`, `DlHarqInFlightIsCurrent`, `DlHarqNackIsKept`, `DlHarqBlocksAreDisjoint`, and `DlHarqTimersHold`: the timer of an active process never reaches the number of processes. The finding of `dl_harq_starvation` shows the other side of the latter: what is buffered has its timer restarted in every slot, so a block that never fits is never given up.
`DlHarqImplementsStopAndWait` needs no hypothesis. It adds `Uniform` to the invariant: the streams a process sends have one version and the others version 0, a free process is erased, and feedback NACKs only what was sent. `IndicationCases` says what a slot, with all its loops, can do to one process: free it (`Freed`), give it a new block (`Begun`), leave it waiting for its block (`StillSent`), repeat its block (`Repeated`), or keep its NACK (`StillAsked`). For this the invariant of the loops over the beams records that a block sent is a repetition of a NACK (`Resent`) and that a buffered one leaves streams and versions alone (`Rests`).

**Discovery** (`NrSlUeProseDiscoveryProofs`). Events and messages are bags; `BagAdd` and `BagRemove` say what a step does to them. `DiscoveryInv` adds to `TypeOK` and `ResponsesAreSolicited`: every event and entry goes back to a start (`StartsAreCounted`), and an answering entry with events pending to two of them (`AnsweringEventsAreLeftOver`), since the start of an answering role schedules nothing. For `OneChainPerStart` the sum of a function over a finite set is shown to exist (`SumDef`), to be independent of the order (`SumSplit`) and of the names of the members (`SumRenamed`, for `Tick`, which renames every event). Theorems: `DiscoveryTypeOK`, `DiscoveryResponsesAreSolicited`, `DiscoveryOneChainPerStart`.

**Sensing** (`NrSlUeMacSensingProofs`). `SensingInv` is `TypeOK` in the form of typed lists, with:
- `Ordered`: SCIs are kept in the order they came in;
- `AgesInv`: while at most seven are kept, an SCI one slot past the window is among the first three, one two slots past it is the first, and none is older.

`OutdatedEntriesLeaveSoon` alone is not inductive: the loop skips every second outdated entry, and nothing but its place in the list says that it is erased the next time. `SurvivingRanksDef` gives the recursion for a list in which everything is outdated, where the iterator runs round; `KeptFacts` says that what survives of the outdated front is at even ranks and everything behind it stays. The latter is all that `FreshEntriesKept` needs.
The selection is a chain of loops. `EraseForFacts` and `EraseAtFacts` say that a turn of the loop either shortens the list behind the position or stands on a candidate that no SCI above the threshold hits; so a pass ends with only such candidates (`SiftFacts`), even though a turn may erase more than it should. `ReservesAreProjected` shows that the number of periods projected covers what an SCI reserves in the window, for any interval and window. For the slots the UE was deaf in, `DeafIsExcluded` turns the remainder the code computes into the multiples of an interval, and `DeafAvoided` compares the number of different candidates with the length of the list. Theorems: `SensingTypeOK`, `SensingOutdatedEntriesLeaveSoon`, `SensingFreshEntriesKept`, `SensingNoConflictingCandidate`, `SensingDeafSlotsAvoided`; none needs a bound on time, on the window or on what SCIs say. That nothing is withheld without a reason is the one property of the selection the code does not have (`sensing_exclusion`).

**Only model-checked.**
- Liveness (`EstablishedDespiteLoss`, `DataIsSent`, `BlocksFinishUnlessBeamsCompete`, `ServicesAreDiscovered`, `RemovedServicesFallSilent`): the prover does not handle fairness. Every safety and action property of the passing runs has a theorem.

## 6. What the models leave out

- ProSe: the release procedure (the code has none), the security procedure, the contents of messages other than codes and roles.
- Sidelink: transport block sizes, the range from which the reselection counter is drawn, HARQ feedback (the code has blind retransmissions only), the reception side beyond SCIs. `NrSlUeMacGrants` takes an arbitrary result of sensing: composed with `NrSlUeMacSensing` it would show no more, since no property of the grants depends on which slots are offered. Received power is one of a few values. A grant is of one type, the one the code looks up for each of its channels (`Reselect`); a grant of channels of both types does not arise in the instances.
- Uplink: random access and the time before the UE has an RNTI, status PDUs and RLC retransmissions as separate queues, several logical channels, UEs and beams, SRS symbols, a DCI that is not created because the block would be too small, patterns in which one slot prepares two uplink slots. The scheduler runs at the end of a slot instead of its start, so `DciDelay` is one more than the latency in the code; this moves the base of time and no property depends on it.
- Downlink: TDMA, notched RBGs, CQI and the metrics that order UEs, RLC PDU subheaders, several bandwidth parts. What a UE is given is arbitrary. A new block takes the free process with the smallest id, where the code takes the first of an unordered map; the processes differ in nothing but their ids.
- PHY: FDD carriers, SRS, CQI and measurements, the symbols within a slot, sidelink slots, channel access managers other than the one that always grants, set-up calls. Amounts of data are present or not.
- Memory errors have their outcomes modelled where the standard library's behaviour is known (`TypeFilterOutcomes`, `Exhausted`), are left out of the properties where it is undefined (`TrimIsUndefined`), and are otherwise hazards without a property.

## 7. Not modelled

The components listed in the second table of section 1. Nearly half of the repository's lines are examples, helpers, tests and generated documentation, and a quarter of the rest are the tables of the error models (`nr-eesm-*.cc`): there is no state in them to go wrong. Most of what is not covered of the remainder is floating-point computation, serialization, tracing and attribute set-up.
Of the control logic, what is left is random access of the UE MAC, SRS scheduling, TDMA, CQI reporting and the reception path of the sidelink.
