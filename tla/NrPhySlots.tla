------------------------------- MODULE NrPhySlots -------------------------------
(***************************************************************************)
(* The slots of a TDD carrier at the gNB (src/model/nr-gnb-phy.cc) and at  *)
(* a UE (src/model/nr-ue-phy.cc): which slot the gNB's MAC prepares when,  *)
(* in which slot the DCIs travel, what each side believes a slot to hold,  *)
(* when the UE answers a downlink block, and the queues of control         *)
(* messages (src/model/nr-phy.cc).                                         *)
(*                                                                         *)
(* A slot is a DL CTRL, downlink data, uplink data and an UL CTRL, each    *)
(* present or not.  The gNB and the UE begin a slot at the same time and   *)
(* independently: the order taken here does not matter.  The channel       *)
(* access manager is the one of the repository, which is always on.  The   *)
(* MAC fills what it may, except for some slots, with data of this UE;     *)
(* SRS, the symbols within a slot and the routing among bandwidth parts    *)
(* are left out.  A failed NS_ASSERT does not stop the model: an optimized *)
(* build goes on.                                                          *)
(***************************************************************************)
EXTENDS Integers, Sequences, FiniteSetsExt

CONSTANTS
  Patterns,     \* the TDD patterns to start from: sequences of slot types
  N1Delays,     \* the values of N1Delay to start from
  N2Delays,     \* the values of N2Delay to start from
  HalfFrame,    \* slots from one MIB or SIB1 to the next: 5 * 2^numerology
  MaxPreambles, \* bound on the random access preambles
  MaxIdle,      \* bound on the slots the scheduler leaves without data
  MaxDelay,     \* bound on N1 and N2
  MaxLength,    \* bound on the length of a pattern
  MaxSlot       \* bound on time

\* LteNrTddSlotType.
DL == 0
S == 1
F == 2
UL == 3

L1L2CtrlLatency == 2
N0 == 0  \* SetTddPattern passes 0, whatever N0Delay says

\* IsTdd: other patterns are those of one band of an FDD carrier.
ASSUME PatternAssumption ==
  \A p \in Patterns :
    /\ p \in Seq(DL .. UL) /\ Len(p) <= MaxLength
    /\ LET types == {p[i] : i \in DOMAIN p}
       IN  F \in types \/ {DL, UL} \subseteq types

ASSUME SlotAssumption ==
  /\ MaxDelay \in Nat /\ MaxLength \in Nat
  /\ N1Delays \subseteq 0 .. MaxDelay /\ N2Delays \subseteq 0 .. MaxDelay
  /\ HalfFrame \in Nat \ {0}
  /\ MaxPreambles \in Nat /\ MaxIdle \in Nat /\ MaxSlot \in Nat

VARIABLES
  tdd, n1, n2,   \* m_tddPattern, m_n1Delay, m_n2Delay, which do not change
  now, phase,    \* the current slot and the place in it
  slotAllocInfo, \* m_slotAllocInfo of the gNB: what each slot will hold
  currSlot,      \* m_currSlotAllocInfo of the gNB
  granted,       \* is m_channelStatus of the gNB GRANTED?
  ctrlQueue,     \* m_controlMessageQueue of the gNB
  ctrlMsgs,      \* m_ctrlMsgs of the gNB: encoded, for the next DL CTRL
  rachList,      \* preambles the gNB's MAC has received and not answered
  ueAllocInfo, ueCurrSlot, ueCtrlQueue, ueCtrlMsgs,  \* the same at the UE
  k1,            \* m_harqIdToK1Map, for the block of the current slot
  feedback,      \* downlink blocks whose feedback waits for its slot
  preambles, idled  \* bounds: preambles sent, slots left without data

config == <<tdd, n1, n2>>
gnb == <<slotAllocInfo, currSlot, granted, ctrlQueue, ctrlMsgs, rachList>>
ue == <<ueAllocInfo, ueCurrSlot, ueCtrlQueue, ueCtrlMsgs, k1, feedback>>
vars == <<config, now, phase, gnb, ue, preambles, idled>>

Data == {"DlData", "UlData"}
Ctrl == {"DlCtrl", "UlCtrl"}
Phases == {"gnb", "ue", "dlCtrl", "data", "ulCtrl"}

Type(s) == tdd[(s % Len(tdd)) + 1]
Slots == 0 .. MaxSlot + L1L2CtrlLatency + MaxDelay + MaxLength

\* Control messages; what is not in a queue under test has no number.
Message == [type : {"DlDci"}, k1 : Nat] \cup [type : {"UlDci"}, slot : Nat]
             \cup [type : {"Mib"}] \cup [type : {"Rar"}, made : Nat]
UeMessage == [type : {"Preamble"}] \cup [type : {"DlHarq"}, slot : Nat]

EmptyQueue == [i \in 1 .. L1L2CtrlLatency + 1 |-> {}]

TypeOK ==
  /\ tdd \in Patterns /\ n1 \in N1Delays /\ n2 \in N2Delays
  /\ now \in Nat /\ phase \in Phases
  /\ slotAllocInfo \in [Slots -> SUBSET (Data \cup Ctrl)]
  /\ ueAllocInfo \in [Slots -> SUBSET Data]
  /\ currSlot \subseteq Data \cup Ctrl /\ ueCurrSlot \subseteq Data \cup Ctrl
  /\ granted \in BOOLEAN
  /\ DOMAIN ctrlQueue = DOMAIN EmptyQueue
  /\ DOMAIN ueCtrlQueue = DOMAIN EmptyQueue
  /\ \A i \in DOMAIN EmptyQueue :
       ctrlQueue[i] \subseteq Message /\ ueCtrlQueue[i] \subseteq UeMessage
  /\ ctrlMsgs \subseteq Message /\ ueCtrlMsgs \subseteq UeMessage
  /\ rachList \in Nat /\ k1 \in Nat
  /\ feedback \subseteq [slot : Nat, at : Nat]

Init ==
  /\ tdd \in Patterns /\ n1 \in N1Delays /\ n2 \in N2Delays
  /\ now = 0 /\ phase = "gnb"
  /\ slotAllocInfo = [s \in Slots |-> {}] /\ ueAllocInfo = [s \in Slots |-> {}]
  /\ currSlot = {} /\ ueCurrSlot = {}
  /\ granted = FALSE
  /\ ctrlQueue = EmptyQueue /\ ueCtrlQueue = EmptyQueue
  /\ ctrlMsgs = {} /\ ueCtrlMsgs = {}
  /\ rachList = 0 /\ k1 = 0 /\ feedback = {}
  /\ preambles = 0 /\ idled = 0

-----------------------------------------------------------------------------
\* The structures generated from the pattern.

\* Mutant: feedback is put into the UL CTRL of a special slot.
HarqSlotFromSpecial(s) ==
  Min({k \in n1 .. n1 + Len(tdd) - 1 : Type(s + k) > DL})

\* ReturnHarqSlot, K1: the uplink or flexible slot at least N1 later.
HarqSlot(s) == Min({k \in n1 .. n1 + Len(tdd) - 1 : Type(s + k) >= F})

\* Mutant: the DCI of an uplink slot may be due in an uplink slot.
DciSlotAnywhere(s, n) == n

\* ReturnDciSlot, K0 or K2: how long before slot s, n or more, a slot that
\* is not an uplink slot carries its DCI.
DciSlot(s, n) == Min({k \in n .. n + Len(tdd) - 1 : Type(s - k) <= F})

\* No slot is prepared later than this after the slot that prepares it.
Ahead == L1L2CtrlLatency + n2 + Len(tdd)
DlSlots == {s \in now .. now + Ahead : Type(s) # UL}
UlSlots == {s \in now .. now + Ahead : Type(s) \in {F, UL}}

\* m_toSendDl and m_toSendUl: slots whose DCI is sent in this slot.
ToSendDl == {t \in DlSlots : now + DciSlot(t, N0) = t}
ToSendUl == {t \in UlSlots : now + DciSlot(t, n2) = t}

\* m_generateDl and m_generateUl: slots the MAC has to prepare in this slot.
GenerateDl == {t \in DlSlots : now + DciSlot(t, N0) + L1L2CtrlLatency = t}
GenerateUl == {t \in UlSlots : now + DciSlot(t, n2) + L1L2CtrlLatency = t}

-----------------------------------------------------------------------------
\* The queues of control messages.

EnqueueCtrlMessage(q, msgs) == [q EXCEPT ![L1L2CtrlLatency + 1] = @ \cup msgs]
EnqueueCtrlMsgNow(q, msgs) == [q EXCEPT ![1] = @ \cup msgs]
\* Mutant: no list is added for the slot that has become the last.
PopWithoutNewList(q) == Tail(q)
PopCurrentSlotCtrlMsgs(q) ==
  [i \in DOMAIN q |-> IF i + 1 \in DOMAIN q THEN q[i + 1] ELSE {}]

\* The UE's RRC starts random access at any time: what matters is in which
\* slot the message is taken from the queue.
SendRachPreamble ==
  /\ preambles < MaxPreambles /\ phase = "gnb"
  /\ preambles' = preambles + 1
  /\ ueCtrlQueue' = EnqueueCtrlMsgNow(ueCtrlQueue, {[type |-> "Preamble"]})
  /\ UNCHANGED <<config, now, phase, gnb, ueAllocInfo, ueCurrSlot, ueCtrlMsgs,
                 k1, feedback, idled>>

-----------------------------------------------------------------------------
\* The gNB begins a slot.

\* What the scheduler adds to slot t: control symbols by its type, data
\* unless it leaves them out.
UlAllocation(t, idle) ==
  {"UlCtrl"} \cup (IF <<"UlData", t>> \in idle THEN {} ELSE {"UlData"})
DlAllocation(t, idle) ==
  {"DlCtrl"} \cup (IF Type(t) = S THEN {"UlCtrl"} ELSE {})
    \cup (IF <<"DlData", t>> \in idle THEN {} ELSE {"DlData"})

\* CallMacForSlotIndication: the MAC prepares its slots; new allocations are
\* merged into those that slot has.
Prepared(idle) ==
  LET ul == GenerateUl
      dl == GenerateDl
  IN  [t \in Slots |-> slotAllocInfo[t]
         \cup (IF t \in ul THEN UlAllocation(t, idle) ELSE {})
         \cup (IF t \in dl THEN DlAllocation(t, idle) ELSE {})]

\* Preparing a downlink slot answers the preambles.
AnswersPreambles == rachList > 0 /\ GenerateDl # {}
Rar == IF AnswersPreambles THEN {[type |-> "Rar", made |-> now]} ELSE {}

MibOrSib == now % HalfFrame = 0
Mib == IF MibOrSib THEN {[type |-> "Mib"]} ELSE {}

\* Mutant: the MIB does not bring its own DL CTRL into an uplink slot.
SlotToStartWithoutMib == slotAllocInfo[now]
SlotToStart ==
  slotAllocInfo[now] \cup (IF MibOrSib THEN {"DlCtrl"} ELSE {})

\* An uplink slot whose DCI is assumed to be sent now.
HasUlDci == n2 > 0 /\ slotAllocInfo[now + n2] \cap Data # {}

\* The channel is held or wanted: the always-on manager grants it at once.
Starts ==
  \/ granted
  \/ SlotToStart \cap (Data \cup {"DlCtrl"}) # {}
  \/ HasUlDci

\* RetrieveMsgsFromDCIs.
Dcis(allocs) ==
  {[type |-> "DlDci", k1 |-> HarqSlot(now)] :
     t \in {s \in ToSendDl : "DlData" \in allocs[s]}}
  \cup {[type |-> "UlDci", slot |-> t] :
     t \in {s \in ToSendUl : "UlData" \in allocs[s]}}

\* DoStartSlot takes the messages of the slot if the slot holds anything.
Pops == Starts /\ SlotToStart # {}

\* DoCheckOrReleaseChannel: only downlink data up to the end of the slot
\* can keep the channel.
Keeps == {FALSE} \cup (IF "DlData" \in SlotToStart THEN {TRUE} ELSE {})

GnbStartSlot ==
  /\ phase = "gnb" /\ now < MaxSlot
  /\ \E idle \in SUBSET ({"UlData"} \X GenerateUl
                           \cup {"DlData"} \X GenerateDl) :
       LET allocs == Prepared(idle)
           queue == EnqueueCtrlMsgNow(EnqueueCtrlMessage(ctrlQueue, Rar), Mib)
       IN  /\ idled + Cardinality(idle) <= MaxIdle
           /\ idled' = idled + Cardinality(idle)
           /\ slotAllocInfo' = [allocs EXCEPT ![now] = {}]
           /\ ctrlQueue' = IF Pops THEN PopCurrentSlotCtrlMsgs(queue) ELSE queue
           /\ ctrlMsgs' = IF Pops THEN ctrlMsgs \cup queue[1]
                                         \cup Dcis([allocs EXCEPT ![now] = SlotToStart])
                          ELSE ctrlMsgs
  /\ currSlot' = SlotToStart
  /\ granted' \in (IF Pops THEN Keeps ELSE {Starts})
  /\ rachList' = IF AnswersPreambles THEN 0 ELSE rachList
  /\ phase' = "ue"
  /\ UNCHANGED <<config, now, ue, preambles>>

-----------------------------------------------------------------------------
\* The UE begins the slot: the feedback that is due now is queued first.
\* PushCtrlAllocations adds the control symbols of the slot's type.
CtrlAllocations ==
  (IF Type(now) < UL THEN {"DlCtrl"} ELSE {})
    \cup (IF Type(now) > DL THEN {"UlCtrl"} ELSE {})

UeStartSlot ==
  /\ phase = "ue"
  /\ LET due == {f \in feedback : f.at = now}
         queue == EnqueueCtrlMsgNow(ueCtrlQueue,
                    {[type |-> "DlHarq", slot |-> f.slot] : f \in due})
     IN  /\ feedback' = feedback \ due
         /\ ueCtrlQueue' = PopCurrentSlotCtrlMsgs(queue)
         /\ ueCtrlMsgs' = ueCtrlMsgs \cup queue[1]
  /\ ueCurrSlot' = ueAllocInfo[now] \cup CtrlAllocations
  /\ ueAllocInfo' = [ueAllocInfo EXCEPT ![now] = {}]
  /\ phase' = "dlCtrl"
  /\ UNCHANGED <<config, now, gnb, k1, preambles, idled>>

\* The DL CTRL: the UE takes its DCIs, for this slot or for a later one.
UlDcis == {m.slot : m \in {d \in ctrlMsgs : d.type = "UlDci"}}
DlDcis == {m \in ctrlMsgs : m.type = "DlDci"}

DlCtrl ==
  /\ phase = "dlCtrl"
  /\ IF "DlCtrl" \in currSlot
     THEN /\ ueCurrSlot' = ueCurrSlot \cup {"DlData" : d \in DlDcis}
                             \cup {"UlData" : t \in UlDcis \cap {now}}
          /\ ueAllocInfo' = [t \in Slots |-> ueAllocInfo[t]
                               \cup {"UlData" : u \in UlDcis \cap ({t} \ {now})}]
          /\ k1' = IF DlDcis = {} THEN k1 ELSE (CHOOSE d \in DlDcis : TRUE).k1
          /\ ctrlMsgs' = {}
     ELSE UNCHANGED <<ueCurrSlot, ueAllocInfo, k1, ctrlMsgs>>
  /\ phase' = "data"
  /\ UNCHANGED <<config, now, slotAllocInfo, currSlot, granted, ctrlQueue,
                 rachList, ueCtrlQueue, ueCtrlMsgs, feedback, preambles, idled>>

\* The data: the UE decodes what it expects and is sent, and schedules its
\* feedback K1 slots from the beginning of this slot (EnqueueDlHarqFeedback).
DlData ==
  /\ phase = "data"
  /\ LET received == "DlData" \in currSlot \cap ueCurrSlot
     IN  /\ feedback' = feedback \cup
              (IF received /\ k1 > 0 THEN {[slot |-> now, at |-> now + k1]} ELSE {})
         /\ ueCtrlQueue' = EnqueueCtrlMsgNow(ueCtrlQueue,
              IF received /\ k1 = 0 THEN {[type |-> "DlHarq", slot |-> now]} ELSE {})
  /\ phase' = "ulCtrl"
  /\ UNCHANGED <<config, now, gnb, ueAllocInfo, ueCurrSlot, ueCtrlMsgs, k1,
                 preambles, idled>>

\* The UL CTRL, if there is one, and the end of the slot at both ends.
UlCtrl ==
  /\ phase = "ulCtrl"
  /\ IF "UlCtrl" \in ueCurrSlot
     THEN /\ rachList' = rachList
               + Cardinality({m \in ueCtrlMsgs : m.type = "Preamble"})
          /\ ueCtrlMsgs' = {}
     ELSE UNCHANGED <<rachList, ueCtrlMsgs>>
  /\ now' = now + 1 /\ phase' = "gnb"
  /\ currSlot' = {} /\ ueCurrSlot' = {}
  /\ UNCHANGED <<config, slotAllocInfo, granted, ctrlQueue, ctrlMsgs,
                 ueAllocInfo, ueCtrlQueue, k1, feedback, preambles, idled>>

Next ==
  \/ SendRachPreamble
  \/ GnbStartSlot \/ UeStartSlot
  \/ DlCtrl \/ DlData \/ UlCtrl

Spec == Init /\ [][Next]_vars
-----------------------------------------------------------------------------
\* The gNB and the UE, one from what its MAC prepared and one from the DCIs
\* it heard up to N2 slots and more before, believe the same of every slot:
\* the same data, and from the first slots that could be prepared on the
\* same control symbols, except for a MIB the gNB puts into an uplink slot.
SlotsAgree ==
  phase = "data" =>
    /\ currSlot \cap Data = ueCurrSlot \cap Data
    /\ now >= Ahead =>
         currSlot \in {ueCurrSlot}
           \cup (IF MibOrSib THEN {ueCurrSlot \cup {"DlCtrl"}} ELSE {})

\* "K1: delay in slots between DL Data and the corresponding ACK/NACK": the
\* feedback of a block leaves in the first uplink or flexible slot N1 or
\* more slots later.  For N1 = 0 a flexible slot would answer itself, but its
\* messages have been taken: the next slot with an UL CTRL does.
AnswerSlot(d) ==
  IF n1 = 0 /\ Type(d) = F
  THEN Min({s \in Slots : s > d /\ Type(s) # DL})
  ELSE Min({s \in Slots : s >= d + n1 /\ Type(s) >= F})

HarqMessages(msgs) == {m.slot : m \in {h \in msgs : h.type = "DlHarq"}}
FeedbackOnTime ==
  /\ phase = "ulCtrl" /\ "UlCtrl" \in ueCurrSlot =>
       \A d \in HarqMessages(ueCtrlMsgs) : now = AnswerSlot(d)
  /\ \A f \in feedback : now <= AnswerSlot(f.slot)
  /\ \A i \in DOMAIN ueCtrlQueue : \A d \in HarqMessages(ueCtrlQueue[i]) :
       now <= AnswerSlot(d)

\* The assertion of DoStartSlot that m_ctrlMsgs is empty: the DL CTRL took
\* every message of its slot.  What can be left is a RAR that an idle slot
\* held back, and that an uplink slot took from the queue: there it fails.
NoCtrlLeftOverUnlessDelayed ==
  phase \in {"data", "ulCtrl"} =>
    \A m \in ctrlMsgs : m.type = "Rar" /\ now > m.made + L1L2CtrlLatency
=============================================================================
