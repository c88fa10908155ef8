--------------------------- MODULE NrUplinkScheduling ---------------------------
(***************************************************************************)
(* Uplink scheduling of one UE: its MAC (src/model/nr-ue-mac.cc) asks for  *)
(* resources with a scheduling request, reports its buffer in a BSR in     *)
(* every transport block and keeps the blocks for retransmission; the gNB  *)
(* (src/model/nr-gnb-mac.cc, nr-mac-scheduler-ns3.cc and                   *)
(* nr-mac-scheduler-harq-rr.cc) grants resources to what it believes is in *)
(* the UE's buffer, and keeps a timer for each HARQ process.               *)
(*                                                                         *)
(* Time is counted in slots.  In each slot the UE sends what is due and    *)
(* answers the DCIs it receives, the gNB receives transport blocks, and    *)
(* its scheduler runs if the TDD pattern says that an uplink slot is       *)
(* prepared now; phase holds the place in that sequence.  Control messages *)
(* are never lost, a transport block may be corrupted.  Data is counted in *)
(* units, the amount a scheduling request is given.  Resources are the     *)
(* symbols of a slot: one beam, one UE, one logical channel.               *)
(***************************************************************************)
EXTENDS Naturals, Sequences, FiniteSets, Lists

CONSTANTS
  HarqIds,      \* the HARQ process ids: 0 .. NumHarqProcess - 1
  MaxRv,        \* the redundancy version that ends a block: 3
  Length,       \* the length of the TDD pattern, in slots
  UlSymbols,    \* UlSymbols[p]: data symbols of the uplink slot prepared at
                \* position p, 0 if none is
  K2,           \* K2[p]: slots from the DCI to the transmission there
  TbSymbols,    \* the numbers of symbols a new transport block may take
  TbUnits,      \* the amounts of data a new transport block may carry
  BsrStep,      \* a BSR rounds the buffer up to a multiple of this
  SrDelay,      \* slots a scheduling request takes to the scheduler
  DciDelay,     \* slots from the scheduler to the UE: L1L2CtrlLatency + 1,
                \* as the scheduler runs at the end of the slot before
  DecodeDelay,  \* slots from the reception of a block to that of its BSR
  MaxReports,   \* bound on the data the RLC reports
  MaxCorrupted  \* bound on the transport blocks corrupted

\* The positions of the TDD pattern.
Pattern == 0 .. Length - 1

ASSUME UplinkAssumption ==
  /\ IsFiniteSet(HarqIds) /\ HarqIds # {}
  /\ MaxRv \in Nat
  /\ Length \in Nat \ {0}
  /\ UlSymbols \in [Pattern -> Nat] /\ K2 \in [Pattern -> Nat]
  /\ TbSymbols \subseteq Nat \ {0} /\ TbSymbols # {}
  /\ TbUnits \subseteq Nat \ {0} /\ TbUnits # {}
  /\ BsrStep \in Nat \ {0}
  /\ SrDelay \in Nat /\ DciDelay \in Nat \ {0}
  /\ DecodeDelay \in Nat
  /\ MaxReports \in Nat /\ MaxCorrupted \in Nat

NumHarqProcess == Cardinality(HarqIds)

\* The feedback of a block arrives before the timer of its process expires.
ASSUME TimerAssumption == \A p \in Pattern : DciDelay + K2[p] <= NumHarqProcess

\* GenerateDciMaps: an uplink slot is prepared at one position only.
ASSUME PatternAssumption ==
  \A p, q \in {r \in Pattern : UlSymbols[r] > 0} :
    (p + K2[p]) % Length = (q + K2[q]) % Length => p = q

VARIABLES
  pos,         \* position of the current slot in the TDD pattern
  phase,       \* the place in the current slot
  queue,       \* UE: data the RLC reported and the MAC has not sent
  srState,     \* UE: m_srState
  packet,      \* UE: data in the packet buffer of each process
  sr,          \* slots until the scheduling requests sent arrive
  dcis,        \* DCIs on their way to the UE
  blocks,      \* transport blocks on their way to the gNB
  bsrs,        \* BSRs received and not yet decoded
  ulCe,        \* gNB MAC: the last BSR of m_ulCeReceived, if there is one
  feedback,    \* gNB MAC: m_ulHarqInfoReceived
  srList,      \* scheduler: is the UE in m_srList?
  lcg,         \* scheduler: size of the UE's logical channel group
  process,     \* scheduler: the UE's HARQ processes
  toRetransmit,\* scheduler: m_ulHarqToRetransmit, as process ids
  reported,    \* data reported so far
  corrupted    \* transport blocks corrupted so far

ueVars == <<queue, srState, packet>>
gnbVars == <<srList, lcg, process, toRetransmit>>
vars == <<pos, phase, ueVars, sr, dcis, blocks, bsrs, ulCe, feedback, gnbVars,
          reported, corrupted>>

Phases == {"slot", "dci", "air", "schedule"}
Idle == [status |-> "INACTIVE", timer |-> 0, rv |-> 0, sym |-> 0]
Process == [status : {"INACTIVE", "WAITING_FEEDBACK", "RECEIVED_FEEDBACK"},
            timer : 0 .. NumHarqProcess, rv : 0 .. MaxRv,
            sym : TbSymbols \cup {0}]

\* m_ndi is 1 exactly for redundancy version 0.
Dci == [h : HarqIds, rv : 0 .. MaxRv, units : Nat, k2 : Nat,
        left : 0 .. DciDelay]
Block == [h : HarqIds, rv : 0 .. MaxRv, data : Nat, bsr : Nat, left : Nat]
Bsr == [size : Nat, left : 0 .. DecodeDelay]
Feedback == [h : HarqIds, ok : BOOLEAN]

\* Of what is under way, what is due in this slot, and the rest a slot later.
DueNow(S) == {x \in S : x.left = 0}
Later(S) == {[x EXCEPT !.left = @ - 1] : x \in S \ DueNow(S)}

TypeOK ==
  /\ pos \in Pattern /\ phase \in Phases
  /\ queue \in Nat /\ srState \in {"INACTIVE", "TO_SEND", "ACTIVE"}
  /\ packet \in [HarqIds -> Nat]
  /\ sr \subseteq 0 .. SrDelay
  /\ dcis \subseteq Dci /\ blocks \subseteq Block /\ bsrs \subseteq Bsr
  /\ ulCe \in Seq(Nat) /\ Len(ulCe) <= 1
  /\ feedback \in Seq(Feedback)
  /\ srList \in BOOLEAN /\ lcg \in Nat
  /\ process \in [HarqIds -> Process]
  /\ toRetransmit \in Seq(HarqIds)
  /\ reported \in 0 .. MaxReports /\ corrupted \in 0 .. MaxCorrupted

Init ==
  /\ pos \in Pattern /\ phase = "slot"
  /\ queue = 0 /\ srState = "INACTIVE"
  /\ packet = [h \in HarqIds |-> 0]
  /\ sr = {} /\ dcis = {} /\ blocks = {} /\ bsrs = {} /\ ulCe = <<>> /\ feedback = <<>>
  /\ srList = FALSE /\ lcg = 0
  /\ process = [h \in HarqIds |-> Idle]
  /\ toRetransmit = <<>>
  /\ reported = 0 /\ corrupted = 0

-----------------------------------------------------------------------------
\* The UE MAC.

\* DoReportBufferStatus, called by the RLC at any time.
ReportBufferStatus ==
  /\ phase \in {"slot", "dci"}
  /\ reported < MaxReports
  /\ queue' = queue + 1
  /\ srState' = IF srState = "INACTIVE" THEN "TO_SEND" ELSE srState
  /\ reported' = reported + 1
  /\ UNCHANGED <<pos, phase, packet, sr, dcis, blocks, bsrs, ulCe, feedback,
                 gnbVars, corrupted>>

\* DoSlotIndication and SendSR.
SlotIndication ==
  /\ phase = "slot"
  /\ IF srState = "TO_SEND"
     THEN srState' = "ACTIVE" /\ sr' = sr \cup {SrDelay}
     ELSE UNCHANGED <<srState, sr>>
  /\ phase' = "dci"
  /\ UNCHANGED <<pos, queue, packet, dcis, blocks, bsrs, ulCe, feedback, gnbVars,
                 reported, corrupted>>

\* Mutant: the whole transport block is subtracted.
NoMoreThan(units, size) == units
AtMost(units, size) == IF units <= size THEN units ELSE size

\* ProcessUlDci with ndi = 1: SendNewData, then the BSR.
SendNewData(d) ==
  LET data == AtMost(d.units, queue) IN
  /\ queue' = queue - data
  /\ packet' = [packet EXCEPT ![d.h] = data]
  /\ srState' = IF queue' = 0 THEN "INACTIVE" ELSE srState
  /\ blocks' = blocks \cup {[h |-> d.h, rv |-> d.rv, data |-> data,
                             bsr |-> queue', left |-> d.k2]}

\* With ndi = 0: TransmitRetx, then a new BSR.  Nothing is in the buffer of
\* a process whose block was a BSR only.
TransmitRetx(D) ==
  /\ blocks' = blocks \cup
       {[h |-> d.h, rv |-> d.rv, data |-> packet[d.h], bsr |-> queue,
         left |-> d.k2] : d \in D}
  /\ UNCHANGED ueVars

\* The DCIs of this slot: one for a new block, or retransmissions.
ProcessUlDci ==
  /\ phase = "dci"
  /\ \/ \E d \in DueNow(dcis) : d.rv = 0 /\ SendNewData(d)
     \/ (\A d \in DueNow(dcis) : d.rv > 0) /\ TransmitRetx(DueNow(dcis))
  /\ dcis' = Later(dcis)
  /\ phase' = "air"
  /\ UNCHANGED <<pos, sr, bsrs, ulCe, feedback, gnbVars, reported, corrupted>>

-----------------------------------------------------------------------------
\* The gNB receives the transport blocks that arrive in this slot, in some
\* order.  The HARQ feedback is there at once, the BSR after decoding.
Orders(S) == {s \in [1 .. Cardinality(S) -> S] : \A x \in S : \E i \in DOMAIN s : s[i] = x}

ReceiveBlocks ==
  /\ phase = "air"
  /\ \E order \in Orders(DueNow(blocks)), bad \in SUBSET DueNow(blocks) :
       /\ corrupted + Cardinality(bad) <= MaxCorrupted
       /\ corrupted' = corrupted + Cardinality(bad)
       /\ feedback' = feedback \o [i \in DOMAIN order |->
                         [h |-> order[i].h, ok |-> order[i] \notin bad]]
       /\ bsrs' = bsrs \cup {[size |-> b.bsr, left |-> DecodeDelay] :
                                b \in DueNow(blocks) \ bad}
  /\ blocks' = Later(blocks)
  /\ phase' = "schedule"
  /\ UNCHANGED <<pos, ueVars, sr, dcis, ulCe, gnbVars, reported>>

-----------------------------------------------------------------------------
\* The scheduler: DoSchedUlTriggerReq and DoScheduleUl.

IsActive(p) == p.status # "INACTIVE"

\* ResetExpiredHARQ of one process.
ResetExpired(p) ==
  IF ~IsActive(p) THEN p
  ELSE IF p.timer < NumHarqProcess THEN [p EXCEPT !.timer = @ + 1] ELSE Idle

\* MergeHARQ, and the feedback of expired processes removed.
Merged(procs) ==
  Filter([i \in DOMAIN toRetransmit |-> [h |-> toRetransmit[i], ok |-> FALSE]]
           \o feedback,
         {f \in Feedback : IsActive(procs[f.h])})

\* Mutant: a NACK in the last but one transmission ends the block.
LastVersionEarly(p) == p.rv + 1 >= MaxRv
LastVersion(p) == p.rv = MaxRv

\* ProcessHARQFeedbacks: the processes it erases, and what it leaves to be
\* retransmitted, in the order of the feedback.
Erased(procs, fb) ==
  {h \in HarqIds : \E i \in DOMAIN fb :
     fb[i].h = h /\ (fb[i].ok \/ LastVersion(procs[h]))}
Nacked(procs, fb) ==
  LET nacks == Filter(fb, {f \in Feedback : ~f.ok /\ ~LastVersion(procs[f.h])})
  IN  [i \in DOMAIN nacks |-> nacks[i].h]

\* Is any process given feedback twice?  The second time it would be erased.
FeedbackTwice(fb) == \E i, j \in DOMAIN fb : i # j /\ fb[i].h = fb[j].h

\* ScheduleUlHarq visits the NACKed processes while symbols are left.
\* SymbolsLeft(procs, n)[i] is what the first i of them leave.
Fits(p, symbols) == symbols > 0 /\ symbols >= p.sym
SymbolsLeft(procs, n) ==
  LET left[i \in 0 .. Len(n)] ==
        IF i = 0 THEN UlSymbols[pos]
        ELSE IF Fits(procs[n[i]], left[i - 1]) THEN left[i - 1] - procs[n[i]].sym
        ELSE left[i - 1]
  IN  left
Visited(procs, n) ==
  {n[i] : i \in {j \in DOMAIN n : SymbolsLeft(procs, n)[j - 1] > 0}}
Retransmitted(procs, n) ==
  {n[i] : i \in {j \in DOMAIN n : Fits(procs[n[j]], SymbolsLeft(procs, n)[j - 1])}}

\* Mutant: a process without room is not put back into the list.
BufferedNot(procs, n) == <<>>
Buffered(procs, n) ==
  Filter(n, Visited(procs, n) \ Retransmitted(procs, n))

\* Mutant: the timer of a retransmission goes on from the last transmission.
AgainSameTimer(p) == [p EXCEPT !.status = "WAITING_FEEDBACK", !.rv = @ + 1]
\* Mutant: a retransmission keeps the redundancy version.
AgainSameVersion(p) == [p EXCEPT !.status = "WAITING_FEEDBACK", !.timer = 0]
Again(p) == [p EXCEPT !.status = "WAITING_FEEDBACK", !.timer = 0, !.rv = @ + 1]

AfterHarq(procs, fb) ==
  LET n == Nacked(procs, fb) IN
  [h \in HarqIds |->
     IF h \in Erased(procs, fb) THEN Idle
     ELSE IF h \in Retransmitted(procs, n) THEN Again(procs[h])
     ELSE IF h \in Visited(procs, n)
     THEN [procs[h] EXCEPT !.status = "WAITING_FEEDBACK", !.timer = 0]
     ELSE IF h \in {n[i] : i \in DOMAIN n}
     THEN [procs[h] EXCEPT !.status = "RECEIVED_FEEDBACK"]
     ELSE procs[h]]

\* What the gNB MAC has for the scheduler: the last BSR and the requests.
LastCe == IF DueNow(bsrs) = {} THEN ulCe
          ELSE <<(CHOOSE b \in DueNow(bsrs) : TRUE).size>>
Requested == srList \/ 0 \in sr

\* BSRReceivedFromUe: the level of the BSR stands for its upper bound.
ReportedBytes(size) == ((size + BsrStep - 1) \div BsrStep) * BsrStep
AfterBsr == IF LastCe = <<>> THEN lcg ELSE ReportedBytes(LastCe[1])

\* DoScheduleUlSr: the group's size becomes that of one small grant.
SrUnits == 1
AfterSr(requested) == IF requested THEN SrUnits ELSE AfterBsr

\* DoScheduleUlData: a new block for the UE, and AssignedData.
Schedule(procs, symbols, size) ==
  \E h \in {g \in HarqIds : ~IsActive(procs[g])},
     s \in {t \in TbSymbols : t <= symbols}, units \in TbUnits :
    /\ process' = [procs EXCEPT ![h] = [status |-> "WAITING_FEEDBACK",
                                        timer |-> 0, rv |-> 0, sym |-> s]]
    /\ dcis' = dcis \cup {[h |-> h, rv |-> 0, units |-> units,
                           k2 |-> K2[pos], left |-> DciDelay - 1]}
    /\ lcg' = size - AtMost(units, size)

\* ComputeActiveUe: data, a free process and symbols, and no retransmission.
CanSchedule(procs, retx, symbols, size) ==
  /\ size > 0
  /\ \E h \in HarqIds : ~IsActive(procs[h])
  /\ retx = {}
  /\ \E s \in TbSymbols : s <= symbols

EndSlot ==
  /\ sr' = {n - 1 : n \in sr \ {0}}
  /\ bsrs' = Later(bsrs)
  /\ phase' = "slot"
  /\ pos' = (pos + 1) % Length

ScheduleUl ==
  LET expired == [h \in HarqIds |-> ResetExpired(process[h])]
      fb == Merged(expired)
      nacked == Nacked(expired, fb)
      retx == Retransmitted(expired, nacked)
      procs == AfterHarq(expired, fb)
      symbols == SymbolsLeft(expired, nacked)[Len(nacked)]
      size == AfterSr(Requested /\ symbols > 0)
  IN
  /\ phase = "schedule" /\ UlSymbols[pos] > 0
  /\ ~FeedbackTwice(fb)
  /\ toRetransmit' = Buffered(expired, nacked)
  /\ srList' = (Requested /\ symbols = 0)
  /\ IF CanSchedule(procs, retx, symbols, size)
     THEN Schedule(procs, symbols, size)
     ELSE /\ process' = procs
          /\ lcg' = size
          /\ dcis' = dcis \cup {[h |-> h, rv |-> procs[h].rv, units |-> 0,
                                 k2 |-> K2[pos], left |-> DciDelay - 1] :
                                h \in retx}
  /\ feedback' = <<>> /\ ulCe' = <<>>
  /\ EndSlot
  /\ UNCHANGED <<ueVars, blocks, reported, corrupted>>

\* No uplink slot is prepared in this slot: the gNB MAC keeps what it has.
NoUplink ==
  /\ phase = "schedule" /\ UlSymbols[pos] = 0
  /\ srList' = Requested
  /\ ulCe' = LastCe
  /\ EndSlot
  /\ UNCHANGED <<ueVars, dcis, blocks, feedback, lcg, process, toRetransmit,
                 reported, corrupted>>

Slot ==
  SlotIndication \/ ProcessUlDci \/ ReceiveBlocks \/ ScheduleUl \/ NoUplink

Next == ReportBufferStatus \/ Slot

\* Slots go by; the RLC need not report anything.
Spec == Init /\ [][Next]_vars
FairSpec == Spec /\ WF_vars(Slot)

-----------------------------------------------------------------------------
\* Properties.

InFlight == dcis \cup blocks

\* The HARQ timer never interferes: whatever is under way for a process, DCI
\* or block, is its current transmission, and only one of them.  A block is of
\* the data in the UE's packet buffer of the process, so that the UE sends the
\* same again ("NS_ASSERT (pb->GetNPackets () > 0)").  Feedback is never taken
\* for that of another block.
InFlightIsCurrent ==
  /\ \A x \in InFlight :
       process[x.h].status = "WAITING_FEEDBACK" /\ process[x.h].rv = x.rv
  /\ \A x, y \in InFlight : x.h = y.h => x = y
  /\ \A b \in blocks : b.data = packet[b.h]
  /\ \A i, j \in DOMAIN feedback : feedback[i].h = feedback[j].h => i = j

\* "It is possible that, in one slot, some HARQ could not be transmitted":
\* between two slots every NACKed process that has versions left has been
\* granted a retransmission or waits in m_ulHarqToRetransmit.
NackIsKept ==
  phase = "slot" => \A h \in HarqIds : IsActive(process[h]) =>
    \/ \E x \in InFlight : x.h = h
    \/ \E i \in DOMAIN feedback : feedback[i].h = h
    \/ \E i \in DOMAIN toRetransmit : toRetransmit[i] = h

\* "When a RLC tells the UE that there is some data in its queue [...] The GNB
\* then allocates some data": whatever the UE reports is sent in the end, as
\* long as no block exhausts its retransmissions.
DataIsSent == queue > 0 ~> queue = 0

-----------------------------------------------------------------------------
(* The abstract specification this one implements.                         *)

\* A process that has nothing under way and no ACK waits to be sent again.
PlaceOf(h) ==
  IF ~IsActive(process[h]) THEN "free"
  ELSE IF \E x \in InFlight : x.h = h THEN "sent"
  ELSE "answered"
Acked(h) == \E i \in DOMAIN feedback : feedback[i] = [h |-> h, ok |-> TRUE]

StateOf(h) ==
  [at |-> PlaceOf(h),
   parts |-> IF PlaceOf(h) = "free" \/ Acked(h) THEN {} ELSE {"block"},
   rv |-> process[h].rv]

Harq == INSTANCE StopAndWait WITH
  Process <- HarqIds, Part <- {"block"}, state <- [h \in HarqIds |-> StateOf(h)]

\* Whatever happens to DCIs, blocks and feedback, and however the timers run,
\* the UE and the gNB repeat a block until it is decoded or its versions are
\* used up, and then use the process for another.
ImplementsStopAndWait == Harq!Spec
=============================================================================
