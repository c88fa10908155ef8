---------------------------- MODULE NrSlUeMacSensing ----------------------------
(***************************************************************************)
(* Sensing-based resource selection in the MAC of one UE                   *)
(* (src/model/nr-ue-mac.cc): the lists of sensed SCIs and of the UE's own  *)
(* transmissions, how a slot indication ages them, and the steps of        *)
(* GetNrSlCandidateResourcesPrivate that turn them into the resources the  *)
(* scheduler may draw from.                                                *)
(*                                                                         *)
(* A slot indication ages the lists; then the scheduler may ask for        *)
(* resources, the UE may transmit, and SCIs of other UEs in that slot may  *)
(* arrive.  Asking changes nothing, so it is an operator and no action;    *)
(* what is published from it, and in which slots the UE transmits, is      *)
(* NrSlUeMacGrants: here it may be any slot.  All slots belong to the      *)
(* pool.  A resource is a slot and a range of subchannels.  The lists are  *)
(* ordered by slot, oldest first.                                          *)
(***************************************************************************)
EXTENDS Integers, SequencesExt, Lists

CONSTANTS
  T0,              \* sl-SensingWindow, in slots
  Tproc0,          \* slots too recent to be taken into account
  T1, T2,          \* the selection window, in slots from the current one
  SlotsPerMs,      \* 2^numerology
  TotalSubCh,      \* subchannels of the pool
  Threshold,       \* SlThresPsschRsrp, in dBm
  Percentage,      \* ResourcePercentage
  ReservePeriods,  \* slResourceReservePeriodList of the pool, in ms
  Params,          \* the NrSlTransmissionParams the scheduler may ask with
  Scis,            \* what the SCIs of other UEs may say
  MaxScis,         \* bound on the SCIs kept
  MaxSlot          \* bound on time

\* NrSlTransmissionParams and SensingData.  retx holds the retransmissions
\* an SCI reserves: the gap in slots and the first subchannel.
ParamsType == [lSubch : Nat \ {0}, pRsvpTx : Nat, cResel : Nat]
SciType == [rsvp : Nat, start : Nat, len : Nat \ {0}, rsrp : Int,
            retx : SUBSET (Nat \X Nat)]

ASSUME SensingAssumption ==
  /\ T0 \in Nat /\ Tproc0 \in Nat \ {0}
  /\ T1 \in Nat \ {0} /\ T2 \in Nat /\ T1 <= T2
  /\ SlotsPerMs \in Nat \ {0} /\ TotalSubCh \in Nat \ {0}
  /\ Threshold \in Int /\ Threshold <= -3 /\ Percentage \in 1 .. 100
  /\ ReservePeriods \subseteq Nat
  /\ Params \subseteq ParamsType /\ Scis \subseteq SciType
  /\ MaxScis \in Nat /\ MaxSlot \in Nat

Window == T2 - T1 + 1

\* The check of the window configuration compares whole milliseconds.
ASSUME WindowAssumption ==
  \A p \in Params : p.pRsvpTx > 0 => Window \div SlotsPerMs <= p.pRsvpTx

VARIABLES
  now,              \* m_currentSlot, as a count of slots
  sensingData,      \* m_sensingData: SCIs with the slot they came in
  transmitHistory   \* m_transmitHistory: slots the UE transmitted in

vars == <<now, sensingData, transmitHistory>>

-----------------------------------------------------------------------------
(* Ageing.                                                                 *)

\* Mutant: the entries at the edge of the window are taken as outdated.
OutdatedFromEdge(slot, at) == at < T0 \/ slot <= at - T0

\* sfn.Normalize () - sensingWindow is unsigned: before slot T0 it wraps to
\* a huge number, and every entry is below it.
IsOutdated(slot, at) == at < T0 \/ slot < at - T0

\* Which of n entries remain when all are outdated.  The iterator moves on
\* twice per erased entry; past the end of the list it is at the beginning.
SurvivingRanks[n \in Nat] ==
  IF n % 2 = 0 THEN {2 * j : j \in 1 .. n \div 2}
               ELSE {2 * j : j \in SurvivingRanks[n \div 2]}

\* Mutant: a slot indication drops no more than one entry.
DropOneRank(slots, at) ==
  {i \in 1 .. Len(slots) : i > 1 \/ ~IsOutdated(slots[i], at)}

\* The entries of a list with these slots that RemoveOld... keeps at a slot:
\* of the outdated ones at its front every second.
KeptRanks(slots, at) ==
  LET n == Len(slots)
      k == Cardinality({i \in 1 .. n :
                          \A j \in 1 .. i : IsOutdated(slots[j], at)})
  IN  IF k = n THEN SurvivingRanks[n]
      ELSE {2 * j : j \in 1 .. k \div 2} \union (k + 1) .. n

SubSeqAt(s, ranks) ==
  LET order == Filter([i \in DOMAIN s |-> i], ranks)
  IN  [i \in DOMAIN order |-> s[order[i]]]

SlotsOf(scis) == [i \in 1 .. Len(scis) |-> scis[i].slot]

RemoveOldSensingData(at) ==
  SubSeqAt(sensingData, KeptRanks(SlotsOf(sensingData), at))
RemoveOldTransmitHistory(at) ==
  SubSeqAt(transmitHistory, KeptRanks(transmitHistory, at))

-----------------------------------------------------------------------------
(* Selection.                                                              *)

OldEnough(slot) == now - slot > Tproc0
TrimmedData == Filter(sensingData, {s \in ToSet(sensingData) : OldEnough(s.slot)})
TrimmedHistory == Filter(transmitHistory, {t \in ToSet(transmitHistory) : OldEnough(t)})

\* The loops that trim the lists look at the last entry of a list they may
\* have emptied.
TrimIsUndefined ==
  \/ sensingData # <<>> /\ TrimmedData = <<>>
  \/ transmitHistory # <<>> /\ TrimmedHistory = <<>>

\* Step 4: every slot of the window with every range of lSubch subchannels.
Candidates(p) ==
  LET perSlot == TotalSubCh - p.lSubch + 1
  IN  IF perSlot <= 0 THEN <<>>
      ELSE [k \in 1 .. Window * perSlot |->
              [slot |-> now + T1 + (k - 1) \div perSlot,
               start |-> (k - 1) % perSlot, len |-> p.lSubch]]

OverlappedResource(firstStart, firstLength, secondStart, secondLength) ==
  Max({firstStart, secondStart})
    < Min({firstStart + firstLength, secondStart + secondLength})

PeriodInSlots(ms) == ms * SlotsPerMs

IsEnough(n, p) == n * 100 >= Percentage * Len(Candidates(p))

\* Mutant: the last slot of the window is never excluded.
SlotsBeforeLast ==
  {slot \in now + T1 .. now + T2 - 1 :
     \E h \in ToSet(TrimmedHistory), period \in ReservePeriods \ {0} :
       LET listIt == PeriodInSlots(period)
       IN  slot > h /\ (slot - h) % listIt = 0}

\* Step 5: a UE does not hear the slots it transmits in, so it excludes the
\* slots that another UE might have reserved there, unless too few remain.
SlotsToExclude ==
  {slot \in now + T1 .. now + T2 :
     \E h \in ToSet(TrimmedHistory), period \in ReservePeriods \ {0} :
       LET listIt == PeriodInSlots(period)
       IN  slot > h /\ (slot - h) % listIt = 0}
AfterHistory(p) ==
  LET rest == Filter(Candidates(p),
                     {c \in ToSet(Candidates(p)) : c.slot \notin SlotsToExclude})
  IN  IF IsEnough(Len(rest), p) THEN rest ELSE Candidates(p)

\* Mutant: Q counts the SCI's own period, one too few are projected.
OneFewerPeriod(sci) ==
  LET period == PeriodInSlots(sci.rsvp)
  IN  IF sci.rsvp # 0 /\ period < Window THEN (Window - 1) \div period ELSE 0

\* Step 6(c): the transmissions an SCI announces, Q periods ahead.
NumPeriods(sci) ==
  LET period == PeriodInSlots(sci.rsvp)
  IN  IF sci.rsvp = 0 THEN 0
      ELSE IF period < Window THEN (Window + period - 1) \div period ELSE 1
Announced(sci, slot) ==
  {<<slot, sci.start>>} \union {<<slot + r[1], r[2]>> : r \in sci.retx}
FutSlotsBasedOnSens(sci) ==
  UNION {Announced(sci, sci.slot + i * PeriodInSlots(sci.rsvp)) :
           i \in 0 .. NumPeriods(sci)}

\* sensingDataProjections: what step 6 compares the candidates with.
Projections ==
  [i \in DOMAIN TrimmedData |->
     [rsrp |-> TrimmedData[i].rsrp, len |-> TrimmedData[i].len,
      transmissions |-> FutSlotsBasedOnSens(TrimmedData[i])]]

\* An SCI of step 6 has a transmission in a slot that overlaps a candidate.
Hits(sci, slot, cand) ==
  \E tx \in sci.transmissions :
    tx[1] = slot /\ OverlappedResource(tx[2], sci.len, cand.start, cand.len)

\* One SCI against the candidate at a position, for each of the candidate's
\* own future slots.  These are computed before; the subchannels compared
\* are those of whatever is at the position by then.  Past the end of the
\* list, where the code's behaviour is undefined, nothing more is erased.
FutureSlot(cand, i, p) == cand.slot + (i - 1) * PeriodInSlots(p.pRsvpTx)
EraseFor(cands, pos, sci, threshold, p) ==
  LET rest[i \in 0 .. p.cResel] ==
        IF i = 0 THEN cands
        ELSE LET left == rest[i - 1]
             IN  IF /\ pos <= Len(left)
                    /\ Hits(sci, FutureSlot(cands[pos], i, p), left[pos])
                 THEN RemoveAt(left, pos) ELSE left
  IN  IF sci.rsrp <= threshold THEN cands ELSE rest[p.cResel]

\* The candidate at a position against the SCIs, up to the first that erases.
EraseAt(cands, pos, sensed, threshold, p) ==
  LET after(k) == EraseFor(cands, pos, sensed[k], threshold, p)
      erasing == {k \in DOMAIN sensed : after(k) # cands}
  IN  IF erasing = {} THEN cands ELSE after(Min(erasing))

\* One pass of step 6.  Each step erases at the position or moves it on.
SiftNext(acc, sensed, threshold, p) ==
  LET rest == EraseAt(acc.list, acc.pos, sensed, threshold, p)
  IN  IF acc.pos > Len(acc.list) THEN acc
      ELSE [list |-> rest,
            pos |-> IF rest # acc.list THEN acc.pos ELSE acc.pos + 1]
Sift(cands, sensed, threshold, p) ==
  LET after[i \in 0 .. Len(cands)] ==
        IF i = 0 THEN [list |-> cands, pos |-> 1]
        ELSE LET acc == after[i - 1] IN SiftNext(acc, sensed, threshold, p)
  IN  after[Len(cands)].list

\* Step 7: the thresholds, 3 dB apart, whose pass may succeed.  The result
\* of a pass is thrown away once the next threshold is above 0 dBm.
Thresholds == {t \in Threshold .. -3 : (t - Threshold) % 3 = 0}

\* What GetNrSlCandidateResourcesPrivate returns, and the last threshold.
CandidateResources(p) ==
  LET cands == AfterHistory(p)
      sensed == Projections
      pass == [t \in Thresholds |-> Sift(cands, sensed, t, p)]
      enough == {t \in Thresholds : IsEnough(Len(pass[t]), p)}
  IN  IF sensingData = <<>> /\ transmitHistory = <<>>
      THEN [list |-> Candidates(p), threshold |-> Threshold]
      ELSE IF enough = {} THEN [list |-> <<>>, threshold |-> Max(Thresholds)]
      ELSE [list |-> pass[Min(enough)], threshold |-> Min(enough)]

-----------------------------------------------------------------------------
(* The state machine.                                                      *)

Init == now = 0 /\ sensingData = <<>> /\ transmitHistory = <<>>

\* DoSlotIndication, as far as sensing is concerned.
SlotIndication ==
  /\ now < MaxSlot
  /\ now' = now + 1
  /\ sensingData' = RemoveOldSensingData(now')
  /\ transmitHistory' = RemoveOldTransmitHistory(now')

\* What an SCI says, with the slot it came in.
Sensed(sci, slot) ==
  [slot |-> slot, rsvp |-> sci.rsvp, start |-> sci.start, len |-> sci.len,
   rsrp |-> sci.rsrp, retx |-> sci.retx]

\* Mutant: the PHY has moved on to the next slot when it reports the SCI.
ReceiveInNextSlot ==
  /\ now \notin ToSet(transmitHistory)
  /\ Len(sensingData) < MaxScis
  /\ \E sci \in Scis :
       sensingData' = Append(sensingData, Sensed(sci, now + 1))
  /\ UNCHANGED <<now, transmitHistory>>

\* The PHY has decoded an SCI of another UE in the current slot.
DoReceiveSensingData ==
  /\ now \notin ToSet(transmitHistory)  \* no reception while transmitting
  /\ Len(sensingData) < MaxScis
  /\ \E sci \in Scis :
       sensingData' = Append(sensingData, Sensed(sci, now))
  /\ UNCHANGED <<now, transmitHistory>>

\* DoNrSlSlotIndication has transmitted in the current slot.
Transmit ==
  /\ now \notin ToSet(transmitHistory)
  /\ \A i \in DOMAIN sensingData : sensingData[i].slot # now
  /\ transmitHistory' = Append(transmitHistory, now)
  /\ UNCHANGED <<now, sensingData>>

Next == SlotIndication \/ DoReceiveSensingData \/ Transmit
Spec == Init /\ [][Next]_vars

-----------------------------------------------------------------------------
(* Properties.                                                             *)

\* Types: an SCI is kept as it was heard, with a slot not in the future.
TypeOK ==
  /\ now \in 0 .. MaxSlot
  /\ \A s \in ToSet(sensingData) :
       /\ s.slot \in 0 .. now
       /\ \E sci \in Scis : \A field \in DOMAIN sci : s[field] = sci[field]
  /\ ToSet(transmitHistory) \subseteq 0 .. now

\* The transmissions an SCI reserves: those it names, and their next period.
Reserves(sci) ==
  Announced(sci, sci.slot) \union
    (IF sci.rsvp = 0 THEN {}
     ELSE Announced(sci, sci.slot + PeriodInSlots(sci.rsvp)))
Conflicts(sci, transmissions, cand, p) ==
  \E i \in 0 .. p.cResel - 1, tx \in transmissions :
    /\ tx[1] = cand.slot + i * PeriodInSlots(p.pRsvpTx)
    /\ OverlappedResource(tx[2], sci.len, cand.start, cand.len)

\* No resource offered for a periodic grant collides, in any of its periods,
\* with a transmission reserved by an SCI in the sensing window that is
\* louder than the threshold the selection ended with.  It is what sensing
\* is for; ageing, trimming, projecting and erasing all have to be right.
NoConflictingCandidate ==
  TrimIsUndefined \/
  \A p \in Params :
    LET result == CandidateResources(p)
        loud == {sci \in ToSet(sensingData) :
                   now - sci.slot > Tproc0 /\ sci.rsrp > result.threshold}
    IN  \A sci \in loud, c \in ToSet(result.list) :
          ~Conflicts(sci, Reserves(sci), c, p)

\* Step 6 removes a resource only because it conflicts with a sensed SCI
\* above the threshold ("Stop further evaluation because candidate is
\* erased"), so no usable resource is withheld from the scheduler.
ExcludesOnlyConflicting ==
  TrimIsUndefined \/
  \A p \in Params :
    LET result == CandidateResources(p)
    IN  result.list # <<>> =>
          \A c \in ToSet(AfterHistory(p)) \ ToSet(result.list) :
            \E sci \in ToSet(TrimmedData) :
              /\ sci.rsrp > result.threshold
              /\ Conflicts(sci, FutSlotsBasedOnSens(sci), c, p)

\* A slot that a UE unheard during our own transmission may have reserved is
\* offered only if leaving all such slots out would leave too few resources.
DeafSlotsAvoided ==
  TrimIsUndefined \/
  \A p \in Params :
    LET deaf == {slot \in now + T1 .. now + T2 :
                   \E h \in {t \in ToSet(transmitHistory) : now - t > Tproc0},
                      period \in ReservePeriods \ {0}, i \in 1 .. now + T2 :
                     slot = h + i * PeriodInSlots(period)}
        hearing == {c \in ToSet(Candidates(p)) : c.slot \notin deaf}
    IN  100 * Cardinality(hearing) >= Percentage * Len(Candidates(p))
          => \A c \in ToSet(CandidateResources(p).list) : c.slot \notin deaf

\* Ageing never loses what is still in the sensing window, once the
\* simulation is older than the window (before, the edge wraps).
FreshEntriesKept ==
  [][now' >= T0 =>
       /\ \A s \in ToSet(sensingData) :
            s.slot + T0 >= now' => s \in ToSet(sensingData')
       /\ \A t \in ToSet(transmitHistory) :
            t + T0 >= now' => t \in ToSet(transmitHistory')]_vars

\* Although ageing skips every second outdated entry, none outlives the
\* window by more than two slots while at most seven SCIs are kept: an entry
\* that is skipped is then half as far from the front of the list.
OutdatedEntriesLeaveSoon ==
  MaxScis < 8 =>
    \A s \in ToSet(sensingData) : s.slot + T0 + 2 >= now
=============================================================================
