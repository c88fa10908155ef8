-------------------------------- MODULE NrDlHarq --------------------------------
(***************************************************************************)
(* Downlink HARQ of the gNB: the MAC (src/model/nr-gnb-mac.cc) keeps the   *)
(* packets of each process and stream and collects the feedback of the     *)
(* UEs; the OFDMA scheduler (nr-mac-scheduler-ns3.cc,                      *)
(* nr-mac-scheduler-ofdma.cc and nr-mac-scheduler-harq-rr.cc) keeps a      *)
(* timer for each process, gives resources first to the blocks that were   *)
(* not decoded, beam by beam, and then to new data.                        *)
(*                                                                         *)
(* Time is counted in slots, pos is the current position of the TDD        *)
(* pattern.  A slot of the air interface is a plane of symbols and         *)
(* resource block groups (RBGs); two beams never share a symbol.  Feedback *)
(* is never lost; whether a stream is decoded is arbitrary.  How much new  *)
(* data a block takes, how many RBGs a UE is given and how the symbols are *)
(* shared among the beams with new data follow from channel quality and    *)
(* buffer sizes and are arbitrary here.  Data is counted in units.         *)
(***************************************************************************)
EXTENDS Naturals, Sequences, FiniteSets, SequencesExt, Lists

CONSTANTS
  UeSeq,          \* the UEs, in the order of the UE map
  BeamOf,         \* the beam of each UE
  NumHarq,        \* the HARQ processes of a UE, also the limit of their timers
  Stream,         \* the streams of a transport block: one or two
  MaxRv,          \* the redundancy version that ends a block: 3
  Bandwidth,      \* the RBGs of the band
  Length,         \* the length of the TDD pattern, in slots
  DlSymbols,      \* DlSymbols[p]: data symbols of the downlink slot prepared
                  \* at position p, 0 if none is
  FeedbackDelay,  \* FeedbackDelay[p]: slots from there to its feedback
  MaxReports      \* bound on the units of data the RLC reports

Ue == ToSet(UeSeq)
Pattern == 0 .. Length - 1
DlPattern == {p \in Pattern : DlSymbols[p] > 0}
Processes == Ue \X (0 .. NumHarq - 1)
MaxSymbols == 14

ASSUME DlHarqAssumption ==
  /\ UeSeq \in Seq(Ue)
  /\ NumHarq \in Nat \ {0} /\ MaxRv \in Nat /\ Bandwidth \in Nat \ {0}
  /\ Length \in Nat \ {0} /\ MaxReports \in Nat
  /\ DlSymbols \in [Pattern -> 0 .. MaxSymbols]
  /\ FeedbackDelay \in [Pattern -> Nat \ {0}]

\* The feedback of a block reaches the scheduler before its timer expires.
ASSUME DlTimerAssumption ==
  \A p \in DlPattern :
    Cardinality({i \in 1 .. FeedbackDelay[p] : (p + i) % Length \in DlPattern})
      < NumHarq

VARIABLES
  pos,           \* position of the next slot in the TDD pattern
  data,          \* scheduler: units in the logical channels of each UE
  process,       \* scheduler: the HARQ processes
  toRetransmit,  \* scheduler: m_dlHarqToRetransmit
  burst,         \* gNB MAC: the packets of each process and stream, as the
                 \* block they belong to, 0 if there are none
  received,      \* gNB MAC: m_dlHarqInfoReceived
  inFlight,      \* blocks sent whose feedback has not been received
  created,       \* blocks created so far
  reported       \* units reported so far

vars == <<pos, data, process, toRetransmit, burst, received, inFlight, created,
          reported>>

Idle == [status |-> "INACTIVE", timer |-> 0, tb |-> 0,
         rv |-> [s \in Stream |-> 0], sent |-> {}, rbgs |-> 0, sym |-> 0]

\* The TB sizes of the DCI tell which streams are sent; tb numbers the blocks.
Process == [status : {"INACTIVE", "WAITING_FEEDBACK", "RECEIVED_FEEDBACK"},
            timer : 0 .. NumHarq, tb : Nat, rv : [Stream -> 0 .. MaxRv],
            sent : SUBSET Stream, rbgs : 0 .. Bandwidth, sym : 0 .. MaxSymbols]
Feedback == [p : Processes, nacks : SUBSET Stream]
Block == [p : Processes, tb : Nat, pkts : [Stream -> Nat], sent : SUBSET Stream,
          start : 0 .. MaxSymbols, sym : 1 .. MaxSymbols,
          rbgs : SUBSET (0 .. Bandwidth - 1), slot : Pattern, left : Nat]

TypeOK ==
  /\ pos \in Pattern
  /\ data \in [Ue -> Nat] /\ process \in [Processes -> Process]
  /\ toRetransmit \in Seq(Feedback) /\ received \in Seq(Feedback)
  /\ burst \in [Processes -> [Stream -> Nat]]
  /\ inFlight \subseteq Block
  /\ created \in Nat /\ reported \in 0 .. MaxReports

Init ==
  /\ pos = 0
  /\ data = [u \in Ue |-> 0] /\ process = [p \in Processes |-> Idle]
  /\ toRetransmit = <<>> /\ received = <<>>
  /\ burst = [p \in Processes |-> [s \in Stream |-> 0]]
  /\ inFlight = {} /\ created = 0 /\ reported = 0

-----------------------------------------------------------------------------
(***************************************************************************)
(* The gNB MAC.                                                            *)
(***************************************************************************)

DoReportBufferStatus(u) ==
  /\ reported < MaxReports
  /\ data' = [data EXCEPT ![u] = @ + 1] /\ reported' = reported + 1
  /\ UNCHANGED <<pos, process, toRetransmit, burst, received, inFlight, created>>

\* Mutant: the packets of a stream that was not decoded are discarded, too.
DiscardedAll(f, sent) ==
  [burst EXCEPT ![f.p] = [s \in Stream |-> IF s \in sent THEN 0 ELSE @[s]]]

\* The packets of the streams that were decoded are discarded.
Discarded(f, sent) ==
  [burst EXCEPT ![f.p] =
    [s \in Stream |-> IF s \in sent \ f.nacks THEN 0 ELSE @[s]]]

DoDlHarqFeedback ==
  \E b \in {x \in inFlight : x.left = 0}, nacks \in SUBSET Stream :
    LET f == [p |-> b.p, nacks |-> nacks]
    IN  /\ nacks \subseteq b.sent
        /\ inFlight' = inFlight \ {b}
        /\ burst' = Discarded(f, b.sent)
        /\ received' = Append(received, f)
        /\ UNCHANGED <<pos, data, process, toRetransmit, created, reported>>

-----------------------------------------------------------------------------
(***************************************************************************)
(* The scheduler.                                                          *)
(***************************************************************************)

IsActive(procs, p) == procs[p].status # "INACTIVE"

ResetExpiredHARQ ==
  [p \in Processes |->
    IF ~IsActive(process, p) THEN process[p]
    ELSE IF process[p].timer < NumHarq THEN [process[p] EXCEPT !.timer = @ + 1]
    ELSE Idle]

MergeHARQ == toRetransmit \o received

\* Feedback that came too late, and a second feedback for one process, are
\* dropped.
Relevant(procs, fb) ==
  LET first == Filter([i \in DOMAIN fb |-> i],
                      {i \in DOMAIN fb : /\ IsActive(procs, fb[i].p)
                                        /\ \A j \in 1 .. i - 1 : fb[j].p # fb[i].p})
  IN  [k \in DOMAIN first |-> fb[first[k]]]

\* Mutant: a block is retransmitted once more.
PastLastVersion(p) == \E s \in Stream : p.rv[s] > MaxRv

LastVersion(p) == \E s \in Stream : p.rv[s] = MaxRv

\* Mutant: a block of which a stream was decoded is finished.
FinishesWhenAny(procs, f) == f.nacks # procs[f.p].sent \/ LastVersion(procs[f.p])

Finishes(procs, f) == f.nacks = {} \/ LastVersion(procs[f.p])

ProcessHARQFeedbacks(procs, fb) ==
  [p \in Processes |->
    IF \E i \in DOMAIN fb : fb[i].p = p /\ Finishes(procs, fb[i]) THEN Idle
    ELSE IF \E i \in DOMAIN fb : fb[i].p = p
      THEN [procs[p] EXCEPT !.status = "RECEIVED_FEEDBACK"]
    ELSE procs[p]]

Nacked(procs, fb) == Filter(fb, {f \in Feedback : ~Finishes(procs, f)})

BeamsOf(ues) == {BeamOf[u] : u \in ues}

\* ComputeActiveUe: data to send and a process to send it with.
Active(procs) ==
  {u \in Ue : data[u] > 0 /\ \E p \in Processes : p[1] = u /\ ~IsActive(procs, p)}

\* SortDlHarq: the feedback of a beam, most symbols first, equals in any order.
SortDlHarq(procs, fb, beam) ==
  {s \in SetToSeqs({f \in ToSet(fb) : BeamOf[f.p[1]] = beam}) :
    \A i, j \in DOMAIN s : i < j => procs[s[i].p].sym >= procs[s[j].p].sym}

\* ComputeActiveHarq: the beams with NACKs, in the order of the map, and the
\* list of each.
ComputeActiveHarq(procs, fb) ==
  LET beams == BeamsOf({f.p[1] : f \in ToSet(fb)})
  IN  {[order |-> o, list |-> l] :
        o \in SetToSeqs(beams),
        l \in {m \in [beams -> UNION {SortDlHarq(procs, fb, b) : b \in beams}] :
                \A b \in beams : m[b] \in SortDlHarq(procs, fb, b)}}

Area(p) == p.rbgs * p.sym
CeilDiv(a, b) == (a + b - 1) \div b

\* Mutant: feedback of a process that finds no resources is not buffered.
BufferedNot(acc, f) ==
  [acc EXCEPT !.procs[f.p].status = "WAITING_FEEDBACK", !.procs[f.p].timer = 0]

\* One NACKed process in the plane that starts at (acc.rbg, acc.sym) and has
\* symPerBeam symbols: buffered if its UE has been served in this beam or its
\* resources do not fit, else reshaped to the symbols of the beam.
Buffered(acc, f) ==
  [acc EXCEPT !.retx = Append(@, f),
              !.procs[f.p].status = "WAITING_FEEDBACK", !.procs[f.p].timer = 0]

NextVersion(p, nacks) == [s \in Stream |-> IF s \in nacks THEN p.rv[s] + 1 ELSE 0]

\* The process when it is sent again.
Again(p, nacks, symPerBeam) ==
  [p EXCEPT !.status = "WAITING_FEEDBACK", !.timer = 0,
            !.rv = NextVersion(p, nacks), !.sent = nacks,
            !.rbgs = CeilDiv(Area(p), symPerBeam), !.sym = symPerBeam]

Retransmitted(acc, f, symPerBeam) ==
  LET p == Again(acc.procs[f.p], f.nacks, symPerBeam)
  IN  [acc EXCEPT
        !.procs[f.p] = p,
        !.served = @ \cup {f.p[1]},
        !.rbg = @ + p.rbgs,
        !.blocks = @ \cup {[p |-> f.p, tb |-> p.tb, pkts |-> burst[f.p],
                            sent |-> p.sent, start |-> acc.sym, sym |-> p.sym,
                            rbgs |-> acc.rbg .. acc.rbg + p.rbgs - 1,
                            slot |-> pos, left |-> FeedbackDelay[pos]]}]

\* Mutant: a UE is served twice in a beam.
FitsAgain(acc, f, symPerBeam) ==
  Area(acc.procs[f.p]) <= (Bandwidth - acc.rbg) * symPerBeam

\* Mutant: a block that needs all that is left is buffered.
FitsWithRoom(acc, f, symPerBeam) ==
  /\ f.p[1] \notin acc.served
  /\ Area(acc.procs[f.p]) < (Bandwidth - acc.rbg) * symPerBeam

Fits(acc, f, symPerBeam) ==
  /\ f.p[1] \notin acc.served
  /\ Area(acc.procs[f.p]) <= (Bandwidth - acc.rbg) * symPerBeam

Visited(acc, f, symPerBeam) ==
  IF Fits(acc, f, symPerBeam) THEN Retransmitted(acc, f, symPerBeam)
  ELSE Buffered(acc, f)

ServeBeam(acc, fb, symPerBeam) ==
  LET visited[i \in 0 .. Len(fb)] ==
        IF i = 0 THEN [acc EXCEPT !.served = {}]
        ELSE Visited(visited[i - 1], fb[i], symPerBeam)
      after == visited[Len(fb)]
  IN  IF after.served = {} THEN after
      ELSE [after EXCEPT !.rbg = 0, !.sym = @ + symPerBeam]

ScheduleDlHarq(procs, active) ==
  LET symPerBeam == DlSymbols[pos] \div Len(active.order)
      served[i \in 0 .. Len(active.order)] ==
        IF i = 0
        THEN [procs |-> procs, retx |-> <<>>, blocks |-> {}, rbg |-> 0,
              sym |-> 0, served |-> {}]
        ELSE ServeBeam(served[i - 1], active.list[active.order[i]], symPerBeam)
  IN  served[Len(active.order)]

\* GetSymPerBeam: the symbols left are divided among the beams; a beam whose
\* UEs were all served above can still get some.
GetSymPerBeam(order, symAvail) ==
  {f \in [ToSet(order) -> 0 .. symAvail] :
    order # <<>> => Total([i \in DOMAIN order |-> f[order[i]]]) = symAvail}

\* The RBGs of the UEs of a beam, and the symbols of the beams that are served.
Rbgs(assigned, beam) ==
  [i \in DOMAIN UeSeq |->
    IF UeSeq[i] \in DOMAIN assigned /\ BeamOf[UeSeq[i]] = beam
    THEN assigned[UeSeq[i]].rbgs ELSE 0]
Symbols(assigned, symPerBeam, order) ==
  [i \in DOMAIN order |->
    IF order[i] \in BeamsOf(DOMAIN assigned) THEN symPerBeam[order[i]] ELSE 0]

\* AssignDLRBG, the UEs that get a new block: on how many RBGs, on which
\* streams, and how much of their data it takes.
AssignDLRBG(ues, symPerBeam) ==
  LET Assigned == [rbgs : 1 .. Bandwidth, sent : (SUBSET Stream) \ {{}},
                   units : 1 .. MaxReports]
  IN  {a \in UNION {[S -> Assigned] : S \in SUBSET ues} :
        /\ \A u \in DOMAIN a : symPerBeam[BeamOf[u]] > 0 /\ a[u].units <= data[u]
        /\ \A beam \in BeamsOf(DOMAIN a) : Total(Rbgs(a, beam)) <= Bandwidth}

FirstAvailableId(procs, u) ==
  Min({h \in 0 .. NumHarq - 1 : ~IsActive(procs, <<u, h>>)})

\* The block of a UE: its beam starts where the beams served before it end,
\* and it on the RBG after those of the UEs before it.
NewBlock(procs, u, assigned, symPerBeam, order, start) ==
  LET beam == BeamOf[u]
      tb == created + Cardinality({v \in DOMAIN assigned :
                                    Place(UeSeq, v) <= Place(UeSeq, u)})
      first == PartialSums(Rbgs(assigned, beam))[Place(UeSeq, u) - 1]
      sums == PartialSums(Symbols(assigned, symPerBeam, order))
  IN  [p |-> <<u, FirstAvailableId(procs, u)>>, tb |-> tb,
       pkts |-> [s \in Stream |-> IF s \in assigned[u].sent THEN tb ELSE 0],
       sent |-> assigned[u].sent,
       start |-> start + sums[Place(order, beam) - 1],
       sym |-> symPerBeam[beam],
       rbgs |-> first .. first + assigned[u].rbgs - 1,
       slot |-> pos, left |-> FeedbackDelay[pos]]

Started(b) == [status |-> "WAITING_FEEDBACK", timer |-> 0, tb |-> b.tb,
               rv |-> [s \in Stream |-> 0], sent |-> b.sent,
               rbgs |-> Cardinality(b.rbgs), sym |-> b.sym]

\* DoScheduleDlData: at most one DCI for each UE, so those in harq.blocks get
\* no new data.
DoScheduleDlData(harq, order, symPerBeam, assigned) ==
  {NewBlock(harq.procs, u, assigned, symPerBeam, order, harq.sym) :
    u \in DOMAIN assigned}

Elapsed == {[b EXCEPT !.left = @ - 1] : b \in inFlight}
NoFeedbackDue == \A b \in inFlight : b.left > 0

\* The slot indication of the gNB MAC and the call of the scheduler in it.
DoSlotDlIndication ==
  LET procs1 == ResetExpiredHARQ
      fb1 == Relevant(procs1, MergeHARQ)
      procs2 == ProcessHARQFeedbacks(procs1, fb1)
      fb2 == Nacked(procs1, fb1)
      none == [procs |-> procs2, retx |-> <<>>, blocks |-> {}, sym |-> 0]
  IN  /\ pos \in DlPattern /\ NoFeedbackDue
      /\ \E harq \in IF fb2 = <<>> THEN {none}
                      ELSE {ScheduleDlHarq(procs2, a) : a \in ComputeActiveHarq(procs2, fb2)} :
          LET active == Active(procs2)
              rest == active \ {b.p[1] : b \in harq.blocks}
              beams == BeamsOf(active)
          IN  \E order \in SetToSeqs(beams) :
                \E symPerBeam \in GetSymPerBeam(order, DlSymbols[pos] - harq.sym) :
                \E assigned \in AssignDLRBG(rest, symPerBeam) :
                  LET new == DoScheduleDlData(harq, order, symPerBeam, assigned)
                  IN  /\ process' = [p \in Processes |->
                           IF \E b \in new : b.p = p
                           THEN Started(CHOOSE b \in new : b.p = p)
                           ELSE harq.procs[p]]
                      /\ burst' = [p \in Processes |->
                           IF \E b \in new : b.p = p
                           THEN (CHOOSE b \in new : b.p = p).pkts
                           ELSE burst[p]]
                      /\ data' = [u \in Ue |->
                           IF u \in DOMAIN assigned THEN data[u] - assigned[u].units
                           ELSE data[u]]
                      /\ inFlight' = Elapsed \cup harq.blocks \cup new
                      /\ created' = created + Cardinality(new)
                      /\ toRetransmit' = harq.retx
      /\ received' = <<>>
      /\ pos' = (pos + 1) % Length
      /\ UNCHANGED reported

\* A slot in which no downlink slot is prepared: the scheduler's timers stand.
SlotWithoutDl ==
  /\ pos \notin DlPattern /\ NoFeedbackDue
  /\ pos' = (pos + 1) % Length
  /\ inFlight' = Elapsed
  /\ UNCHANGED <<data, process, toRetransmit, burst, received, created, reported>>

Next ==
  \/ \E u \in Ue : DoReportBufferStatus(u)
  \/ DoDlHarqFeedback
  \/ DoSlotDlIndication
  \/ SlotWithoutDl

Spec == Init /\ [][Next]_vars

\* Slots follow each other, and a UE answers every block it was sent.  A step
\* is a slot indication exactly if it changes pos, and one is enabled whenever
\* no feedback is due.
NextSlot == NoFeedbackDue /\ pos' = (pos + 1) % Length
FairSpec == Spec /\ WF_vars(DoDlHarqFeedback) /\ WF_pos(NextSlot)

-----------------------------------------------------------------------------
\* What the gNB waits for is what it asked for: a block in flight is that of
\* its process, which waits for its feedback, with the streams of its DCI, and
\* every stream sent, again or for the first time, carries the packets of the
\* block: none is empty and none is of an earlier block of the process.
InFlightIsCurrent ==
  \A b \in inFlight :
    /\ process[b.p].status = "WAITING_FEEDBACK"
    /\ process[b.p].tb = b.tb /\ process[b.p].sent = b.sent
    /\ \A s \in b.sent : b.pkts[s] = b.tb

\* What the scheduler can still hear of process p: the feedback of a block in
\* flight, feedback received or feedback buffered.
Expected(p) ==
  {<<"in flight", b>> : b \in {x \in inFlight : x.p = p}}
    \cup {<<"received", i>> : i \in {j \in DOMAIN received : received[j].p = p}}
    \cup {<<"buffered", i>> : i \in {j \in DOMAIN toRetransmit : toRetransmit[j].p = p}}

\* No NACK is lost and none counts twice: the scheduler waits for exactly one
\* of the block in flight, feedback received and feedback buffered.
NackIsKept ==
  \A p \in Processes :
    Cardinality(Expected(p)) = IF IsActive(process, p) THEN 1 ELSE 0

\* The blocks of a slot are of different UEs, lie within its symbols and do
\* not overlap in the plane of symbols and RBGs.
BlocksAreDisjoint ==
  \A b \in inFlight :
    /\ b.start + b.sym <= DlSymbols[b.slot]
    /\ \A c \in inFlight \ {b} :
         b.slot = c.slot /\ b.left = c.left =>
           /\ b.p[1] # c.p[1]
           /\ \/ b.start + b.sym <= c.start \/ c.start + c.sym <= b.start
              \/ b.rbgs \cap c.rbgs = {}

\* Process p no longer carries block t.
Finished(p, t) == process[p].tb # t

\* A block is retransmitted until it is decoded or its versions are used up.
\* ScheduleDlHarq breaks this: it divides the symbols among the beams, and a
\* block that needs more than its beam's share is buffered with its timer
\* reset, in every slot in which another beam has one, too.
BlocksFinish ==
  \A p \in Processes, t \in 1 .. MaxReports : ~Finished(p, t) ~> Finished(p, t)

\* Feedback of two beams has been buffered.
BeamsCompete ==
  \E i, j \in 1 .. Len(toRetransmit) :
    BeamOf[toRetransmit[i].p[1]] # BeamOf[toRetransmit[j].p[1]]

\* Nothing else prevents it: with the retransmissions of one beam only, those
\* that fit no slot together are served one after the other.
BlocksFinishUnlessBeamsCompete ==
  \A p \in Processes, t \in 1 .. MaxReports :
    ~Finished(p, t) ~> Finished(p, t) \/ BeamsCompete

-----------------------------------------------------------------------------
(* The abstract specification this one implements.                         *)

PlaceOf(p) ==
  IF ~IsActive(process, p) THEN "free"
  ELSE IF \E b \in inFlight : b.p = p THEN "sent"
  ELSE "answered"

\* The streams that were sent, or of these those that were not decoded.
FeedbackOf(p) == {f \in ToSet(received) \cup ToSet(toRetransmit) : f.p = p}
PartsOf(p) ==
  IF PlaceOf(p) = "answered" THEN UNION {f.nacks : f \in FeedbackOf(p)}
  ELSE process[p].sent

\* The streams that are sent have one version.
Version(q) ==
  IF q.sent = {} THEN 0
  ELSE CHOOSE rv \in 0 .. MaxRv : \A s \in q.sent : q.rv[s] = rv

StateOf(p) == [at |-> PlaceOf(p), parts |-> PartsOf(p), rv |-> Version(process[p])]

Harq == INSTANCE StopAndWait WITH
  Process <- Processes, Part <- Stream, state <- [p \in Processes |-> StateOf(p)]

\* However feedback is merged and buffered, timers run and beams compete, the
\* streams that were not decoded, and no others, are repeated until all are
\* decoded or their versions are used up, and only then is the process used for
\* another block.
ImplementsStopAndWait == Harq!Spec
=============================================================================
