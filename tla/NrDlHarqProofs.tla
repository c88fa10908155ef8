----------------------------- MODULE NrDlHarqProofs -----------------------------
(***************************************************************************)
(* Proofs about NrDlHarq, for any number of UEs, beams, streams, HARQ      *)
(* processes and RBGs and any TDD pattern.  The argument: an active        *)
(* process has exactly one block in flight, feedback received or feedback  *)
(* buffered (OneThing, Kept), which is about the block it holds and whose  *)
(* packets are still in the burst of the MAC (Current), and its timer      *)
(* cannot expire before the feedback is dealt with (InTime).  The last two *)
(* sections show that NrDlHarq implements StopAndWait: the streams a       *)
(* process sends have one version, and only what was sent is NACKed        *)
(* (Uniform).                                                              *)
(***************************************************************************)
EXTENDS NrDlHarq, ListProofs

\* No process has two entries in a list of feedback.
OncePerProcess(fb) == \A i, j \in DOMAIN fb : fb[i].p = fb[j].p => i = j

OneThing ==
  /\ \A x, y \in inFlight : x.p = y.p => x = y
  /\ OncePerProcess(received) /\ OncePerProcess(toRetransmit)
  /\ \A i \in DOMAIN received, j \in DOMAIN toRetransmit :
       received[i].p # toRetransmit[j].p
  /\ \A x \in inFlight : /\ \A i \in DOMAIN received : received[i].p # x.p
                         /\ \A i \in DOMAIN toRetransmit : toRetransmit[i].p # x.p

HasOne(p) ==
  \/ \E b \in inFlight : b.p = p
  \/ \E i \in DOMAIN received : received[i].p = p
  \/ \E i \in DOMAIN toRetransmit : toRetransmit[i].p = p

Kept == \A p \in Processes : IsActive(process, p) <=> HasOne(p)

\* A process that is in use has resources to be sent again on.
Sized(procs) ==
  \A p \in Processes : IsActive(procs, p) => procs[p].rbgs > 0 /\ procs[p].sym > 0

\* The calls of the scheduler in the n slots after position p.
Calls(p, n) == {i \in 1 .. n : (p + i) % Length \in DlPattern}

\* The slots since a block was sent.
Age(b) == FeedbackDelay[b.slot] - b.left

InTime ==
  /\ \A b \in inFlight :
       /\ b.slot \in DlPattern /\ b.left <= FeedbackDelay[b.slot]
       /\ pos = (b.slot + Age(b) + 1) % Length
       /\ process[b.p].timer <= Cardinality(Calls(b.slot, Age(b)))
  /\ \A i \in DOMAIN received : process[received[i].p].timer < NumHarq
  /\ \A i \in DOMAIN toRetransmit : process[toRetransmit[i].p].timer < NumHarq

\* The burst of the process of f has the packets that f is about.
HasPackets(procs, f) == \A s \in f.nacks : burst[f.p][s] = procs[f.p].tb

Current ==
  /\ \A b \in inFlight :
       /\ process[b.p].status = "WAITING_FEEDBACK"
       /\ process[b.p].tb = b.tb /\ process[b.p].sent = b.sent
       /\ \A s \in b.sent : b.pkts[s] = b.tb /\ burst[b.p][s] = b.tb
  /\ \A i \in DOMAIN received : HasPackets(process, received[i])
  /\ \A i \in DOMAIN toRetransmit : HasPackets(process, toRetransmit[i])

DlInv ==
  /\ TypeOK /\ OneThing /\ Kept /\ Sized(process) /\ InTime /\ Current
  /\ BlocksAreDisjoint

-----------------------------------------------------------------------------
\* Helpers of the model.

LEMMA UeFinite == IsFiniteSet(Ue)
<1>1. UeSeq \in Surjection(1 .. Len(UeSeq), Ue)
  <2>1. UeSeq \in Seq(Ue)
    BY DlHarqAssumption
  <2>2. UeSeq \in [1 .. Len(UeSeq) -> Ue] /\ DOMAIN UeSeq = 1 .. Len(UeSeq)
    BY <2>1
  <2>3. \A u \in Ue : \E i \in 1 .. Len(UeSeq) : UeSeq[i] = u
    BY <2>2 DEF Ue, ToSet
  <2> QED BY <2>2, <2>3 DEF Surjection
<1>2. IsFiniteSet(1 .. Len(UeSeq))
  <2>1. Len(UeSeq) \in Nat
    BY DlHarqAssumption
  <2> QED BY <2>1, FS_Interval
<1> QED BY <1>1, <1>2, FS_Surjection

\* An order of a finite set: each of its members once.
IsOrder(o, S) ==
  /\ o \in Seq(S)
  /\ \A i, j \in DOMAIN o : o[i] = o[j] => i = j
  /\ \A x \in S : \E i \in DOMAIN o : o[i] = x

LEMMA OrderFacts ==
  ASSUME NEW S, IsFiniteSet(S), NEW o \in SetToSeqs(S)
  PROVE  IsOrder(o, S)
<1> DEFINE n == Cardinality(S)
<1>1. n \in Nat
  BY FS_CardinalityType
<1>2. o \in [1 .. n -> S] /\ \A i, j \in 1 .. n : i # j => o[i] # o[j]
  BY DEF SetToSeqs
<1> HIDE DEF n
<1>3. o \in Injection(1 .. n, S)
  BY <1>2 DEF Injection, IsInjective
<1>4. Cardinality(1 .. n) = n
  BY <1>1, FS_Interval
<1>5. o \in Surjection(1 .. n, S)
  BY <1>3, <1>4, FS_Injection DEF n
<1>6. \A x \in S : \E i \in 1 .. n : o[i] = x
  BY <1>5 DEF Surjection
<1>7. DOMAIN o = 1 .. n /\ o \in Seq(S)
  BY <1>1, <1>2
<1> QED BY <1>2, <1>6, <1>7 DEF IsOrder

\* Rounding up: as many RBGs as are left suffice, and one is needed.
LEMMA CeilDivFacts ==
  ASSUME NEW a \in Nat, NEW b \in Nat, NEW c \in Nat, c > 0, a > 0, a <= b * c
  PROVE  CeilDiv(a, c) \in 1 .. b
<1> DEFINE m == a + c - 1
           q == m \div c
<1>1. m \in Nat /\ m >= c
  OBVIOUS
<1>2. q \in Nat /\ q * c <= m /\ m < q * c + c
  BY <1>1
<1> HIDE DEF q
<1>3. q # 0
  BY <1>1, <1>2
<1>4. CASE q <= b
  BY <1>2, <1>3, <1>4 DEF CeilDiv, q
<1>5. CASE q > b
  <2>1. PICK d \in Nat : q = b + 1 + d
    <3>1. q - b - 1 \in Nat /\ q = b + 1 + (q - b - 1)
      BY <1>2, <1>5
    <3> QED BY <3>1
  <2>2. q * c = b * c + c + d * c
    BY <2>1
  <2>3. d * c \in Nat /\ b * c \in Nat
    BY <2>1
  <2>4. q * c > m
    BY <2>2, <2>3
  <2> QED BY <1>2, <2>4
<1> QED BY <1>4, <1>5, <1>2

\* The next position of a cycle.
LEMMA NextModulo ==
  ASSUME NEW x \in Nat, NEW l \in Nat, l > 0
  PROVE  ((x % l) + 1) % l = (x + 1) % l
<1> DEFINE q == x \div l
           r == x % l
<1>1. q \in Nat /\ r \in 0 .. l - 1 /\ x = q * l + r
  OBVIOUS
<1> HIDE DEF q, r
<1>2. CASE r + 1 < l
  <2>1. x + 1 = q * l + (r + 1)
    BY <1>1
  <2>2. (q * l + (r + 1)) % l = r + 1
    BY <1>1, <1>2
  <2>3. (r + 1) % l = r + 1
    BY <1>1, <1>2
  <2> QED BY <2>1, <2>2, <2>3 DEF r
<1>3. CASE r + 1 = l
  <2>1. x + 1 = (q + 1) * l
    BY <1>1, <1>3
  <2>2. ((q + 1) * l) % l = 0
    BY <1>1
  <2>3. l % l = 0
    OBVIOUS
  <2> QED BY <2>1, <2>2, <2>3, <1>3 DEF r
<1> QED BY <1>1, <1>2, <1>3

\* What the type invariant says of a process, a block and feedback.
LEMMA ProcessFacts ==
  ASSUME NEW q \in Process
  PROVE  /\ q.status \in {"INACTIVE", "WAITING_FEEDBACK", "RECEIVED_FEEDBACK"}
         /\ q.timer \in Nat /\ q.timer <= NumHarq /\ q.tb \in Nat
         /\ q.rv \in [Stream -> 0 .. MaxRv] /\ q.sent \subseteq Stream
         /\ q.rbgs \in Nat /\ q.rbgs <= Bandwidth /\ q.sym \in 0 .. MaxSymbols
         /\ q.sym \in Nat
BY SMTT(40), DlHarqAssumption DEF Process, MaxSymbols

LEMMA BlockFacts ==
  ASSUME NEW b \in Block
  PROVE  /\ b.p \in Processes /\ b.p[1] \in Ue /\ b.tb \in Nat /\ b.sent \subseteq Stream
         /\ b.slot \in Pattern /\ b.slot \in Nat /\ b.left \in Nat
         /\ b.start \in Nat /\ b.sym \in Nat
         /\ FeedbackDelay[b.slot] \in Nat /\ FeedbackDelay[b.slot] > 0
<1>1. b.p \in Processes /\ b.slot \in Pattern
  BY DEF Block
<1>2. b.p[1] \in Ue
  BY <1>1 DEF Processes
<1>3. FeedbackDelay[b.slot] \in Nat \ {0}
  BY <1>1, DlHarqAssumption
<1>4. b.slot \in Nat
  BY <1>1, DlHarqAssumption DEF Pattern
<1>5. b.start \in Nat /\ b.sym \in Nat
  <2>1. b.start \in 0 .. 14 /\ b.sym \in 1 .. 14
    BY DEF Block, MaxSymbols
  <2> QED BY <2>1
<1>6. b.tb \in Nat /\ b.sent \subseteq Stream /\ b.left \in Nat
  BY DEF Block
<1>7. FeedbackDelay[b.slot] \in Nat /\ FeedbackDelay[b.slot] > 0
  BY <1>3
<1> QED BY <1>1, <1>2, <1>4, <1>5, <1>6, <1>7

LEMMA FeedbackFacts ==
  ASSUME NEW f \in Feedback
  PROVE  /\ f.p \in Processes /\ f.p[1] \in Ue /\ f.nacks \subseteq Stream
<1>1. f.p \in Processes /\ f.nacks \subseteq Stream
  BY DEF Feedback
<1> QED BY <1>1 DEF Processes

LEMMA IdleFacts == Idle \in Process /\ Idle.status = "INACTIVE"
<1>1. \A n \in Nat : 0 \in 0 .. n
  OBVIOUS
<1>2. [s \in Stream |-> 0] \in [Stream -> 0 .. MaxRv]
  BY <1>1, DlHarqAssumption
<1> QED BY <1>1, <1>2, DlHarqAssumption DEF Idle, Process, MaxSymbols

\* The calls of the scheduler while a block is in flight.
LEMMA CallsFacts ==
  ASSUME NEW p \in Nat, NEW n \in Nat
  PROVE  /\ IsFiniteSet(Calls(p, n)) /\ Cardinality(Calls(p, n)) \in Nat
         /\ \A m \in Nat : m <= n => Cardinality(Calls(p, m)) <= Cardinality(Calls(p, n))
         /\ (p + (n + 1)) % Length \in DlPattern =>
              Cardinality(Calls(p, n + 1)) = Cardinality(Calls(p, n)) + 1
         /\ (p + (n + 1)) % Length \notin DlPattern => Calls(p, n + 1) = Calls(p, n)
<1>1. IsFiniteSet(1 .. n) /\ Calls(p, n) \in SUBSET (1 .. n)
  BY FS_Interval DEF Calls
<1>2. IsFiniteSet(Calls(p, n)) /\ Cardinality(Calls(p, n)) \in Nat
  BY <1>1, FS_Subset, FS_CardinalityType
<1>3. ASSUME NEW m \in Nat, m <= n
      PROVE  Cardinality(Calls(p, m)) <= Cardinality(Calls(p, n))
  <2>1. Calls(p, m) \in SUBSET Calls(p, n)
    BY <1>3 DEF Calls
  <2> QED BY <2>1, <1>2, FS_Subset
<1>4. \A i : i \in 1 .. n + 1 <=> i \in 1 .. n \/ i = n + 1
  OBVIOUS
<1>5. ASSUME (p + (n + 1)) % Length \in DlPattern
      PROVE  Cardinality(Calls(p, n + 1)) = Cardinality(Calls(p, n)) + 1
  <2>1. Calls(p, n + 1) = Calls(p, n) \cup {n + 1}
    BY <1>4, <1>5 DEF Calls
  <2>2. n + 1 \notin Calls(p, n)
    BY DEF Calls
  <2> QED BY <2>1, <2>2, <1>2, FS_AddElement
<1>6. (p + (n + 1)) % Length \notin DlPattern => Calls(p, n + 1) = Calls(p, n)
  BY <1>4 DEF Calls
<1> QED BY <1>2, <1>3, <1>5, <1>6

\* A block in flight is answered in time.
LEMMA AgeFacts ==
  ASSUME TypeOK, InTime, NEW b \in inFlight
  PROVE  /\ Age(b) \in Nat /\ b.slot \in Nat /\ b.left \in Nat
         /\ pos = (b.slot + (Age(b) + 1)) % Length
         /\ process[b.p].timer \in Nat
         /\ process[b.p].timer <= Cardinality(Calls(b.slot, Age(b)))
         /\ process[b.p].timer < NumHarq
<1>1. b \in Block /\ process[b.p] \in Process
  <2>1. b \in Block
    BY DEF TypeOK
  <2> QED BY <2>1, BlockFacts DEF TypeOK
<1> DEFINE d == FeedbackDelay[b.slot]
<1>2. /\ b.slot \in Nat /\ b.left \in Nat /\ d \in Nat
      /\ process[b.p].timer \in Nat
  BY <1>1, BlockFacts, ProcessFacts
<1>3. /\ b.slot \in DlPattern /\ b.left <= d
      /\ pos = (b.slot + Age(b) + 1) % Length
      /\ process[b.p].timer <= Cardinality(Calls(b.slot, Age(b)))
  BY DEF InTime
<1>4. Age(b) = d - b.left
  BY DEF Age
<1> HIDE DEF d
<1>5. Age(b) \in Nat /\ Age(b) <= d
  BY <1>2, <1>3, <1>4
<1>6. b.slot + Age(b) + 1 = b.slot + (Age(b) + 1)
  BY <1>2, <1>5
<1>7. Cardinality(Calls(b.slot, Age(b))) <= Cardinality(Calls(b.slot, d))
  BY <1>2, <1>5, CallsFacts
<1>8. Cardinality(Calls(b.slot, d)) < NumHarq
  BY <1>3, DlTimerAssumption DEF Calls, d
<1>9. /\ Cardinality(Calls(b.slot, d)) \in Nat
      /\ Cardinality(Calls(b.slot, Age(b))) \in Nat /\ NumHarq \in Nat
  BY <1>2, <1>5, CallsFacts, DlHarqAssumption
<1>10. process[b.p].timer < NumHarq
  BY <1>2, <1>3, <1>7, <1>8, <1>9
<1> QED BY <1>2, <1>3, <1>5, <1>6, <1>10

-----------------------------------------------------------------------------
(***************************************************************************)
(* A call of the scheduler, up to ProcessHARQFeedbacks: the processes and  *)
(* the feedback in between.                                                *)
(***************************************************************************)
Procs1 == ResetExpiredHARQ
Fb1 == Relevant(Procs1, MergeHARQ)
Procs2 == ProcessHARQFeedbacks(Procs1, Fb1)
Fb2 == Nacked(Procs1, Fb1)

\* The process differs in its timer only.
SameBlock(q, r) ==
  /\ q.status = r.status /\ q.tb = r.tb /\ q.rv = r.rv /\ q.sent = r.sent
  /\ q.rbgs = r.rbgs /\ q.sym = r.sym

\* An active process has something under way whose timer has not expired.
LEMMA ActiveInTime ==
  ASSUME TypeOK, Kept, InTime, NEW p \in Processes, IsActive(process, p)
  PROVE  process[p].timer < NumHarq
<1>1. HasOne(p)
  BY DEF Kept
<1>2. CASE \E b \in inFlight : b.p = p
  BY <1>2, AgeFacts
<1>3. CASE ~\E b \in inFlight : b.p = p
  BY <1>1, <1>3 DEF HasOne, InTime
<1> QED BY <1>2, <1>3

\* ResetExpiredHARQ counts and never erases a process.
LEMMA ResetFacts ==
  ASSUME TypeOK, Kept, InTime
  PROVE  /\ Procs1 \in [Processes -> Process]
         /\ \A p \in Processes :
              /\ SameBlock(Procs1[p], process[p])
              /\ IsActive(process, p) => Procs1[p].timer = process[p].timer + 1
<1>1. ASSUME NEW p \in Processes
      PROVE  /\ Procs1[p] \in Process
             /\ SameBlock(Procs1[p], process[p])
             /\ IsActive(process, p) => Procs1[p].timer = process[p].timer + 1
  <2>1. process[p] \in Process
    BY DEF TypeOK
  <2>2. CASE ~IsActive(process, p)
    <3>1. Procs1[p] = process[p]
      BY <2>2 DEF Procs1, ResetExpiredHARQ
    <3> QED BY <2>1, <2>2, <3>1 DEF SameBlock
  <2>3. CASE IsActive(process, p)
    <3>1. process[p].timer < NumHarq /\ process[p].timer \in Nat
      BY <2>1, <2>3, ActiveInTime, ProcessFacts
    <3>2. Procs1[p] = [process[p] EXCEPT !.timer = process[p].timer + 1]
      BY <2>3, <3>1 DEF Procs1, ResetExpiredHARQ
    <3>3. process[p].timer + 1 \in 0 .. NumHarq
      BY <3>1, DlHarqAssumption
    <3>4. Procs1[p] \in Process /\ Procs1[p].timer = process[p].timer + 1
      BY <2>1, <3>2, <3>3 DEF Process
    <3>5. SameBlock(Procs1[p], process[p])
      BY <2>1, <3>2 DEF Process, SameBlock
    <3> QED BY <3>4, <3>5
  <2> QED BY <2>2, <2>3
<1>2. Procs1 = [p \in Processes |-> Procs1[p]]
  BY DEF Procs1, ResetExpiredHARQ
<1> QED BY <1>1, <1>2

\* fb is the feedback received and buffered.
IsMerged(fb) ==
  /\ \A k \in DOMAIN fb : \/ \E i \in DOMAIN received : received[i] = fb[k]
                          \/ \E i \in DOMAIN toRetransmit : toRetransmit[i] = fb[k]
  /\ \A i \in DOMAIN received : \E k \in DOMAIN fb : fb[k] = received[i]
  /\ \A i \in DOMAIN toRetransmit : \E k \in DOMAIN fb : fb[k] = toRetransmit[i]

LEMMA MergeFacts ==
  ASSUME TypeOK, OneThing
  PROVE  MergeHARQ \in Seq(Feedback) /\ OncePerProcess(MergeHARQ) /\ IsMerged(MergeHARQ)
<1> DEFINE n == Len(toRetransmit)
           m == Len(received)
           s == MergeHARQ
<1>1. /\ received \in Seq(Feedback) /\ DOMAIN received = 1 .. m /\ m \in Nat
      /\ toRetransmit \in Seq(Feedback) /\ DOMAIN toRetransmit = 1 .. n /\ n \in Nat
  BY DEF TypeOK
<1>2. s = toRetransmit \o received
  BY DEF MergeHARQ
<1> HIDE DEF s
<1>3. s \in Seq(Feedback) /\ DOMAIN s = 1 .. n + m
  BY <1>1, <1>2
<1>4. /\ \A i \in 1 .. n : s[i] = toRetransmit[i] /\ i \in DOMAIN s
      /\ \A i \in n + 1 .. n + m : s[i] = received[i - n] /\ i - n \in 1 .. m
      /\ \A i \in 1 .. m : s[n + i] = received[i] /\ n + i \in DOMAIN s
      /\ \A i \in DOMAIN s : i \in 1 .. n \/ i \in n + 1 .. n + m
  BY <1>1, <1>2, <1>3
<1>5. ASSUME NEW i \in DOMAIN s, NEW j \in DOMAIN s, s[i].p = s[j].p
      PROVE  i = j
  <2>1. CASE i \in 1 .. n /\ j \in 1 .. n
    BY <2>1, <1>1, <1>4, <1>5 DEF OneThing, OncePerProcess
  <2>2. CASE i \in n + 1 .. n + m /\ j \in n + 1 .. n + m
    <3>1. /\ received[i - n].p = received[j - n].p
          /\ i - n \in DOMAIN received /\ j - n \in DOMAIN received
      BY <2>2, <1>1, <1>4, <1>5
    <3>2. i - n = j - n
      BY <3>1 DEF OneThing, OncePerProcess
    <3> QED BY <3>2, <2>2, <1>1
  <2>3. CASE i \in 1 .. n /\ j \in n + 1 .. n + m
    <3>1. /\ toRetransmit[i].p = received[j - n].p
          /\ i \in DOMAIN toRetransmit /\ j - n \in DOMAIN received
      BY <2>3, <1>1, <1>4, <1>5
    <3> QED BY <3>1 DEF OneThing
  <2>4. CASE j \in 1 .. n /\ i \in n + 1 .. n + m
    <3>1. /\ toRetransmit[j].p = received[i - n].p
          /\ j \in DOMAIN toRetransmit /\ i - n \in DOMAIN received
      BY <2>4, <1>1, <1>4, <1>5
    <3> QED BY <3>1 DEF OneThing
  <2> QED BY <2>1, <2>2, <2>3, <2>4, <1>4
<1>6. IsMerged(s)
  BY <1>1, <1>4 DEF IsMerged
<1> QED BY <1>3, <1>5, <1>6 DEF OncePerProcess, s

\* All of it is relevant.
LEMMA RelevantFacts ==
  ASSUME NEW fb \in Seq(Feedback), OncePerProcess(fb), NEW procs,
         \A k \in DOMAIN fb : IsActive(procs, fb[k].p)
  PROVE  /\ Relevant(procs, fb) \in Seq(Feedback)
         /\ OncePerProcess(Relevant(procs, fb))
         /\ \A k \in DOMAIN Relevant(procs, fb) :
              \E i \in DOMAIN fb : fb[i] = Relevant(procs, fb)[k]
         /\ \A i \in DOMAIN fb :
              \E k \in DOMAIN Relevant(procs, fb) : Relevant(procs, fb)[k] = fb[i]
<1> DEFINE n == Len(fb)
           ids == [i \in DOMAIN fb |-> i]
           A == {i \in DOMAIN fb : /\ IsActive(procs, fb[i].p)
                                   /\ \A j \in 1 .. i - 1 : fb[j].p # fb[i].p}
           first == Filter(ids, A)
           r == Relevant(procs, fb)
<1>1. n \in Nat /\ DOMAIN fb = 1 .. n
  OBVIOUS
<1>2. ids \in Seq(1 .. n) /\ DOMAIN ids = 1 .. n /\ \A i \in 1 .. n : ids[i] = i
  <2>1. ids \in [1 .. n -> 1 .. n]
    BY <1>1
  <2> QED BY <2>1, <1>1
<1>3. \A i \in 1 .. n : i \in A
  <2>1. ASSUME NEW i \in 1 .. n, NEW j \in 1 .. i - 1
        PROVE  fb[j].p # fb[i].p
    <3>1. j \in 1 .. n /\ j # i
      BY <1>1
    <3> QED BY <3>1, <1>1 DEF OncePerProcess
  <2> QED BY <2>1, <1>1
<1>4. r = [k \in DOMAIN first |-> fb[first[k]]]
  BY DEF Relevant
<1> HIDE DEF A, ids, r
<1>5. first \in Seq(1 .. n) /\ Keeps(first, ids, A)
  BY <1>2, FilterElements
<1> DEFINE key == [i \in 1 .. n |-> i]
<1>6. \A i, j \in DOMAIN ids : key[ids[i]] = key[ids[j]] => i = j
  BY <1>2
<1>7. \A i \in 1 .. n : key[i] = i
  OBVIOUS
<1> HIDE DEF key
<1>8. \A k, l \in DOMAIN first : key[first[k]] = key[first[l]] => k = l
  BY <1>2, <1>6, FilterDistinct
<1> HIDE DEF first
<1>9. DOMAIN first = 1 .. Len(first) /\ Len(first) \in Nat
      /\ \A k \in DOMAIN first : first[k] \in 1 .. n
  BY <1>5
<1>10. DOMAIN r = DOMAIN first /\ \A k \in DOMAIN r : r[k] = fb[first[k]]
  BY <1>4
<1>11. r \in Seq(Feedback)
  <2>1. \A k \in DOMAIN r : r[k] \in Feedback
    BY <1>1, <1>9, <1>10
  <2>2. r \in [1 .. Len(first) -> Feedback]
    BY <2>1, <1>4, <1>9, <1>10
  <2> QED BY <2>2, <1>9
<1>12. OncePerProcess(r)
  <2>1. ASSUME NEW k \in DOMAIN r, NEW l \in DOMAIN r, r[k].p = r[l].p
        PROVE  k = l
    <3>1. first[k] = first[l]
      BY <2>1, <1>1, <1>9, <1>10 DEF OncePerProcess
    <3> QED BY <3>1, <1>7, <1>8, <1>9, <1>10
  <2> QED BY <2>1 DEF OncePerProcess
<1>13. \A k \in DOMAIN r : \E i \in DOMAIN fb : fb[i] = r[k]
  BY <1>1, <1>9, <1>10
<1>14. \A i \in DOMAIN fb : \E k \in DOMAIN r : r[k] = fb[i]
  <2>1. ASSUME NEW i \in DOMAIN fb
        PROVE  \E k \in DOMAIN r : r[k] = fb[i]
    <3>1. i \in 1 .. n /\ ids[i] = i /\ i \in DOMAIN ids /\ ids[i] \in A
      BY <1>1, <1>2, <1>3
    <3>2. PICK k \in DOMAIN first : first[k] = i
      BY <3>1, <1>5 DEF Keeps
    <3> QED BY <3>2, <1>10
  <2> QED BY <2>1
<1> QED BY <1>11, <1>12, <1>13, <1>14 DEF r

LEMMA Fb1Facts ==
  ASSUME TypeOK, OneThing, Kept, InTime
  PROVE  /\ Fb1 \in Seq(Feedback) /\ OncePerProcess(Fb1) /\ IsMerged(Fb1)
<1> DEFINE m == MergeHARQ
<1>1. m \in Seq(Feedback) /\ OncePerProcess(m) /\ IsMerged(m)
  BY MergeFacts
<1> HIDE DEF m
<1>2. ASSUME NEW k \in DOMAIN m
      PROVE  IsActive(Procs1, m[k].p)
  <2>1. m[k].p \in Processes
    <3>1. m[k] \in Feedback
      BY <1>1
    <3> QED BY <3>1, FeedbackFacts
  <2>2. HasOne(m[k].p)
    BY <1>1 DEF IsMerged, HasOne
  <2>3. IsActive(process, m[k].p)
    BY <2>1, <2>2 DEF Kept
  <2> QED BY <2>1, <2>3, ResetFacts DEF SameBlock, IsActive
<1>3. Fb1 = Relevant(Procs1, m)
  BY DEF Fb1, m
<1>4. /\ Fb1 \in Seq(Feedback) /\ OncePerProcess(Fb1)
      /\ \A k \in DOMAIN Fb1 : \E i \in DOMAIN m : m[i] = Fb1[k]
      /\ \A i \in DOMAIN m : \E k \in DOMAIN Fb1 : Fb1[k] = m[i]
  BY <1>1, <1>2, <1>3, RelevantFacts
<1>5. \A k \in DOMAIN Fb1 : \/ \E i \in DOMAIN received : received[i] = Fb1[k]
                            \/ \E i \in DOMAIN toRetransmit : toRetransmit[i] = Fb1[k]
  <2>1. ASSUME NEW k \in DOMAIN Fb1
        PROVE  \/ \E i \in DOMAIN received : received[i] = Fb1[k]
               \/ \E i \in DOMAIN toRetransmit : toRetransmit[i] = Fb1[k]
    <3>1. PICK i \in DOMAIN m : m[i] = Fb1[k]
      BY <1>4
    <3> QED BY <3>1, <1>1 DEF IsMerged
  <2> QED BY <2>1
<1>6. ASSUME NEW i \in DOMAIN received
      PROVE  \E k \in DOMAIN Fb1 : Fb1[k] = received[i]
  <2>1. PICK j \in DOMAIN m : m[j] = received[i]
    BY <1>1 DEF IsMerged
  <2> QED BY <2>1, <1>4
<1>7. ASSUME NEW i \in DOMAIN toRetransmit
      PROVE  \E k \in DOMAIN Fb1 : Fb1[k] = toRetransmit[i]
  <2>1. PICK j \in DOMAIN m : m[j] = toRetransmit[i]
    BY <1>1 DEF IsMerged
  <2> QED BY <2>1, <1>4
<1> QED BY <1>4, <1>5, <1>6, <1>7 DEF IsMerged

\* What is left to retransmit: NACKs of blocks that have versions left.
LEMMA Fb2Facts ==
  ASSUME TypeOK, OneThing, Kept, InTime
  PROVE  /\ Fb2 \in Seq(Feedback) /\ OncePerProcess(Fb2)
         /\ \A k \in DOMAIN Fb2 : /\ ~Finishes(Procs1, Fb2[k])
                                  /\ \E i \in DOMAIN Fb1 : Fb1[i] = Fb2[k]
         /\ \A i \in DOMAIN Fb1 : ~Finishes(Procs1, Fb1[i]) =>
              \E k \in DOMAIN Fb2 : Fb2[k] = Fb1[i]
<1> DEFINE A == {f \in Feedback : ~Finishes(Procs1, f)}
           key == [f \in Feedback |-> f.p]
<1>1. Fb1 \in Seq(Feedback) /\ OncePerProcess(Fb1)
  BY Fb1Facts
<1>2. \A i \in DOMAIN Fb1 : Fb1[i] \in Feedback
  BY <1>1
<1>3. \A f \in Feedback : key[f] = f.p
  OBVIOUS
<1>4. Fb2 = Filter(Fb1, A)
  BY DEF Fb2, Nacked
<1> HIDE DEF A, key
<1>5. \A i, j \in DOMAIN Fb1 : key[Fb1[i]] = key[Fb1[j]] => i = j
  BY <1>1, <1>2, <1>3 DEF OncePerProcess
<1>6. Fb2 \in Seq(Feedback) /\ Keeps(Fb2, Fb1, A)
  BY <1>1, <1>4, FilterElements
<1>7. \A k, l \in DOMAIN Fb2 : key[Fb2[k]] = key[Fb2[l]] => k = l
  BY <1>1, <1>4, <1>5, FilterDistinct
<1>8. \A k \in DOMAIN Fb2 : Fb2[k] \in Feedback
  BY <1>6
<1>9. OncePerProcess(Fb2)
  BY <1>3, <1>7, <1>8 DEF OncePerProcess
<1>10. \A k \in DOMAIN Fb2 : /\ ~Finishes(Procs1, Fb2[k])
                             /\ \E i \in DOMAIN Fb1 : Fb1[i] = Fb2[k]
  BY <1>6 DEF Keeps, A
<1>11. \A i \in DOMAIN Fb1 : ~Finishes(Procs1, Fb1[i]) =>
         \E k \in DOMAIN Fb2 : Fb2[k] = Fb1[i]
  BY <1>2, <1>6 DEF Keeps, A
<1> QED BY <1>6, <1>9, <1>10, <1>11

\* Processes and feedback as ProcessHARQFeedbacks leaves them.
Processed ==
  /\ Procs2 \in [Processes -> Process] /\ Sized(Procs2)
  /\ Fb2 \in Seq(Feedback) /\ OncePerProcess(Fb2)
  /\ \A k \in DOMAIN Fb2 :
       /\ IsActive(Procs2, Fb2[k].p) /\ ~LastVersion(Procs2[Fb2[k].p])
       /\ HasPackets(Procs2, Fb2[k])
       /\ \A b \in inFlight : b.p # Fb2[k].p
  /\ \A p \in Processes : IsActive(Procs2, p) =>
       (\E b \in inFlight : b.p = p) \/ (\E k \in DOMAIN Fb2 : Fb2[k].p = p)
  /\ \A b \in inFlight : /\ SameBlock(Procs2[b.p], process[b.p])
                         /\ Procs2[b.p].timer = process[b.p].timer + 1

LEMMA ProcessedFacts ==
  ASSUME DlInv
  PROVE  Processed
<1> USE DEF DlInv
<1>1. /\ Procs1 \in [Processes -> Process]
      /\ \A p \in Processes :
           /\ SameBlock(Procs1[p], process[p])
           /\ IsActive(process, p) => Procs1[p].timer = process[p].timer + 1
  BY ResetFacts
<1>2. Fb1 \in Seq(Feedback) /\ OncePerProcess(Fb1) /\ IsMerged(Fb1)
  BY Fb1Facts
<1>3. /\ Fb2 \in Seq(Feedback) /\ OncePerProcess(Fb2)
      /\ \A k \in DOMAIN Fb2 : /\ ~Finishes(Procs1, Fb2[k])
                               /\ \E i \in DOMAIN Fb1 : Fb1[i] = Fb2[k]
      /\ \A i \in DOMAIN Fb1 : ~Finishes(Procs1, Fb1[i]) =>
           \E k \in DOMAIN Fb2 : Fb2[k] = Fb1[i]
  BY Fb2Facts
<1> DEFINE Gone(p) == \E i \in DOMAIN Fb1 : Fb1[i].p = p /\ Finishes(Procs1, Fb1[i])
           Heard(p) == \E i \in DOMAIN Fb1 : Fb1[i].p = p
           Again2(p) == [Procs1[p] EXCEPT !.status = "RECEIVED_FEEDBACK"]
<1>4. Procs2 = [p \in Processes |-> IF Gone(p) THEN Idle
                                    ELSE IF Heard(p) THEN Again2(p) ELSE Procs1[p]]
  BY DEF Procs2, ProcessHARQFeedbacks
<1>5. \A p \in Processes :
        /\ Again2(p) \in Process /\ Again2(p).status = "RECEIVED_FEEDBACK"
        /\ Again2(p).tb = Procs1[p].tb /\ Again2(p).rv = Procs1[p].rv
        /\ Again2(p).rbgs = Procs1[p].rbgs /\ Again2(p).sym = Procs1[p].sym
  <2>1. ASSUME NEW p \in Processes
        PROVE  /\ Again2(p) \in Process /\ Again2(p).status = "RECEIVED_FEEDBACK"
               /\ Again2(p).tb = Procs1[p].tb /\ Again2(p).rv = Procs1[p].rv
               /\ Again2(p).rbgs = Procs1[p].rbgs /\ Again2(p).sym = Procs1[p].sym
    <3>1. Procs1[p] \in Process
      BY <1>1
    <3> QED BY <3>1 DEF Process
  <2> QED BY <2>1
<1>6. \A p \in Processes : /\ Gone(p) => Procs2[p] = Idle
                           /\ ~Gone(p) /\ Heard(p) => Procs2[p] = Again2(p)
                           /\ ~Heard(p) => Procs2[p] = Procs1[p]
  BY <1>4
<1> HIDE DEF Again2
<1>7. Procs2 \in [Processes -> Process]
  <2>1. \A p \in Processes : Procs2[p] \in Process
    BY <1>1, <1>5, <1>6, IdleFacts
  <2> QED BY <2>1, <1>4
<1>8. ASSUME NEW p \in Processes, IsActive(Procs2, p)
      PROVE  /\ IsActive(process, p) /\ ~Gone(p)
             /\ Procs2[p].rbgs = process[p].rbgs /\ Procs2[p].sym = process[p].sym
             /\ (\E b \in inFlight : b.p = p) \/ (\E k \in DOMAIN Fb2 : Fb2[k].p = p)
  <2>1. ~Gone(p)
    BY <1>6, <1>8, IdleFacts DEF IsActive
  <2>2. CASE Heard(p)
    <3>1. PICK i \in DOMAIN Fb1 : Fb1[i].p = p
      BY <2>2
    <3>2. HasOne(p)
      BY <3>1, <1>2 DEF IsMerged, HasOne
    <3>3. \E k \in DOMAIN Fb2 : Fb2[k].p = p
      BY <2>1, <3>1, <1>3
    <3>4. Procs2[p].rbgs = Procs1[p].rbgs /\ Procs2[p].sym = Procs1[p].sym
      BY <2>1, <2>2, <1>5, <1>6
    <3> QED BY <2>1, <3>2, <3>3, <3>4, <1>1 DEF Kept, SameBlock
  <2>3. CASE ~Heard(p)
    <3>1. Procs2[p] = Procs1[p]
      BY <2>3, <1>6
    <3>2. IsActive(process, p)
      BY <3>1, <1>1, <1>8 DEF SameBlock, IsActive
    <3>3. HasOne(p)
      BY <3>2 DEF Kept
    <3>4. \E b \in inFlight : b.p = p
      BY <3>3, <2>3, <1>2 DEF HasOne, IsMerged
    <3> QED BY <2>1, <3>1, <3>2, <3>4, <1>1 DEF SameBlock
  <2> QED BY <2>2, <2>3
<1>9. Sized(Procs2)
  BY <1>8 DEF Sized
<1>10. ASSUME NEW k \in DOMAIN Fb2
       PROVE  /\ IsActive(Procs2, Fb2[k].p) /\ ~LastVersion(Procs2[Fb2[k].p])
              /\ HasPackets(Procs2, Fb2[k])
              /\ \A b \in inFlight : b.p # Fb2[k].p
  <2> DEFINE f == Fb2[k]
  <2>1. PICK i \in DOMAIN Fb1 : Fb1[i] = f
    BY <1>3
  <2>2. f \in Feedback /\ f.p \in Processes
    <3>1. f \in Feedback
      BY <1>3
    <3> QED BY <3>1, FeedbackFacts
  <2>3. ~Finishes(Procs1, f)
    BY <1>3
  <2> HIDE DEF f
  <2>4. ~Gone(f.p)
    <3>1. ASSUME NEW j \in DOMAIN Fb1, Fb1[j].p = f.p, Finishes(Procs1, Fb1[j])
          PROVE  FALSE
      <4>1. i = j
        BY <3>1, <2>1, <1>2 DEF OncePerProcess
      <4> QED BY <4>1, <3>1, <2>1, <2>3
    <3> QED BY <3>1
  <2>5. Procs2[f.p] = Again2(f.p)
    BY <2>1, <2>2, <2>4, <1>6
  <2>6. IsActive(Procs2, f.p)
    BY <2>2, <2>5, <1>5 DEF IsActive
  <2>7. ~LastVersion(Procs2[f.p])
    <3>1. ~LastVersion(Procs1[f.p])
      BY <2>3 DEF Finishes
    <3> QED BY <3>1, <2>2, <2>5, <1>5 DEF LastVersion
  <2>8. Procs2[f.p].tb = process[f.p].tb
    BY <2>2, <2>5, <1>1, <1>5 DEF SameBlock
  <2>9. /\ \/ \E j \in DOMAIN received : received[j] = f
           \/ \E j \in DOMAIN toRetransmit : toRetransmit[j] = f
    BY <2>1, <1>2 DEF IsMerged
  <2>10. HasPackets(process, f)
    BY <2>9 DEF Current
  <2>11. HasPackets(Procs2, f)
    BY <2>8, <2>10 DEF HasPackets
  <2>12. \A b \in inFlight : b.p # f.p
    BY <2>9 DEF OneThing
  <2> QED BY <2>6, <2>7, <2>11, <2>12 DEF f
<1>11. ASSUME NEW b \in inFlight
       PROVE  /\ SameBlock(Procs2[b.p], process[b.p])
              /\ Procs2[b.p].timer = process[b.p].timer + 1
  <2>1. b.p \in Processes
    <3>1. b \in Block
      BY DEF TypeOK
    <3> QED BY <3>1, BlockFacts
  <2>2. HasOne(b.p)
    BY DEF HasOne
  <2>3. IsActive(process, b.p)
    BY <2>1, <2>2 DEF Kept
  <2>4. ~Heard(b.p)
    <3>1. ASSUME NEW i \in DOMAIN Fb1, Fb1[i].p = b.p
          PROVE  FALSE
      BY <3>1, <1>2 DEF IsMerged, OneThing
    <3> QED BY <3>1
  <2> QED BY <2>1, <2>3, <2>4, <1>1, <1>6
<1> QED BY <1>3, <1>7, <1>8, <1>9, <1>10, <1>11 DEF Processed

-----------------------------------------------------------------------------
(***************************************************************************)
(* ScheduleDlHarq.  acc is what it has done once the feedback in done has  *)
(* been visited; the beams in earlier have been served.                    *)
(***************************************************************************)
Acc == [procs : [Processes -> Process], retx : Seq(Feedback), blocks : SUBSET Block,
        rbg : 0 .. Bandwidth, sym : 0 .. MaxSymbols, served : SUBSET Ue]

\* The process waits again, for the block it held.
Waiting(q, tb) == q.status = "WAITING_FEEDBACK" /\ q.timer = 0 /\ q.tb = tb

\* It waits, with the streams and versions it had or to repeat those NACKed.
Rests(q, r) == Waiting(q, r.tb) /\ q.rv = r.rv /\ q.sent = r.sent
Repeats(q, r, nacks) == q.sent = nacks /\ q.rv = NextVersion(r, nacks)

\* A block sent again is what the feedback about it asked for.
Resent(b, procs, done) ==
  \E f \in done : f.p = b.p /\ Repeats(procs[b.p], Procs2[b.p], f.nacks)

\* The blocks do not overlap in the plane of symbols and RBGs.
Disjoint(b, c) ==
  \/ b.start + b.sym <= c.start \/ c.start + c.sym <= b.start
  \/ b.rbgs \cap c.rbgs = {}

\* A block is in order: its packets are those of the process.
Sound(b, procs) ==
  /\ Waiting(procs[b.p], b.tb) /\ procs[b.p].sent = b.sent
  /\ \A s \in b.sent : b.pkts[s] = b.tb /\ burst[b.p][s] = b.tb
  /\ b.slot = pos /\ b.left = FeedbackDelay[pos]

Dealt(acc, done) ==
  /\ acc \in Acc /\ Sized(acc.procs)
  /\ \A p \in Processes : (\A f \in done : f.p # p) => acc.procs[p] = Procs2[p]
  /\ OncePerProcess(acc.retx)
  /\ \A i \in DOMAIN acc.retx :
       /\ acc.retx[i] \in done
       /\ Rests(acc.procs[acc.retx[i].p], Procs2[acc.retx[i].p])
  /\ \A b \in acc.blocks :
       /\ Sound(b, acc.procs) /\ Resent(b, acc.procs, done)
       /\ \A i \in DOMAIN acc.retx : acc.retx[i].p # b.p
  /\ \A f \in done : \/ \E b \in acc.blocks : b.p = f.p
                     \/ \E i \in DOMAIN acc.retx : acc.retx[i] = f
  /\ \A b, c \in acc.blocks : b # c => b.p[1] # c.p[1] /\ Disjoint(b, c)

\* Feedback that is yet to be visited.
Todo(f, done) ==
  /\ f \in Feedback /\ IsActive(Procs2, f.p) /\ ~LastVersion(Procs2[f.p])
  /\ HasPackets(Procs2, f) /\ \A g \in done : g.p # f.p

LEMMA BufferedIs ==
  ASSUME NEW acc \in Acc, NEW f \in Feedback
  PROVE  LET next == Buffered(acc, f)
             q == acc.procs[f.p]
             w == [q EXCEPT !.status = "WAITING_FEEDBACK", !.timer = 0]
         IN  /\ next \in Acc
             /\ next.procs = [acc.procs EXCEPT ![f.p] = w]
             /\ next.retx = Append(acc.retx, f) /\ next.blocks = acc.blocks
             /\ next.rbg = acc.rbg /\ next.sym = acc.sym /\ next.served = acc.served
             /\ w \in Process /\ Rests(w, q) /\ w.status # "INACTIVE"
             /\ w.rbgs = q.rbgs /\ w.sym = q.sym
<1> DEFINE next == Buffered(acc, f)
           q == acc.procs[f.p]
           w == [q EXCEPT !.status = "WAITING_FEEDBACK", !.timer = 0]
<1>1. /\ acc.procs \in [Processes -> Process] /\ acc.retx \in Seq(Feedback)
      /\ f.p \in Processes /\ q \in Process
  <2>1. acc.procs \in [Processes -> Process] /\ acc.retx \in Seq(Feedback)
    BY DEF Acc
  <2>2. f.p \in Processes
    BY FeedbackFacts
  <2> QED BY <2>1, <2>2
<1>2. /\ w \in Process /\ Rests(w, q) /\ w.status # "INACTIVE"
      /\ w.rbgs = q.rbgs /\ w.sym = q.sym
  <2>1. 0 \in 0 .. NumHarq
    BY DlHarqAssumption
  <2> QED BY <1>1, <2>1 DEF Process, Rests, Waiting
<1>3. next = [acc EXCEPT !.retx = Append(acc.retx, f),
                         !.procs = [acc.procs EXCEPT ![f.p] = w]]
  BY <1>1 DEF Buffered, Acc
<1> HIDE DEF next, w, q
<1>4. [acc.procs EXCEPT ![f.p] = w] \in [Processes -> Process]
      /\ Append(acc.retx, f) \in Seq(Feedback)
  BY <1>1, <1>2
<1>5. /\ next \in Acc
      /\ next.procs = [acc.procs EXCEPT ![f.p] = w]
      /\ next.retx = Append(acc.retx, f) /\ next.blocks = acc.blocks
      /\ next.rbg = acc.rbg /\ next.sym = acc.sym /\ next.served = acc.served
  BY <1>3, <1>4 DEF Acc
<1> QED BY <1>2, <1>5 DEF next, w, q

LEMMA BufferedDeals ==
  ASSUME Processed, NEW done, NEW acc, Dealt(acc, done), NEW f, Todo(f, done)
  PROVE  Dealt(Buffered(acc, f), done \cup {f})
<1> DEFINE next == Buffered(acc, f)
           q == acc.procs[f.p]
           w == [q EXCEPT !.status = "WAITING_FEEDBACK", !.timer = 0]
           n == Len(acc.retx)
<1>1. acc \in Acc /\ f \in Feedback /\ f.p \in Processes
  BY FeedbackFacts DEF Dealt, Todo
<1>2. /\ next \in Acc
      /\ next.procs = [acc.procs EXCEPT ![f.p] = w]
      /\ next.retx = Append(acc.retx, f) /\ next.blocks = acc.blocks
      /\ Rests(w, q) /\ w.status # "INACTIVE" /\ w.rbgs = q.rbgs /\ w.sym = q.sym
  BY <1>1, BufferedIs
<1>3. /\ acc.procs \in [Processes -> Process] /\ acc.retx \in Seq(Feedback)
      /\ n \in Nat /\ DOMAIN acc.retx = 1 .. n
  BY <1>1 DEF Acc
<1>4. q = Procs2[f.p] /\ IsActive(acc.procs, f.p)
  BY <1>1 DEF Dealt, Todo, IsActive
<1> HIDE DEF next, w, q
<1>5. /\ next.procs[f.p] = w
      /\ \A p \in Processes : p # f.p => next.procs[p] = acc.procs[p]
  BY <1>1, <1>2, <1>3
<1>6. /\ DOMAIN next.retx = 1 .. n + 1 /\ next.retx[n + 1] = f
      /\ \A i \in 1 .. n : next.retx[i] = acc.retx[i]
      /\ \A i \in 1 .. n + 1 : i = n + 1 \/ i \in 1 .. n
  BY <1>1, <1>2, <1>3
<1>7. \A i \in 1 .. n : acc.retx[i] \in done /\ acc.retx[i].p # f.p
                        /\ acc.retx[i].p \in Processes
  <2>1. ASSUME NEW i \in 1 .. n
        PROVE  acc.retx[i] \in done /\ acc.retx[i] \in Feedback
    BY <1>3 DEF Dealt
  <2> QED BY <2>1, FeedbackFacts DEF Todo
<1>8. \A b \in acc.blocks : b.p \in Processes /\ b.p # f.p
  <2>1. ASSUME NEW b \in acc.blocks
        PROVE  b \in Block
    BY <1>1 DEF Acc
  <2> QED BY <2>1, BlockFacts DEF Dealt, Todo, Resent
<1>9. Sized(next.procs)
  <2>1. ASSUME NEW p \in Processes, IsActive(next.procs, p)
        PROVE  next.procs[p].rbgs > 0 /\ next.procs[p].sym > 0
    <3>1. CASE p = f.p
      <4>1. q.rbgs > 0 /\ q.sym > 0
        BY <1>1, <1>4 DEF Dealt, Sized, q
      <4> QED BY <4>1, <3>1, <1>2, <1>5
    <3>2. CASE p # f.p
      <4>1. next.procs[p] = acc.procs[p]
        BY <3>2, <1>5
      <4> QED BY <4>1, <2>1 DEF Dealt, Sized, IsActive
    <3> QED BY <3>1, <3>2
  <2> QED BY <2>1 DEF Sized
<1>10. ASSUME NEW p \in Processes, \A g \in done \cup {f} : g.p # p
       PROVE  next.procs[p] = Procs2[p]
  BY <1>5, <1>10 DEF Dealt
<1>11. OncePerProcess(next.retx)
  <2>1. \A i, j \in 1 .. n : next.retx[i].p = next.retx[j].p => i = j
    BY SMTT(40), <1>3, <1>6 DEF Dealt, OncePerProcess
  <2> QED BY <2>1, <1>6, <1>7 DEF OncePerProcess
<1>12. ASSUME NEW i \in DOMAIN next.retx
       PROVE  /\ next.retx[i] \in done \cup {f}
              /\ Rests(next.procs[next.retx[i].p], Procs2[next.retx[i].p])
  <2>1. CASE i = n + 1
    BY <2>1, <1>2, <1>4, <1>5, <1>6
  <2>2. CASE i \in 1 .. n
    <3>1. Rests(acc.procs[acc.retx[i].p], Procs2[acc.retx[i].p])
      BY <2>2, <1>3 DEF Dealt
    <3> QED BY <3>1, <2>2, <1>5, <1>6, <1>7
  <2> QED BY <2>1, <2>2, <1>6
<1>13. ASSUME NEW b \in next.blocks
       PROVE  /\ Sound(b, next.procs) /\ Resent(b, next.procs, done \cup {f})
              /\ \A i \in DOMAIN next.retx : next.retx[i].p # b.p
  <2>1. /\ Sound(b, acc.procs) /\ Resent(b, acc.procs, done)
        /\ \A i \in DOMAIN acc.retx : acc.retx[i].p # b.p
    BY <1>2 DEF Dealt
  <2>2. next.procs[b.p] = acc.procs[b.p] /\ b.p # f.p
    BY <1>2, <1>5, <1>8
  <2>3. Sound(b, next.procs) /\ Resent(b, next.procs, done \cup {f})
    BY <2>1, <2>2 DEF Sound, Resent
  <2> QED BY <2>1, <2>2, <2>3, <1>3, <1>6
<1>14. ASSUME NEW g \in done \cup {f}
       PROVE  \/ \E b \in next.blocks : b.p = g.p
              \/ \E i \in DOMAIN next.retx : next.retx[i] = g
  <2>1. CASE g = f
    <3>1. n + 1 \in 1 .. n + 1
      BY <1>3
    <3> QED BY <2>1, <3>1, <1>6
  <2>2. CASE g \in done
    <3>1. \/ \E b \in acc.blocks : b.p = g.p
          \/ \E i \in DOMAIN acc.retx : acc.retx[i] = g
      BY <2>2 DEF Dealt
    <3>2. \A i \in 1 .. n : i \in 1 .. n + 1
      BY <1>3
    <3> QED BY <3>1, <3>2, <1>2, <1>3, <1>6
  <2> QED BY <2>1, <2>2
<1>15. \A b, c \in next.blocks : b # c => b.p[1] # c.p[1] /\ Disjoint(b, c)
  BY <1>2 DEF Dealt
<1> QED BY <1>2, <1>9, <1>10, <1>11, <1>12, <1>13, <1>14, <1>15 DEF Dealt, next

\* The block that Retransmitted sends.
SentAgain(acc, f, s) ==
  LET p == Again(acc.procs[f.p], f.nacks, s)
  IN  [p |-> f.p, tb |-> p.tb, pkts |-> burst[f.p], sent |-> p.sent,
       start |-> acc.sym, sym |-> p.sym, rbgs |-> acc.rbg .. acc.rbg + p.rbgs - 1,
       slot |-> pos, left |-> FeedbackDelay[pos]]

LEMMA AgainFacts ==
  ASSUME NEW q \in Process, q.rbgs > 0, q.sym > 0, ~LastVersion(q),
         NEW nacks \in SUBSET Stream, NEW s \in 0 .. MaxSymbols,
         NEW room \in 0 .. Bandwidth, Area(q) <= room * s
  PROVE  LET w == Again(q, nacks, s)
         IN  /\ w \in Process /\ Waiting(w, q.tb) /\ Repeats(w, q, nacks)
             /\ w.sym = s /\ s > 0 /\ w.rbgs \in 1 .. room
<1> DEFINE w == Again(q, nacks, s)
           a == Area(q)
<1>1. /\ q.rbgs \in Nat /\ q.sym \in Nat /\ s \in Nat /\ room \in Nat /\ q.tb \in Nat
      /\ q.rv \in [Stream -> 0 .. MaxRv] /\ Bandwidth \in Nat /\ room <= Bandwidth
  BY ProcessFacts, DlHarqAssumption DEF MaxSymbols
<1>2. a \in Nat /\ a > 0
  <2>1. PICK m \in Nat, n \in Nat : q.rbgs = m + 1 /\ q.sym = n + 1
    <3>1. q.rbgs - 1 \in Nat /\ q.sym - 1 \in Nat
      BY <1>1
    <3>2. q.rbgs = (q.rbgs - 1) + 1 /\ q.sym = (q.sym - 1) + 1
      BY <1>1
    <3> QED BY <3>1, <3>2
  <2>2. a = m * n + m + n + 1 /\ m * n \in Nat
    BY <2>1 DEF Area
  <2> QED BY <2>2
<1>3. s > 0
  <2>1. s = 0 => room * s = 0
    BY <1>1
  <2> HIDE DEF a
  <2> QED BY <2>1, <1>1, <1>2 DEF a
<1> HIDE DEF a
<1>4. CeilDiv(a, s) \in 1 .. room
  BY <1>1, <1>2, <1>3, CeilDivFacts DEF a
<1>5. NextVersion(q, nacks) \in [Stream -> 0 .. MaxRv]
  <2>1. ASSUME NEW t \in Stream
        PROVE  (IF t \in nacks THEN q.rv[t] + 1 ELSE 0) \in 0 .. MaxRv
    <3>1. q.rv[t] \in 0 .. MaxRv /\ q.rv[t] # MaxRv /\ MaxRv \in Nat
      BY <1>1, DlHarqAssumption DEF LastVersion
    <3> QED BY <3>1
  <2> QED BY <2>1 DEF NextVersion
<1>6. w = [q EXCEPT !.status = "WAITING_FEEDBACK", !.timer = 0,
                    !.rv = NextVersion(q, nacks), !.sent = nacks,
                    !.rbgs = CeilDiv(a, s), !.sym = s]
  BY DEF Again, a
<1>7. CeilDiv(a, s) \in 0 .. Bandwidth /\ 0 \in 0 .. NumHarq
  BY <1>1, <1>4, DlHarqAssumption
<1> HIDE DEF w
<1>8. w \in Process
  BY <1>5, <1>6, <1>7 DEF Process
<1>9. /\ w.status = "WAITING_FEEDBACK" /\ w.timer = 0 /\ w.tb = q.tb /\ w.sent = nacks
      /\ w.rv = NextVersion(q, nacks) /\ w.sym = s /\ w.rbgs = CeilDiv(a, s)
  BY <1>6 DEF Process
<1> QED BY <1>3, <1>4, <1>8, <1>9 DEF Waiting, Repeats, w

LEMMA RetransmittedIs ==
  ASSUME TypeOK, NEW acc \in Acc, NEW f \in Feedback, NEW s \in 0 .. MaxSymbols,
         acc.procs[f.p].rbgs > 0, acc.procs[f.p].sym > 0,
         ~LastVersion(acc.procs[f.p]),
         Area(acc.procs[f.p]) <= (Bandwidth - acc.rbg) * s
  PROVE  LET next == Retransmitted(acc, f, s)
             q == acc.procs[f.p]
             w == Again(q, f.nacks, s)
             b == SentAgain(acc, f, s)
         IN  /\ next \in Acc
             /\ next.procs = [acc.procs EXCEPT ![f.p] = w]
             /\ next.retx = acc.retx /\ next.blocks = acc.blocks \cup {b}
             /\ next.rbg = acc.rbg + w.rbgs /\ next.sym = acc.sym
             /\ next.served = acc.served \cup {f.p[1]}
             /\ w \in Process /\ Waiting(w, q.tb) /\ Repeats(w, q, f.nacks)
             /\ w.rbgs \in Nat /\ w.rbgs > 0 /\ w.sym = s /\ s > 0
             /\ b \in Block /\ b.p = f.p /\ b.tb = q.tb /\ b.pkts = burst[f.p]
             /\ b.sent = f.nacks /\ b.start = acc.sym /\ b.sym = s
             /\ b.rbgs = acc.rbg .. acc.rbg + w.rbgs - 1
             /\ b.slot = pos /\ b.left = FeedbackDelay[pos]
<1> DEFINE next == Retransmitted(acc, f, s)
           q == acc.procs[f.p]
           w == Again(q, f.nacks, s)
           b == SentAgain(acc, f, s)
           room == Bandwidth - acc.rbg
<1>1. /\ acc.procs \in [Processes -> Process] /\ f.p \in Processes /\ q \in Process
      /\ f.nacks \in SUBSET Stream /\ f.p[1] \in Ue
  <2>1. acc.procs \in [Processes -> Process]
    BY DEF Acc
  <2> QED BY <2>1, FeedbackFacts
<1>2. /\ acc.rbg \in Nat /\ acc.rbg <= Bandwidth /\ Bandwidth \in Nat
      /\ acc.sym \in 0 .. MaxSymbols /\ room \in 0 .. Bandwidth
  BY DlHarqAssumption DEF Acc
<1> HIDE DEF room
<1>3. /\ w \in Process /\ Waiting(w, q.tb) /\ Repeats(w, q, f.nacks)
      /\ w.sym = s /\ s > 0 /\ w.rbgs \in 1 .. room
  <2> HIDE DEF w, q
  <2>1. Area(q) <= room * s
    BY DEF q, room
  <2>2. LET v == Again(q, f.nacks, s)
        IN  /\ v \in Process /\ Waiting(v, q.tb) /\ Repeats(v, q, f.nacks)
            /\ v.sym = s /\ s > 0 /\ v.rbgs \in 1 .. room
    BY <1>1, <1>2, <2>1, AgainFacts DEF q
  <2> QED BY <2>2 DEF w
<1>4. w.rbgs \in Nat /\ w.rbgs > 0 /\ acc.rbg + w.rbgs \in 0 .. Bandwidth
      /\ w.tb = q.tb
  BY <1>2, <1>3 DEF room, Waiting
<1>5. b = [p |-> f.p, tb |-> w.tb, pkts |-> burst[f.p], sent |-> w.sent,
           start |-> acc.sym, sym |-> w.sym, rbgs |-> acc.rbg .. acc.rbg + w.rbgs - 1,
           slot |-> pos, left |-> FeedbackDelay[pos]]
  BY DEF SentAgain
<1>6. next = [acc EXCEPT !.procs = [acc.procs EXCEPT ![f.p] = w],
                         !.served = acc.served \cup {f.p[1]},
                         !.rbg = acc.rbg + w.rbgs, !.blocks = acc.blocks \cup {b}]
  BY DEF Retransmitted, SentAgain, Acc
<1> HIDE DEF w, b, q, next
<1>7. b \in Block
  <2>1. pos \in Pattern /\ FeedbackDelay[pos] \in Nat
    BY DlHarqAssumption DEF TypeOK
  <2>2. burst[f.p] \in [Stream -> Nat]
    BY <1>1 DEF TypeOK
  <2>3. (acc.rbg .. acc.rbg + w.rbgs - 1) \in SUBSET (0 .. Bandwidth - 1)
    BY <1>2, <1>4
  <2>4. w.sym \in 1 .. MaxSymbols
    BY <1>3 DEF MaxSymbols
  <2>5. w.tb \in Nat /\ w.sent \in SUBSET Stream
    BY <1>3, ProcessFacts
  <2> QED BY <1>1, <1>2, <1>5, <2>1, <2>2, <2>3, <2>4, <2>5 DEF Block
<1>8. /\ b.p = f.p /\ b.tb = q.tb /\ b.pkts = burst[f.p]
      /\ b.sent = f.nacks /\ b.start = acc.sym /\ b.sym = s
      /\ b.rbgs = acc.rbg .. acc.rbg + w.rbgs - 1
      /\ b.slot = pos /\ b.left = FeedbackDelay[pos]
  BY <1>3, <1>4, <1>5 DEF Repeats
<1>9. [acc.procs EXCEPT ![f.p] = w] \in [Processes -> Process]
  BY <1>1, <1>3
<1>10. /\ next \in Acc
       /\ next.procs = [acc.procs EXCEPT ![f.p] = w]
       /\ next.retx = acc.retx /\ next.blocks = acc.blocks \cup {b}
       /\ next.rbg = acc.rbg + w.rbgs /\ next.sym = acc.sym
       /\ next.served = acc.served \cup {f.p[1]}
  <2>1. acc.blocks \cup {b} \in SUBSET Block /\ acc.served \cup {f.p[1]} \in SUBSET Ue
    BY <1>1, <1>7 DEF Acc
  <2> QED BY <2>1, <1>4, <1>6, <1>9 DEF Acc
<1> QED BY <1>3, <1>4, <1>7, <1>8, <1>10 DEF w, b, q, next

\* Where the blocks are: those of the beams served before end where this beam
\* starts, those of this one are on the first RBGs.
Placed(acc, earlier, beam, s) ==
  \A b \in acc.blocks :
    \/ b.start + b.sym <= acc.sym /\ BeamOf[b.p[1]] \in earlier
    \/ /\ b.start = acc.sym /\ b.sym = s /\ b.rbgs \subseteq 0 .. acc.rbg - 1
       /\ b.p[1] \in acc.served /\ BeamOf[b.p[1]] = beam

\* Feedback of a UE of the beam.
OfBeam(f, beam) == BeamOf[f.p[1]] = beam

LEMMA RetransmittedDeals ==
  ASSUME TypeOK, Processed, NEW done, NEW acc, Dealt(acc, done), NEW f, Todo(f, done),
         NEW s \in 0 .. MaxSymbols, NEW earlier, NEW beam, Placed(acc, earlier, beam, s),
         OfBeam(f, beam), beam \notin earlier, Fits(acc, f, s)
  PROVE  /\ Dealt(Retransmitted(acc, f, s), done \cup {f})
         /\ Placed(Retransmitted(acc, f, s), earlier, beam, s)
         /\ Retransmitted(acc, f, s).sym = acc.sym
         /\ f.p[1] \in Retransmitted(acc, f, s).served
<1> DEFINE next == Retransmitted(acc, f, s)
           q == acc.procs[f.p]
           w == Again(q, f.nacks, s)
           b == SentAgain(acc, f, s)
<1>1. acc \in Acc /\ f \in Feedback /\ f.p \in Processes /\ f.p[1] \in Ue
  BY FeedbackFacts DEF Dealt, Todo
<1>2. q = Procs2[f.p] /\ IsActive(acc.procs, f.p)
  BY <1>1 DEF Dealt, Todo, IsActive
<1>3. /\ next \in Acc
      /\ next.procs = [acc.procs EXCEPT ![f.p] = w]
      /\ next.retx = acc.retx /\ next.blocks = acc.blocks \cup {b}
      /\ next.rbg = acc.rbg + w.rbgs /\ next.sym = acc.sym
      /\ next.served = acc.served \cup {f.p[1]}
      /\ w \in Process /\ Waiting(w, q.tb) /\ Repeats(w, q, f.nacks)
      /\ w.rbgs \in Nat /\ w.rbgs > 0 /\ w.sym = s /\ s > 0
      /\ b \in Block /\ b.p = f.p /\ b.tb = q.tb /\ b.pkts = burst[f.p]
      /\ b.sent = f.nacks /\ b.start = acc.sym /\ b.sym = s
      /\ b.rbgs = acc.rbg .. acc.rbg + w.rbgs - 1
      /\ b.slot = pos /\ b.left = FeedbackDelay[pos]
  <2>1. q.rbgs > 0 /\ q.sym > 0
    BY <1>1, <1>2 DEF Dealt, Sized
  <2>2. ~LastVersion(q)
    BY <1>2 DEF Todo
  <2>3. Area(q) <= (Bandwidth - acc.rbg) * s
    BY DEF Fits
  <2> HIDE DEF q
  <2>4. /\ acc.procs[f.p].rbgs > 0 /\ acc.procs[f.p].sym > 0
        /\ ~LastVersion(acc.procs[f.p])
        /\ Area(acc.procs[f.p]) <= (Bandwidth - acc.rbg) * s
    BY <2>1, <2>2, <2>3 DEF q
  <2> QED BY <1>1, <2>4, RetransmittedIs DEF q
<1>4. /\ acc.procs \in [Processes -> Process] /\ acc.retx \in Seq(Feedback)
      /\ acc.rbg \in Nat /\ acc.sym \in Nat
  <2>1. acc.rbg \in 0 .. Bandwidth /\ acc.sym \in 0 .. 14
    BY <1>1 DEF Acc, MaxSymbols
  <2> QED BY <2>1, <1>1, DlHarqAssumption DEF Acc
<1> HIDE DEF next, w, q, b
<1>5. /\ next.procs[f.p] = w
      /\ \A p \in Processes : p # f.p => next.procs[p] = acc.procs[p]
  BY <1>1, <1>3, <1>4
<1>6. \A i \in DOMAIN acc.retx : acc.retx[i] \in done /\ acc.retx[i].p # f.p
                                 /\ acc.retx[i].p \in Processes
  <2>1. ASSUME NEW i \in DOMAIN acc.retx
        PROVE  acc.retx[i] \in done /\ acc.retx[i] \in Feedback
    BY <1>4 DEF Dealt
  <2> QED BY <2>1, FeedbackFacts DEF Todo
<1>7. \A c \in acc.blocks : /\ c \in Block /\ c.p \in Processes /\ c.p # f.p
                            /\ c.start \in Nat /\ c.sym \in Nat
  <2>1. ASSUME NEW c \in acc.blocks
        PROVE  c \in Block
    BY <1>1 DEF Acc
  <2> QED BY <2>1, BlockFacts DEF Dealt, Todo, Resent
<1>8. Sized(next.procs)
  <2>1. ASSUME NEW p \in Processes, IsActive(next.procs, p)
        PROVE  next.procs[p].rbgs > 0 /\ next.procs[p].sym > 0
    <3>1. CASE p = f.p
      BY <3>1, <1>3, <1>5
    <3>2. CASE p # f.p
      <4>1. next.procs[p] = acc.procs[p]
        BY <3>2, <1>5
      <4> QED BY <4>1, <2>1 DEF Dealt, Sized, IsActive
    <3> QED BY <3>1, <3>2
  <2> QED BY <2>1 DEF Sized
<1>9. ASSUME NEW p \in Processes, \A g \in done \cup {f} : g.p # p
      PROVE  next.procs[p] = Procs2[p]
  BY <1>5, <1>9 DEF Dealt
<1>10. ASSUME NEW i \in DOMAIN next.retx
       PROVE  /\ next.retx[i] \in done \cup {f}
              /\ Rests(next.procs[next.retx[i].p], Procs2[next.retx[i].p])
  <2>1. Rests(acc.procs[acc.retx[i].p], Procs2[acc.retx[i].p])
    BY <1>3 DEF Dealt
  <2> QED BY <2>1, <1>3, <1>5, <1>6
<1>11. Sound(b, next.procs)
  <2>1. \A t \in b.sent : b.pkts[t] = b.tb /\ burst[b.p][t] = b.tb
    BY <1>2, <1>3 DEF Todo, HasPackets
  <2> QED BY <2>1, <1>3, <1>5 DEF Sound, Repeats
<1>11a. Resent(b, next.procs, done \cup {f})
  BY <1>2, <1>3, <1>5 DEF Resent
<1>12. ASSUME NEW c \in next.blocks
       PROVE  /\ Sound(c, next.procs) /\ Resent(c, next.procs, done \cup {f})
              /\ \A i \in DOMAIN next.retx : next.retx[i].p # c.p
  <2>1. CASE c = b
    BY <2>1, <1>3, <1>6, <1>11, <1>11a
  <2>2. CASE c \in acc.blocks
    <3>1. /\ Sound(c, acc.procs) /\ Resent(c, acc.procs, done)
          /\ \A i \in DOMAIN acc.retx : acc.retx[i].p # c.p
      BY <2>2 DEF Dealt
    <3>2. next.procs[c.p] = acc.procs[c.p]
      BY <2>2, <1>5, <1>7
    <3>3. Sound(c, next.procs) /\ Resent(c, next.procs, done \cup {f})
      BY <3>1, <3>2 DEF Sound, Resent
    <3> QED BY <3>1, <3>3, <1>3
  <2> QED BY <2>1, <2>2, <1>3
<1>13. ASSUME NEW g \in done \cup {f}
       PROVE  \/ \E c \in next.blocks : c.p = g.p
              \/ \E i \in DOMAIN next.retx : next.retx[i] = g
  BY <1>3 DEF Dealt
<1>14. ASSUME NEW c \in acc.blocks
       PROVE  b.p[1] # c.p[1] /\ Disjoint(b, c) /\ Disjoint(c, b)
  <2>1. CASE c.start + c.sym <= acc.sym /\ BeamOf[c.p[1]] \in earlier
    BY <2>1, <1>3 DEF Disjoint, OfBeam
  <2>2. CASE /\ c.start = acc.sym /\ c.sym = s /\ c.rbgs \subseteq 0 .. acc.rbg - 1
             /\ c.p[1] \in acc.served
    <3>1. b.rbgs \cap c.rbgs = {}
      BY <2>2, <1>3, <1>4
    <3>2. b.p[1] # c.p[1]
      BY <2>2, <1>3 DEF Fits
    <3> QED BY <3>1, <3>2 DEF Disjoint
  <2> QED BY <2>1, <2>2 DEF Placed
<1>15. \A c, d \in next.blocks : c # d => c.p[1] # d.p[1] /\ Disjoint(c, d)
  <2>1. ASSUME NEW c \in next.blocks, NEW d \in next.blocks, c # d
        PROVE  c.p[1] # d.p[1] /\ Disjoint(c, d)
    <3>1. CASE c = b
      BY <3>1, <2>1, <1>3, <1>14
    <3>2. CASE d = b
      BY <3>2, <2>1, <1>3, <1>14
    <3>3. CASE c # b /\ d # b
      BY <3>3, <2>1, <1>3 DEF Dealt
    <3> QED BY <3>1, <3>2, <3>3
  <2> QED BY <2>1
<1>16. OncePerProcess(next.retx)
  BY <1>3 DEF Dealt
<1>17. Dealt(next, done \cup {f})
  BY <1>3, <1>8, <1>9, <1>10, <1>12, <1>13, <1>15, <1>16 DEF Dealt
<1>18. Placed(next, earlier, beam, s)
  <2>1. ASSUME NEW c \in next.blocks
        PROVE  \/ c.start + c.sym <= next.sym /\ BeamOf[c.p[1]] \in earlier
               \/ /\ c.start = next.sym /\ c.sym = s
                  /\ c.rbgs \subseteq 0 .. next.rbg - 1 /\ c.p[1] \in next.served
                  /\ BeamOf[c.p[1]] = beam
    <3>1. CASE c = b
      BY <3>1, <1>3, <1>4 DEF OfBeam
    <3>2. CASE c \in acc.blocks
      <4>1. CASE c.start + c.sym <= acc.sym /\ BeamOf[c.p[1]] \in earlier
        BY <4>1, <1>3
      <4>2. CASE /\ c.start = acc.sym /\ c.sym = s /\ c.rbgs \subseteq 0 .. acc.rbg - 1
                 /\ c.p[1] \in acc.served /\ BeamOf[c.p[1]] = beam
        <5>1. \A i \in 0 .. acc.rbg - 1 : i \in 0 .. next.rbg - 1
          BY <1>3, <1>4
        <5>2. c.rbgs \subseteq 0 .. next.rbg - 1
          BY <5>1, <4>2
        <5> QED BY <5>2, <4>2, <1>3
      <4> QED BY <4>1, <4>2, <3>2 DEF Placed
    <3> QED BY <3>1, <3>2, <1>3
  <2> QED BY <2>1 DEF Placed
<1> QED BY <1>3, <1>17, <1>18 DEF next

\* Between two beams.
PlacedBefore(acc, earlier) ==
  /\ acc.rbg = 0
  /\ \A b \in acc.blocks : b.start + b.sym <= acc.sym /\ BeamOf[b.p[1]] \in earlier

\* While a beam is served, from symbol sym on.
Serving(acc, done, earlier, beam, s, sym) ==
  /\ Dealt(acc, done) /\ Placed(acc, earlier, beam, s) /\ acc.sym = sym
  /\ acc.served = {} => acc.rbg = 0

LEMMA VisitedServes ==
  ASSUME TypeOK, Processed, NEW done, NEW acc, NEW f, Todo(f, done),
         NEW s \in 0 .. MaxSymbols, NEW earlier, NEW beam, NEW sym,
         Serving(acc, done, earlier, beam, s, sym),
         OfBeam(f, beam), beam \notin earlier
  PROVE  Serving(Visited(acc, f, s), done \cup {f}, earlier, beam, s, sym)
<1>1. Dealt(acc, done) /\ Placed(acc, earlier, beam, s) /\ acc.sym = sym
      /\ (acc.served = {} => acc.rbg = 0) /\ acc \in Acc /\ f \in Feedback
  BY DEF Serving, Dealt, Todo
<1>2. CASE Fits(acc, f, s)
  <2>0. /\ Dealt(Retransmitted(acc, f, s), done \cup {f})
        /\ Placed(Retransmitted(acc, f, s), earlier, beam, s)
        /\ Retransmitted(acc, f, s).sym = acc.sym
        /\ f.p[1] \in Retransmitted(acc, f, s).served
    BY <1>1, <1>2, RetransmittedDeals
  <2> DEFINE next == Retransmitted(acc, f, s)
  <2>1. /\ Dealt(next, done \cup {f}) /\ Placed(next, earlier, beam, s)
        /\ next.sym = acc.sym /\ f.p[1] \in next.served
    BY <2>0
  <2> HIDE DEF next
  <2>2. Serving(next, done \cup {f}, earlier, beam, s, sym)
    BY <1>1, <2>1 DEF Serving
  <2> QED BY <2>2, <1>2 DEF Visited, next
<1>3. CASE ~Fits(acc, f, s)
  <2> DEFINE next == Buffered(acc, f)
  <2>1. Dealt(next, done \cup {f})
    BY <1>1, BufferedDeals
  <2>2. /\ next.blocks = acc.blocks /\ next.rbg = acc.rbg /\ next.sym = acc.sym
        /\ next.served = acc.served
    BY <1>1, BufferedIs
  <2> HIDE DEF next
  <2>3. Serving(next, done \cup {f}, earlier, beam, s, sym)
    BY <1>1, <2>1, <2>2 DEF Serving, Placed
  <2> QED BY <2>3, <1>3 DEF Visited, next
<1> QED BY <1>2, <1>3

\* The first i elements of a list.
Upto(l, i) == {l[j] : j \in 1 .. i}

\* A list of feedback of one beam, to be visited.
BeamList(l, beam, done) ==
  /\ l \in Seq(Feedback) /\ OncePerProcess(l)
  /\ \A i \in DOMAIN l : Todo(l[i], done) /\ OfBeam(l[i], beam)

LEMMA ServeBeamFacts ==
  ASSUME TypeOK, Processed, NEW done, NEW acc, Dealt(acc, done),
         NEW s \in 0 .. MaxSymbols, acc.sym + s <= MaxSymbols,
         NEW earlier, PlacedBefore(acc, earlier),
         NEW beam, beam \notin earlier, NEW l, BeamList(l, beam, done)
  PROVE  /\ Dealt(ServeBeam(acc, l, s), done \cup Upto(l, Len(l)))
         /\ PlacedBefore(ServeBeam(acc, l, s), earlier \cup {beam})
         /\ ServeBeam(acc, l, s).sym \in {acc.sym, acc.sym + s}
<1> DEFINE n == Len(l)
           first == [acc EXCEPT !.served = {}]
           step == [p \in Acc \X (1 .. n) |-> Visited(p[1], l[p[2]], s)]
           good == [i \in 0 .. n |->
                     {a \in Acc : Serving(a, done \cup Upto(l, i), earlier, beam, s, acc.sym)}]
           Rec(f) == f = [i \in 0 .. Len(l) |->
                            IF i = 0 THEN [acc EXCEPT !.served = {}]
                            ELSE Visited(f[i - 1], l[i], s)]
<1>1. /\ l \in Seq(Feedback) /\ n \in Nat /\ DOMAIN l = 1 .. n /\ acc \in Acc
      /\ \A i \in 1 .. n : Todo(l[i], done) /\ OfBeam(l[i], beam)
  BY DEF BeamList, Dealt
<1>2. first \in good[0]
  <2>1. first \in Acc
    BY <1>1 DEF Acc
  <2>2. /\ first.procs = acc.procs /\ first.retx = acc.retx /\ first.blocks = acc.blocks
        /\ first.rbg = acc.rbg /\ first.sym = acc.sym
    BY <1>1 DEF Acc
  <2> HIDE DEF first
  <2>3. Dealt(first, done)
    BY <2>1, <2>2 DEF Dealt
  <2>4. Placed(first, earlier, beam, s) /\ first.rbg = 0
    BY <2>2 DEF PlacedBefore, Placed
  <2>5. done \cup Upto(l, 0) = done
    BY DEF Upto
  <2>6. Serving(first, done \cup Upto(l, 0), earlier, beam, s, acc.sym)
    BY <2>2, <2>3, <2>4, <2>5 DEF Serving
  <2> QED BY <2>1, <2>6, <1>1
<1>3. \A x \in Acc, i \in 1 .. n : step[<<x, i>>] = Visited(x, l[i], s)
  OBVIOUS
<1>4. \A i \in 1 .. n : \A x \in good[i - 1] : step[<<x, i>>] \in good[i]
  <2>1. ASSUME NEW i \in 1 .. n, NEW x \in good[i - 1]
        PROVE  step[<<x, i>>] \in good[i]
    <3> DEFINE before == done \cup Upto(l, i - 1)
    <3>1. i \in 0 .. n /\ i - 1 \in 0 .. n
      BY <1>1
    <3>2. x \in Acc /\ Serving(x, before, earlier, beam, s, acc.sym)
      BY <3>1
    <3>3. Todo(l[i], before)
      <4>1. ASSUME NEW j \in 1 .. i - 1
            PROVE  l[j].p # l[i].p
        <5>1. j \in 1 .. n /\ j # i
          BY <1>1
        <5> QED BY <5>1, <1>1 DEF BeamList, OncePerProcess
      <4> QED BY <4>1, <1>1 DEF Todo, Upto
    <3>4. before \cup {l[i]} = done \cup Upto(l, i)
      <4>1. \A j : j \in 1 .. i <=> j \in 1 .. i - 1 \/ j = i
        BY <1>1
      <4> QED BY <4>1 DEF Upto
    <3>5. OfBeam(l[i], beam)
      BY <1>1
    <3>6. Serving(Visited(x, l[i], s), done \cup Upto(l, i), earlier, beam, s, acc.sym)
      <4> HIDE DEF before
      <4>1. Serving(Visited(x, l[i], s), before \cup {l[i]}, earlier, beam, s, acc.sym)
        BY <3>2, <3>3, <3>5, VisitedServes
      <4> QED BY <4>1, <3>4
    <3>7. Visited(x, l[i], s) \in Acc
      BY <3>6 DEF Serving, Dealt
    <3> QED BY <3>1, <3>2, <3>6, <3>7, <1>3
  <2> QED BY <2>1
<1>5. good \in [0 .. n -> SUBSET Acc]
  OBVIOUS
<1> HIDE DEF n, first, step, good
<1>6. PICK f \in [0 .. n -> Acc] : Guarded(f, n, first, step, good)
  BY <1>1, <1>2, <1>4, <1>5, GuardedRecursion
<1>7. /\ f[0] = first
      /\ \A i \in 1 .. n : f[i] = Visited(f[i - 1], l[i], s)
  <2>1. ASSUME NEW i \in 1 .. n
        PROVE  f[i] = Visited(f[i - 1], l[i], s)
    <3>1. i - 1 \in 0 .. n
      BY <1>1
    <3>2. f[i - 1] \in Acc
      BY <3>1
    <3>3. f[i] = step[<<f[i - 1], i>>]
      BY <1>6 DEF Guarded, Follows
    <3> QED BY <3>2, <3>3, <1>3
  <2> QED BY <2>1, <1>6 DEF Guarded, Follows
<1>8. Rec(f)
  <2>1. f = [i \in 0 .. n |-> f[i]]
    OBVIOUS
  <2>2. ASSUME NEW i \in 0 .. n
        PROVE  f[i] = IF i = 0 THEN [acc EXCEPT !.served = {}]
                      ELSE Visited(f[i - 1], l[i], s)
    <3>1. CASE i = 0
      BY <3>1, <1>7 DEF first
    <3>2. CASE i # 0
      <4>1. i \in 1 .. n
        BY <3>2, <1>1
      <4> QED BY <4>1, <3>2, <1>7
    <3> QED BY <3>1, <3>2
  <2> QED BY <2>1, <2>2 DEF n
<1> DEFINE h == CHOOSE g : Rec(g)
<1>9. Rec(h)
  BY <1>8
<1>10. ServeBeam(acc, l, s) = IF h[Len(l)].served = {} THEN h[Len(l)]
                              ELSE [h[Len(l)] EXCEPT !.rbg = 0, !.sym = @ + s]
  BY DEF ServeBeam
<1> HIDE DEF h
<1>11. h = [i \in 0 .. n |-> IF i = 0 THEN first ELSE Visited(h[i - 1], l[i], s)]
  BY <1>9 DEF n, first
<1> DEFINE G == {i \in 0 .. n : h[i] = f[i]}
<1>12. \A i \in 0 .. n : h[i] = IF i = 0 THEN first ELSE Visited(h[i - 1], l[i], s)
  BY <1>11, Zenon
<1>13. 0 \in G
  BY <1>1, <1>7, <1>12
<1>14. ASSUME NEW i \in 0 .. n - 1, i \in G
       PROVE  i + 1 \in G
  <2>1. i + 1 \in 1 .. n /\ (i + 1) - 1 = i /\ i + 1 \in 0 .. n /\ i + 1 # 0
    BY <1>1
  <2>2. h[i + 1] = Visited(h[i], l[i + 1], s)
    BY <2>1, <1>12
  <2>3. f[i + 1] = Visited(f[i], l[i + 1], s)
    BY <2>1, <1>7
  <2> QED BY <2>1, <2>2, <2>3, <1>14
<1> HIDE DEF G
<1>15. n \in G
  <2>1. \A i \in 0 .. n : i \in G
    BY <1>1, <1>13, <1>14, InductionUpTo
  <2> QED BY <2>1, <1>1
<1> DEFINE after == f[n]
           r == ServeBeam(acc, l, s)
<1>16. r = IF after.served = {} THEN after ELSE [after EXCEPT !.rbg = 0, !.sym = @ + s]
  BY <1>10, <1>15 DEF G, n
<1>17. after \in Acc /\ Serving(after, done \cup Upto(l, n), earlier, beam, s, acc.sym)
  <2>1. n \in 0 .. n
    BY <1>1
  <2> QED BY <2>1, <1>6 DEF Guarded, good
<1> HIDE DEF after, r
<1>18. \A b \in after.blocks : /\ b \in Block /\ b.start \in Nat /\ b.sym \in Nat
                               /\ b.p[1] \in Ue /\ b.p \in Processes
  BY <1>17, BlockFacts DEF Acc
<1>19. acc.sym \in Nat /\ s \in Nat /\ after.sym = acc.sym
  <2>1. acc.sym \in 0 .. 14 /\ s \in 0 .. 14
    BY <1>1 DEF Acc, MaxSymbols
  <2> QED BY <2>1, <1>17 DEF Serving
<1>20. CASE after.served = {}
  <2>1. r = after /\ after.rbg = 0
    BY <1>16, <1>17, <1>20 DEF Serving
  <2>2. PlacedBefore(r, earlier \cup {beam})
    BY <2>1, <1>17, <1>20 DEF PlacedBefore, Placed, Serving
  <2> QED BY <2>1, <2>2, <1>17, <1>19 DEF Serving, r, n
<1>21. CASE after.served # {}
  <2>1. r = [after EXCEPT !.rbg = 0, !.sym = acc.sym + s]
    BY <1>16, <1>17, <1>19, <1>21 DEF Acc
  <2>2. 0 \in 0 .. Bandwidth /\ acc.sym + s \in 0 .. MaxSymbols
    <3>1. 0 \in 0 .. Bandwidth
      BY DlHarqAssumption
    <3>2. acc.sym + s \in 0 .. MaxSymbols
      BY SMTT(40), <1>19 DEF MaxSymbols
    <3> QED BY <3>1, <3>2
  <2>3. /\ r \in Acc /\ r.procs = after.procs /\ r.retx = after.retx
        /\ r.blocks = after.blocks /\ r.rbg = 0 /\ r.sym = acc.sym + s
    BY <2>1, <2>2, <1>17 DEF Acc
  <2>4. Dealt(r, done \cup Upto(l, n))
    <3>1. Dealt(after, done \cup Upto(l, n))
      BY <1>17 DEF Serving
    <3> QED BY ONLY <2>3, <3>1 DEF Dealt, Resent
  <2>5. ASSUME NEW b \in r.blocks
        PROVE  b.start + b.sym <= r.sym /\ BeamOf[b.p[1]] \in earlier \cup {beam}
    <3>1. CASE b.start + b.sym <= after.sym /\ BeamOf[b.p[1]] \in earlier
      BY <3>1, <2>3, <1>18, <1>19
    <3>2. CASE b.start = after.sym /\ b.sym = s /\ BeamOf[b.p[1]] = beam
      BY <3>2, <2>3, <1>19
    <3> QED BY <3>1, <3>2, <2>3, <1>17 DEF Serving, Placed
  <2>6. PlacedBefore(r, earlier \cup {beam})
    BY <2>3, <2>5 DEF PlacedBefore
  <2> QED BY <2>3, <2>4, <2>6 DEF r, n
<1> QED BY <1>20, <1>21

-----------------------------------------------------------------------------
\* The feedback to be dealt with, all of it and that of a beam, and its beams.
Asked == ToSet(Fb2)
AskedOf(beam) == {f \in ToSet(Fb2) : BeamOf[f.p[1]] = beam}
HarqBeams == BeamsOf({f.p[1] : f \in ToSet(Fb2)})

\* A finite set has finitely many images.
LEMMA ImageFinite ==
  ASSUME NEW S, IsFiniteSet(S), NEW g
  PROVE  IsFiniteSet({g[x] : x \in S})
<1> DEFINE T == {g[x] : x \in S}
           h == [x \in S |-> g[x]]
<1>1. h \in Surjection(S, T)
  BY DEF Surjection
<1> QED BY <1>1, FS_Surjection

LEMMA AskedFacts ==
  ASSUME Processed
  PROVE  /\ IsFiniteSet(Asked) /\ IsFiniteSet(HarqBeams)
         /\ \A beam : IsFiniteSet(AskedOf(beam))
         /\ \A f \in Asked : Todo(f, {}) /\ BeamOf[f.p[1]] \in HarqBeams
         /\ \A f, g \in Asked : f.p = g.p => f = g
         /\ \A beam \in HarqBeams : \E f \in Asked : BeamOf[f.p[1]] = beam
<1>1. Fb2 \in Seq(Feedback) /\ Len(Fb2) \in Nat /\ DOMAIN Fb2 = 1 .. Len(Fb2)
  BY DEF Processed
<1>2. IsFiniteSet(Asked)
  <2>1. IsFiniteSet(DOMAIN Fb2)
    BY <1>1, FS_Interval
  <2>2. IsFiniteSet({Fb2[i] : i \in DOMAIN Fb2})
    BY <2>1, ImageFinite
  <2> QED BY <2>2 DEF Asked, ToSet
<1>3. HarqBeams = {BeamOf[f.p[1]] : f \in Asked}
  BY DEF HarqBeams, BeamsOf, Asked
<1>4. IsFiniteSet(HarqBeams)
  <2> DEFINE g == [f \in Asked |-> BeamOf[f.p[1]]]
  <2>1. {g[f] : f \in Asked} = HarqBeams
    BY <1>3
  <2> HIDE DEF g
  <2>2. IsFiniteSet({g[f] : f \in Asked})
    BY <1>2, ImageFinite
  <2> QED BY <2>1, <2>2
<1>5. ASSUME NEW beam
      PROVE  IsFiniteSet(AskedOf(beam))
  <2>1. AskedOf(beam) \in SUBSET Asked
    BY DEF AskedOf, Asked
  <2> QED BY <2>1, <1>2, FS_Subset
<1>6. \A f \in Asked : \E k \in DOMAIN Fb2 : Fb2[k] = f
  BY DEF Asked, ToSet
<1>7. ASSUME NEW f \in Asked
      PROVE  Todo(f, {}) /\ BeamOf[f.p[1]] \in HarqBeams
  <2>1. PICK k \in DOMAIN Fb2 : Fb2[k] = f
    BY <1>6
  <2>2. f \in Feedback
    BY <2>1, <1>1
  <2>3. IsActive(Procs2, f.p) /\ ~LastVersion(Procs2[f.p]) /\ HasPackets(Procs2, f)
    BY <2>1 DEF Processed
  <2> QED BY <2>2, <2>3, <1>3 DEF Todo
<1>8. ASSUME NEW f \in Asked, NEW g \in Asked, f.p = g.p
      PROVE  f = g
  <2>1. PICK k \in DOMAIN Fb2 : Fb2[k] = f
    BY <1>6
  <2>2. PICK l \in DOMAIN Fb2 : Fb2[l] = g
    BY <1>6
  <2> QED BY <2>1, <2>2, <1>8 DEF Processed, OncePerProcess
<1> QED BY <1>2, <1>3, <1>4, <1>5, <1>7, <1>8

\* What ComputeActiveHarq gives: each beam once, and each of its NACKs once.
Ordered(a) ==
  /\ IsOrder(a.order, HarqBeams)
  /\ \A beam \in HarqBeams : IsOrder(a.list[beam], AskedOf(beam))

LEMMA ActiveHarqFacts ==
  ASSUME Processed, NEW a \in ComputeActiveHarq(Procs2, Fb2)
  PROVE  Ordered(a)
<1> DEFINE S == UNION {SortDlHarq(Procs2, Fb2, b) : b \in HarqBeams}
           Lists2 == {m \in [HarqBeams -> S] :
                       \A b \in HarqBeams : m[b] \in SortDlHarq(Procs2, Fb2, b)}
<1>1. ComputeActiveHarq(Procs2, Fb2) =
        {[order |-> o, list |-> l] : o \in SetToSeqs(HarqBeams), l \in Lists2}
  BY DEF ComputeActiveHarq, HarqBeams
<1>2. PICK o \in SetToSeqs(HarqBeams), l \in Lists2 : a = [order |-> o, list |-> l]
  BY <1>1
<1>3. a.order = o /\ a.list = l
  BY <1>2
<1>4. IsOrder(o, HarqBeams)
  BY AskedFacts, OrderFacts
<1>5. ASSUME NEW beam \in HarqBeams
      PROVE  IsOrder(l[beam], AskedOf(beam))
  <2>1. l[beam] \in SortDlHarq(Procs2, Fb2, beam)
    OBVIOUS
  <2> DEFINE m == l[beam]
  <2> HIDE DEF m
  <2>2. m \in SetToSeqs(AskedOf(beam))
    BY <2>1 DEF SortDlHarq, AskedOf, m
  <2>3. IsFiniteSet(AskedOf(beam))
    BY AskedFacts
  <2>4. IsOrder(m, AskedOf(beam))
    BY <2>2, <2>3, OrderFacts
  <2> QED BY <2>4 DEF m
<1> QED BY <1>3, <1>4, <1>5 DEF Ordered

\* The feedback of the first i beams of an order.
Of(order, i) == {f \in Asked : \E j \in 1 .. i : BeamOf[f.p[1]] = order[j]}

\* The beams before the i-th have been served.
Going(acc, order, i, s) ==
  /\ Dealt(acc, Of(order, i)) /\ PlacedBefore(acc, Upto(order, i))
  /\ acc.sym <= i * s

LEMMA NothingDealt ==
  ASSUME Processed, NEW order, NEW s \in Nat
  PROVE  LET first == [procs |-> Procs2, retx |-> <<>>, blocks |-> {}, rbg |-> 0,
                       sym |-> 0, served |-> {}]
         IN  Going(first, order, 0, s) /\ Of(order, 0) = {}
<1> DEFINE first == [procs |-> Procs2, retx |-> <<>>, blocks |-> {}, rbg |-> 0,
                     sym |-> 0, served |-> {}]
<1>1. Of(order, 0) = {}
  BY DEF Of
<1>2. first \in Acc
  <2>1. 0 \in 0 .. Bandwidth /\ 0 \in 0 .. MaxSymbols
    BY DlHarqAssumption DEF MaxSymbols
  <2> QED BY <2>1 DEF Acc, Processed
<1>3. /\ first.procs = Procs2 /\ first.retx = <<>> /\ first.blocks = {}
      /\ first.rbg = 0 /\ first.sym = 0
  OBVIOUS
<1> HIDE DEF first
<1>4. Dealt(first, {})
  BY <1>2, <1>3 DEF Dealt, Processed, OncePerProcess
<1>5. PlacedBefore(first, Upto(order, 0)) /\ first.sym <= 0 * s
  BY <1>3 DEF PlacedBefore
<1> QED BY <1>1, <1>4, <1>5 DEF Going, first

LEMMA ServeNext ==
  ASSUME TypeOK, Processed, NEW a, Ordered(a), NEW i \in 1 .. Len(a.order),
         NEW s \in Nat, Len(a.order) * s <= MaxSymbols,
         NEW acc, Going(acc, a.order, i - 1, s)
  PROVE  Going(ServeBeam(acc, a.list[a.order[i]], s), a.order, i, s)
<1> DEFINE o == a.order
           n == Len(o)
           beam == o[i]
           l == a.list[beam]
           done == Of(o, i - 1)
           earlier == Upto(o, i - 1)
           next == ServeBeam(acc, l, s)
<1>1. /\ o \in Seq(HarqBeams) /\ n \in Nat /\ DOMAIN o = 1 .. n
      /\ \A j, k \in 1 .. n : o[j] = o[k] => j = k
  <2>1. IsOrder(o, HarqBeams)
    BY DEF Ordered
  <2>2. o \in Seq(HarqBeams)
    BY <2>1 DEF IsOrder
  <2>3. n \in Nat /\ DOMAIN o = 1 .. n
    BY <2>2
  <2> QED BY <2>1, <2>2, <2>3 DEF IsOrder
<1>2. i \in Nat /\ i - 1 \in Nat /\ i <= n /\ beam \in HarqBeams
      /\ \A j \in 1 .. i - 1 : j \in 1 .. n /\ o[j] # beam
  <2>1. i \in Nat /\ i - 1 \in Nat /\ i <= n /\ beam \in HarqBeams
    BY <1>1
  <2>2. ASSUME NEW j \in 1 .. i - 1
        PROVE  j \in 1 .. n /\ o[j] # beam
    <3>1. j \in 1 .. n /\ j # i /\ i \in 1 .. n
      BY <1>1, <2>1
    <3> QED BY <3>1, <1>1
  <2> QED BY <2>1, <2>2
<1>3. beam \notin earlier
  BY <1>2 DEF Upto
<1>4. IsOrder(l, AskedOf(beam))
  BY <1>2 DEF Ordered
<1> HIDE DEF l, beam, next
<1>5. l \in Seq(AskedOf(beam)) /\ Len(l) \in Nat /\ DOMAIN l = 1 .. Len(l)
      /\ \A j \in DOMAIN l : l[j] \in AskedOf(beam)
  <2>1. l \in Seq(AskedOf(beam))
    BY <1>4 DEF IsOrder
  <2> QED BY <2>1
<1>6. BeamList(l, beam, done)
  <2>1. ASSUME NEW j \in DOMAIN l
        PROVE  l[j] \in Feedback /\ Todo(l[j], done) /\ OfBeam(l[j], beam)
    <3> DEFINE f == l[j]
    <3>1. f \in Asked /\ BeamOf[f.p[1]] = beam
      BY <1>5 DEF AskedOf, Asked
    <3> HIDE DEF f
    <3>2. Todo(f, {})
      BY <3>1, AskedFacts
    <3>3. ASSUME NEW g \in done
          PROVE  g.p # f.p
      <4>1. PICK k \in 1 .. i - 1 : BeamOf[g.p[1]] = o[k]
        BY DEF Of
      <4> QED BY <4>1, <3>1, <1>2
    <3>4. Todo(f, done)
      BY <3>2, <3>3 DEF Todo
    <3> QED BY <3>1, <3>4 DEF Todo, OfBeam, f
  <2>2. l \in Seq(Feedback)
    <3>1. l \in [1 .. Len(l) -> Feedback]
      BY <2>1, <1>5
    <3> QED BY <3>1, <1>5
  <2>3. OncePerProcess(l)
    <3>1. ASSUME NEW j \in DOMAIN l, NEW k \in DOMAIN l, l[j].p = l[k].p
          PROVE  j = k
      <4>1. l[j] \in Asked /\ l[k] \in Asked
        BY <1>5 DEF AskedOf, Asked
      <4>2. l[j] = l[k]
        BY <3>1, <4>1, AskedFacts
      <4> QED BY <4>2, <1>4 DEF IsOrder
    <3> QED BY <3>1 DEF OncePerProcess
  <2> QED BY <2>1, <2>2, <2>3 DEF BeamList
<1>7. /\ Dealt(acc, done) /\ PlacedBefore(acc, earlier) /\ acc.sym <= (i - 1) * s
      /\ acc.sym \in Nat
  <2>1. Dealt(acc, done) /\ PlacedBefore(acc, earlier) /\ acc.sym <= (i - 1) * s
    BY DEF Going
  <2>2. acc.sym \in 0 .. 14
    BY <2>1 DEF Dealt, Acc, MaxSymbols
  <2> QED BY SMTT(40), <2>1, <2>2
<1>8. acc.sym + s <= i * s /\ acc.sym + s <= MaxSymbols /\ acc.sym <= i * s
      /\ s \in 0 .. MaxSymbols
  <2>1. PICK d \in Nat : n = i + d
    <3>1. n - i \in Nat /\ n = i + (n - i)
      BY <1>1, <1>2
    <3> QED BY <3>1
  <2>2. PICK m \in Nat : i = m + 1
    <3>1. i = (i - 1) + 1
      BY <1>2
    <3> QED BY <3>1, <1>2
  <2>3. i - 1 = m
    BY <2>2
  <2>4. i * s = m * s + s /\ m * s \in Nat /\ d * s \in Nat /\ n * s = m * s + s + d * s
    BY <2>1, <2>2
  <2>5. n * s <= 14
    BY DEF MaxSymbols
  <2> QED BY <1>7, <2>3, <2>4, <2>5 DEF MaxSymbols
<1> HIDE DEF done, earlier, o, n
<1>9. /\ Dealt(ServeBeam(acc, l, s), done \cup Upto(l, Len(l)))
      /\ PlacedBefore(ServeBeam(acc, l, s), earlier \cup {beam})
      /\ ServeBeam(acc, l, s).sym \in {acc.sym, acc.sym + s}
  BY <1>3, <1>6, <1>7, <1>8, ServeBeamFacts
<1>10. Upto(l, Len(l)) = AskedOf(beam)
  <2>1. Upto(l, Len(l)) = {l[j] : j \in DOMAIN l}
    BY <1>5 DEF Upto
  <2>2. \A f \in AskedOf(beam) : \E j \in DOMAIN l : l[j] = f
    BY <1>4 DEF IsOrder
  <2> QED BY <2>1, <2>2, <1>5
<1>11. \A j : j \in 1 .. i <=> j \in 1 .. i - 1 \/ j = i
  BY <1>2
<1>12. done \cup AskedOf(beam) = Of(o, i)
  BY <1>11 DEF done, Of, AskedOf, Asked, beam
<1>13. earlier \cup {beam} = Upto(o, i)
  BY <1>11 DEF earlier, Upto, beam
<1>14. next.sym <= i * s
  BY <1>8, <1>9 DEF next
<1> QED BY <1>9, <1>10, <1>12, <1>13, <1>14 DEF Going, next, l, beam, o

LEMMA ScheduleDlHarqFacts ==
  ASSUME TypeOK, Processed, NEW a, Ordered(a), a.order # <<>>
  PROVE  /\ Dealt(ScheduleDlHarq(Procs2, a), Asked)
         /\ PlacedBefore(ScheduleDlHarq(Procs2, a), HarqBeams)
         /\ ScheduleDlHarq(Procs2, a).sym <= DlSymbols[pos]
<1> DEFINE o == a.order
           n == Len(o)
           d == DlSymbols[pos]
           s == d \div n
           first == [procs |-> Procs2, retx |-> <<>>, blocks |-> {}, rbg |-> 0,
                     sym |-> 0, served |-> {}]
           step == [p \in Acc \X (1 .. n) |-> ServeBeam(p[1], a.list[o[p[2]]], s)]
           good == [i \in 0 .. n |-> {x \in Acc : Going(x, o, i, s)}]
           Rec(f) == f = [i \in 0 .. n |->
                            IF i = 0
                            THEN [procs |-> Procs2, retx |-> <<>>, blocks |-> {},
                                  rbg |-> 0, sym |-> 0, served |-> {}]
                            ELSE ServeBeam(f[i - 1], a.list[o[i]], s)]
<1>1. /\ o \in Seq(HarqBeams) /\ n \in Nat /\ n > 0 /\ DOMAIN o = 1 .. n
      /\ \A beam \in HarqBeams : \E i \in 1 .. n : o[i] = beam
  <2>1. IsOrder(o, HarqBeams)
    BY DEF Ordered
  <2>2. o \in Seq(HarqBeams)
    BY <2>1 DEF IsOrder
  <2>3. n \in Nat /\ DOMAIN o = 1 .. n /\ n # 0
    BY <2>2
  <2> QED BY <2>1, <2>2, <2>3 DEF IsOrder
<1>2. d \in Nat /\ d <= MaxSymbols
  <2>1. d \in 0 .. 14
    BY DlHarqAssumption DEF TypeOK, MaxSymbols
  <2> QED BY <2>1 DEF MaxSymbols
<1>3. s \in Nat /\ n * s <= d
  <2> HIDE DEF d, n
  <2>1. s \in Nat
    BY <1>1, <1>2
  <2>2. d = s * n + (d % n) /\ d % n \in Nat
    BY <1>1, <1>2
  <2> HIDE DEF s
  <2>3. s * n = n * s /\ n * s \in Nat
    BY <1>1, <2>1
  <2> QED BY <1>2, <2>1, <2>2, <2>3
<1>4. n * s <= MaxSymbols
  <2> HIDE DEF s, d, n
  <2>1. n * s \in Nat
    BY <1>1, <1>3
  <2> QED BY <2>1, <1>2, <1>3 DEF MaxSymbols
<1> HIDE DEF d, s
<1>5. Going(first, o, 0, s) /\ Of(o, 0) = {}
  BY <1>3, NothingDealt
<1>6. first \in good[0]
  <2> HIDE DEF first
  <2>1. first \in Acc
    BY <1>5 DEF Going, Dealt
  <2>2. 0 \in 0 .. n
    BY <1>1
  <2> QED BY <2>1, <2>2, <1>5
<1>7. \A x \in Acc, i \in 1 .. n : step[<<x, i>>] = ServeBeam(x, a.list[o[i]], s)
  OBVIOUS
<1>8. \A i \in 1 .. n : \A x \in good[i - 1] : step[<<x, i>>] \in good[i]
  <2>1. ASSUME NEW i \in 1 .. n, NEW x \in good[i - 1]
        PROVE  step[<<x, i>>] \in good[i]
    <3>1. i \in 0 .. n /\ i - 1 \in 0 .. n
      BY <1>1
    <3>2. x \in Acc /\ Going(x, o, i - 1, s)
      BY <3>1
    <3>3. Going(ServeBeam(x, a.list[o[i]], s), o, i, s)
      BY <3>2, <1>3, <1>4, ServeNext
    <3>4. ServeBeam(x, a.list[o[i]], s) \in Acc
      BY <3>3 DEF Going, Dealt
    <3> QED BY <3>1, <3>2, <3>3, <3>4, <1>7
  <2> QED BY <2>1
<1>9. good \in [0 .. n -> SUBSET Acc]
  OBVIOUS
<1> HIDE DEF n, first, step, good
<1>10. PICK f \in [0 .. n -> Acc] : Guarded(f, n, first, step, good)
  BY <1>1, <1>6, <1>8, <1>9, GuardedRecursion
<1>11. /\ f[0] = first
       /\ \A i \in 1 .. n : f[i] = ServeBeam(f[i - 1], a.list[o[i]], s)
  <2>1. ASSUME NEW i \in 1 .. n
        PROVE  f[i] = ServeBeam(f[i - 1], a.list[o[i]], s)
    <3>1. i - 1 \in 0 .. n
      BY <1>1
    <3>2. f[i - 1] \in Acc
      BY <3>1
    <3>3. f[i] = step[<<f[i - 1], i>>]
      BY <1>10 DEF Guarded, Follows
    <3> QED BY <3>2, <3>3, <1>7
  <2> QED BY <2>1, <1>10 DEF Guarded, Follows
<1>12. Rec(f)
  <2>1. f = [i \in 0 .. n |-> f[i]]
    OBVIOUS
  <2>2. ASSUME NEW i \in 0 .. n
        PROVE  f[i] = IF i = 0 THEN first ELSE ServeBeam(f[i - 1], a.list[o[i]], s)
    <3>1. CASE i = 0
      BY <3>1, <1>11
    <3>2. CASE i # 0
      <4>1. i \in 1 .. n
        BY <3>2, <1>1
      <4> QED BY <4>1, <3>2, <1>11
    <3> QED BY <3>1, <3>2
  <2> QED BY <2>1, <2>2 DEF first
<1> DEFINE h == CHOOSE g : Rec(g)
<1>13. Rec(h)
  BY <1>12
<1>14. ScheduleDlHarq(Procs2, a) = h[n]
  BY DEF ScheduleDlHarq, n, s, d
<1> HIDE DEF h
<1>15. h = [i \in 0 .. n |-> IF i = 0 THEN first ELSE ServeBeam(h[i - 1], a.list[o[i]], s)]
  BY <1>13 DEF first
<1> DEFINE G == {i \in 0 .. n : h[i] = f[i]}
<1>16. \A i \in 0 .. n : h[i] = IF i = 0 THEN first
                               ELSE ServeBeam(h[i - 1], a.list[o[i]], s)
  BY <1>15, Zenon
<1>17. 0 \in G
  <2>1. 0 \in 0 .. n
    BY <1>1
  <2>2. h[0] = first
    BY <2>1, <1>16, Zenon
  <2> QED BY <2>1, <2>2, <1>11
<1>18. ASSUME NEW i \in 0 .. n - 1, i \in G
       PROVE  i + 1 \in G
  <2>1. i + 1 \in 1 .. n /\ (i + 1) - 1 = i /\ i + 1 \in 0 .. n /\ i + 1 # 0
    BY <1>1
  <2>2. h[i + 1] = ServeBeam(h[i], a.list[o[i + 1]], s)
    BY <2>1, <1>16
  <2>3. f[i + 1] = ServeBeam(f[i], a.list[o[i + 1]], s)
    BY <2>1, <1>11
  <2> QED BY <2>1, <2>2, <2>3, <1>18
<1> HIDE DEF G
<1>19. n \in G
  <2>1. \A i \in 0 .. n : i \in G
    BY <1>1, <1>17, <1>18, InductionUpTo
  <2> QED BY <2>1, <1>1
<1> DEFINE r == ScheduleDlHarq(Procs2, a)
<1>20. r = f[n]
  BY <1>14, <1>19 DEF G
<1>21. Going(f[n], o, n, s)
  <2>1. n \in 0 .. n
    BY <1>1
  <2> QED BY <2>1, <1>10 DEF Guarded, good
<1> HIDE DEF r, o
<1>22. Of(o, n) = Asked
  <2>1. \A g \in Asked : BeamOf[g.p[1]] \in HarqBeams
    BY AskedFacts
  <2> QED BY <2>1, <1>1 DEF Of
<1>23. Upto(o, n) = HarqBeams
  <2>1. \A j \in 1 .. n : o[j] \in HarqBeams
    BY <1>1
  <2> QED BY <2>1, <1>1 DEF Upto
<1>24. r.sym <= n * s /\ r.sym \in Nat
  <2>1. r.sym \in 0 .. 14
    BY <1>20, <1>21 DEF Going, Dealt, Acc, MaxSymbols
  <2> QED BY <2>1, <1>20, <1>21 DEF Going
<1>25. r.sym <= d
  <2>1. n * s \in Nat
    BY <1>1, <1>3
  <2> QED BY <2>1, <1>2, <1>3, <1>24
<1> QED BY <1>20, <1>21, <1>22, <1>23, <1>25 DEF Going, r, d

\* The result of the retransmissions of a slot, also if there are none.
Scheduled(h) ==
  \E acc : /\ Dealt(acc, Asked) /\ acc.sym <= DlSymbols[pos]
           /\ \A b \in acc.blocks : b.start + b.sym <= acc.sym
           /\ h.procs = acc.procs /\ h.retx = acc.retx /\ h.blocks = acc.blocks
           /\ h.sym = acc.sym

LEMMA NoneScheduled ==
  ASSUME TypeOK, Processed, Fb2 = <<>>
  PROVE  Scheduled([procs |-> Procs2, retx |-> <<>>, blocks |-> {}, sym |-> 0])
<1> DEFINE none == [procs |-> Procs2, retx |-> <<>>, blocks |-> {}, sym |-> 0]
           first == [procs |-> Procs2, retx |-> <<>>, blocks |-> {}, rbg |-> 0,
                     sym |-> 0, served |-> {}]
<1>1. Going(first, <<>>, 0, 0) /\ Of(<<>>, 0) = {}
  BY NothingDealt
<1>2. Asked = {}
  BY DEF Asked, ToSet
<1>3. Dealt(first, Asked)
  BY <1>1, <1>2 DEF Going
<1>4. DlSymbols[pos] \in 0 .. 14
  BY DlHarqAssumption DEF TypeOK, MaxSymbols
<1>5. /\ first.procs = Procs2 /\ first.retx = <<>> /\ first.blocks = {} /\ first.sym = 0
      /\ none.procs = Procs2 /\ none.retx = <<>> /\ none.blocks = {} /\ none.sym = 0
      /\ 0 <= DlSymbols[pos]
  BY <1>4
<1> HIDE DEF first, none
<1> QED BY <1>3, <1>5 DEF Scheduled, none

LEMMA SomeScheduled ==
  ASSUME TypeOK, Processed, Fb2 # <<>>, NEW a \in ComputeActiveHarq(Procs2, Fb2)
  PROVE  Scheduled(ScheduleDlHarq(Procs2, a))
<1>1. Ordered(a)
  BY ActiveHarqFacts
<1>2. a.order # <<>>
  <2>1. Fb2 \in Seq(Feedback) /\ 1 \in DOMAIN Fb2
    BY DEF Processed
  <2>2. Fb2[1] \in Asked
    BY <2>1 DEF Asked, ToSet
  <2>3. PICK beam : beam \in HarqBeams
    BY <2>2, AskedFacts
  <2>4. PICK i \in DOMAIN a.order : a.order[i] = beam
    BY <2>3, <1>1 DEF Ordered, IsOrder
  <2>5. ASSUME a.order = <<>>
        PROVE  FALSE
    <3>1. DOMAIN a.order = {}
      BY <2>5
    <3> QED BY <3>1, <2>4
  <2> QED BY <2>5
<1> DEFINE h == ScheduleDlHarq(Procs2, a)
<1>3. /\ Dealt(ScheduleDlHarq(Procs2, a), Asked)
      /\ PlacedBefore(ScheduleDlHarq(Procs2, a), HarqBeams)
      /\ ScheduleDlHarq(Procs2, a).sym <= DlSymbols[pos]
  BY <1>1, <1>2, ScheduleDlHarqFacts
<1> HIDE DEF h
<1> QED BY <1>3 DEF Scheduled, PlacedBefore

-----------------------------------------------------------------------------
(***************************************************************************)
(* The new blocks of a slot.                                               *)
(***************************************************************************)
NewBeams == BeamsOf(Active(Procs2))

\* What the scheduler chooses once the retransmissions have been placed.
Choice(h, order, symPerBeam, assigned) ==
  /\ order \in SetToSeqs(NewBeams)
  /\ symPerBeam \in GetSymPerBeam(order, DlSymbols[pos] - h.sym)
  /\ assigned \in AssignDLRBG(Active(Procs2) \ {b.p[1] : b \in h.blocks}, symPerBeam)

\* What a UE is given.
Share(h, symPerBeam, assigned, u) ==
  /\ u \in Ue /\ \E p \in Processes : p[1] = u /\ ~IsActive(Procs2, p)
  /\ \A b \in h.blocks : b.p[1] # u
  /\ assigned[u].rbgs \in Nat /\ assigned[u].rbgs > 0
  /\ assigned[u].sent \in (SUBSET Stream) \ {{}} /\ assigned[u].units \in Nat
  /\ assigned[u].units <= data[u]
  /\ symPerBeam[BeamOf[u]] \in Nat /\ symPerBeam[BeamOf[u]] > 0
  /\ BeamOf[u] \in NewBeams

Shares(h, order, symPerBeam, assigned) ==
  /\ IsOrder(order, NewBeams)
  /\ symPerBeam \in [NewBeams -> Nat]
  /\ order # <<>> =>
       Total([i \in DOMAIN order |-> symPerBeam[order[i]]]) = DlSymbols[pos] - h.sym
  /\ DOMAIN assigned \in SUBSET Ue
  /\ \A u \in DOMAIN assigned : Share(h, symPerBeam, assigned, u)
  /\ \A u \in DOMAIN assigned : Total(Rbgs(assigned, BeamOf[u])) <= Bandwidth

LEMMA SharesFacts ==
  ASSUME TypeOK, NEW h, h.sym \in Nat, h.sym <= DlSymbols[pos],
         NEW order, NEW symPerBeam, NEW assigned,
         Choice(h, order, symPerBeam, assigned)
  PROVE  Shares(h, order, symPerBeam, assigned)
<1> DEFINE avail == DlSymbols[pos] - h.sym
           ues == Active(Procs2) \ {b.p[1] : b \in h.blocks}
           Assigned == [rbgs : 1 .. Bandwidth, sent : (SUBSET Stream) \ {{}},
                        units : 1 .. MaxReports]
<1>1. IsFiniteSet(NewBeams)
  <2>1. Active(Procs2) \in SUBSET Ue
    BY DEF Active
  <2>2. IsFiniteSet(Active(Procs2))
    BY <2>1, UeFinite, FS_Subset
  <2>3. IsFiniteSet({BeamOf[u] : u \in Active(Procs2)})
    BY <2>2, ImageFinite
  <2> QED BY <2>3 DEF NewBeams, BeamsOf
<1>2. IsOrder(order, NewBeams)
  BY <1>1, OrderFacts DEF Choice
<1>3. ToSet(order) = NewBeams
  <2>1. order \in Seq(NewBeams) /\ \A x \in NewBeams : \E i \in DOMAIN order : order[i] = x
    BY <1>2 DEF IsOrder
  <2>2. \A i \in DOMAIN order : order[i] \in NewBeams
    BY <2>1
  <2> QED BY <2>1, <2>2 DEF ToSet
<1>4. avail \in Nat
  <2>1. DlSymbols[pos] \in 0 .. 14
    BY DlHarqAssumption DEF TypeOK, MaxSymbols
  <2> QED BY <2>1
<1>5. /\ symPerBeam \in [NewBeams -> 0 .. avail]
      /\ order # <<>> => Total([i \in DOMAIN order |-> symPerBeam[order[i]]]) = avail
  BY <1>3 DEF Choice, GetSymPerBeam
<1> HIDE DEF avail
<1>6. symPerBeam \in [NewBeams -> Nat]
  <2>1. \A b \in NewBeams : symPerBeam[b] \in Nat
    BY <1>4, <1>5
  <2> QED BY <2>1, <1>5
<1>7. PICK S \in SUBSET ues : assigned \in [S -> Assigned]
  BY DEF Choice, AssignDLRBG
<1>8. /\ \A u \in DOMAIN assigned : symPerBeam[BeamOf[u]] > 0 /\ assigned[u].units <= data[u]
      /\ \A beam \in BeamsOf(DOMAIN assigned) : Total(Rbgs(assigned, beam)) <= Bandwidth
  BY DEF Choice, AssignDLRBG
<1>9. DOMAIN assigned = S /\ \A u \in S : assigned[u] \in Assigned
  BY <1>7
<1>10. ASSUME NEW u \in DOMAIN assigned
       PROVE  Share(h, symPerBeam, assigned, u) /\ Total(Rbgs(assigned, BeamOf[u])) <= Bandwidth
  <2>1. u \in Active(Procs2) /\ \A b \in h.blocks : b.p[1] # u
    BY <1>9
  <2>2. u \in Ue /\ \E p \in Processes : p[1] = u /\ ~IsActive(Procs2, p)
    BY <2>1 DEF Active
  <2> DEFINE d == assigned[u]
  <2>3. d \in Assigned
    BY <1>9
  <2> HIDE DEF d
  <2>4. d.rbgs \in 1 .. Bandwidth /\ d.sent \in (SUBSET Stream) \ {{}} /\ d.units \in 1 .. MaxReports
    BY <2>3
  <2>5. d.rbgs \in Nat /\ d.rbgs > 0 /\ d.units \in Nat
    BY <2>4, DlHarqAssumption
  <2>6. BeamOf[u] \in NewBeams /\ BeamOf[u] \in BeamsOf(DOMAIN assigned)
    BY <2>1 DEF NewBeams, BeamsOf
  <2>7. symPerBeam[BeamOf[u]] \in Nat
    BY <2>6, <1>6
  <2>8. Total(Rbgs(assigned, BeamOf[u])) <= Bandwidth
    BY <2>6, <1>8
  <2> HIDE DEF Assigned, ues
  <2> QED BY <2>1, <2>2, <2>4, <2>5, <2>6, <2>7, <2>8, <1>8 DEF Share, d
<1>11. DOMAIN assigned \in SUBSET Ue
  BY <1>10 DEF Share
<1> QED BY <1>2, <1>5, <1>6, <1>10, <1>11 DEF Shares, avail

\* Where the block of a UE starts.
FirstRbg(assigned, u) == PartialSums(Rbgs(assigned, BeamOf[u]))[Place(UeSeq, u) - 1]
FirstSym(order, symPerBeam, assigned, u) ==
  PartialSums(Symbols(assigned, symPerBeam, order))[Place(order, BeamOf[u]) - 1]

LEMMA UePlace ==
  ASSUME NEW u \in Ue
  PROVE  Place(UeSeq, u) \in 1 .. Len(UeSeq) /\ UeSeq[Place(UeSeq, u)] = u
<1>1. UeSeq \in Seq(Ue)
  BY DlHarqAssumption
<1>2. DOMAIN UeSeq = 1 .. Len(UeSeq)
  BY <1>1
<1>3. \E i \in DOMAIN UeSeq : UeSeq[i] = u
  BY DEF Ue, ToSet
<1> QED BY <1>2, <1>3, PlaceFacts

\* The RBGs of the UEs of a beam follow each other.
LEMMA RbgFacts ==
  ASSUME NEW h, NEW order, NEW symPerBeam, NEW assigned,
         Shares(h, order, symPerBeam, assigned)
  PROVE  /\ \A u \in DOMAIN assigned :
              /\ FirstRbg(assigned, u) \in Nat
              /\ FirstRbg(assigned, u) + assigned[u].rbgs <= Bandwidth
         /\ \A u, v \in DOMAIN assigned :
              u # v /\ BeamOf[u] = BeamOf[v] =>
                \/ FirstRbg(assigned, u) + assigned[u].rbgs <= FirstRbg(assigned, v)
                \/ FirstRbg(assigned, v) + assigned[v].rbgs <= FirstRbg(assigned, u)
<1> DEFINE n == Len(UeSeq)
<1>1. n \in Nat /\ DOMAIN UeSeq = 1 .. n
  BY DlHarqAssumption
<1>2. \A u \in DOMAIN assigned :
        /\ u \in Ue /\ assigned[u].rbgs \in Nat
        /\ Total(Rbgs(assigned, BeamOf[u])) <= Bandwidth
  BY DEF Shares, Share
<1>3. ASSUME NEW beam
      PROVE  LET r == Rbgs(assigned, beam)
             IN  /\ r \in Seq(Nat) /\ Len(r) = n
                 /\ \A u \in DOMAIN assigned :
                      BeamOf[u] = beam => r[Place(UeSeq, u)] = assigned[u].rbgs
  <2> DEFINE r == Rbgs(assigned, beam)
  <2>1. r = [i \in 1 .. n |->
              IF UeSeq[i] \in DOMAIN assigned /\ BeamOf[UeSeq[i]] = beam
              THEN assigned[UeSeq[i]].rbgs ELSE 0]
    BY <1>1 DEF Rbgs
  <2> HIDE DEF r, n
  <2>2. r \in [1 .. n -> Nat]
    BY <2>1, <1>2
  <2>3. ASSUME NEW u \in DOMAIN assigned, BeamOf[u] = beam
        PROVE  r[Place(UeSeq, u)] = assigned[u].rbgs
    <3>1. Place(UeSeq, u) \in 1 .. n /\ UeSeq[Place(UeSeq, u)] = u
      BY <1>2, UePlace DEF n
    <3> QED BY <3>1, <2>1, <2>3
  <2>4. r \in Seq(Nat) /\ Len(r) = n
    BY <2>2, <1>1
  <2> QED BY <2>3, <2>4 DEF r
<1>4. ASSUME NEW u \in DOMAIN assigned
      PROVE  /\ FirstRbg(assigned, u) \in Nat
             /\ FirstRbg(assigned, u) + assigned[u].rbgs <= Bandwidth
  <2> DEFINE r == Rbgs(assigned, BeamOf[u])
             k == Place(UeSeq, u)
  <2>1. r \in Seq(Nat) /\ Len(r) = n /\ r[k] = assigned[u].rbgs
    BY <1>3
  <2>2. k \in 1 .. n
    BY <1>2, UePlace
  <2>3. Total(r) <= Bandwidth /\ assigned[u].rbgs \in Nat
    BY <1>2
  <2>4. FirstRbg(assigned, u) = PartialSums(r)[k - 1]
    BY DEF FirstRbg
  <2> HIDE DEF r, k, n
  <2>5. Within(r, k)
    BY <2>1, <2>2, PartialSumsApart
  <2>6. Total(r) \in Nat
    BY <2>1, TotalFacts
  <2>7. /\ FirstRbg(assigned, u) \in Nat
        /\ FirstRbg(assigned, u) + assigned[u].rbgs <= Total(r)
    BY <2>1, <2>4, <2>5 DEF Within
  <2> QED BY <2>3, <2>6, <2>7, DlHarqAssumption
<1>5. ASSUME NEW u \in DOMAIN assigned, NEW v \in DOMAIN assigned,
             u # v, BeamOf[u] = BeamOf[v]
      PROVE  \/ FirstRbg(assigned, u) + assigned[u].rbgs <= FirstRbg(assigned, v)
             \/ FirstRbg(assigned, v) + assigned[v].rbgs <= FirstRbg(assigned, u)
  <2> DEFINE r == Rbgs(assigned, BeamOf[u])
             k == Place(UeSeq, u)
             l == Place(UeSeq, v)
  <2>1. r \in Seq(Nat) /\ Len(r) = n /\ r[k] = assigned[u].rbgs /\ r[l] = assigned[v].rbgs
    BY <1>3, <1>5
  <2>2. k \in 1 .. n /\ l \in 1 .. n /\ k # l
    <3>1. k \in 1 .. n /\ UeSeq[k] = u /\ l \in 1 .. n /\ UeSeq[l] = v
      BY <1>2, UePlace
    <3> QED BY <3>1, <1>5
  <2>3. FirstRbg(assigned, u) = PartialSums(r)[k - 1]
        /\ FirstRbg(assigned, v) = PartialSums(r)[l - 1]
    BY <1>5 DEF FirstRbg
  <2> HIDE DEF r, k, l, n
  <2>4. Apart(r, k, l)
    BY <2>1, <2>2, PartialSumsApart
  <2> QED BY <2>1, <2>3, <2>4 DEF Apart
<1> QED BY <1>4, <1>5

\* So do the symbols of the beams.
LEMMA SymFacts ==
  ASSUME TypeOK, NEW h, h.sym \in Nat, h.sym <= DlSymbols[pos],
         NEW order, NEW symPerBeam, NEW assigned,
         Shares(h, order, symPerBeam, assigned)
  PROVE  /\ \A u \in DOMAIN assigned :
              /\ FirstSym(order, symPerBeam, assigned, u) \in Nat
              /\ h.sym + FirstSym(order, symPerBeam, assigned, u)
                   + symPerBeam[BeamOf[u]] <= DlSymbols[pos]
         /\ \A u, v \in DOMAIN assigned :
              BeamOf[u] # BeamOf[v] =>
                \/ FirstSym(order, symPerBeam, assigned, u) + symPerBeam[BeamOf[u]]
                     <= FirstSym(order, symPerBeam, assigned, v)
                \/ FirstSym(order, symPerBeam, assigned, v) + symPerBeam[BeamOf[v]]
                     <= FirstSym(order, symPerBeam, assigned, u)
<1> DEFINE n == Len(order)
           r == Symbols(assigned, symPerBeam, order)
           t == [i \in DOMAIN order |-> symPerBeam[order[i]]]
           k(u) == Place(order, BeamOf[u])
<1>1. /\ IsOrder(order, NewBeams) /\ symPerBeam \in [NewBeams -> Nat]
      /\ order # <<>> => Total(t) = DlSymbols[pos] - h.sym
      /\ \A u \in DOMAIN assigned : BeamOf[u] \in NewBeams
  BY DEF Shares, Share
<1>2. n \in Nat /\ DOMAIN order = 1 .. n /\ \A i \in 1 .. n : order[i] \in NewBeams
  <2>1. order \in Seq(NewBeams)
    BY <1>1 DEF IsOrder
  <2> QED BY <2>1
<1>3. r = [i \in 1 .. n |-> IF order[i] \in BeamsOf(DOMAIN assigned)
                            THEN symPerBeam[order[i]] ELSE 0]
      /\ t = [i \in 1 .. n |-> symPerBeam[order[i]]]
  BY <1>2 DEF Symbols
<1> HIDE DEF r, t, n
<1>4. /\ r \in Seq(Nat) /\ Len(r) = n /\ t \in Seq(Nat) /\ Len(t) = n
      /\ \A i \in 1 .. n : r[i] <= t[i]
  <2>1. r \in [1 .. n -> Nat] /\ t \in [1 .. n -> Nat]
    BY <1>1, <1>2, <1>3
  <2>2. \A i \in 1 .. n : symPerBeam[order[i]] \in Nat
    BY <1>1, <1>2
  <2>3. \A i \in 1 .. n : r[i] <= t[i]
    BY <2>2, <1>3
  <2> QED BY <2>1, <2>3, <1>2
<1>5. Total(r) <= Total(t) /\ Total(r) \in Nat /\ Total(t) \in Nat
  BY <1>4, TotalNoMore, TotalFacts
<1>6. ASSUME NEW u \in DOMAIN assigned
      PROVE  /\ k(u) \in 1 .. n /\ order[k(u)] = BeamOf[u]
             /\ r[k(u)] = symPerBeam[BeamOf[u]] /\ symPerBeam[BeamOf[u]] \in Nat
             /\ FirstSym(order, symPerBeam, assigned, u) = PartialSums(r)[k(u) - 1]
  <2>1. \E i \in DOMAIN order : order[i] = BeamOf[u]
    BY <1>1 DEF IsOrder
  <2>2. k(u) \in 1 .. n /\ order[k(u)] = BeamOf[u]
    BY <2>1, <1>2, PlaceFacts
  <2>3. BeamOf[u] \in BeamsOf(DOMAIN assigned)
    BY DEF BeamsOf
  <2>4. r[k(u)] = symPerBeam[BeamOf[u]]
    <3> HIDE DEF k
    <3> QED BY <2>2, <2>3, <1>3
  <2>5. FirstSym(order, symPerBeam, assigned, u) = PartialSums(r)[k(u) - 1]
    BY DEF FirstSym, r
  <2>6. symPerBeam[BeamOf[u]] \in Nat
    BY <1>1
  <2> QED BY <2>2, <2>4, <2>5, <2>6
<1> HIDE DEF k
<1>7. ASSUME NEW u \in DOMAIN assigned
      PROVE  /\ FirstSym(order, symPerBeam, assigned, u) \in Nat
             /\ h.sym + FirstSym(order, symPerBeam, assigned, u)
                  + symPerBeam[BeamOf[u]] <= DlSymbols[pos]
  <2>1. Within(r, k(u))
    BY <1>4, <1>6, PartialSumsApart
  <2>2. order # <<>>
    <3>1. n # 0
      BY <1>6, <1>2
    <3> QED BY <3>1 DEF n
  <2>3. Total(t) = DlSymbols[pos] - h.sym
    BY <2>2, <1>1
  <2> DEFINE x == FirstSym(order, symPerBeam, assigned, u)
             y == symPerBeam[BeamOf[u]]
             d == DlSymbols[pos]
  <2>4. x \in Nat /\ x + y <= Total(r) /\ y \in Nat
    BY <2>1, <1>6 DEF Within
  <2>5. d \in 0 .. 14
    BY DlHarqAssumption DEF TypeOK, MaxSymbols
  <2> HIDE DEF x, y, d
  <2>6. h.sym \in Nat /\ h.sym <= d /\ Total(t) = d - h.sym
    BY <2>3 DEF d
  <2>7. x + y <= d - h.sym
    BY <2>4, <2>5, <2>6, <1>5
  <2> QED BY <2>4, <2>5, <2>6, <2>7 DEF x, y, d
<1>8. ASSUME NEW u \in DOMAIN assigned, NEW v \in DOMAIN assigned, BeamOf[u] # BeamOf[v]
      PROVE  \/ FirstSym(order, symPerBeam, assigned, u) + symPerBeam[BeamOf[u]]
                  <= FirstSym(order, symPerBeam, assigned, v)
             \/ FirstSym(order, symPerBeam, assigned, v) + symPerBeam[BeamOf[v]]
                  <= FirstSym(order, symPerBeam, assigned, u)
  <2>1. k(u) # k(v)
    BY <1>6, <1>8
  <2>2. Apart(r, k(u), k(v))
    BY <2>1, <1>4, <1>6, PartialSumsApart
  <2> QED BY <2>2, <1>6 DEF Apart
<1> QED BY <1>7, <1>8

\* A UE with a free process has a first one.
LEMMA FreeProcess ==
  ASSUME NEW procs, NEW u \in Ue, \E p \in Processes : p[1] = u /\ ~IsActive(procs, p)
  PROVE  /\ <<u, FirstAvailableId(procs, u)>> \in Processes
         /\ ~IsActive(procs, <<u, FirstAvailableId(procs, u)>>)
<1> DEFINE Free == {h \in 0 .. NumHarq - 1 : ~IsActive(procs, <<u, h>>)}
<1>1. Free \in SUBSET Nat
  BY DlHarqAssumption
<1>2. Free # {}
  <2>1. PICK p \in Processes : p[1] = u /\ ~IsActive(procs, p)
    OBVIOUS
  <2>2. p = <<u, p[2]>> /\ p[2] \in 0 .. NumHarq - 1
    BY <2>1 DEF Processes
  <2> QED BY <2>1, <2>2
<1>3. \E m \in Free : \A n \in Free : m <= n
  BY <1>1, <1>2, LeastOf
<1>4. FirstAvailableId(procs, u) \in Free
  BY <1>3 DEF FirstAvailableId, Min
<1> QED BY <1>4 DEF Processes

\* The new block of a UE.
New(b, h, order, symPerBeam, assigned, u) ==
  /\ b \in Block /\ b.p[1] = u /\ ~IsActive(h.procs, b.p) /\ b.sent # {}
  /\ \A s \in b.sent : b.pkts[s] = b.tb
  /\ b.start = h.sym + FirstSym(order, symPerBeam, assigned, u)
  /\ b.sym = symPerBeam[BeamOf[u]]
  /\ b.rbgs = FirstRbg(assigned, u) .. FirstRbg(assigned, u) + assigned[u].rbgs - 1
  /\ b.slot = pos /\ b.left = FeedbackDelay[pos]

LEMMA NewBlockFacts ==
  ASSUME TypeOK, NEW h, h.sym \in Nat, h.sym <= DlSymbols[pos],
         \A p \in Processes : ~IsActive(Procs2, p) => ~IsActive(h.procs, p),
         NEW order, NEW symPerBeam, NEW assigned,
         Shares(h, order, symPerBeam, assigned), NEW u \in DOMAIN assigned
  PROVE  New(NewBlock(h.procs, u, assigned, symPerBeam, order, h.sym), h, order,
             symPerBeam, assigned, u)
<1> DEFINE b == NewBlock(h.procs, u, assigned, symPerBeam, order, h.sym)
           tb == created + Cardinality({v \in DOMAIN assigned :
                                         Place(UeSeq, v) <= Place(UeSeq, u)})
           pkts == [s \in Stream |-> IF s \in assigned[u].sent THEN tb ELSE 0]
           p == <<u, FirstAvailableId(h.procs, u)>>
           x == FirstSym(order, symPerBeam, assigned, u)
           y == symPerBeam[BeamOf[u]]
           first == FirstRbg(assigned, u)
           rbgs == first .. first + assigned[u].rbgs - 1
<1>1. Share(h, symPerBeam, assigned, u)
  BY DEF Shares
<1>2. u \in Ue /\ p \in Processes /\ ~IsActive(h.procs, p)
  BY <1>1, FreeProcess DEF Share
<1>3. tb \in Nat
  <2> DEFINE S == {v \in DOMAIN assigned : Place(UeSeq, v) <= Place(UeSeq, u)}
  <2>1. S \in SUBSET Ue
    BY DEF Shares
  <2>2. IsFiniteSet(S)
    BY <2>1, UeFinite, FS_Subset
  <2>3. Cardinality(S) \in Nat
    BY <2>2, FS_CardinalityType
  <2> HIDE DEF S
  <2>4. created + Cardinality(S) \in Nat
    BY <2>3 DEF TypeOK
  <2> QED BY <2>4 DEF S
<1>4. b = [p |-> p, tb |-> tb, pkts |-> pkts, sent |-> assigned[u].sent,
           start |-> h.sym + x, sym |-> y, rbgs |-> rbgs,
           slot |-> pos, left |-> FeedbackDelay[pos]]
  BY DEF NewBlock, FirstSym, FirstRbg
<1> HIDE DEF tb
<1>5. pkts \in [Stream -> Nat] /\ \A s \in assigned[u].sent : pkts[s] = tb
  BY <1>1, <1>3 DEF Share
<1>6. first \in Nat /\ first + assigned[u].rbgs <= Bandwidth
  BY RbgFacts
<1>7. x \in Nat /\ h.sym + x + y <= DlSymbols[pos]
  BY SymFacts
<1>8. y \in Nat /\ y > 0 /\ assigned[u].rbgs \in Nat /\ assigned[u].rbgs > 0
      /\ assigned[u].sent \in SUBSET Stream /\ assigned[u].sent # {}
  BY <1>1 DEF Share
<1> HIDE DEF b, p, x, y, first, pkts
<1>9. rbgs \in SUBSET (0 .. Bandwidth - 1)
  <2> DEFINE m == assigned[u].rbgs
  <2>1. m \in Nat /\ first + m <= Bandwidth
    BY <1>6, <1>8
  <2> HIDE DEF m
  <2>2. (first .. first + m - 1) \in SUBSET (0 .. Bandwidth - 1)
    BY <2>1, <1>6, DlHarqAssumption
  <2> QED BY <2>2 DEF m
<1>10. h.sym + x \in 0 .. MaxSymbols /\ y \in 1 .. MaxSymbols
  <2>1. DlSymbols[pos] \in 0 .. 14
    BY DlHarqAssumption DEF TypeOK, MaxSymbols
  <2> QED BY <2>1, <1>7, <1>8 DEF MaxSymbols
<1>11. pos \in Pattern /\ FeedbackDelay[pos] \in Nat
  BY DlHarqAssumption DEF TypeOK
<1> HIDE DEF rbgs
<1>12. b \in Block
  BY <1>2, <1>3, <1>4, <1>5, <1>8, <1>9, <1>10, <1>11 DEF Block
<1>13. /\ b.p = p /\ b.tb = tb /\ b.pkts = pkts /\ b.sent = assigned[u].sent
       /\ b.start = h.sym + x /\ b.sym = y /\ b.rbgs = rbgs
       /\ b.slot = pos /\ b.left = FeedbackDelay[pos]
  BY <1>4
<1>14. p[1] = u
  BY DEF p
<1> QED BY <1>2, <1>5, <1>8, <1>12, <1>13, <1>14 DEF New, b, x, y, rbgs, first

\* The new blocks: in processes that were free, behind the retransmissions,
\* and of UEs that had none.
NewSound(new, h) ==
  /\ new \in SUBSET Block /\ IsFiniteSet(new)
  /\ \A b \in new :
       /\ ~IsActive(h.procs, b.p) /\ \A c \in h.blocks : c.p[1] # b.p[1]
       /\ b.sent # {} /\ \A s \in b.sent : b.pkts[s] = b.tb
       /\ h.sym <= b.start /\ b.start + b.sym <= DlSymbols[pos]
       /\ Cardinality(b.rbgs) \in 0 .. Bandwidth /\ Cardinality(b.rbgs) > 0
       /\ b.slot = pos /\ b.left = FeedbackDelay[pos]
  /\ \A b, c \in new : b # c => b.p[1] # c.p[1] /\ Disjoint(b, c)

LEMMA NewSoundFacts ==
  ASSUME TypeOK, NEW h, h.sym \in Nat, h.sym <= DlSymbols[pos],
         \A p \in Processes : ~IsActive(Procs2, p) => ~IsActive(h.procs, p),
         NEW order, NEW symPerBeam, NEW assigned,
         Shares(h, order, symPerBeam, assigned)
  PROVE  NewSound(DoScheduleDlData(h, order, symPerBeam, assigned), h)
<1> DEFINE blockOf == [u \in DOMAIN assigned |->
                        NewBlock(h.procs, u, assigned, symPerBeam, order, h.sym)]
           new == {blockOf[u] : u \in DOMAIN assigned}
           x(u) == FirstSym(order, symPerBeam, assigned, u)
           y(u) == symPerBeam[BeamOf[u]]
           first(u) == FirstRbg(assigned, u)
           m(u) == assigned[u].rbgs
<1>1. new = DoScheduleDlData(h, order, symPerBeam, assigned)
  BY DEF DoScheduleDlData
<1>2. ASSUME NEW u \in DOMAIN assigned
      PROVE  New(blockOf[u], h, order, symPerBeam, assigned, u)
  BY NewBlockFacts
<1>3. IsFiniteSet(new)
  <2>1. IsFiniteSet(DOMAIN assigned)
    BY UeFinite, FS_Subset DEF Shares
  <2> HIDE DEF blockOf
  <2> QED BY <2>1, ImageFinite
<1>4. \A u \in DOMAIN assigned : /\ x(u) \in Nat /\ y(u) \in Nat /\ first(u) \in Nat
                                 /\ m(u) \in Nat /\ m(u) > 0
                                 /\ \A c \in h.blocks : c.p[1] # u
  <2>1. \A u \in DOMAIN assigned : x(u) \in Nat
    BY SymFacts
  <2>2. \A u \in DOMAIN assigned : first(u) \in Nat
    BY RbgFacts
  <2>3. \A u \in DOMAIN assigned : Share(h, symPerBeam, assigned, u)
    BY DEF Shares
  <2>4. \A u \in DOMAIN assigned : /\ y(u) \in Nat /\ m(u) \in Nat /\ m(u) > 0
                                   /\ \A c \in h.blocks : c.p[1] # u
    BY <2>3 DEF Share
  <2> QED BY <2>1, <2>2, <2>4
<1>5. \A u \in DOMAIN assigned : /\ h.sym + x(u) + y(u) <= DlSymbols[pos]
                                 /\ first(u) + m(u) <= Bandwidth
  <2>1. \A u \in DOMAIN assigned : h.sym + x(u) + y(u) <= DlSymbols[pos]
    BY SymFacts
  <2>2. \A u \in DOMAIN assigned : first(u) + m(u) <= Bandwidth
    BY RbgFacts
  <2> QED BY <2>1, <2>2
<1>6. \A u, v \in DOMAIN assigned :
        /\ BeamOf[u] # BeamOf[v] => x(u) + y(u) <= x(v) \/ x(v) + y(v) <= x(u)
        /\ u # v /\ BeamOf[u] = BeamOf[v] =>
             first(u) + m(u) <= first(v) \/ first(v) + m(v) <= first(u)
  <2>1. \A u, v \in DOMAIN assigned :
          BeamOf[u] # BeamOf[v] => x(u) + y(u) <= x(v) \/ x(v) + y(v) <= x(u)
    BY SymFacts
  <2>2. \A u, v \in DOMAIN assigned :
          u # v /\ BeamOf[u] = BeamOf[v] =>
            first(u) + m(u) <= first(v) \/ first(v) + m(v) <= first(u)
    BY RbgFacts
  <2> QED BY <2>1, <2>2
<1>7. \A u \in DOMAIN assigned :
        /\ blockOf[u] \in Block /\ blockOf[u].p[1] = u /\ ~IsActive(h.procs, blockOf[u].p)
        /\ blockOf[u].sent # {}
        /\ \A s \in blockOf[u].sent : blockOf[u].pkts[s] = blockOf[u].tb
        /\ blockOf[u].start = h.sym + x(u) /\ blockOf[u].sym = y(u)
        /\ blockOf[u].rbgs = first(u) .. first(u) + m(u) - 1
        /\ blockOf[u].slot = pos /\ blockOf[u].left = FeedbackDelay[pos]
  BY <1>2 DEF New
<1> HIDE DEF blockOf, x, y, first, m
<1>8. ASSUME NEW u \in DOMAIN assigned
      PROVE  LET b == blockOf[u]
             IN  /\ b \in Block /\ ~IsActive(h.procs, b.p)
                 /\ \A c \in h.blocks : c.p[1] # b.p[1]
                 /\ b.sent # {} /\ \A s \in b.sent : b.pkts[s] = b.tb
                 /\ h.sym <= b.start /\ b.start + b.sym <= DlSymbols[pos]
                 /\ Cardinality(b.rbgs) \in 0 .. Bandwidth /\ Cardinality(b.rbgs) > 0
                 /\ b.slot = pos /\ b.left = FeedbackDelay[pos]
  <2>1. h.sym <= blockOf[u].start /\ blockOf[u].start + blockOf[u].sym <= DlSymbols[pos]
    BY <1>4, <1>5, <1>7
  <2>2. first(u) \in Nat /\ m(u) \in Nat /\ m(u) > 0 /\ first(u) + m(u) <= Bandwidth
    BY <1>4, <1>5
  <2>3. Cardinality(first(u) .. first(u) + m(u) - 1) = m(u)
    <3>1. first(u) \in Int /\ first(u) + m(u) - 1 \in Int
          /\ ~(first(u) > first(u) + m(u) - 1)
          /\ (first(u) + m(u) - 1) - first(u) + 1 = m(u)
      BY <2>2
    <3> QED BY <3>1, FS_Interval
  <2>4. m(u) \in 0 .. Bandwidth
    BY <2>2, DlHarqAssumption
  <2>5. Cardinality(blockOf[u].rbgs) = m(u)
    BY <2>3, <1>7
  <2> QED BY <2>1, <2>2, <2>4, <2>5, <1>4, <1>7
<1>9. ASSUME NEW u \in DOMAIN assigned, NEW v \in DOMAIN assigned, u # v
      PROVE  Disjoint(blockOf[u], blockOf[v])
  <2>1. CASE BeamOf[u] # BeamOf[v]
    <3>1. x(u) + y(u) <= x(v) \/ x(v) + y(v) <= x(u)
      BY <2>1, <1>6
    <3>2. \/ (h.sym + x(u)) + y(u) <= h.sym + x(v)
          \/ (h.sym + x(v)) + y(v) <= h.sym + x(u)
      BY <3>1, <1>4
    <3> QED BY <3>2, <1>7 DEF Disjoint
  <2>2. CASE BeamOf[u] = BeamOf[v]
    <3>1. first(u) + m(u) <= first(v) \/ first(v) + m(v) <= first(u)
      BY <2>2, <1>6, <1>9
    <3>2. /\ first(u) \in Nat /\ m(u) \in Nat /\ first(v) \in Nat /\ m(v) \in Nat
      BY <1>4
    <3>3. (first(u) .. first(u) + m(u) - 1) \cap (first(v) .. first(v) + m(v) - 1) = {}
      BY <3>1, <3>2
    <3> QED BY <3>3, <1>7 DEF Disjoint
  <2> QED BY <2>1, <2>2
<1>10. new \in SUBSET Block
  BY <1>7
<1>11. ASSUME NEW b \in new
       PROVE  /\ ~IsActive(h.procs, b.p) /\ \A c \in h.blocks : c.p[1] # b.p[1]
              /\ b.sent # {} /\ \A s \in b.sent : b.pkts[s] = b.tb
              /\ h.sym <= b.start /\ b.start + b.sym <= DlSymbols[pos]
              /\ Cardinality(b.rbgs) \in 0 .. Bandwidth /\ Cardinality(b.rbgs) > 0
              /\ b.slot = pos /\ b.left = FeedbackDelay[pos]
  BY <1>8
<1>12. \A b, c \in new : b # c => b.p[1] # c.p[1] /\ Disjoint(b, c)
  <2>1. ASSUME NEW b \in new, NEW c \in new, b # c
        PROVE  b.p[1] # c.p[1] /\ Disjoint(b, c)
    <3>1. PICK u \in DOMAIN assigned : b = blockOf[u]
      OBVIOUS
    <3>2. PICK v \in DOMAIN assigned : c = blockOf[v]
      OBVIOUS
    <3>3. u # v
      BY <2>1, <3>1, <3>2
    <3> QED BY <3>1, <3>2, <3>3, <1>7, <1>9
  <2> QED BY <2>1
<1> HIDE DEF new
<1>13. NewSound(new, h)
  BY <1>3, <1>10, <1>11, <1>12 DEF NewSound
<1> QED BY <1>1, <1>13

-----------------------------------------------------------------------------
(***************************************************************************)
(* The slot indication.                                                    *)
(***************************************************************************)

\* What the scheduler has decided once the retransmissions have been placed.
Planned(h) ==
  /\ h.procs \in [Processes -> Process] /\ h.retx \in Seq(Feedback)
  /\ h.blocks \in SUBSET Block /\ h.sym \in Nat /\ h.sym <= DlSymbols[pos]
  /\ Sized(h.procs) /\ OncePerProcess(h.retx)
  /\ \A p \in Processes : /\ (\A f \in Asked : f.p # p) => h.procs[p] = Procs2[p]
                          /\ IsActive(h.procs, p) <=> IsActive(Procs2, p)
  /\ \A i \in DOMAIN h.retx :
       /\ h.retx[i] \in Asked
       /\ Rests(h.procs[h.retx[i].p], Procs2[h.retx[i].p])
  /\ \A b \in h.blocks :
       /\ Sound(b, h.procs) /\ Resent(b, h.procs, Asked)
       /\ \A i \in DOMAIN h.retx : h.retx[i].p # b.p
       /\ b.start + b.sym <= h.sym
  /\ \A f \in Asked : \/ \E b \in h.blocks : b.p = f.p
                      \/ \E i \in DOMAIN h.retx : h.retx[i] = f
  /\ \A b, c \in h.blocks : b # c => b.p[1] # c.p[1] /\ Disjoint(b, c)

LEMMA PlannedFacts ==
  ASSUME TypeOK, Processed, NEW h, Scheduled(h)
  PROVE  Planned(h)
<1>1. PICK acc : /\ Dealt(acc, Asked) /\ acc.sym <= DlSymbols[pos]
                 /\ \A b \in acc.blocks : b.start + b.sym <= acc.sym
                 /\ h.procs = acc.procs /\ h.retx = acc.retx /\ h.blocks = acc.blocks
                 /\ h.sym = acc.sym
  BY DEF Scheduled
<1>2. /\ h.procs \in [Processes -> Process] /\ h.retx \in Seq(Feedback)
      /\ h.blocks \in SUBSET Block /\ h.sym \in 0 .. 14
  BY <1>1 DEF Dealt, Acc, MaxSymbols
<1>3. /\ Sized(h.procs) /\ OncePerProcess(h.retx)
      /\ \A p \in Processes : (\A f \in Asked : f.p # p) => h.procs[p] = Procs2[p]
      /\ \A i \in DOMAIN h.retx :
           /\ h.retx[i] \in Asked
           /\ Rests(h.procs[h.retx[i].p], Procs2[h.retx[i].p])
      /\ \A b \in h.blocks :
           /\ Sound(b, h.procs) /\ Resent(b, h.procs, Asked)
           /\ \A i \in DOMAIN h.retx : h.retx[i].p # b.p
           /\ b.start + b.sym <= h.sym
      /\ \A f \in Asked : \/ \E b \in h.blocks : b.p = f.p
                          \/ \E i \in DOMAIN h.retx : h.retx[i] = f
      /\ \A b, c \in h.blocks : b # c => b.p[1] # c.p[1] /\ Disjoint(b, c)
  BY <1>1 DEF Dealt
<1>4. ASSUME NEW f \in Asked
      PROVE  IsActive(h.procs, f.p) /\ IsActive(Procs2, f.p)
  <2>1. IsActive(Procs2, f.p)
    BY AskedFacts DEF Todo
  <2>2. CASE \E b \in h.blocks : b.p = f.p
    <3>1. PICK b \in h.blocks : b.p = f.p
      BY <2>2
    <3>2. Sound(b, h.procs)
      BY <1>3
    <3> QED BY <2>1, <3>1, <3>2 DEF Sound, Waiting, IsActive
  <2>3. CASE \E i \in DOMAIN h.retx : h.retx[i] = f
    <3>1. PICK i \in DOMAIN h.retx : h.retx[i] = f
      BY <2>3
    <3>2. Rests(h.procs[f.p], Procs2[f.p])
      BY <1>3, <3>1
    <3> QED BY <2>1, <3>2 DEF Rests, Waiting, IsActive
  <2> QED BY <2>2, <2>3, <1>3
<1>5. ASSUME NEW p \in Processes
      PROVE  IsActive(h.procs, p) <=> IsActive(Procs2, p)
  <2>1. CASE \A f \in Asked : f.p # p
    BY <2>1, <1>3 DEF IsActive
  <2>2. CASE ~\A f \in Asked : f.p # p
    BY <2>2, <1>4
  <2> QED BY <2>1, <2>2
<1>6. h.sym \in Nat /\ h.sym <= DlSymbols[pos]
  BY <1>1, <1>2
<1> QED BY <1>2, <1>3, <1>5, <1>6 DEF Planned

\* The state after the indication, given the decisions.
Shown(h, new, assigned) ==
  /\ process' = [p \in Processes |-> IF \E b \in new : b.p = p
                                     THEN Started(CHOOSE b \in new : b.p = p)
                                     ELSE h.procs[p]]
  /\ burst' = [p \in Processes |-> IF \E b \in new : b.p = p
                                   THEN (CHOOSE b \in new : b.p = p).pkts
                                   ELSE burst[p]]
  /\ data' = [u \in Ue |-> IF u \in DOMAIN assigned THEN data[u] - assigned[u].units
                           ELSE data[u]]
  /\ inFlight' = Elapsed \cup h.blocks \cup new
  /\ created' = created + Cardinality(new)
  /\ toRetransmit' = h.retx

Indication(h, new, assigned) ==
  /\ Shown(h, new, assigned)
  /\ received' = <<>> /\ pos' = (pos + 1) % Length /\ reported' = reported

Affordable(assigned) ==
  \A u \in DOMAIN assigned : assigned[u].units \in Nat /\ assigned[u].units <= data[u]

Decides(h, new, assigned) ==
  /\ Planned(h) /\ NewSound(new, h) /\ Affordable(assigned)
  /\ Indication(h, new, assigned)

LEMMA IndicationFacts ==
  ASSUME DlInv, DoSlotDlIndication
  PROVE  /\ pos \in DlPattern /\ NoFeedbackDue
         /\ \E h, new, assigned : Decides(h, new, assigned)
<1> DEFINE none == [procs |-> Procs2, retx |-> <<>>, blocks |-> {}, sym |-> 0]
           Results == IF Fb2 = <<>> THEN {none}
                      ELSE {ScheduleDlHarq(Procs2, a) : a \in ComputeActiveHarq(Procs2, Fb2)}
           Rest(h) == Active(Procs2) \ {b.p[1] : b \in h.blocks}
<1>1. Processed /\ TypeOK
  BY ProcessedFacts DEF DlInv
<1>2. /\ pos \in DlPattern /\ NoFeedbackDue
      /\ \E h \in Results :
           \E order \in SetToSeqs(NewBeams) :
             \E symPerBeam \in GetSymPerBeam(order, DlSymbols[pos] - h.sym) :
               \E assigned \in AssignDLRBG(Rest(h), symPerBeam) :
                 LET new == DoScheduleDlData(h, order, symPerBeam, assigned)
                 IN  Shown(h, new, assigned)
  BY DEF DoSlotDlIndication, Procs1, Fb1, Procs2, Fb2, NewBeams, Shown
<1>2a. received' = <<>> /\ pos' = (pos + 1) % Length /\ reported' = reported
  BY DEF DoSlotDlIndication
<1>3. PICK h \in Results :
           \E order \in SetToSeqs(NewBeams) :
             \E symPerBeam \in GetSymPerBeam(order, DlSymbols[pos] - h.sym) :
               \E assigned \in AssignDLRBG(Rest(h), symPerBeam) :
                 Shown(h, DoScheduleDlData(h, order, symPerBeam, assigned), assigned)
  BY <1>2
<1>4. PICK order \in SetToSeqs(NewBeams) :
           \E symPerBeam \in GetSymPerBeam(order, DlSymbols[pos] - h.sym) :
             \E assigned \in AssignDLRBG(Rest(h), symPerBeam) :
               Shown(h, DoScheduleDlData(h, order, symPerBeam, assigned), assigned)
  BY <1>3
<1>4a. PICK symPerBeam \in GetSymPerBeam(order, DlSymbols[pos] - h.sym) :
            \E assigned \in AssignDLRBG(Rest(h), symPerBeam) :
              Shown(h, DoScheduleDlData(h, order, symPerBeam, assigned), assigned)
  BY <1>4
<1>4b. PICK assigned \in AssignDLRBG(Rest(h), symPerBeam) :
              Shown(h, DoScheduleDlData(h, order, symPerBeam, assigned), assigned)
  BY <1>4a
<1>4c. Indication(h, DoScheduleDlData(h, order, symPerBeam, assigned), assigned)
  BY <1>2a, <1>4b DEF Shown, Indication
<1>5. Scheduled(h)
  <2>1. CASE Fb2 = <<>>
    <3>1. h = none
      BY <2>1
    <3> QED BY <3>1, <2>1, <1>1, NoneScheduled
  <2>2. CASE Fb2 # <<>>
    <3>1. PICK a \in ComputeActiveHarq(Procs2, Fb2) : h = ScheduleDlHarq(Procs2, a)
      BY <2>2
    <3>2. Scheduled(ScheduleDlHarq(Procs2, a))
      BY <2>2, <1>1, SomeScheduled
    <3> QED BY <3>1, <3>2
  <2> QED BY <2>1, <2>2
<1>6. Planned(h)
  BY <1>1, <1>5, PlannedFacts
<1>7. Choice(h, order, symPerBeam, assigned)
  BY DEF Choice
<1>8. h.sym \in Nat /\ h.sym <= DlSymbols[pos]
      /\ \A p \in Processes : ~IsActive(Procs2, p) => ~IsActive(h.procs, p)
  BY <1>6 DEF Planned
<1>9. Shares(h, order, symPerBeam, assigned)
  BY <1>1, <1>7, <1>8, SharesFacts
<1>10. NewSound(DoScheduleDlData(h, order, symPerBeam, assigned), h)
  BY <1>1, <1>8, <1>9, NewSoundFacts
<1>11. Affordable(assigned)
  BY <1>9 DEF Shares, Share, Affordable
<1>12. Decides(h, DoScheduleDlData(h, order, symPerBeam, assigned), assigned)
  BY <1>4c, <1>6, <1>10, <1>11 DEF Decides
<1> QED BY <1>2, <1>12

\* A block a slot later.
Elapses(x, b) ==
  /\ x = [b EXCEPT !.left = @ - 1] /\ x \in Block /\ b \in Block
  /\ x.p = b.p /\ x.tb = b.tb /\ x.pkts = b.pkts /\ x.sent = b.sent
  /\ x.start = b.start /\ x.sym = b.sym /\ x.rbgs = b.rbgs /\ x.slot = b.slot
  /\ x.left = b.left - 1 /\ b.left > 0

LEMMA ElapsedFacts ==
  ASSUME TypeOK, NoFeedbackDue
  PROVE  /\ \A x \in Elapsed : \E b \in inFlight : Elapses(x, b)
         /\ \A b \in inFlight : \E x \in Elapsed : Elapses(x, b)
<1>1. ASSUME NEW b \in inFlight
      PROVE  Elapses([b EXCEPT !.left = @ - 1], b)
  <2>1. b \in Block /\ b.left \in Nat /\ b.left > 0
    <3>1. b \in Block
      BY DEF TypeOK
    <3> QED BY <3>1, BlockFacts DEF NoFeedbackDue
  <2>2. b.left - 1 \in Nat
    BY <2>1
  <2> DEFINE x == [b EXCEPT !.left = @ - 1]
  <2>3. /\ x \in Block /\ x.p = b.p /\ x.tb = b.tb /\ x.pkts = b.pkts /\ x.sent = b.sent
        /\ x.start = b.start /\ x.sym = b.sym /\ x.rbgs = b.rbgs /\ x.slot = b.slot
        /\ x.left = b.left - 1
    BY <2>1, <2>2 DEF Block
  <2> QED BY <2>1, <2>3 DEF Elapses
<1> QED BY <1>1 DEF Elapsed

\* Each process as the indication leaves it.
LEMMA AfterFacts ==
  ASSUME DlInv, NoFeedbackDue, NEW h, NEW new, NEW assigned,
         Decides(h, new, assigned)
  PROVE  /\ process' \in [Processes -> Process]
         /\ burst' \in [Processes -> [Stream -> Nat]]
         /\ \A b \in new : b.p \in Processes /\ process'[b.p] = Started(b) /\ burst'[b.p] = b.pkts
         /\ \A p \in Processes : (\A b \in new : b.p # p) =>
              process'[p] = h.procs[p] /\ burst'[p] = burst[p]
         /\ \A p \in Processes : IsActive(Procs2, p) => \A b \in new : b.p # p
<1>1. Planned(h) /\ NewSound(new, h) /\ Shown(h, new, assigned)
  BY DEF Decides, Indication
<1>2. \A b \in new : b \in Block /\ b.p \in Processes /\ Started(b) \in Process
                     /\ b.pkts \in [Stream -> Nat]
  <2>1. ASSUME NEW b \in new
        PROVE  b \in Block /\ b.p \in Processes /\ Started(b) \in Process
               /\ b.pkts \in [Stream -> Nat]
    <3>1. b \in Block /\ Cardinality(b.rbgs) \in 0 .. Bandwidth
      BY <1>1 DEF NewSound
    <3>2. b.p \in Processes /\ b.tb \in Nat /\ b.sent \in SUBSET Stream
          /\ b.pkts \in [Stream -> Nat]
      BY <3>1 DEF Block
    <3>3. b.sym \in 0 .. MaxSymbols
      <4>1. b.sym \in 1 .. 14
        BY <3>1 DEF Block, MaxSymbols
      <4> QED BY <4>1 DEF MaxSymbols
    <3>4. [s \in Stream |-> 0] \in [Stream -> 0 .. MaxRv] /\ 0 \in 0 .. NumHarq
      BY DlHarqAssumption
    <3> QED BY <3>1, <3>2, <3>3, <3>4 DEF Started, Process
  <2> QED BY <2>1
<1>3. \A b, c \in new : b.p = c.p => b = c
  BY <1>1 DEF NewSound
<1>4. ASSUME NEW b \in new
      PROVE  (CHOOSE c \in new : c.p = b.p) = b
  BY <1>3
<1>5. ASSUME NEW b \in new
      PROVE  process'[b.p] = Started(b) /\ burst'[b.p] = b.pkts
  <2>1. \E c \in new : c.p = b.p
    OBVIOUS
  <2>2. process'[b.p] = Started(CHOOSE c \in new : c.p = b.p)
        /\ burst'[b.p] = (CHOOSE c \in new : c.p = b.p).pkts
    BY <2>1, <1>1, <1>2 DEF Shown
  <2> QED BY <2>2, <1>4
<1>6. ASSUME NEW p \in Processes, \A b \in new : b.p # p
      PROVE  process'[p] = h.procs[p] /\ burst'[p] = burst[p]
  BY <1>1, <1>6 DEF Shown
<1>7. \A p \in Processes : process'[p] \in Process /\ burst'[p] \in [Stream -> Nat]
  <2>1. ASSUME NEW p \in Processes
        PROVE  process'[p] \in Process /\ burst'[p] \in [Stream -> Nat]
    <3>1. CASE \A b \in new : b.p # p
      <4>1. h.procs[p] \in Process
        BY <1>1 DEF Planned
      <4>2. burst[p] \in [Stream -> Nat]
        BY DEF DlInv, TypeOK
      <4> QED BY <3>1, <4>1, <4>2, <1>6
    <3>2. CASE ~\A b \in new : b.p # p
      BY <3>2, <1>2, <1>5
    <3> QED BY <3>1, <3>2
  <2> QED BY <2>1
<1>8. process' = [p \in Processes |-> process'[p]] /\ burst' = [p \in Processes |-> burst'[p]]
  BY <1>1 DEF Shown
<1>9. process' \in [Processes -> Process] /\ burst' \in [Processes -> [Stream -> Nat]]
  BY <1>7, <1>8
<1>10. ASSUME NEW p \in Processes, IsActive(Procs2, p), NEW b \in new, b.p = p
       PROVE  FALSE
  <2>1. IsActive(h.procs, p)
    BY <1>1, <1>10 DEF Planned
  <2>2. ~IsActive(h.procs, b.p)
    BY <1>1 DEF NewSound
  <2> QED BY <2>1, <2>2, <1>10
<1> QED BY <1>2, <1>5, <1>6, <1>9, <1>10

\* The processes of the blocks in flight, of the retransmissions, of the
\* buffered feedback and of the new blocks.
LEMMA GroupFacts ==
  ASSUME DlInv, NoFeedbackDue, NEW h, NEW new, NEW assigned,
         Decides(h, new, assigned)
  PROVE  /\ \A b \in inFlight :
              /\ b.p \in Processes /\ IsActive(Procs2, b.p) /\ \A f \in Asked : f.p # b.p
              /\ process'[b.p] = Procs2[b.p] /\ burst'[b.p] = burst[b.p]
              /\ SameBlock(process'[b.p], process[b.p])
              /\ process'[b.p].timer = process[b.p].timer + 1
         /\ \A f \in Asked :
              /\ f.p \in Processes /\ IsActive(Procs2, f.p)
              /\ process'[f.p] = h.procs[f.p] /\ burst'[f.p] = burst[f.p]
         /\ \A b \in h.blocks : b.p \in Processes /\ Sound(b, process')
                                /\ burst'[b.p] = burst[b.p]
         /\ \A b \in new : ~IsActive(Procs2, b.p) /\ Waiting(process'[b.p], b.tb)
                           /\ process'[b.p].sent = b.sent
<1>1. Planned(h) /\ NewSound(new, h) /\ Processed
  BY ProcessedFacts DEF Decides
<1>2. /\ process' \in [Processes -> Process]
      /\ \A b \in new : b.p \in Processes /\ process'[b.p] = Started(b) /\ burst'[b.p] = b.pkts
      /\ \A p \in Processes : (\A b \in new : b.p # p) =>
           process'[p] = h.procs[p] /\ burst'[p] = burst[p]
      /\ \A p \in Processes : IsActive(Procs2, p) => \A b \in new : b.p # p
  BY AfterFacts
<1>3. \A p \in Processes : IsActive(Procs2, p) =>
        process'[p] = h.procs[p] /\ burst'[p] = burst[p]
  BY <1>2
<1>4. \A f \in Asked : /\ f.p \in Processes /\ IsActive(Procs2, f.p)
                       /\ \A b \in inFlight : b.p # f.p
  <2>1. ASSUME NEW f \in Asked
        PROVE  f \in Feedback /\ IsActive(Procs2, f.p) /\ \A b \in inFlight : b.p # f.p
    <3>1. f \in Feedback /\ IsActive(Procs2, f.p)
      BY <1>1, AskedFacts DEF Todo
    <3>2. PICK k \in DOMAIN Fb2 : Fb2[k] = f
      BY DEF Asked, ToSet
    <3>3. \A b \in inFlight : b.p # f.p
      BY <3>2, <1>1 DEF Processed
    <3> QED BY <3>1, <3>3
  <2> QED BY <2>1, FeedbackFacts
<1>5. ASSUME NEW b \in inFlight
      PROVE  /\ b.p \in Processes /\ IsActive(Procs2, b.p) /\ \A f \in Asked : f.p # b.p
             /\ process'[b.p] = Procs2[b.p] /\ burst'[b.p] = burst[b.p]
             /\ SameBlock(process'[b.p], process[b.p])
             /\ process'[b.p].timer = process[b.p].timer + 1
  <2>1. b.p \in Processes
    <3>1. b \in Block
      BY DEF DlInv, TypeOK
    <3> QED BY <3>1, BlockFacts
  <2>2. SameBlock(Procs2[b.p], process[b.p]) /\ Procs2[b.p].timer = process[b.p].timer + 1
    BY <1>1 DEF Processed
  <2>3. IsActive(Procs2, b.p)
    BY <2>2 DEF DlInv, Current, SameBlock, IsActive
  <2>4. \A f \in Asked : f.p # b.p
    BY <1>4
  <2>5. h.procs[b.p] = Procs2[b.p]
    BY <2>1, <2>4, <1>1 DEF Planned
  <2> QED BY <2>1, <2>2, <2>3, <2>4, <2>5, <1>3
<1>6. ASSUME NEW b \in h.blocks
      PROVE  b.p \in Processes /\ Sound(b, process') /\ burst'[b.p] = burst[b.p]
  <2>1. Sound(b, h.procs) /\ \E f \in Asked : f.p = b.p
    BY <1>1 DEF Planned, Resent
  <2>2. b.p \in Processes /\ process'[b.p] = h.procs[b.p] /\ burst'[b.p] = burst[b.p]
    BY <2>1, <1>3, <1>4
  <2> QED BY <2>1, <2>2 DEF Sound
<1>7. ASSUME NEW b \in new
      PROVE  ~IsActive(Procs2, b.p) /\ Waiting(process'[b.p], b.tb)
             /\ process'[b.p].sent = b.sent
  <2>1. b.p \in Processes /\ process'[b.p] = Started(b)
    BY <1>2
  <2>2. ~IsActive(Procs2, b.p)
    BY <2>1, <1>1 DEF NewSound, Planned
  <2> QED BY <2>1, <2>2 DEF Waiting, Started
<1> QED BY <1>3, <1>4, <1>5, <1>6, <1>7

\* What is in flight after the indication, and whose it is.
LEMMA FlightFacts ==
  ASSUME DlInv, NoFeedbackDue, NEW h, NEW new, NEW assigned,
         Decides(h, new, assigned)
  PROVE  /\ inFlight' = Elapsed \cup h.blocks \cup new
         /\ \A x \in Elapsed : /\ \E b \in inFlight : Elapses(x, b)
                               /\ IsActive(Procs2, x.p) /\ \A f \in Asked : f.p # x.p
         /\ \A x \in h.blocks : IsActive(Procs2, x.p) /\ \E f \in Asked : f.p = x.p
         /\ \A x \in new : ~IsActive(Procs2, x.p)
         /\ \A x \in inFlight' : x \in Block /\ x.p \in Processes
<1>1. Planned(h) /\ NewSound(new, h) /\ Shown(h, new, assigned) /\ TypeOK
  BY DEF Decides, Indication, DlInv
<1>2. ASSUME NEW x \in Elapsed
      PROVE  /\ \E b \in inFlight : Elapses(x, b)
             /\ IsActive(Procs2, x.p) /\ \A f \in Asked : f.p # x.p
             /\ x \in Block
  <2>1. PICK b \in inFlight : Elapses(x, b)
    BY <1>1, ElapsedFacts
  <2>2. IsActive(Procs2, b.p) /\ \A f \in Asked : f.p # b.p
    BY GroupFacts
  <2> QED BY <2>1, <2>2 DEF Elapses
<1>3. ASSUME NEW x \in h.blocks
      PROVE  IsActive(Procs2, x.p) /\ (\E f \in Asked : f.p = x.p) /\ x \in Block
  <2>1. PICK f \in Asked : f.p = x.p
    BY <1>1 DEF Planned, Resent
  <2>2. IsActive(Procs2, f.p)
    BY GroupFacts
  <2> QED BY <2>1, <2>2, <1>1 DEF Planned
<1>4. ASSUME NEW x \in new
      PROVE  ~IsActive(Procs2, x.p) /\ x \in Block
  BY <1>1, GroupFacts DEF NewSound
<1>5. inFlight' = Elapsed \cup h.blocks \cup new
  BY <1>1 DEF Shown
<1>6. ASSUME NEW x \in inFlight'
      PROVE  x \in Block /\ x.p \in Processes
  <2>1. x \in Block
    BY <1>2, <1>3, <1>4, <1>5
  <2> QED BY <2>1, BlockFacts
<1> QED BY <1>2, <1>3, <1>4, <1>5, <1>6

LEMMA IndicationOneThing ==
  ASSUME DlInv, NoFeedbackDue, NEW h, NEW new, NEW assigned,
         Decides(h, new, assigned)
  PROVE  OneThing'
<1>1. /\ inFlight' = Elapsed \cup h.blocks \cup new
      /\ \A x \in Elapsed : /\ \E b \in inFlight : Elapses(x, b)
                            /\ IsActive(Procs2, x.p) /\ \A f \in Asked : f.p # x.p
      /\ \A x \in h.blocks : IsActive(Procs2, x.p) /\ \E f \in Asked : f.p = x.p
      /\ \A x \in new : ~IsActive(Procs2, x.p)
  BY FlightFacts
<1>2. Planned(h) /\ NewSound(new, h) /\ toRetransmit' = h.retx /\ received' = <<>>
  BY DEF Decides, Indication, Shown
<1>3. DOMAIN received' = {}
  BY <1>2
<1>4. ASSUME NEW x \in inFlight', NEW y \in inFlight', x.p = y.p
      PROVE  x = y
  <2>1. ASSUME x \in Elapsed, y \in Elapsed
        PROVE  x = y
    <3>1. PICK b \in inFlight : Elapses(x, b)
      BY <2>1, <1>1
    <3>2. PICK c \in inFlight : Elapses(y, c)
      BY <2>1, <1>1
    <3>3. b = c
      BY <3>1, <3>2, <1>4 DEF Elapses, DlInv, OneThing
    <3>4. x = [b EXCEPT !.left = @ - 1]
      BY <3>1 DEF Elapses
    <3>5. y = [c EXCEPT !.left = @ - 1]
      BY <3>2 DEF Elapses
    <3> QED BY <3>3, <3>4, <3>5
  <2>2. CASE x \in h.blocks /\ y \in h.blocks
    BY <2>2, <1>2, <1>4 DEF Planned
  <2>3. CASE x \in new /\ y \in new
    BY <2>3, <1>2, <1>4 DEF NewSound
  <2>4. /\ x \in Elapsed \/ x \in h.blocks \/ x \in new
        /\ y \in Elapsed \/ y \in h.blocks \/ y \in new
    BY <1>1
  <2>5. ~(x \in new /\ (y \in Elapsed \/ y \in h.blocks))
        /\ ~(y \in new /\ (x \in Elapsed \/ x \in h.blocks))
    BY <1>1, <1>4
  <2>6. ~(x \in Elapsed /\ y \in h.blocks) /\ ~(x \in h.blocks /\ y \in Elapsed)
    BY <1>1, <1>4
  <2>7. \/ x \in Elapsed /\ y \in Elapsed
        \/ x \in h.blocks /\ y \in h.blocks
        \/ x \in new /\ y \in new
    BY <2>4, <2>5, <2>6
  <2> QED BY <2>1, <2>2, <2>3, <2>7
<1>5. ASSUME NEW x \in inFlight', NEW i \in DOMAIN h.retx, h.retx[i].p = x.p
      PROVE  FALSE
  <2> DEFINE f == h.retx[i]
  <2>1. f \in Asked
    BY <1>2 DEF Planned
  <2>2. f.p = x.p
    BY <1>5
  <2> HIDE DEF f
  <2>3. IsActive(Procs2, f.p)
    BY <2>1, GroupFacts
  <2>4. x \in h.blocks
    BY <2>1, <2>2, <2>3, <1>1
  <2> QED BY <2>4, <1>2, <1>5 DEF Planned
<1>6. OncePerProcess(toRetransmit')
  BY <1>2 DEF Planned
<1>7. OncePerProcess(received')
  BY <1>3 DEF OncePerProcess
<1> QED BY <1>2, <1>3, <1>4, <1>5, <1>6, <1>7 DEF OneThing, OncePerProcess

LEMMA IndicationKept ==
  ASSUME DlInv, NoFeedbackDue, NEW h, NEW new, NEW assigned,
         Decides(h, new, assigned)
  PROVE  Kept'
<1>1. Planned(h) /\ toRetransmit' = h.retx /\ received' = <<>> /\ Processed
  BY ProcessedFacts DEF Decides, Indication, Shown
<1>2. /\ inFlight' = Elapsed \cup h.blocks \cup new
      /\ \A x \in Elapsed : IsActive(Procs2, x.p)
      /\ \A x \in h.blocks : IsActive(Procs2, x.p)
      /\ \A x \in inFlight' : x.p \in Processes
  BY FlightFacts
<1>3. \A p \in Processes : IsActive(Procs2, p) => IsActive(process', p)
  <2>1. ASSUME NEW p \in Processes, IsActive(Procs2, p)
        PROVE  IsActive(process', p)
    <3>1. process'[p] = h.procs[p]
      BY <2>1, AfterFacts
    <3>2. IsActive(h.procs, p)
      BY <2>1, <1>1 DEF Planned
    <3> QED BY <3>1, <3>2 DEF IsActive
  <2> QED BY <2>1
<1>4. \A b \in new : IsActive(process', b.p)
  BY GroupFacts DEF Waiting, IsActive
<1>5. ASSUME NEW p \in Processes, IsActive(process', p)
      PROVE  HasOne(p)'
  <2>1. CASE \E b \in new : b.p = p
    BY <2>1, <1>2 DEF HasOne
  <2>2. CASE ~\E b \in new : b.p = p
    <3>1. IsActive(Procs2, p)
      <4>1. process'[p] = h.procs[p]
        BY <2>2, AfterFacts
      <4> QED BY <4>1, <1>1, <1>5 DEF Planned, IsActive
    <3>2. CASE \E b \in inFlight : b.p = p
      <4>1. PICK b \in inFlight : b.p = p
        BY <3>2
      <4>2. PICK x \in Elapsed : Elapses(x, b)
        BY ElapsedFacts DEF DlInv
      <4> QED BY <4>1, <4>2, <1>2 DEF HasOne, Elapses
    <3>3. CASE \E k \in DOMAIN Fb2 : Fb2[k].p = p
      <4>1. PICK f \in Asked : f.p = p
        BY <3>3 DEF Asked, ToSet
      <4>2. \/ \E b \in h.blocks : b.p = p
            \/ \E i \in DOMAIN h.retx : h.retx[i] = f
        BY <4>1, <1>1 DEF Planned
      <4> QED BY <4>1, <4>2, <1>1, <1>2 DEF HasOne
    <3> QED BY <3>1, <3>2, <3>3, <1>1 DEF Processed
  <2> QED BY <2>1, <2>2
<1>6. ASSUME NEW p \in Processes, HasOne(p)'
      PROVE  IsActive(process', p)
  <2>1. CASE \E x \in inFlight' : x.p = p
    BY <2>1, <1>2, <1>3, <1>4
  <2>2. CASE \E i \in DOMAIN h.retx : h.retx[i].p = p
    <3>1. PICK i \in DOMAIN h.retx : h.retx[i].p = p
      BY <2>2
    <3>2. h.retx[i] \in Asked
      BY <1>1 DEF Planned
    <3>3. IsActive(Procs2, p)
      BY <3>1, <3>2, GroupFacts
    <3> QED BY <3>3, <1>3
  <2>3. DOMAIN received' = {}
    BY <1>1
  <2> QED BY <2>1, <2>2, <2>3, <1>1, <1>6 DEF HasOne
<1> QED BY <1>5, <1>6 DEF Kept, IsActive

LEMMA IndicationSized ==
  ASSUME DlInv, NoFeedbackDue, NEW h, NEW new, NEW assigned,
         Decides(h, new, assigned)
  PROVE  Sized(process')
<1>1. Planned(h) /\ NewSound(new, h)
  BY DEF Decides
<1>2. /\ \A b \in new : process'[b.p] = Started(b)
      /\ \A p \in Processes : (\A b \in new : b.p # p) => process'[p] = h.procs[p]
  BY AfterFacts
<1>3. ASSUME NEW p \in Processes, IsActive(process', p)
      PROVE  process'[p].rbgs > 0 /\ process'[p].sym > 0
  <2>1. CASE \E b \in new : b.p = p
    <3>1. PICK b \in new : b.p = p
      BY <2>1
    <3>2. b.sym \in 1 .. 14 /\ Cardinality(b.rbgs) > 0
      BY <1>1 DEF NewSound, Block, MaxSymbols
    <3>2a. Started(b).rbgs = Cardinality(b.rbgs) /\ Started(b).sym = b.sym
      BY DEF Started
    <3>2b. process'[p] = Started(b)
      BY <3>1, <1>2
    <3>3. process'[p].rbgs = Cardinality(b.rbgs) /\ process'[p].sym = b.sym
      BY <3>2a, <3>2b
    <3> QED BY <3>2, <3>3
  <2>2. CASE ~\E b \in new : b.p = p
    <3>1. process'[p] = h.procs[p]
      BY <2>2, <1>2
    <3> QED BY <3>1, <1>1, <1>3 DEF Planned, Sized, IsActive
  <2> QED BY <2>1, <2>2
<1> QED BY <1>3 DEF Sized

LEMMA IndicationInTime ==
  ASSUME DlInv, NoFeedbackDue, pos \in DlPattern, NEW h, NEW new, NEW assigned,
         Decides(h, new, assigned)
  PROVE  InTime'
<1>1. /\ Planned(h) /\ NewSound(new, h) /\ toRetransmit' = h.retx /\ received' = <<>>
      /\ pos' = (pos + 1) % Length
  BY DEF Decides, Indication, Shown
<1>2. /\ inFlight' = Elapsed \cup h.blocks \cup new
      /\ \A x \in Elapsed : \E b \in inFlight : Elapses(x, b)
  BY FlightFacts
<1>3. TypeOK /\ InTime /\ Length \in Nat /\ Length > 0
  BY DlHarqAssumption DEF DlInv
<1>4. pos \in Nat /\ FeedbackDelay[pos] \in Nat
  BY <1>3, DlHarqAssumption DEF TypeOK, Pattern
<1>5. ASSUME NEW x \in Elapsed
      PROVE  /\ x.slot \in DlPattern /\ x.left <= FeedbackDelay[x.slot]
             /\ pos' = (x.slot + Age(x) + 1) % Length
             /\ process'[x.p].timer <= Cardinality(Calls(x.slot, Age(x)))
  <2>1. PICK b \in inFlight : Elapses(x, b)
    BY <1>2
  <2> DEFINE n == Age(b)
  <2>2. /\ n \in Nat /\ b.slot \in Nat /\ b.left \in Nat
        /\ pos = (b.slot + (n + 1)) % Length
        /\ process[b.p].timer \in Nat
        /\ process[b.p].timer <= Cardinality(Calls(b.slot, n))
    BY <1>3, AgeFacts
  <2>3. b.slot \in DlPattern /\ b.left <= FeedbackDelay[b.slot] /\ n = FeedbackDelay[b.slot] - b.left
    BY <1>3 DEF InTime, Age
  <2>4. FeedbackDelay[b.slot] \in Nat
    BY <2>3, DlHarqAssumption DEF DlPattern
  <2>5. x.slot = b.slot /\ x.p = b.p /\ x.left = b.left - 1 /\ b.left > 0
    BY <2>1 DEF Elapses
  <2>6. Age(x) = FeedbackDelay[b.slot] - (b.left - 1)
    BY <2>5 DEF Age
  <2> HIDE DEF n
  <2>7. Age(x) = n + 1
    BY <2>2, <2>3, <2>4, <2>6
  <2>8. (b.slot + (n + 1)) % Length \in DlPattern
    BY <2>2
  <2>9. Cardinality(Calls(b.slot, n + 1)) = Cardinality(Calls(b.slot, n)) + 1
        /\ Cardinality(Calls(b.slot, n)) \in Nat
    BY <2>2, <2>8, CallsFacts
  <2>10. process'[b.p].timer = process[b.p].timer + 1
    BY GroupFacts
  <2>11. pos' = (b.slot + (n + 1) + 1) % Length
    <3>1. b.slot + (n + 1) \in Nat
      BY <2>2
    <3>2. (((b.slot + (n + 1)) % Length) + 1) % Length = (b.slot + (n + 1) + 1) % Length
      BY <3>1, <1>3, NextModulo
    <3> QED BY <3>2, <2>2, <1>1
  <2>12. process'[x.p].timer <= Cardinality(Calls(x.slot, Age(x)))
    BY <2>2, <2>5, <2>7, <2>9, <2>10
  <2>13. x.left <= FeedbackDelay[x.slot]
    BY <2>2, <2>3, <2>4, <2>5
  <2> QED BY <2>3, <2>5, <2>7, <2>11, <2>12, <2>13
<1>6. ASSUME NEW x \in h.blocks \cup new
      PROVE  /\ x.slot \in DlPattern /\ x.left <= FeedbackDelay[x.slot]
             /\ pos' = (x.slot + Age(x) + 1) % Length
             /\ process'[x.p].timer <= Cardinality(Calls(x.slot, Age(x)))
  <2>1. x.slot = pos /\ x.left = FeedbackDelay[pos]
    BY <1>1, GroupFacts DEF NewSound, Sound
  <2>2. process'[x.p].timer = 0
    <3>1. CASE x \in h.blocks
      BY <3>1, GroupFacts DEF Sound, Waiting
    <3>2. CASE x \in new
      BY <3>2, GroupFacts DEF Waiting
    <3> QED BY <3>1, <3>2
  <2>3. Age(x) = 0
    BY <2>1, <1>4 DEF Age
  <2>4. Cardinality(Calls(pos, 0)) \in Nat
    BY <1>4, CallsFacts
  <2>5. pos + 0 + 1 = pos + 1
    BY <1>4
  <2> QED BY <2>1, <2>2, <2>3, <2>4, <2>5, <1>1, <1>4
<1>7. ASSUME NEW i \in DOMAIN toRetransmit'
      PROVE  process'[toRetransmit'[i].p].timer < NumHarq
  <2>1. h.retx[i] \in Asked /\ Waiting(h.procs[h.retx[i].p], Procs2[h.retx[i].p].tb)
    BY <1>1 DEF Planned, Rests
  <2>2. process'[h.retx[i].p] = h.procs[h.retx[i].p]
    BY <2>1, GroupFacts
  <2>3. process'[toRetransmit'[i].p].timer = 0
    BY <2>1, <2>2, <1>1 DEF Waiting
  <2> QED BY <2>3, DlHarqAssumption
<1>8. DOMAIN received' = {}
  BY <1>1
<1>9. \A x \in inFlight' : x \in Elapsed \/ x \in h.blocks \cup new
  BY <1>2
<1> QED BY <1>5, <1>6, <1>7, <1>8, <1>9 DEF InTime

LEMMA IndicationCurrent ==
  ASSUME DlInv, NoFeedbackDue, NEW h, NEW new, NEW assigned,
         Decides(h, new, assigned)
  PROVE  Current'
<1>1. /\ Planned(h) /\ NewSound(new, h) /\ toRetransmit' = h.retx /\ received' = <<>>
      /\ Current
  BY DEF Decides, Indication, Shown, DlInv
<1>2. /\ inFlight' = Elapsed \cup h.blocks \cup new
      /\ \A x \in Elapsed : \E b \in inFlight : Elapses(x, b)
  BY FlightFacts
<1>3. ASSUME NEW x \in Elapsed
      PROVE  /\ process'[x.p].status = "WAITING_FEEDBACK"
             /\ process'[x.p].tb = x.tb /\ process'[x.p].sent = x.sent
             /\ \A s \in x.sent : x.pkts[s] = x.tb /\ burst'[x.p][s] = x.tb
  <2>1. PICK b \in inFlight : Elapses(x, b)
    BY <1>2
  <2>2. SameBlock(process'[b.p], process[b.p]) /\ burst'[b.p] = burst[b.p]
    BY GroupFacts
  <2>3. /\ process[b.p].status = "WAITING_FEEDBACK"
        /\ process[b.p].tb = b.tb /\ process[b.p].sent = b.sent
        /\ \A s \in b.sent : b.pkts[s] = b.tb /\ burst[b.p][s] = b.tb
    BY <1>1 DEF Current
  <2>4. x.p = b.p /\ x.tb = b.tb /\ x.pkts = b.pkts /\ x.sent = b.sent
    BY <2>1 DEF Elapses
  <2> QED BY <2>2, <2>3, <2>4 DEF SameBlock
<1>4. ASSUME NEW x \in h.blocks
      PROVE  /\ process'[x.p].status = "WAITING_FEEDBACK"
             /\ process'[x.p].tb = x.tb /\ process'[x.p].sent = x.sent
             /\ \A s \in x.sent : x.pkts[s] = x.tb /\ burst'[x.p][s] = x.tb
  <2>1. Sound(x, process') /\ burst'[x.p] = burst[x.p]
    BY GroupFacts
  <2> QED BY <2>1 DEF Sound, Waiting
<1>5. ASSUME NEW x \in new
      PROVE  /\ process'[x.p].status = "WAITING_FEEDBACK"
             /\ process'[x.p].tb = x.tb /\ process'[x.p].sent = x.sent
             /\ \A s \in x.sent : x.pkts[s] = x.tb /\ burst'[x.p][s] = x.tb
  <2>1. Waiting(process'[x.p], x.tb) /\ process'[x.p].sent = x.sent
    BY GroupFacts
  <2>2. burst'[x.p] = x.pkts
    BY AfterFacts
  <2>3. \A s \in x.sent : x.pkts[s] = x.tb
    BY <1>1 DEF NewSound
  <2> QED BY <2>1, <2>2, <2>3 DEF Waiting
<1>6. \A x \in inFlight' :
        /\ process'[x.p].status = "WAITING_FEEDBACK"
        /\ process'[x.p].tb = x.tb /\ process'[x.p].sent = x.sent
        /\ \A s \in x.sent : x.pkts[s] = x.tb /\ burst'[x.p][s] = x.tb
  BY <1>2, <1>3, <1>4, <1>5
<1>7. ASSUME NEW i \in DOMAIN h.retx
      PROVE  HasPackets(process, h.retx[i])'
  <2> DEFINE f == h.retx[i]
  <2>1. f \in Asked /\ Waiting(h.procs[f.p], Procs2[f.p].tb)
    BY <1>1 DEF Planned, Rests
  <2> HIDE DEF f
  <2>2. process'[f.p] = h.procs[f.p] /\ burst'[f.p] = burst[f.p]
    BY <2>1, GroupFacts
  <2>3. HasPackets(Procs2, f)
    <3>1. Todo(f, {})
      BY <2>1, AskedFacts, ProcessedFacts
    <3> QED BY <3>1 DEF Todo
  <2>4. \A s \in f.nacks : burst'[f.p][s] = process'[f.p].tb
    BY <2>1, <2>2, <2>3 DEF HasPackets, Waiting
  <2> QED BY <2>4 DEF HasPackets, f
<1>8. DOMAIN received' = {} /\ DOMAIN toRetransmit' = DOMAIN h.retx
  BY <1>1
<1>9. \A i \in DOMAIN toRetransmit' : HasPackets(process, toRetransmit[i])'
  <2>1. ASSUME NEW i \in DOMAIN toRetransmit'
        PROVE  HasPackets(process, toRetransmit[i])'
    <3>1. \A s \in h.retx[i].nacks : burst'[h.retx[i].p][s] = process'[h.retx[i].p].tb
      BY <1>7, <1>8 DEF HasPackets
    <3> QED BY <3>1, <1>1 DEF HasPackets
  <2> QED BY <2>1
<1> QED BY <1>6, <1>8, <1>9 DEF Current

LEMMA IndicationDisjoint ==
  ASSUME DlInv, NoFeedbackDue, NEW h, NEW new, NEW assigned,
         Decides(h, new, assigned)
  PROVE  BlocksAreDisjoint'
<1>1. /\ Planned(h) /\ NewSound(new, h) /\ BlocksAreDisjoint /\ InTime
      /\ DlSymbols[pos] \in Nat
  <2>1. DlSymbols[pos] \in 0 .. 14
    BY DlHarqAssumption DEF DlInv, TypeOK, MaxSymbols
  <2> QED BY <2>1 DEF Decides, DlInv
<1>2. /\ inFlight' = Elapsed \cup h.blocks \cup new
      /\ \A x \in Elapsed : \E b \in inFlight : Elapses(x, b)
      /\ \A x \in inFlight' : x \in Block
  BY FlightFacts
<1>3. \A x \in inFlight' : x.start \in Nat /\ x.sym \in Nat /\ x.left \in Nat
  BY <1>2, BlockFacts
<1>4. \A x \in h.blocks \cup new : x.slot = pos /\ x.left = FeedbackDelay[pos]
  BY <1>1 DEF Planned, Sound, NewSound
<1>5. \A x \in h.blocks : x.start + x.sym <= h.sym /\ h.sym \in Nat /\ h.sym <= DlSymbols[pos]
  BY <1>1 DEF Planned
<1>6. \A x \in new : h.sym <= x.start /\ x.start + x.sym <= DlSymbols[pos]
                     /\ \A c \in h.blocks : c.p[1] # x.p[1]
  BY <1>1 DEF NewSound
<1>7. ASSUME NEW x \in inFlight'
      PROVE  x.start + x.sym <= DlSymbols[x.slot]
  <2>1. CASE x \in Elapsed
    <3>1. PICK b \in inFlight : Elapses(x, b)
      BY <2>1, <1>2
    <3>2. b.start + b.sym <= DlSymbols[b.slot]
      BY <1>1 DEF BlocksAreDisjoint
    <3> QED BY <3>1, <3>2 DEF Elapses
  <2>2. CASE x \in h.blocks
    <3>1. x.start + x.sym <= DlSymbols[pos]
      BY <2>2, <1>1, <1>3, <1>5
    <3> QED BY <3>1, <2>2, <1>4
  <2>3. CASE x \in new
    BY <2>3, <1>4, <1>6
  <2> QED BY <2>1, <2>2, <2>3, <1>2
<1>8. ASSUME NEW x \in Elapsed, NEW y \in h.blocks \cup new, x.slot = y.slot, x.left = y.left
      PROVE  FALSE
  <2>1. PICK b \in inFlight : Elapses(x, b)
    BY <1>2
  <2>2. b.left <= FeedbackDelay[b.slot]
    BY <1>1 DEF InTime
  <2>3. x.slot = b.slot /\ x.left = b.left - 1 /\ b \in Block
    BY <2>1 DEF Elapses
  <2>4. b.left \in Nat /\ FeedbackDelay[b.slot] \in Nat
    BY <2>3, BlockFacts
  <2>5. b.left - 1 = FeedbackDelay[b.slot]
    BY <2>3, <1>4, <1>8
  <2> QED BY <2>2, <2>4, <2>5
<1>9. ASSUME NEW x \in h.blocks, NEW y \in new
      PROVE  x.p[1] # y.p[1] /\ Disjoint(x, y) /\ Disjoint(y, x)
  <2>1. x.start + x.sym <= y.start
    <3>1. x \in inFlight' /\ y \in inFlight'
      BY <1>2
    <3>2. x.start + x.sym \in Nat /\ y.start \in Nat
      BY <3>1, <1>3
    <3> QED BY <3>2, <1>5, <1>6
  <2>2. x.p[1] # y.p[1]
    BY <1>6
  <2> QED BY <2>1, <2>2 DEF Disjoint
<1>10. ASSUME NEW x \in inFlight', NEW y \in inFlight', x # y,
              x.slot = y.slot, x.left = y.left
       PROVE  x.p[1] # y.p[1] /\ Disjoint(x, y)
  <2>1. CASE x \in Elapsed /\ y \in Elapsed
    <3>1. PICK b \in inFlight : Elapses(x, b)
      BY <2>1, <1>2
    <3>2. PICK c \in inFlight : Elapses(y, c)
      BY <2>1, <1>2
    <3>3. b # c
      BY <3>1, <3>2, <1>10 DEF Elapses
    <3>4. b.slot = c.slot /\ b.left - 1 = c.left - 1 /\ b \in Block /\ c \in Block
      BY <3>1, <3>2, <1>10 DEF Elapses
    <3>5. b.left = c.left
      <4>1. b.left \in Nat /\ c.left \in Nat
        BY <3>4, BlockFacts
      <4> QED BY <4>1, <3>4
    <3>6. b.p[1] # c.p[1] /\ Disjoint(b, c)
      BY <3>3, <3>4, <3>5, <1>1 DEF BlocksAreDisjoint, Disjoint
    <3> QED BY <3>1, <3>2, <3>6 DEF Elapses, Disjoint
  <2>2. CASE x \in h.blocks /\ y \in h.blocks
    BY <2>2, <1>1, <1>10 DEF Planned
  <2>3. CASE x \in new /\ y \in new
    BY <2>3, <1>1, <1>10 DEF NewSound
  <2>4. CASE x \in h.blocks /\ y \in new
    BY <2>4, <1>9
  <2>5. CASE x \in new /\ y \in h.blocks
    BY <2>5, <1>9
  <2>6. ~(x \in Elapsed /\ y \in h.blocks \cup new)
    BY <1>8, <1>10
  <2>7. ~(y \in Elapsed /\ x \in h.blocks \cup new)
    BY <1>8, <1>10
  <2>8. /\ x \in Elapsed \/ x \in h.blocks \/ x \in new
        /\ y \in Elapsed \/ y \in h.blocks \/ y \in new
    BY <1>2
  <2>9. \/ x \in Elapsed /\ y \in Elapsed
        \/ x \in h.blocks /\ y \in h.blocks
        \/ x \in new /\ y \in new
        \/ x \in h.blocks /\ y \in new
        \/ x \in new /\ y \in h.blocks
    BY <2>6, <2>7, <2>8
  <2> QED BY <2>1, <2>2, <2>3, <2>4, <2>5, <2>9
<1> QED BY <1>7, <1>10 DEF BlocksAreDisjoint, Disjoint

LEMMA IndicationTypeOK ==
  ASSUME DlInv, NoFeedbackDue, NEW h, NEW new, NEW assigned,
         Decides(h, new, assigned)
  PROVE  TypeOK'
<1>1. /\ Planned(h) /\ NewSound(new, h) /\ Affordable(assigned)
      /\ Indication(h, new, assigned) /\ TypeOK
  BY DEF Decides, DlInv
<1>2. pos' \in Pattern
  <2>1. pos' = (pos + 1) % Length
    BY <1>1 DEF Indication
  <2>2. pos \in Nat /\ Length \in Nat /\ Length > 0
    BY <1>1, DlHarqAssumption DEF TypeOK, Pattern
  <2>3. (pos + 1) % Length \in 0 .. Length - 1
    BY <2>2
  <2> QED BY <2>1, <2>3 DEF Pattern
<1>3. data' \in [Ue -> Nat]
  <2>1. data' = [u \in Ue |-> IF u \in DOMAIN assigned THEN data[u] - assigned[u].units
                              ELSE data[u]]
    BY <1>1 DEF Indication, Shown
  <2>2. ASSUME NEW u \in Ue
        PROVE  (IF u \in DOMAIN assigned THEN data[u] - assigned[u].units ELSE data[u]) \in Nat
    <3>1. data[u] \in Nat
      BY <1>1 DEF TypeOK
    <3>2. u \in DOMAIN assigned => assigned[u].units \in Nat /\ assigned[u].units <= data[u]
      BY <1>1 DEF Affordable
    <3> QED BY <3>1, <3>2
  <2> QED BY <2>1, <2>2
<1>4. process' \in [Processes -> Process] /\ burst' \in [Processes -> [Stream -> Nat]]
  BY AfterFacts
<1>5. toRetransmit' \in Seq(Feedback) /\ received' \in Seq(Feedback)
  BY <1>1 DEF Indication, Shown, Planned
<1>6. inFlight' \subseteq Block
  BY FlightFacts
<1>7. created' \in Nat /\ reported' \in 0 .. MaxReports
  <2>1. Cardinality(new) \in Nat
    BY <1>1, FS_CardinalityType DEF NewSound
  <2>2. created' = created + Cardinality(new) /\ reported' = reported
    BY <1>1 DEF Indication, Shown
  <2> QED BY <2>1, <2>2, <1>1 DEF TypeOK
<1> QED BY <1>2, <1>3, <1>4, <1>5, <1>6, <1>7 DEF TypeOK

LEMMA IndicationInv ==
  ASSUME DlInv, DoSlotDlIndication
  PROVE  DlInv'
<1>1. pos \in DlPattern /\ NoFeedbackDue
  BY IndicationFacts
<1>2. \E h, new, assigned : Decides(h, new, assigned)
  BY IndicationFacts
<1>3. PICK h, new, assigned : Decides(h, new, assigned)
  BY <1>2
<1>4. TypeOK' /\ OneThing' /\ Kept'
  BY <1>1, <1>3, IndicationTypeOK, IndicationOneThing, IndicationKept
<1>5. Sized(process') /\ InTime' /\ Current' /\ BlocksAreDisjoint'
  BY <1>1, <1>3, IndicationSized, IndicationInTime, IndicationCurrent, IndicationDisjoint
<1> QED BY <1>4, <1>5 DEF DlInv, Sized, IsActive

-----------------------------------------------------------------------------
(***************************************************************************)
(* The other actions.                                                      *)
(***************************************************************************)

LEMMA FeedbackInv ==
  ASSUME DlInv, DoDlHarqFeedback
  PROVE  DlInv'
<1>1. PICK b \in {x \in inFlight : x.left = 0}, nacks \in SUBSET Stream :
        /\ nacks \subseteq b.sent
        /\ inFlight' = inFlight \ {b}
        /\ burst' = Discarded([p |-> b.p, nacks |-> nacks], b.sent)
        /\ received' = Append(received, [p |-> b.p, nacks |-> nacks])
        /\ UNCHANGED <<pos, data, process, toRetransmit, created, reported>>
  BY DEF DoDlHarqFeedback
<1> DEFINE f == [p |-> b.p, nacks |-> nacks]
           n == Len(received)
<1>2. /\ TypeOK /\ OneThing /\ Kept /\ Sized(process) /\ InTime /\ Current
      /\ BlocksAreDisjoint
  BY DEF DlInv
<1>3. b \in inFlight /\ b \in Block /\ b.p \in Processes
  <2>1. b \in inFlight /\ b \in Block
    BY <1>2 DEF TypeOK
  <2> QED BY <2>1, BlockFacts
<1>4. f \in Feedback /\ f.p = b.p /\ f.nacks = nacks
  BY <1>3 DEF Feedback
<1>5. /\ received' = Append(received, f) /\ inFlight' = inFlight \ {b}
      /\ process' = process /\ toRetransmit' = toRetransmit /\ pos' = pos
      /\ data' = data /\ created' = created /\ reported' = reported
      /\ burst' = [burst EXCEPT ![b.p] =
                    [s \in Stream |-> IF s \in b.sent \ nacks THEN 0 ELSE burst[b.p][s]]]
  BY <1>1, <1>4 DEF Discarded
<1> HIDE DEF f
<1>6. received \in Seq(Feedback) /\ n \in Nat /\ DOMAIN received = 1 .. n
  BY <1>2 DEF TypeOK
<1>7. /\ DOMAIN received' = 1 .. n + 1 /\ received'[n + 1] = f
      /\ \A i \in 1 .. n : received'[i] = received[i] /\ received[i].p # b.p
      /\ \A i \in 1 .. n + 1 : i \in 1 .. n \/ i = n + 1
      /\ n + 1 \in 1 .. n + 1 /\ \A i \in 1 .. n : i \in 1 .. n + 1
  <2>1. \A i \in 1 .. n : received[i].p # b.p
    BY <1>2, <1>3, <1>6 DEF OneThing
  <2> QED BY <2>1, <1>4, <1>5, <1>6
<1>8. burst \in [Processes -> [Stream -> Nat]]
  BY <1>2 DEF TypeOK
<1>9. /\ burst' \in [Processes -> [Stream -> Nat]]
      /\ \A p \in Processes : p # b.p => burst'[p] = burst[p]
      /\ \A s \in nacks : burst'[b.p][s] = burst[b.p][s]
  <2> DEFINE w == [s \in Stream |-> IF s \in b.sent \ nacks THEN 0 ELSE burst[b.p][s]]
  <2>1. burst[b.p] \in [Stream -> Nat]
    BY <1>3, <1>8
  <2>2. w \in [Stream -> Nat] /\ \A s \in nacks : w[s] = burst[b.p][s]
    BY <2>1
  <2> HIDE DEF w
  <2>3. burst' = [burst EXCEPT ![b.p] = w]
    BY <1>5 DEF w
  <2> QED BY <2>2, <2>3, <1>3, <1>8
<1>10. \A x \in inFlight' : x \in inFlight /\ x.p # b.p /\ x.p \in Processes
  <2>1. ASSUME NEW x \in inFlight'
        PROVE  x \in inFlight /\ x.p # b.p /\ x \in Block
    <3>1. x \in inFlight /\ x # b
      BY <1>5
    <3> QED BY <3>1, <1>2, <1>3 DEF OneThing, TypeOK
  <2> QED BY <2>1, BlockFacts
<1>11. TypeOK'
  <2>1. received' \in Seq(Feedback)
    BY <1>4, <1>5, <1>6
  <2>2. inFlight' \subseteq Block
    BY <1>10, <1>2 DEF TypeOK
  <2> QED BY <2>1, <2>2, <1>2, <1>5, <1>9 DEF TypeOK
<1>12. OneThing'
  <2>1. \A x, y \in inFlight' : x.p = y.p => x = y
    BY <1>2, <1>10 DEF OneThing
  <2>2. OncePerProcess(received')
    <3>1. \A i, j \in 1 .. n : received[i].p = received[j].p => i = j
      BY <1>2, <1>6 DEF OneThing, OncePerProcess
    <3> QED BY <3>1, <1>4, <1>7 DEF OncePerProcess
  <2>3. OncePerProcess(toRetransmit')
    BY <1>2, <1>5 DEF OneThing
  <2>4. ASSUME NEW j \in DOMAIN toRetransmit
        PROVE  \A i \in DOMAIN received' : received'[i].p # toRetransmit[j].p
    <3>1. toRetransmit[j].p # b.p /\ \A i \in 1 .. n : received[i].p # toRetransmit[j].p
      BY <1>2, <1>3, <1>6 DEF OneThing
    <3> QED BY <3>1, <1>4, <1>7
  <2>5. ASSUME NEW x \in inFlight'
        PROVE  /\ \A i \in DOMAIN received' : received'[i].p # x.p
               /\ \A i \in DOMAIN toRetransmit' : toRetransmit'[i].p # x.p
    <3>1. /\ \A i \in 1 .. n : received[i].p # x.p
          /\ \A i \in DOMAIN toRetransmit : toRetransmit[i].p # x.p
      BY <1>2, <1>6, <1>10 DEF OneThing
    <3> QED BY <3>1, <1>4, <1>5, <1>7, <1>10
  <2>6. \A i \in DOMAIN received', j \in DOMAIN toRetransmit' :
          received'[i].p # toRetransmit'[j].p
    BY <2>4, <1>5
  <2> QED BY <2>1, <2>2, <2>3, <2>5, <2>6 DEF OneThing, OncePerProcess
<1>13. Kept'
  <2>1. ASSUME NEW p \in Processes
        PROVE  HasOne(p)' <=> HasOne(p)
    <3>1. CASE p = b.p
      <4>1. received'[n + 1].p = p /\ n + 1 \in DOMAIN received'
        BY <3>1, <1>4, <1>7
      <4> QED BY <4>1, <3>1, <1>3 DEF HasOne
    <3>2. CASE p # b.p
      <4>1. (\E x \in inFlight' : x.p = p) <=> (\E x \in inFlight : x.p = p)
        BY <3>2, <1>5
      <4>2. (\E i \in DOMAIN received' : received'[i].p = p)
              <=> (\E i \in DOMAIN received : received[i].p = p)
        BY <3>2, <1>4, <1>6, <1>7
      <4> QED BY <4>1, <4>2, <1>5 DEF HasOne
    <3> QED BY <3>1, <3>2
  <2> QED BY <2>1, <1>2, <1>5 DEF Kept, IsActive
<1>14. InTime'
  <2>1. process[b.p].timer < NumHarq
    BY <1>2, <1>3, AgeFacts
  <2>2. \A i \in DOMAIN received' : process'[received'[i].p].timer < NumHarq
    <3>1. \A i \in 1 .. n : process[received[i].p].timer < NumHarq
      BY <1>2, <1>6 DEF InTime
    <3> QED BY <3>1, <2>1, <1>4, <1>5, <1>7
  <2>3. \A x \in inFlight' :
          /\ x.slot \in DlPattern /\ x.left <= FeedbackDelay[x.slot]
          /\ pos' = (x.slot + Age(x) + 1) % Length
          /\ process'[x.p].timer <= Cardinality(Calls(x.slot, Age(x)))
    BY <1>2, <1>5, <1>10 DEF InTime
  <2>4. \A i \in DOMAIN toRetransmit' : process'[toRetransmit'[i].p].timer < NumHarq
    BY <1>2, <1>5 DEF InTime
  <2> QED BY <2>2, <2>3, <2>4 DEF InTime
<1>15. Current'
  <2>1. ASSUME NEW x \in inFlight'
        PROVE  /\ process'[x.p].status = "WAITING_FEEDBACK"
               /\ process'[x.p].tb = x.tb /\ process'[x.p].sent = x.sent
               /\ \A s \in x.sent : x.pkts[s] = x.tb /\ burst'[x.p][s] = x.tb
    <3>1. x \in inFlight /\ burst'[x.p] = burst[x.p]
      BY <1>9, <1>10
    <3> QED BY <3>1, <1>2, <1>5 DEF Current
  <2>2. HasPackets(process, f)'
    <3>1. process[b.p].tb = b.tb /\ \A s \in b.sent : burst[b.p][s] = b.tb
      BY <1>2, <1>3 DEF Current
    <3>2. \A s \in nacks : burst'[b.p][s] = process'[b.p].tb
      BY <3>1, <1>1, <1>5, <1>9
    <3> QED BY <3>2, <1>4 DEF HasPackets, f
  <2>3. ASSUME NEW g \in Feedback, g.p # b.p, HasPackets(process, g)
        PROVE  \A s \in g.nacks : burst'[g.p][s] = process'[g.p].tb
    <3>1. burst'[g.p] = burst[g.p]
      BY <2>3, <1>9, FeedbackFacts
    <3> QED BY <3>1, <2>3, <1>5 DEF HasPackets
  <2>4. ASSUME NEW i \in DOMAIN received'
        PROVE  HasPackets(process, received[i])'
    <3> DEFINE g == received'[i]
    <3>1. CASE i = n + 1
      <4>1. \A s \in f.nacks : burst'[f.p][s] = process'[f.p].tb
        BY <2>2 DEF HasPackets, f
      <4>2. received'[i] = f
        BY <3>1, <1>7
      <4> QED BY <4>1, <4>2 DEF HasPackets
    <3>2. CASE i \in 1 .. n
      <4>1. received[i] \in Feedback /\ received[i].p # b.p
        BY <3>2, <1>6, <1>7
      <4>2. HasPackets(process, received[i])
        BY <3>2, <1>2, <1>6 DEF Current
      <4>3. \A s \in received[i].nacks : burst'[received[i].p][s] = process'[received[i].p].tb
        BY <4>1, <4>2, <2>3
      <4>4. received'[i] = received[i]
        BY <3>2, <1>7
      <4> QED BY <4>3, <4>4 DEF HasPackets
    <3> QED BY <3>1, <3>2, <1>7
  <2>5. ASSUME NEW i \in DOMAIN toRetransmit'
        PROVE  HasPackets(process, toRetransmit[i])'
    <3>1. i \in DOMAIN toRetransmit /\ toRetransmit'[i] = toRetransmit[i]
      BY <1>5
    <3>2. toRetransmit[i] \in Feedback
      BY <3>1, <1>2 DEF TypeOK
    <3>3. toRetransmit[i].p # b.p
      BY <3>1, <1>2, <1>3 DEF OneThing
    <3>4. HasPackets(process, toRetransmit[i])
      BY <3>1, <1>2 DEF Current
    <3>5. \A s \in toRetransmit[i].nacks :
            burst'[toRetransmit[i].p][s] = process'[toRetransmit[i].p].tb
      BY <3>2, <3>3, <3>4, <2>3
    <3> QED BY <3>1, <3>5 DEF HasPackets
  <2> QED BY <2>1, <2>4, <2>5 DEF Current
<1>16. BlocksAreDisjoint'
  BY <1>2, <1>10 DEF BlocksAreDisjoint
<1>17. Sized(process')
  BY <1>2, <1>5
<1> QED BY <1>11, <1>12, <1>13, <1>14, <1>15, <1>16, <1>17 DEF DlInv, Sized, IsActive

LEMMA SlotWithoutDlInv ==
  ASSUME DlInv, SlotWithoutDl
  PROVE  DlInv'
<1>1. /\ pos \notin DlPattern /\ NoFeedbackDue
      /\ pos' = (pos + 1) % Length /\ inFlight' = Elapsed
      /\ data' = data /\ process' = process /\ toRetransmit' = toRetransmit
      /\ burst' = burst /\ received' = received /\ created' = created
      /\ reported' = reported
  BY DEF SlotWithoutDl
<1>2. /\ TypeOK /\ OneThing /\ Kept /\ Sized(process) /\ InTime /\ Current
      /\ BlocksAreDisjoint
  BY DEF DlInv
<1>3. /\ \A x \in inFlight' : \E b \in inFlight : Elapses(x, b)
      /\ \A b \in inFlight : \E x \in inFlight' : Elapses(x, b)
  BY <1>1, <1>2, ElapsedFacts
<1>4. pos \in Nat /\ Length \in Nat /\ Length > 0
  BY <1>2, DlHarqAssumption DEF TypeOK, Pattern
<1>5. TypeOK'
  <2>1. pos' \in Pattern
    <3>1. (pos + 1) % Length \in 0 .. Length - 1
      BY <1>4
    <3> QED BY <3>1, <1>1 DEF Pattern
  <2>2. inFlight' \subseteq Block
    BY <1>3 DEF Elapses
  <2> QED BY <2>1, <2>2, <1>1, <1>2 DEF TypeOK
<1>6. OneThing'
  <2>1. ASSUME NEW x \in inFlight', NEW y \in inFlight', x.p = y.p
        PROVE  x = y
    <3>1. PICK b \in inFlight : Elapses(x, b)
      BY <1>3
    <3>2. PICK c \in inFlight : Elapses(y, c)
      BY <1>3
    <3>3. b = c
      BY <3>1, <3>2, <2>1, <1>2 DEF Elapses, OneThing
    <3> QED BY <3>1, <3>2, <3>3 DEF Elapses
  <2>2. ASSUME NEW x \in inFlight'
        PROVE  /\ \A i \in DOMAIN received : received[i].p # x.p
               /\ \A i \in DOMAIN toRetransmit : toRetransmit[i].p # x.p
    <3>1. PICK b \in inFlight : Elapses(x, b)
      BY <1>3
    <3> QED BY <3>1, <1>2 DEF Elapses, OneThing
  <2> QED BY <2>1, <2>2, <1>1, <1>2 DEF OneThing, OncePerProcess
<1>7. Kept'
  <2>1. ASSUME NEW p \in Processes
        PROVE  HasOne(p)' <=> HasOne(p)
    <3>1. (\E x \in inFlight' : x.p = p) <=> (\E x \in inFlight : x.p = p)
      BY <1>3 DEF Elapses
    <3> QED BY <3>1, <1>1 DEF HasOne
  <2> QED BY <2>1, <1>1, <1>2 DEF Kept, IsActive
<1>8. InTime'
  <2>1. ASSUME NEW x \in inFlight'
        PROVE  /\ x.slot \in DlPattern /\ x.left <= FeedbackDelay[x.slot]
               /\ pos' = (x.slot + Age(x) + 1) % Length
               /\ process'[x.p].timer <= Cardinality(Calls(x.slot, Age(x)))
    <3>1. PICK b \in inFlight : Elapses(x, b)
      BY <1>3
    <3> DEFINE n == Age(b)
    <3>2. /\ n \in Nat /\ b.slot \in Nat /\ b.left \in Nat
          /\ pos = (b.slot + (n + 1)) % Length
          /\ process[b.p].timer <= Cardinality(Calls(b.slot, n))
      BY <1>2, AgeFacts
    <3>3. b.slot \in DlPattern /\ b.left <= FeedbackDelay[b.slot]
          /\ n = FeedbackDelay[b.slot] - b.left
      BY <1>2 DEF InTime, Age
    <3>4. FeedbackDelay[b.slot] \in Nat
      BY <3>3, DlHarqAssumption DEF DlPattern
    <3>5. x.slot = b.slot /\ x.p = b.p /\ x.left = b.left - 1 /\ b.left > 0
      BY <3>1 DEF Elapses
    <3>6. Age(x) = FeedbackDelay[b.slot] - (b.left - 1)
      BY <3>5 DEF Age
    <3> HIDE DEF n
    <3>7. Age(x) = n + 1
      BY <3>2, <3>3, <3>4, <3>6
    <3>8. Calls(b.slot, n + 1) = Calls(b.slot, n)
      BY <3>2, <1>1, CallsFacts
    <3>9. pos' = (b.slot + (n + 1) + 1) % Length
      <4>1. b.slot + (n + 1) \in Nat
        BY <3>2
      <4>2. (((b.slot + (n + 1)) % Length) + 1) % Length = (b.slot + (n + 1) + 1) % Length
        BY <4>1, <1>4, NextModulo
      <4> QED BY <4>2, <3>2, <1>1
    <3>10. x.left <= FeedbackDelay[x.slot]
      BY <3>2, <3>3, <3>4, <3>5
    <3> QED BY <3>2, <3>3, <3>5, <3>7, <3>8, <3>9, <3>10, <1>1
  <2> QED BY <2>1, <1>1, <1>2 DEF InTime
<1>9. Current'
  <2>1. ASSUME NEW x \in inFlight'
        PROVE  /\ process'[x.p].status = "WAITING_FEEDBACK"
               /\ process'[x.p].tb = x.tb /\ process'[x.p].sent = x.sent
               /\ \A s \in x.sent : x.pkts[s] = x.tb /\ burst'[x.p][s] = x.tb
    <3>1. PICK b \in inFlight : Elapses(x, b)
      BY <1>3
    <3>2. x.p = b.p /\ x.tb = b.tb /\ x.pkts = b.pkts /\ x.sent = b.sent
      BY <3>1 DEF Elapses
    <3> QED BY <3>2, <1>1, <1>2 DEF Current
  <2> QED BY <2>1, <1>1, <1>2 DEF Current, HasPackets
<1>10. BlocksAreDisjoint'
  <2>1. ASSUME NEW x \in inFlight'
        PROVE  x.start + x.sym <= DlSymbols[x.slot]
    <3>1. PICK b \in inFlight : Elapses(x, b)
      BY <1>3
    <3> QED BY <3>1, <1>2 DEF Elapses, BlocksAreDisjoint
  <2>2. ASSUME NEW x \in inFlight', NEW y \in inFlight', x # y,
               x.slot = y.slot, x.left = y.left
        PROVE  x.p[1] # y.p[1] /\ Disjoint(x, y)
    <3>1. PICK b \in inFlight : Elapses(x, b)
      BY <1>3
    <3>2. PICK c \in inFlight : Elapses(y, c)
      BY <1>3
    <3>3. b # c
      BY <3>1, <3>2, <2>2 DEF Elapses
    <3>4. b.slot = c.slot /\ b.left - 1 = c.left - 1 /\ b \in Block /\ c \in Block
      BY <3>1, <3>2, <2>2 DEF Elapses
    <3>5. b.left = c.left
      <4>1. b.left \in Nat /\ c.left \in Nat
        BY <3>4, BlockFacts
      <4> QED BY <4>1, <3>4
    <3>6. b.p[1] # c.p[1] /\ Disjoint(b, c)
      BY <3>3, <3>4, <3>5, <1>2 DEF BlocksAreDisjoint, Disjoint
    <3> QED BY <3>1, <3>2, <3>6 DEF Elapses, Disjoint
  <2> QED BY <2>1, <2>2 DEF BlocksAreDisjoint, Disjoint
<1>11. Sized(process')
  BY <1>1, <1>2
<1> QED BY <1>5, <1>6, <1>7, <1>8, <1>9, <1>10, <1>11 DEF DlInv, Sized, IsActive

LEMMA ReportInv ==
  ASSUME DlInv, NEW u \in Ue, DoReportBufferStatus(u)
  PROVE  DlInv'
<1>1. /\ data' = [data EXCEPT ![u] = @ + 1] /\ reported' = reported + 1
      /\ reported < MaxReports
      /\ pos' = pos /\ process' = process /\ toRetransmit' = toRetransmit
      /\ burst' = burst /\ received' = received /\ inFlight' = inFlight
      /\ created' = created
  BY DEF DoReportBufferStatus
<1>2. TypeOK'
  <2>1. data \in [Ue -> Nat] /\ reported \in 0 .. MaxReports
    BY DEF DlInv, TypeOK
  <2>2. data' \in [Ue -> Nat] /\ reported' \in 0 .. MaxReports
    BY <2>1, <1>1, DlHarqAssumption
  <2> QED BY <2>2, <1>1 DEF DlInv, TypeOK
<1>3. OneThing' /\ Kept'
  BY <1>1 DEF DlInv, OneThing, OncePerProcess, Kept, HasOne, IsActive
<1>4. InTime' /\ Current'
  BY <1>1 DEF DlInv, InTime, Current, HasPackets
<1>5. Sized(process') /\ BlocksAreDisjoint'
  BY <1>1 DEF DlInv, BlocksAreDisjoint
<1> QED BY <1>2, <1>3, <1>4, <1>5 DEF DlInv, Sized, IsActive

LEMMA DlInit == Init => DlInv
<1> SUFFICES ASSUME Init
             PROVE  DlInv
  OBVIOUS
<1>1. /\ pos = 0 /\ toRetransmit = <<>> /\ received = <<>> /\ inFlight = {}
      /\ created = 0 /\ reported = 0
      /\ data = [u \in Ue |-> 0] /\ process = [p \in Processes |-> Idle]
      /\ burst = [p \in Processes |-> [s \in Stream |-> 0]]
  BY DEF Init
<1>2. DOMAIN received = {} /\ DOMAIN toRetransmit = {}
  BY <1>1
<1>3. TypeOK
  <2>1. pos \in Pattern /\ reported \in 0 .. MaxReports
    BY <1>1, DlHarqAssumption DEF Pattern
  <2>2. process \in [Processes -> Process]
    BY <1>1, IdleFacts
  <2>3. data \in [Ue -> Nat] /\ burst \in [Processes -> [Stream -> Nat]]
    BY <1>1
  <2> QED BY <2>1, <2>2, <2>3, <1>1 DEF TypeOK
<1>4. \A p \in Processes : ~IsActive(process, p)
  BY <1>1, IdleFacts DEF IsActive
<1>5. OneThing /\ Kept /\ Sized(process)
  BY <1>1, <1>2, <1>4 DEF OneThing, OncePerProcess, Kept, HasOne, Sized
<1>6. InTime /\ Current /\ BlocksAreDisjoint
  BY <1>1, <1>2 DEF InTime, Current, BlocksAreDisjoint
<1> QED BY <1>3, <1>5, <1>6 DEF DlInv

LEMMA DlStep == DlInv /\ [Next]_vars => DlInv'
<1> SUFFICES ASSUME DlInv, [Next]_vars
             PROVE  DlInv'
  OBVIOUS
<1>1. ASSUME NEW u \in Ue, DoReportBufferStatus(u)
      PROVE  DlInv'
  BY <1>1, ReportInv
<1>2. CASE DoDlHarqFeedback
  BY <1>2, FeedbackInv
<1>3. CASE DoSlotDlIndication
  BY <1>3, IndicationInv
<1>4. CASE SlotWithoutDl
  BY <1>4, SlotWithoutDlInv
<1>5. CASE UNCHANGED vars
  <2>1. /\ data' = data /\ reported' = reported /\ pos' = pos /\ process' = process
        /\ toRetransmit' = toRetransmit /\ burst' = burst /\ received' = received
        /\ inFlight' = inFlight /\ created' = created
    BY <1>5 DEF vars
  <2>2. TypeOK' /\ OneThing' /\ Kept'
    BY <2>1 DEF DlInv, TypeOK, OneThing, OncePerProcess, Kept, HasOne, IsActive
  <2>3. InTime' /\ Current' /\ Sized(process') /\ BlocksAreDisjoint'
    BY <2>1 DEF DlInv, InTime, Current, HasPackets, BlocksAreDisjoint
  <2> QED BY <2>2, <2>3 DEF DlInv, Sized, IsActive
<1> QED BY <1>1, <1>2, <1>3, <1>4, <1>5 DEF Next

LEMMA DlInvariant == Spec => []DlInv
BY DlInit, DlStep, PTL DEF Spec

\* The variables of the gNB's downlink HARQ keep their types: no process is
\* given more RBGs or symbols than there are, no version beyond the last one,
\* and no count of units becomes negative.
THEOREM DlHarqTypeOK == Spec => []TypeOK
<1>1. DlInv => TypeOK
  BY DEF DlInv
<1> QED BY <1>1, DlInvariant, PTL

\* A block in flight is that of its process, which waits for its feedback, and
\* each stream sent carries the packets of the block: the MAC's burst of a
\* NACKed stream is still there when the scheduler sends it again, however long
\* its feedback was buffered.
THEOREM DlHarqInFlightIsCurrent == Spec => []InFlightIsCurrent
<1>1. DlInv => InFlightIsCurrent
  BY DEF DlInv, Current, InFlightIsCurrent
<1> QED BY <1>1, DlInvariant, PTL

\* No timer of a process that is in use expires: the feedback of a block comes
\* before, and buffering it restarts the timer.  ResetExpiredHARQ never erases
\* a process.
THEOREM DlHarqTimersHold ==
  Spec => [](\A p \in Processes : IsActive(process, p) => process[p].timer < NumHarq)
<1>1. DlInv => \A p \in Processes : IsActive(process, p) => process[p].timer < NumHarq
  BY ActiveInTime DEF DlInv
<1> QED BY <1>1, DlInvariant, PTL

LEMMA ExpectedFacts ==
  ASSUME DlInv
  PROVE  NackIsKept
<1> SUFFICES ASSUME NEW p \in Processes
             PROVE  Cardinality(Expected(p)) = IF IsActive(process, p) THEN 1 ELSE 0
  BY DEF NackIsKept
<1> DEFINE Flying == {<<"in flight", b>> : b \in {x \in inFlight : x.p = p}}
           Heard == {<<"received", i>> : i \in {j \in DOMAIN received : received[j].p = p}}
           Held == {<<"buffered", i>> :
                     i \in {j \in DOMAIN toRetransmit : toRetransmit[j].p = p}}
<1>1. OneThing /\ (IsActive(process, p) <=> HasOne(p))
  BY DEF DlInv, Kept
<1>2. Expected(p) = Flying \cup Heard \cup Held
  BY DEF Expected
<1>3. \A x, y \in Flying : x = y
  <2>1. \A b, c \in inFlight : b.p = p /\ c.p = p => b = c
    BY <1>1 DEF OneThing
  <2> QED BY <2>1
<1>4. \A x, y \in Heard : x = y
  <2>1. \A i, j \in DOMAIN received : received[i].p = p /\ received[j].p = p => i = j
    BY <1>1 DEF OneThing, OncePerProcess
  <2> QED BY <2>1
<1>5. \A x, y \in Held : x = y
  <2>1. \A i, j \in DOMAIN toRetransmit :
          toRetransmit[i].p = p /\ toRetransmit[j].p = p => i = j
    BY <1>1 DEF OneThing, OncePerProcess
  <2> QED BY <2>1
<1>6. (Flying # {} <=> \E b \in inFlight : b.p = p)
      /\ (Heard # {} <=> \E i \in DOMAIN received : received[i].p = p)
      /\ (Held # {} <=> \E i \in DOMAIN toRetransmit : toRetransmit[i].p = p)
  OBVIOUS
<1>7. ~(Flying # {} /\ Heard # {}) /\ ~(Flying # {} /\ Held # {}) /\ ~(Heard # {} /\ Held # {})
  <2>1. ASSUME NEW b \in inFlight, b.p = p
        PROVE  /\ \A i \in DOMAIN received : received[i].p # p
               /\ \A i \in DOMAIN toRetransmit : toRetransmit[i].p # p
    BY <2>1, <1>1 DEF OneThing
  <2>2. \A i \in DOMAIN received, j \in DOMAIN toRetransmit :
          ~(received[i].p = p /\ toRetransmit[j].p = p)
    BY <1>1 DEF OneThing
  <2> HIDE DEF Flying, Heard, Held
  <2> QED BY <2>1, <2>2, <1>6
<1>8. HasOne(p) <=> Flying # {} \/ Heard # {} \/ Held # {}
  <2> HIDE DEF Flying, Heard, Held
  <2> QED BY <1>6 DEF HasOne
<1> HIDE DEF Flying, Heard, Held
<1>9. CASE HasOne(p)
  <2>1. PICK x : Expected(p) = {x}
    <3>1. PICK x : x \in Expected(p)
      BY <1>2, <1>8, <1>9
    <3>2. \A y \in Expected(p) : y = x
      BY <3>1, <1>2, <1>3, <1>4, <1>5, <1>7
    <3> QED BY <3>1, <3>2
  <2>2. Cardinality(Expected(p)) = 1
    BY <2>1, FS_Singleton
  <2> QED BY <2>2, <1>1, <1>9
<1>10. CASE ~HasOne(p)
  <2>1. Expected(p) = {}
    BY <1>2, <1>8, <1>10
  <2> QED BY <2>1, <1>1, <1>10, FS_EmptySet
<1> QED BY <1>9, <1>10

\* No NACK is lost on its way from the MAC through the buffer of the scheduler
\* to a retransmission, and none is dealt with twice.
THEOREM DlHarqNackIsKept == Spec => []NackIsKept
<1>1. DlInv => NackIsKept
  BY ExpectedFacts
<1> QED BY <1>1, DlInvariant, PTL

\* Retransmissions, reshaped to the symbols of their beams, and the new blocks
\* behind them never overlap in a slot, and never pass its end.
THEOREM DlHarqBlocksAreDisjoint == Spec => []BlocksAreDisjoint
<1>1. DlInv => BlocksAreDisjoint
  BY DEF DlInv
<1> QED BY <1>1, DlInvariant, PTL

-----------------------------------------------------------------------------
(***************************************************************************)
(* What StopAndWait sees of a process.                                     *)
(***************************************************************************)

\* The streams that are sent have version v, the others none.
AtVersion(sent, v) == [s \in Stream |-> IF s \in sent THEN v ELSE 0]
HasVersion(q, v) == q.sent # {} /\ q.rv = AtVersion(q.sent, v)

\* A process that is not in use is as it was in the beginning, one that is in
\* use sends its streams in one version, and a UE NACKs only what was sent.
Uniform ==
  /\ \A p \in Processes : ~IsActive(process, p) => process[p] = Idle
  /\ \A p \in Processes :
       IsActive(process, p) => \E v \in 0 .. MaxRv : HasVersion(process[p], v)
  /\ \A p \in Processes : \A f \in FeedbackOf(p) : f.nacks \subseteq process[p].sent

LEMMA VersionFacts ==
  ASSUME NEW q \in Process, NEW v \in 0 .. MaxRv, HasVersion(q, v)
  PROVE  /\ Version(q) = v /\ (LastVersion(q) <=> v = MaxRv)
         /\ \A nacks \in SUBSET q.sent : NextVersion(q, nacks) = AtVersion(nacks, v + 1)
<1>1. /\ q.sent \subseteq Stream /\ q.sent # {} /\ MaxRv \in Nat
      /\ \A s \in Stream : q.rv[s] = IF s \in q.sent THEN v ELSE 0
  BY ProcessFacts, DlHarqAssumption DEF HasVersion, AtVersion
<1>2. PICK t : t \in q.sent
  BY <1>1
<1>3. Version(q) = v
  <2>1. \A rv \in 0 .. MaxRv : (\A s \in q.sent : q.rv[s] = rv) <=> rv = v
    BY <1>1, <1>2
  <2> QED BY <2>1, <1>1 DEF Version
<1>4. LastVersion(q) <=> v = MaxRv
  <2>1. CASE v = MaxRv
    BY <2>1, <1>1, <1>2 DEF LastVersion
  <2>2. CASE v # MaxRv
    <3>1. MaxRv # 0
      BY <2>2, <1>1
    <3> QED BY <3>1, <2>2, <1>1 DEF LastVersion
  <2> QED BY <2>1, <2>2
<1>5. ASSUME NEW nacks \in SUBSET q.sent
      PROVE  NextVersion(q, nacks) = AtVersion(nacks, v + 1)
  BY <1>1 DEF NextVersion, AtVersion
<1> QED BY <1>3, <1>4, <1>5

\* A block in flight, and feedback under way, say what a process is doing.
Mapped ==
  \A p \in Processes :
    /\ ~IsActive(process, p) => StateOf(p) = Harq!Free
    /\ \A b \in inFlight : b.p = p =>
         StateOf(p) = Harq!Sent(process[p].sent, Version(process[p]))
    /\ \A f \in FeedbackOf(p) :
         StateOf(p) = Harq!Answered(f.nacks, Version(process[p]))

LEMMA MappedFacts == DlInv /\ Uniform => Mapped
<1> SUFFICES ASSUME DlInv, Uniform, NEW p \in Processes
             PROVE  /\ ~IsActive(process, p) => StateOf(p) = Harq!Free
                    /\ \A b \in inFlight : b.p = p =>
                         StateOf(p) = Harq!Sent(process[p].sent, Version(process[p]))
                    /\ \A f \in FeedbackOf(p) :
                         StateOf(p) = Harq!Answered(f.nacks, Version(process[p]))
  BY DEF Mapped
<1>1. OneThing /\ (IsActive(process, p) <=> HasOne(p))
  BY DEF DlInv, Kept
<1>2. \A f : f \in FeedbackOf(p) <=>
         /\ f.p = p
         /\ \/ \E i \in DOMAIN received : received[i] = f
            \/ \E i \in DOMAIN toRetransmit : toRetransmit[i] = f
  BY DEF FeedbackOf, ToSet
<1>3. ASSUME ~IsActive(process, p)
      PROVE  StateOf(p) = Harq!Free
  <2>1. process[p].sent = {}
    BY <1>3 DEF Uniform, Idle
  <2>2. PlaceOf(p) = "free"
    BY <1>3 DEF PlaceOf
  <2> QED BY <2>1, <2>2 DEF StateOf, PartsOf, Version, Harq!Free
<1>4. ASSUME NEW b \in inFlight, b.p = p
      PROVE  StateOf(p) = Harq!Sent(process[p].sent, Version(process[p]))
  <2>1. PlaceOf(p) = "sent"
    BY <1>1, <1>4 DEF PlaceOf, HasOne
  <2> QED BY <2>1 DEF StateOf, PartsOf, Harq!Sent
<1>5. ASSUME NEW f \in FeedbackOf(p)
      PROVE  StateOf(p) = Harq!Answered(f.nacks, Version(process[p]))
  <2>1. HasOne(p)
    BY <1>2 DEF HasOne
  <2>2. \A b \in inFlight : b.p # p
    BY <1>1, <1>2 DEF OneThing
  <2>3. PlaceOf(p) = "answered"
    BY <2>1, <2>2, <1>1 DEF PlaceOf
  <2>4. \A g \in FeedbackOf(p) : g = f
    BY <1>1, <1>2 DEF OneThing, OncePerProcess
  <2>5. {g.nacks : g \in FeedbackOf(p)} = {f.nacks}
    BY <2>4
  <2>6. PartsOf(p) = f.nacks
    BY <2>3, <2>5 DEF PartsOf
  <2> QED BY <2>3, <2>6 DEF StateOf, Harq!Answered
<1> QED BY <1>3, <1>4, <1>5

LEMMA MappedNext == (DlInv /\ Uniform)' => Mapped'
BY MappedFacts, PTL

LEMMA StateType ==
  ASSUME DlInv, Uniform, Mapped, NEW p \in Processes
  PROVE  StateOf(p) \in Harq!State
<1>1. process[p] \in Process /\ process[p].sent \in SUBSET Stream
  <2>1. process[p] \in Process
    BY DEF DlInv, TypeOK
  <2> QED BY <2>1, ProcessFacts
<1>2. CASE ~IsActive(process, p)
  <2>1. StateOf(p) = Harq!Free
    BY <1>2 DEF Mapped
  <2> QED BY <2>1, DlHarqAssumption DEF Harq!Free, Harq!State
<1>3. CASE IsActive(process, p)
  <2>1. Version(process[p]) \in 0 .. MaxRv
    BY <1>1, <1>3, VersionFacts DEF Uniform
  <2>2. CASE \E b \in inFlight : b.p = p
    <3>1. StateOf(p) = Harq!Sent(process[p].sent, Version(process[p]))
      BY <2>2 DEF Mapped
    <3> QED BY <3>1, <2>1, <1>1 DEF Harq!Sent, Harq!State
  <2>3. CASE \A b \in inFlight : b.p # p
    <3>1. HasOne(p)
      BY <1>3 DEF DlInv, Kept
    <3>2. PICK f : f \in FeedbackOf(p)
      BY <3>1, <2>3 DEF HasOne, FeedbackOf, ToSet
    <3>3. StateOf(p) = Harq!Answered(f.nacks, Version(process[p]))
      BY <3>2 DEF Mapped
    <3>4. f.nacks \in SUBSET Stream
      BY <3>2, <1>1 DEF Uniform
    <3> QED BY <3>3, <3>4, <2>1 DEF Harq!Answered, Harq!State
  <2> QED BY <2>2, <2>3
<1> QED BY <1>2, <1>3

LEMMA AllTyped ==
  DlInv /\ Uniform => \A p \in Processes : StateOf(p) \in Harq!State
BY StateType, MappedFacts

\* A step after which the same is under way for a process, with the same
\* streams and versions, is none for StopAndWait.
LEMMA SameState ==
  ASSUME DlInv, Uniform, DlInv', Uniform', NEW p \in Processes,
         process'[p].rv = process[p].rv, process'[p].sent = process[p].sent,
         IsActive(process', p) <=> IsActive(process, p),
         (\E b \in inFlight : b.p = p) => (\E b \in inFlight' : b.p = p),
         FeedbackOf(p) \subseteq FeedbackOf(p)'
  PROVE  StateOf(p)' = StateOf(p)
<1>1. /\ ~IsActive(process, p) => StateOf(p) = Harq!Free
      /\ \A b \in inFlight : b.p = p =>
           StateOf(p) = Harq!Sent(process[p].sent, Version(process[p]))
      /\ \A f \in FeedbackOf(p) :
           StateOf(p) = Harq!Answered(f.nacks, Version(process[p]))
  BY MappedFacts DEF Mapped
<1>2. /\ ~IsActive(process', p) => StateOf(p)' = Harq!Free
      /\ \A b \in inFlight' : b.p = p =>
           StateOf(p)' = Harq!Sent(process'[p].sent, Version(process'[p]))
      /\ \A f \in FeedbackOf(p)' :
           StateOf(p)' = Harq!Answered(f.nacks, Version(process'[p]))
  BY MappedNext DEF Mapped, IsActive, Version
<1>3. Version(process'[p]) = Version(process[p])
  BY DEF Version
<1>4. CASE ~IsActive(process, p)
  BY <1>1, <1>2, <1>4
<1>5. CASE \E b \in inFlight : b.p = p
  BY <1>1, <1>2, <1>3, <1>5
<1>6. CASE \E f : f \in FeedbackOf(p)
  BY <1>1, <1>2, <1>3, <1>6
<1>7. IsActive(process, p) =>
        (\E b \in inFlight : b.p = p) \/ (\E f : f \in FeedbackOf(p))
  BY DEF DlInv, Kept, HasOne, FeedbackOf, ToSet
<1> QED BY <1>4, <1>5, <1>6, <1>7

-----------------------------------------------------------------------------
(***************************************************************************)
(* The steps of a process, seen from StopAndWait.                          *)
(***************************************************************************)

\* ProcessHARQFeedbacks frees a process whose block is finished, and no other.
LEMMA FreedFacts ==
  ASSUME DlInv, Uniform, NEW p \in Processes, ~IsActive(Procs2, p)
  PROVE  /\ Procs2[p] = Idle
         /\ IsActive(process, p) =>
              \E f \in FeedbackOf(p) : f.nacks = {} \/ LastVersion(process[p])
<1> USE DEF DlInv
<1> DEFINE Gone == \E i \in DOMAIN Fb1 : Fb1[i].p = p /\ Finishes(Procs1, Fb1[i])
           Heard == \E i \in DOMAIN Fb1 : Fb1[i].p = p
<1>1. Procs1 \in [Processes -> Process] /\ SameBlock(Procs1[p], process[p])
  BY ResetFacts
<1>2. IsMerged(Fb1)
  BY Fb1Facts
<1>3. Procs2[p] = IF Gone THEN Idle
                  ELSE IF Heard THEN [Procs1[p] EXCEPT !.status = "RECEIVED_FEEDBACK"]
                  ELSE Procs1[p]
  BY DEF Procs2, ProcessHARQFeedbacks
<1>4. CASE Gone
  <2>1. PICK i \in DOMAIN Fb1 : Fb1[i].p = p /\ Finishes(Procs1, Fb1[i])
    BY <1>4
  <2>2. Fb1[i] \in FeedbackOf(p)
    BY <2>1, <1>2 DEF IsMerged, FeedbackOf, ToSet
  <2>3. Fb1[i].nacks = {} \/ LastVersion(process[p])
    BY <2>1, <1>1 DEF Finishes, LastVersion, SameBlock
  <2> QED BY <2>2, <2>3, <1>3, <1>4
<1>5. CASE ~Gone /\ Heard
  <2>1. Procs2[p].status = "RECEIVED_FEEDBACK"
    BY <1>1, <1>3, <1>5 DEF Process
  <2> QED BY <2>1 DEF IsActive
<1>6. CASE ~Gone /\ ~Heard
  <2>1. Procs2[p] = Procs1[p]
    BY <1>3, <1>6
  <2>2. ~IsActive(process, p)
    BY <2>1, <1>1 DEF SameBlock, IsActive
  <2>3. Procs1[p] = process[p]
    BY <2>2 DEF Procs1, ResetExpiredHARQ
  <2> QED BY <2>1, <2>2, <2>3 DEF Uniform
<1> QED BY <1>4, <1>5, <1>6

\* What is to be repeated was NACKed, and has a version left.
LEMMA AskedAgain ==
  ASSUME DlInv, Uniform, NEW f \in Asked
  PROVE  /\ f \in FeedbackOf(f.p) /\ f.p \in Processes /\ f.nacks # {}
         /\ IsActive(process, f.p) /\ ~LastVersion(process[f.p])
         /\ Procs2[f.p].rv = process[f.p].rv /\ Procs2[f.p].sent = process[f.p].sent
<1> USE DEF DlInv
<1>1. Todo(f, {})
  BY AskedFacts, ProcessedFacts
<1>2. f \in Feedback /\ f.p \in Processes /\ IsActive(Procs2, f.p)
      /\ ~LastVersion(Procs2[f.p])
  BY <1>1, FeedbackFacts DEF Todo
<1>3. PICK k \in DOMAIN Fb2 : Fb2[k] = f
  BY DEF Asked, ToSet
<1>4. PICK i \in DOMAIN Fb1 : Fb1[i] = f /\ ~Finishes(Procs1, f)
  BY <1>3, Fb2Facts
<1>5. f \in FeedbackOf(f.p)
  BY <1>4, Fb1Facts DEF IsMerged, FeedbackOf, ToSet
<1>6. HasOne(f.p)
  BY <1>5 DEF HasOne, FeedbackOf, ToSet
<1>7. Procs1 \in [Processes -> Process] /\ SameBlock(Procs1[f.p], process[f.p])
  BY <1>2, ResetFacts
<1>8. Procs2[f.p] # Idle
  BY <1>2, IdleFacts DEF IsActive
<1>9. Procs2[f.p] = [Procs1[f.p] EXCEPT !.status = "RECEIVED_FEEDBACK"]
  BY <1>2, <1>4, <1>8 DEF Procs2, ProcessHARQFeedbacks
<1>10. Procs1[f.p] \in Process
  BY <1>2, <1>7
<1>11. Procs2[f.p].rv = Procs1[f.p].rv /\ Procs2[f.p].sent = Procs1[f.p].sent
  BY <1>9, <1>10 DEF Process
<1>12. Procs2[f.p].rv = process[f.p].rv /\ Procs2[f.p].sent = process[f.p].sent
  BY <1>7, <1>11 DEF SameBlock
<1>13. ~LastVersion(process[f.p])
  BY <1>2, <1>12 DEF LastVersion
<1>14. IsActive(process, f.p)
  BY <1>2, <1>6 DEF Kept
<1>15. f.nacks # {}
  BY <1>4 DEF Finishes
<1> QED BY <1>2, <1>5, <1>12, <1>13, <1>14, <1>15

\* What a slot indication does with a process: it is free after it, or gets a
\* new block, or waits as before for its block in flight, or is repeated, or
\* waits with its feedback.
Freed(p) == ~IsActive(Procs2, p) /\ process'[p] = Idle
Begun(p, new) ==
  ~IsActive(Procs2, p) /\ \E b \in new : b.p = p /\ process'[p] = Started(b)
StillSent(p) ==
  /\ IsActive(process, p) /\ IsActive(process', p)
  /\ (\E b \in inFlight : b.p = p) /\ (\E b \in inFlight' : b.p = p)
  /\ process'[p].rv = process[p].rv /\ process'[p].sent = process[p].sent
Repeated(p) ==
  /\ IsActive(process, p) /\ IsActive(process', p) /\ \E b \in inFlight' : b.p = p
  /\ \E f \in Asked : f.p = p /\ Repeats(process'[p], process[p], f.nacks)
StillAsked(p) ==
  /\ IsActive(process, p) /\ IsActive(process', p)
  /\ \E f \in Asked : f.p = p /\ f \in FeedbackOf(p)'
  /\ process'[p].rv = process[p].rv /\ process'[p].sent = process[p].sent

LEMMA IndicationCases ==
  ASSUME DlInv, Uniform, NoFeedbackDue, NEW h, NEW new, NEW assigned,
         Decides(h, new, assigned), NEW p \in Processes
  PROVE  Freed(p) \/ Begun(p, new) \/ StillSent(p) \/ Repeated(p) \/ StillAsked(p)
<1>1. Planned(h) /\ NewSound(new, h) /\ Processed
  BY ProcessedFacts DEF Decides
<1>2. toRetransmit' = h.retx /\ received' = <<>> /\ inFlight' = Elapsed \cup h.blocks \cup new
  BY DEF Decides, Indication, Shown
<1>3. CASE ~IsActive(Procs2, p) /\ \E b \in new : b.p = p
  <2>1. PICK b \in new : b.p = p
    BY <1>3
  <2>2. process'[b.p] = Started(b)
    BY AfterFacts
  <2> QED BY <2>1, <2>2, <1>3 DEF Begun
<1>4. CASE ~IsActive(Procs2, p) /\ \A b \in new : b.p # p
  <2>1. process'[p] = h.procs[p]
    BY <1>4, AfterFacts
  <2>2. \A f \in Asked : f.p # p
    BY <1>4, GroupFacts
  <2>3. h.procs[p] = Procs2[p]
    BY <2>2, <1>1 DEF Planned
  <2> QED BY <2>1, <2>3, <1>4, FreedFacts DEF Freed
<1>5. CASE \E b \in inFlight : b.p = p
  <2>1. PICK b \in inFlight : b.p = p
    BY <1>5
  <2>2. SameBlock(process'[p], process[p])
    BY <2>1, GroupFacts
  <2>3. HasOne(p)
    BY <1>5 DEF HasOne
  <2>4. IsActive(process, p)
    BY <2>3 DEF DlInv, Kept
  <2>5. PICK x \in Elapsed : Elapses(x, b)
    BY ElapsedFacts DEF DlInv
  <2>6. x \in inFlight' /\ x.p = p
    BY <2>1, <2>5, <1>2 DEF Elapses
  <2> QED BY <2>2, <2>4, <2>6, <1>5 DEF SameBlock, StillSent, IsActive
<1>6. ASSUME NEW f \in Asked, f.p = p
      PROVE  Repeated(p) \/ StillAsked(p)
  <2>1. process'[p] = h.procs[p] /\ IsActive(Procs2, p)
    BY <1>6, GroupFacts
  <2>2. IsActive(process', p)
    BY <2>1, <1>1 DEF Planned, IsActive
  <2>3. /\ IsActive(process, p)
        /\ Procs2[p].rv = process[p].rv /\ Procs2[p].sent = process[p].sent
    BY <1>6, AskedAgain
  <2>4. CASE \E b \in h.blocks : b.p = p
    <3>1. PICK b \in h.blocks : b.p = p
      BY <2>4
    <3>2. PICK g \in Asked : g.p = p /\ Repeats(h.procs[p], Procs2[p], g.nacks)
      BY <3>1, <1>1 DEF Planned, Resent
    <3>3. Repeats(process'[p], process[p], g.nacks)
      BY <3>2, <2>1, <2>3 DEF Repeats, NextVersion
    <3> QED BY <3>1, <3>2, <3>3, <2>2, <2>3, <1>2 DEF Repeated
  <2>5. CASE \E i \in DOMAIN h.retx : h.retx[i] = f
    <3>1. PICK i \in DOMAIN h.retx : h.retx[i] = f
      BY <2>5
    <3>2. Rests(h.procs[p], Procs2[p])
      BY <3>1, <1>1, <1>6 DEF Planned
    <3>3. process'[p].rv = process[p].rv /\ process'[p].sent = process[p].sent
      BY <3>2, <2>1, <2>3 DEF Rests
    <3>4. f \in FeedbackOf(p)'
      BY <3>1, <1>2, <1>6 DEF FeedbackOf, ToSet
    <3> QED BY <3>3, <3>4, <2>2, <2>3, <1>6 DEF StillAsked
  <2> QED BY <2>4, <2>5, <1>1, <1>6 DEF Planned
<1>7. IsActive(Procs2, p) =>
        (\E b \in inFlight : b.p = p) \/ (\E f \in Asked : f.p = p)
  BY <1>1 DEF Processed, Asked, ToSet
<1> QED BY <1>3, <1>4, <1>5, <1>6, <1>7

\* The version of a process that gets a block, or repeats one.
LEMMA StartedVersion ==
  ASSUME NEW b \in Block, b.sent # {}
  PROVE  /\ HasVersion(Started(b), 0) /\ Version(Started(b)) = 0
         /\ Started(b).sent = b.sent /\ Started(b).status # "INACTIVE"
<1>1. b.sent \subseteq Stream
  BY BlockFacts
<1>2. /\ Started(b).sent = b.sent /\ Started(b).status # "INACTIVE"
      /\ Started(b).rv = [s \in Stream |-> 0]
  BY DEF Started
<1>3. HasVersion(Started(b), 0)
  BY <1>2 DEF HasVersion, AtVersion
<1>4. \A rv \in 0 .. MaxRv : (\A s \in b.sent : [t \in Stream |-> 0][s] = rv) <=> rv = 0
  BY <1>1
<1>5. 0 \in 0 .. MaxRv
  BY DlHarqAssumption
<1>6. Version(Started(b)) = 0
  BY <1>2, <1>4, <1>5 DEF Version
<1> QED BY <1>2, <1>3, <1>6

LEMMA RepeatedVersion ==
  ASSUME DlInv, Uniform, DlInv', NEW p \in Processes, NEW f \in Asked, f.p = p,
         Repeats(process'[p], process[p], f.nacks)
  PROVE  /\ Version(process[p]) \in 0 .. MaxRv /\ Version(process[p]) < MaxRv
         /\ HasVersion(process'[p], Version(process[p]) + 1)
         /\ Version(process[p]) + 1 \in 0 .. MaxRv
         /\ Version(process'[p]) = Version(process[p]) + 1
<1>1. process[p] \in Process /\ process'[p] \in Process /\ MaxRv \in Nat
  BY DlHarqAssumption DEF DlInv, TypeOK
<1>2. /\ f \in FeedbackOf(p) /\ f.nacks # {} /\ IsActive(process, p)
      /\ ~LastVersion(process[p])
  BY AskedAgain
<1>3. PICK v \in 0 .. MaxRv : HasVersion(process[p], v)
  BY <1>2 DEF Uniform
<1>4. Version(process[p]) = v /\ v # MaxRv
  BY <1>1, <1>2, <1>3, VersionFacts
<1>5. f.nacks \subseteq process[p].sent
  BY <1>2 DEF Uniform
<1>6. process'[p].sent = f.nacks /\ process'[p].rv = AtVersion(f.nacks, v + 1)
  BY <1>1, <1>3, <1>5, VersionFacts DEF Repeats
<1>7. HasVersion(process'[p], v + 1)
  BY <1>2, <1>6 DEF HasVersion
<1>8. v < MaxRv /\ v + 1 \in 0 .. MaxRv
  BY <1>1, <1>4
<1>9. Version(process'[p]) = v + 1
  BY <1>1, <1>7, <1>8, VersionFacts
<1> QED BY <1>4, <1>7, <1>8, <1>9

LEMMA IndicationUniform ==
  ASSUME DlInv, Uniform, DlInv', NoFeedbackDue, NEW h, NEW new, NEW assigned,
         Decides(h, new, assigned)
  PROVE  Uniform'
<1>1. Planned(h) /\ NewSound(new, h)
  BY DEF Decides
<1>2. toRetransmit' = h.retx /\ received' = <<>>
  BY DEF Decides, Indication, Shown
<1>3. ASSUME NEW p \in Processes
      PROVE  IF IsActive(process', p) THEN \E v \in 0 .. MaxRv : HasVersion(process'[p], v)
             ELSE process'[p] = Idle
  <2>1. CASE Freed(p)
    BY <2>1, IdleFacts DEF Freed, IsActive
  <2>2. CASE Begun(p, new)
    <3>1. PICK b \in new : b.p = p /\ process'[p] = Started(b)
      BY <2>2 DEF Begun
    <3>2. b \in Block /\ b.sent # {}
      BY <1>1 DEF NewSound
    <3>3. HasVersion(process'[p], 0) /\ IsActive(process', p)
      BY <3>1, <3>2, StartedVersion DEF IsActive
    <3> QED BY <3>3, DlHarqAssumption
  <2>3. CASE StillSent(p) \/ StillAsked(p)
    <3>1. /\ IsActive(process, p) /\ IsActive(process', p)
          /\ process'[p].rv = process[p].rv /\ process'[p].sent = process[p].sent
      BY <2>3 DEF StillSent, StillAsked
    <3> QED BY <3>1 DEF Uniform, HasVersion
  <2>4. CASE Repeated(p)
    <3>1. PICK f \in Asked : f.p = p /\ Repeats(process'[p], process[p], f.nacks)
      BY <2>4 DEF Repeated
    <3>2. HasVersion(process'[p], Version(process[p]) + 1)
          /\ Version(process[p]) + 1 \in 0 .. MaxRv
      BY <3>1, RepeatedVersion
    <3> QED BY <3>2, <2>4 DEF Repeated
  <2> QED BY <2>1, <2>2, <2>3, <2>4, IndicationCases
<1>4. ASSUME NEW p \in Processes, NEW f \in FeedbackOf(p)'
      PROVE  f.nacks \subseteq process'[p].sent
  <2>1. PICK i \in DOMAIN h.retx : h.retx[i] = f /\ f.p = p
    BY <1>2 DEF FeedbackOf, ToSet
  <2>2. f \in Asked /\ Rests(h.procs[p], Procs2[p])
    BY <2>1, <1>1 DEF Planned
  <2>3. f.nacks \subseteq process[p].sent
    BY <2>1, <2>2, AskedAgain DEF Uniform
  <2>4. process'[p] = h.procs[p] /\ Procs2[p].sent = process[p].sent
    BY <2>1, <2>2, GroupFacts, AskedAgain
  <2> QED BY <2>2, <2>3, <2>4 DEF Rests
<1> QED BY <1>3, <1>4 DEF Uniform, IsActive, HasVersion

\* A slot indication.
LEMMA IndicationState ==
  ASSUME DlInv, Uniform, DlInv', Uniform', NoFeedbackDue, NEW h, NEW new, NEW assigned,
         Decides(h, new, assigned), NEW p \in Processes
  PROVE  Harq!Step(StateOf(p), StateOf(p)')
<1> DEFINE v == Version(process[p])
<1>1. /\ ~IsActive(process, p) => StateOf(p) = Harq!Free
      /\ \A b \in inFlight : b.p = p => StateOf(p) = Harq!Sent(process[p].sent, v)
      /\ \A f \in FeedbackOf(p) : StateOf(p) = Harq!Answered(f.nacks, v)
  BY MappedFacts DEF Mapped
<1>2. /\ ~IsActive(process', p) => StateOf(p)' = Harq!Free
      /\ \A b \in inFlight' : b.p = p =>
           StateOf(p)' = Harq!Sent(process'[p].sent, Version(process'[p]))
      /\ \A f \in FeedbackOf(p)' :
           StateOf(p)' = Harq!Answered(f.nacks, Version(process'[p]))
  BY MappedNext DEF Mapped, IsActive, Version
<1>3. NewSound(new, h) /\ inFlight' = Elapsed \cup h.blocks \cup new
  BY DEF Decides, Indication, Shown
<1> HIDE DEF v
<1>4. ASSUME ~IsActive(Procs2, p)
      PROVE  StateOf(p) = Harq!Free \/ Harq!Finished(StateOf(p))
  <2>1. CASE IsActive(process, p)
    <3>1. PICK f \in FeedbackOf(p) : f.nacks = {} \/ LastVersion(process[p])
      BY <2>1, <1>4, FreedFacts
    <3>2. StateOf(p) = Harq!Answered(f.nacks, v)
      BY <1>1
    <3>3. LastVersion(process[p]) => v = MaxRv
      <4>1. process[p] \in Process
        BY DEF DlInv, TypeOK
      <4> QED BY <4>1, <2>1, VersionFacts DEF Uniform, v
    <3> QED BY <3>1, <3>2, <3>3 DEF Harq!Finished, Harq!Answered
  <2>2. CASE ~IsActive(process, p)
    BY <2>2, <1>1
  <2> QED BY <2>1, <2>2
<1>5. CASE Freed(p)
  <2>1. StateOf(p)' = Harq!Free
    BY <1>2, <1>5, IdleFacts DEF Freed, IsActive
  <2> QED BY <2>1, <1>4, <1>5 DEF Freed, Harq!Step, Harq!Finish
<1>6. CASE Begun(p, new)
  <2>1. PICK b \in new : b.p = p /\ process'[p] = Started(b)
    BY <1>6 DEF Begun
  <2>2. b \in Block /\ b.sent # {} /\ b \in inFlight'
    BY <1>3 DEF NewSound
  <2>3. StateOf(p)' = Harq!Sent(b.sent, 0)
    BY <1>2, <2>1, <2>2, StartedVersion
  <2>4. b.sent \in (SUBSET Stream) \ {{}}
    BY <2>2, BlockFacts
  <2> QED BY <2>3, <2>4, <1>4, <1>6 DEF Begun, Harq!Step, Harq!SendNew
<1>7. CASE StillSent(p)
  <2>1. Version(process'[p]) = v
    BY <1>7 DEF StillSent, Version, v
  <2>2. StateOf(p)' = StateOf(p)
    BY <2>1, <1>1, <1>2, <1>7 DEF StillSent
  <2> QED BY <2>2 DEF Harq!Step
<1>8. CASE Repeated(p)
  <2>1. PICK f \in Asked : f.p = p /\ Repeats(process'[p], process[p], f.nacks)
    BY <1>8 DEF Repeated
  <2>2. f \in FeedbackOf(p) /\ f.nacks # {}
    BY <2>1, AskedAgain
  <2>3. StateOf(p) = Harq!Answered(f.nacks, v)
    BY <2>2, <1>1
  <2>4. v < MaxRv /\ Version(process'[p]) = v + 1
    BY <2>1, RepeatedVersion DEF v
  <2>5. StateOf(p)' = Harq!Sent(f.nacks, v + 1)
    BY <2>1, <2>4, <1>2, <1>8 DEF Repeated, Repeats
  <2>6. Harq!SendAgain(StateOf(p), StateOf(p)')
    BY <2>2, <2>3, <2>4, <2>5 DEF Harq!SendAgain, Harq!Answered
  <2> QED BY <2>6 DEF Harq!Step
<1>9. CASE StillAsked(p)
  <2>1. PICK f \in Asked : f.p = p /\ f \in FeedbackOf(p)'
    BY <1>9 DEF StillAsked
  <2>2. f \in FeedbackOf(p)
    BY <2>1, AskedAgain
  <2>3. Version(process'[p]) = v
    BY <1>9 DEF StillAsked, Version, v
  <2>4. StateOf(p)' = StateOf(p)
    BY <2>1, <2>2, <2>3, <1>1, <1>2
  <2> QED BY <2>4 DEF Harq!Step
<1> QED BY <1>5, <1>6, <1>7, <1>8, <1>9, IndicationCases

\* The UE of block b answers it.
Answers(b, nacks) ==
  /\ process' = process /\ toRetransmit' = toRetransmit
  /\ inFlight' = inFlight \ {b}
  /\ received' = Append(received, [p |-> b.p, nacks |-> nacks])

\* It NACKs only streams that were sent.
LEMMA AnswerFacts ==
  ASSUME DlInv, Uniform, NEW b \in inFlight, NEW nacks \in SUBSET b.sent,
         Answers(b, nacks)
  PROVE  /\ b.p \in Processes /\ nacks \subseteq process[b.p].sent
         /\ [p |-> b.p, nacks |-> nacks] \in FeedbackOf(b.p)'
         /\ \A p : FeedbackOf(p) \subseteq FeedbackOf(p)'
         /\ \A p : \A f \in FeedbackOf(p)' :
              f \in FeedbackOf(p) \/ (f = [p |-> b.p, nacks |-> nacks] /\ p = b.p)
<1> DEFINE f == [p |-> b.p, nacks |-> nacks]
<1>1. b \in Block /\ process[b.p].sent = b.sent
  BY DEF DlInv, TypeOK, Current
<1>2. b.p \in Processes
  BY <1>1, BlockFacts
<1>3. received \in Seq(Feedback)
  BY DEF DlInv, TypeOK
<1>4. f.p = b.p
  OBVIOUS
<1>5. received' = Append(received, f) /\ toRetransmit' = toRetransmit
  BY DEF Answers
<1> HIDE DEF f
<1>6. ToSet(received') = ToSet(received) \cup {f}
  <2>1. /\ DOMAIN received = 1 .. Len(received) /\ Len(received) \in Nat
        /\ DOMAIN received' = 1 .. Len(received) + 1
        /\ \A i \in 1 .. Len(received) : received'[i] = received[i]
        /\ received'[Len(received) + 1] = f
    BY <1>3, <1>5
  <2>2. \A i : i \in 1 .. Len(received) + 1 <=>
                 i \in 1 .. Len(received) \/ i = Len(received) + 1
    BY <2>1
  <2> QED BY <2>1, <2>2 DEF ToSet
<1>7. \A p : FeedbackOf(p)' = FeedbackOf(p) \cup (IF p = b.p THEN {f} ELSE {})
  BY <1>4, <1>5, <1>6 DEF FeedbackOf
<1> QED BY <1>1, <1>2, <1>7 DEF f

LEMMA FeedbackUniform ==
  ASSUME DlInv, Uniform, DoDlHarqFeedback
  PROVE  Uniform'
<1>0. PICK b \in inFlight : \E nacks \in SUBSET b.sent : Answers(b, nacks)
  BY DEF DoDlHarqFeedback, Answers
<1>1. PICK nacks \in SUBSET b.sent : Answers(b, nacks)
  BY <1>0
<1>2. /\ nacks \subseteq process[b.p].sent
      /\ \A p : \A f \in FeedbackOf(p)' :
           f \in FeedbackOf(p) \/ (f = [p |-> b.p, nacks |-> nacks] /\ p = b.p)
  BY <1>1, AnswerFacts
<1>3. \A p \in Processes : \A f \in FeedbackOf(p)' : f.nacks \subseteq process'[p].sent
  BY <1>1, <1>2 DEF Uniform, Answers
<1> QED BY <1>1, <1>3 DEF Answers, Uniform, IsActive, HasVersion

LEMMA FeedbackState ==
  ASSUME DlInv, Uniform, DlInv', Uniform', DoDlHarqFeedback, NEW p \in Processes
  PROVE  Harq!Step(StateOf(p), StateOf(p)')
<1>0. PICK b \in inFlight : \E nacks \in SUBSET b.sent : Answers(b, nacks)
  BY DEF DoDlHarqFeedback, Answers
<1>1. PICK nacks \in SUBSET b.sent : Answers(b, nacks)
  BY <1>0
<1> DEFINE f == [p |-> b.p, nacks |-> nacks]
           v == Version(process[p])
<1>2. /\ nacks \subseteq process[b.p].sent /\ f \in FeedbackOf(b.p)'
      /\ FeedbackOf(p) \subseteq FeedbackOf(p)'
  BY <1>1, AnswerFacts
<1>3. CASE p = b.p
  <2>1. StateOf(p) = Harq!Sent(process[p].sent, v)
    BY <1>3, MappedFacts DEF Mapped
  <2>2. StateOf(p)' = Harq!Answered(f.nacks, Version(process'[p]))
    BY <1>2, <1>3, MappedNext DEF Mapped, Version
  <2>3. StateOf(p)' = Harq!Answered(nacks, v)
    BY <2>2, <1>1 DEF Answers
  <2>4. Harq!Answer(StateOf(p), StateOf(p)')
    BY <2>1, <2>3, <1>2, <1>3 DEF Harq!Answer, Harq!Sent
  <2> QED BY <2>4 DEF Harq!Step
<1>4. CASE p # b.p
  <2>1. StateOf(p)' = StateOf(p)
    BY <1>1, <1>2, <1>4, SameState DEF IsActive, Answers
  <2> QED BY <2>1 DEF Harq!Step
<1> QED BY <1>3, <1>4

\* A slot without downlink, and a buffer status report.
LEMMA SlotWithoutDlUniform ==
  ASSUME DlInv, Uniform, SlotWithoutDl \/ UNCHANGED vars \/ \E u \in Ue : DoReportBufferStatus(u)
  PROVE  Uniform'
BY DEF Uniform, IsActive, HasVersion, FeedbackOf, SlotWithoutDl, DoReportBufferStatus, vars

LEMMA SlotWithoutDlState ==
  ASSUME DlInv, Uniform, DlInv', Uniform', NEW p \in Processes,
         SlotWithoutDl \/ UNCHANGED vars \/ \E u \in Ue : DoReportBufferStatus(u)
  PROVE  StateOf(p)' = StateOf(p)
<1>1. /\ process' = process /\ FeedbackOf(p)' = FeedbackOf(p)
      /\ inFlight' = Elapsed \/ inFlight' = inFlight
  BY DEF SlotWithoutDl, DoReportBufferStatus, vars, FeedbackOf
<1>2. ASSUME NEW b \in inFlight, b.p = p
      PROVE  \E c \in inFlight' : c.p = p
  <2>1. CASE inFlight' = Elapsed /\ NoFeedbackDue
    <3>1. PICK x \in Elapsed : Elapses(x, b)
      BY <2>1, ElapsedFacts DEF DlInv
    <3> QED BY <2>1, <3>1, <1>2 DEF Elapses
  <2> QED BY <2>1, <1>2 DEF SlotWithoutDl, DoReportBufferStatus, vars
<1> QED BY <1>1, <1>2, SameState DEF IsActive

LEMMA UniformInit == Init => Uniform
<1> SUFFICES ASSUME Init
             PROVE  Uniform
  OBVIOUS
<1>1. \A p \in Processes : process[p] = Idle /\ ~IsActive(process, p)
  BY IdleFacts DEF Init, IsActive
<1>2. \A p : FeedbackOf(p) = {}
  BY DEF Init, FeedbackOf, ToSet
<1> QED BY <1>1, <1>2 DEF Uniform

LEMMA UniformNext == DlInv /\ Uniform /\ [Next]_vars => Uniform'
<1> SUFFICES ASSUME DlInv, Uniform, [Next]_vars, DlInv'
             PROVE  Uniform'
  BY DlStep
<1>1. CASE DoDlHarqFeedback
  BY <1>1, FeedbackUniform
<1>2. CASE DoSlotDlIndication
  <2>1. NoFeedbackDue /\ \E h, new, assigned : Decides(h, new, assigned)
    BY <1>2, IndicationFacts
  <2> QED BY <2>1, IndicationUniform
<1>3. CASE SlotWithoutDl \/ UNCHANGED vars \/ \E u \in Ue : DoReportBufferStatus(u)
  BY <1>3, SlotWithoutDlUniform
<1> QED BY <1>1, <1>2, <1>3 DEF Next

LEMMA AllTypedNext ==
  (DlInv /\ Uniform)' => (\A p \in Processes : StateOf(p) \in Harq!State)'
BY AllTyped, PTL

\* The gNB's downlink HARQ is stop-and-wait for each process, for any number of
\* UEs, beams, processes and versions: the lists in which feedback is merged,
\* sorted and buffered, the timers and the sharing of a slot decide when a
\* process takes a step of StopAndWait, but never let it take another one.
THEOREM DlHarqImplementsStopAndWait == Spec => ImplementsStopAndWait
<1> DEFINE Inv == DlInv /\ Uniform
           state == [p \in Processes |-> StateOf(p)]
<1>1. Init => Inv
  BY DlInit, UniformInit
<1>2. Inv /\ [Next]_vars => Inv'
  BY DlStep, UniformNext
<1>3. Init => Harq!Init
  <2> SUFFICES ASSUME Init, NEW p \in Processes
               PROVE  StateOf(p) = Harq!Free
    BY DEF Harq!Init
  <2>1. ~IsActive(process, p)
    BY IdleFacts DEF Init, IsActive
  <2> QED BY <2>1, <1>1, MappedFacts DEF Mapped
<1>4. Inv /\ [Next]_vars => [Harq!Next]_state
  <2> SUFFICES ASSUME Inv, [Next]_vars, Inv'
               PROVE  Harq!Next
    BY <1>2
  <2>1. state' \in [Processes -> Harq!State]
    BY AllTypedNext
  <2>2. ASSUME NEW p \in Processes
        PROVE  Harq!Step(StateOf(p), StateOf(p)')
    <3>1. CASE DoDlHarqFeedback
      BY <3>1, FeedbackState
    <3>2. CASE DoSlotDlIndication
      <4>1. NoFeedbackDue /\ \E h, new, assigned : Decides(h, new, assigned)
        BY <3>2, IndicationFacts
      <4> QED BY <4>1, IndicationState
    <3>3. CASE SlotWithoutDl \/ UNCHANGED vars \/ \E u \in Ue : DoReportBufferStatus(u)
      <4>1. StateOf(p)' = StateOf(p)
        BY <3>3, SlotWithoutDlState
      <4> QED BY <4>1 DEF Harq!Step
    <3> QED BY <3>1, <3>2, <3>3 DEF Next
  <2> QED BY <2>1, <2>2 DEF Harq!Next
<1> QED BY <1>1, <1>2, <1>3, <1>4, PTL DEF Spec, ImplementsStopAndWait, Harq!Spec
=============================================================================
