--------------------------- MODULE NrPhySlotsProofs ---------------------------
(***************************************************************************)
(* Downlink HARQ feedback leaves in the slot it is promised for, for every *)
(* TDD pattern and every N1.  The steps of the argument: the lists made of *)
(* the pattern name a slot that exists (HarqSlotFacts); a downlink DCI is  *)
(* used in the slot it is sent in, so the K1 the UE keeps is that of the   *)
(* block it decodes (DciInv); what waits at the UE has its slot ahead      *)
(* (FeedbackInv).                                                          *)
(***************************************************************************)
EXTENDS NrPhySlots, WellFoundedInduction, TLAPS, FiniteSetTheorems

-----------------------------------------------------------------------------
\* Numbers.

NatBelow == {ss \in Nat \X Nat : ss[1] < ss[2]}

LEMMA MinOfNaturals ==
  ASSUME NEW A \in SUBSET Nat, A # {}
  PROVE  Min(A) \in A /\ \A y \in A : Min(A) <= y
<1>1. IsWellFoundedOn(NatBelow, Nat)
  <2>1. IsWellFoundedOn(OpToRel(<, Nat), Nat)
    BY NatLessThanWellFounded
  <2> QED BY <2>1, Zenon DEF OpToRel, NatBelow
<1>2. PICK x \in A : \A y \in A : <<y, x>> \notin NatBelow
  BY <1>1, WFMin
<1>3. \A y \in A : ~(y < x)
  BY <1>2 DEF NatBelow
<1>4. \A y \in A : x <= y
  BY <1>3
<1> QED BY <1>4 DEF Min

LEMMA MinIs ==
  ASSUME NEW A \in SUBSET Nat, NEW m \in A, \A y \in A : m <= y
  PROVE  Min(A) = m
<1>1. Min(A) \in A /\ Min(A) <= m /\ m <= Min(A)
  BY MinOfNaturals
<1>2. Min(A) \in Nat
  BY <1>1
<1> QED BY <1>1, <1>2

\* The remainder is the only number below L that differs by a multiple of L.
LEMMA ModUnique ==
  ASSUME NEW L \in Nat \ {0}, NEW q \in Int, NEW c \in 0 .. L - 1
  PROVE  (L * q + c) % L = c
<1> DEFINE x == L * q + c
<1>1. x \in Int
  OBVIOUS
<1>2. x = L * (x \div L) + (x % L) /\ x % L \in 0 .. L - 1 /\ x \div L \in Int
  BY <1>1
<1> DEFINE r == x \div L
           e == x % L
<1>3. L * q + c = L * r + e /\ e \in 0 .. L - 1 /\ r \in Int
  BY <1>2
<1> HIDE DEF x, r, e
<1>4. L * (q - r) = e - c
  BY <1>3
<1>5. q - r = 0
  <2>1. q - r >= 1 => L * (q - r) >= L
    BY <1>3
  <2>2. q - r <= -1 => L * (q - r) <= -L
    BY <1>3
  <2>3. e - c < L /\ e - c > -L
    BY <1>3
  <2> QED BY <1>3, <1>4, <2>1, <2>2, <2>3
<1>6. e = c
  BY <1>3, <1>4, <1>5
<1> QED BY <1>6 DEF e, x

-----------------------------------------------------------------------------
\* The pattern.

Config == tdd \in Patterns /\ n1 \in N1Delays /\ n2 \in N2Delays

LEMMA PatternFacts ==
  ASSUME Config
  PROVE  /\ Len(tdd) \in Nat \ {0} /\ Len(tdd) <= MaxLength
         /\ \A i \in 1 .. Len(tdd) : tdd[i] \in 0 .. 3
         /\ \E i \in 1 .. Len(tdd) : tdd[i] >= F
<1>1. tdd \in Seq(0 .. 3) /\ Len(tdd) <= MaxLength
  BY PatternAssumption DEF Config, DL, UL
<1>2. DOMAIN tdd = 1 .. Len(tdd) /\ Len(tdd) \in Nat
  BY <1>1
<1>3. \E i \in DOMAIN tdd : tdd[i] = F \/ tdd[i] = UL
  <2> DEFINE types == {tdd[i] : i \in DOMAIN tdd}
  <2>1. F \in types \/ UL \in types
    BY PatternAssumption DEF Config
  <2> QED BY <2>1
<1>4. \E i \in 1 .. Len(tdd) : tdd[i] >= F
  BY <1>2, <1>3 DEF F, UL
<1>5. Len(tdd) # 0
  BY <1>2, <1>4
<1>6. \A i \in 1 .. Len(tdd) : tdd[i] \in 0 .. 3
  BY <1>1
<1> QED BY <1>1, <1>2, <1>4, <1>5, <1>6

LEMMA TypeRange ==
  ASSUME Config, NEW s \in Int
  PROVE  Type(s) \in 0 .. 3
<1>1. s % Len(tdd) \in 0 .. Len(tdd) - 1
  BY PatternFacts
<1>2. (s % Len(tdd)) + 1 \in 1 .. Len(tdd)
  BY <1>1, PatternFacts
<1> QED BY <1>2, PatternFacts DEF Type

\* Within one period of the pattern there is a slot for feedback.
LEMMA FeedbackSlotExists ==
  ASSUME Config, NEW a \in Nat
  PROVE  \E k \in 0 .. Len(tdd) - 1 : Type(a + k) >= F
<1> DEFINE L == Len(tdd)
           q == a \div L
           r == a % L
<1>1. L \in Nat \ {0}
  BY PatternFacts
<1>2. PICK i \in 1 .. L : tdd[i] >= F
  BY PatternFacts
<1>3. a = L * q + r /\ r \in 0 .. L - 1 /\ q \in Int
  BY <1>1
<1> HIDE DEF L, q, r
<1>4. \A p \in Int, k \in Int : a + k = L * p + (i - 1) => Type(a + k) >= F
  <2> SUFFICES ASSUME NEW p \in Int, NEW k \in Int, a + k = L * p + (i - 1)
               PROVE  Type(a + k) >= F
    OBVIOUS
  <2>1. i - 1 \in 0 .. L - 1
    BY <1>1
  <2>2. (L * p + (i - 1)) % L = i - 1
    BY <1>1, <2>1, ModUnique
  <2>3. Type(a + k) = tdd[(i - 1) + 1]
    BY <2>2 DEF Type, L
  <2> QED BY <1>2, <2>3
<1>5. CASE i - 1 >= r
  <2>1. i - 1 - r \in 0 .. L - 1
    BY <1>1, <1>3, <1>5
  <2>2. a + (i - 1 - r) = L * q + (i - 1)
    <3>1. L * q \in Int
      BY <1>1, <1>3
    <3>2. i \in Int /\ r \in Int /\ a = L * q + r
      BY <1>1, <1>3
    <3> HIDE DEF Config
    <3> QED BY <3>1, <3>2
  <2>3. Type(a + (i - 1 - r)) >= F
    BY <1>3, <1>4, <2>1, <2>2
  <2> QED BY <2>1, <2>3 DEF L
<1>6. CASE i - 1 < r
  <2>1. i - 1 - r + L \in 0 .. L - 1
    BY <1>1, <1>3, <1>6
  <2>2. L * (q + 1) = L * q + L /\ q + 1 \in Int /\ L * q \in Int
    BY <1>1, <1>3
  <2>3. a + (i - 1 - r + L) = L * (q + 1) + (i - 1)
    BY <1>1, <1>3, <2>2
  <2>4. Type(a + (i - 1 - r + L)) >= F
    BY <1>4, <2>1, <2>2, <2>3
  <2> QED BY <2>1, <2>4 DEF L
<1> QED BY <1>1, <1>3, <1>5, <1>6

\* ReturnHarqSlot finds the first slot for feedback that is N1 or more away.
LEMMA HarqSlotFacts ==
  ASSUME Config, NEW d \in Nat
  PROVE  /\ HarqSlot(d) \in n1 .. n1 + Len(tdd) - 1
         /\ Type(d + HarqSlot(d)) >= F
         /\ \A k \in n1 .. n1 + Len(tdd) - 1 :
              Type(d + k) >= F => HarqSlot(d) <= k
<1> DEFINE K == {k \in n1 .. n1 + Len(tdd) - 1 : Type(d + k) >= F}
<1>1. n1 \in Nat /\ Len(tdd) \in Nat
  BY SlotAssumption, PatternFacts DEF Config
<1>2. PICK k \in 0 .. Len(tdd) - 1 : Type((d + n1) + k) >= F
  <2>1. d + n1 \in Nat
    BY <1>1
  <2> QED BY <2>1, FeedbackSlotExists
<1>3. n1 + k \in n1 .. n1 + Len(tdd) - 1 /\ (d + n1) + k = d + (n1 + k)
  BY <1>1
<1>4. n1 + k \in K
  BY <1>2, <1>3
<1>5. K \in SUBSET Nat
  BY <1>1
<1>6. Min(K) \in K /\ \A y \in K : Min(K) <= y
  <2> HIDE DEF K
  <2> QED BY <1>4, <1>5, MinOfNaturals
<1> QED BY <1>6 DEF HarqSlot

-----------------------------------------------------------------------------
\* The slot the specification of K1 promises.

\* The case of a flexible slot that would have to answer itself.
Itself(d) == n1 = 0 /\ Type(d) = F

LEMMA AnswerIsHarqSlot ==
  ASSUME Config, NEW d \in Nat, d < MaxSlot, ~Itself(d)
  PROVE  AnswerSlot(d) = d + HarqSlot(d)
<1> DEFINE A == {s \in Slots : s >= d + n1 /\ Type(s) >= F}
           h == HarqSlot(d)
           L == Len(tdd)
<1>1. /\ n1 \in Nat /\ n1 <= MaxDelay /\ L \in Nat \ {0} /\ L <= MaxLength
      /\ MaxSlot \in Nat /\ MaxDelay \in Nat /\ MaxLength \in Nat
  BY SlotAssumption, PatternFacts DEF Config
<1>2. /\ h \in n1 .. n1 + L - 1 /\ Type(d + h) >= F
      /\ \A k \in n1 .. n1 + L - 1 : Type(d + k) >= F => h <= k
  BY HarqSlotFacts
<1> HIDE DEF h, L
<1>3. Slots = 0 .. MaxSlot + 2 + MaxDelay + MaxLength
  BY DEF Slots, L1L2CtrlLatency
<1>4. d + h \in A
  <2>1. d + h \in Slots /\ d + h >= d + n1
    BY <1>1, <1>2, <1>3
  <2> QED BY <1>2, <2>1
<1>5. A \in SUBSET Nat
  BY <1>1, <1>3
<1>6. \A y \in A : d + h <= y
  <2> TAKE y \in A
  <2>1. y \in Nat /\ y >= d + n1 /\ Type(y) >= F
    BY <1>1, <1>3
  <2>2. y - d \in Nat /\ y - d >= n1 /\ d + (y - d) = y
    BY <1>1, <2>1
  <2>3. CASE y - d <= n1 + L - 1
    <3>1. y - d \in n1 .. n1 + L - 1
      BY <1>1, <2>2, <2>3
    <3>2. h <= y - d
      BY <1>2, <2>1, <2>2, <3>1
    <3> QED BY <1>1, <1>2, <2>1, <3>2
  <2>4. CASE y - d > n1 + L - 1
    BY <1>1, <1>2, <2>1, <2>4
  <2> QED BY <1>1, <2>2, <2>3, <2>4
<1>7. Min(A) = d + h
  <2> HIDE DEF A
  <2> QED BY <1>4, <1>5, <1>6, MinIs
<1>8. AnswerSlot(d) = Min(A)
  BY DEF AnswerSlot, Itself
<1> QED BY <1>7, <1>8 DEF h

LEMMA AnswerOfItself ==
  ASSUME Config, NEW d \in Nat, d < MaxSlot, Itself(d)
  PROVE  /\ AnswerSlot(d) \in Nat /\ AnswerSlot(d) > d
         /\ Type(AnswerSlot(d)) # DL
         /\ \A s \in Nat : s <= MaxSlot /\ s > d /\ Type(s) # DL => AnswerSlot(d) <= s
<1> DEFINE A == {s \in Slots : s > d /\ Type(s) # DL}
<1>1. /\ Len(tdd) \in Nat \ {0} /\ Len(tdd) <= MaxLength
      /\ MaxSlot \in Nat /\ MaxDelay \in Nat /\ MaxLength \in Nat
  BY SlotAssumption, PatternFacts
<1>2. Slots = 0 .. MaxSlot + 2 + MaxDelay + MaxLength
  BY DEF Slots, L1L2CtrlLatency
<1>3. PICK k \in 0 .. Len(tdd) - 1 : Type((d + 1) + k) >= F
  <2>1. d + 1 \in Nat
    OBVIOUS
  <2> QED BY <2>1, FeedbackSlotExists
<1>4. (d + 1) + k \in A
  <2>1. (d + 1) + k \in Slots /\ (d + 1) + k > d
    BY <1>1, <1>2
  <2>2. Type((d + 1) + k) # DL
    BY <1>3 DEF F, DL
  <2> QED BY <2>1, <2>2
<1>5. A \in SUBSET Nat
  BY <1>1, <1>2
<1>6. Min(A) \in A /\ \A y \in A : Min(A) <= y
  <2> HIDE DEF A
  <2> QED BY <1>4, <1>5, MinOfNaturals
<1>7. AnswerSlot(d) = Min(A)
  BY DEF AnswerSlot, Itself
<1>8. \A s \in Nat : s <= MaxSlot => s \in Slots
  BY <1>1, <1>2
<1> QED BY <1>5, <1>6, <1>7, <1>8

LEMMA AnswerFacts ==
  ASSUME Config, NEW d \in Nat, d < MaxSlot
  PROVE  AnswerSlot(d) \in Nat /\ AnswerSlot(d) >= d /\ Type(AnswerSlot(d)) # DL
<1>1. CASE Itself(d)
  BY <1>1, AnswerOfItself
<1>2. CASE ~Itself(d)
  <2>1. AnswerSlot(d) = d + HarqSlot(d) /\ Type(d + HarqSlot(d)) >= F
    BY <1>2, AnswerIsHarqSlot, HarqSlotFacts
  <2>2. HarqSlot(d) \in Nat
    <3>1. n1 \in Nat
      BY SlotAssumption DEF Config
    <3>2. HarqSlot(d) \in n1 .. n1 + Len(tdd) - 1
      BY HarqSlotFacts
    <3>3. Len(tdd) \in Nat
      BY PatternFacts
    <3> QED BY <3>1, <3>2, <3>3
  <2>3. Type(AnswerSlot(d)) # DL
    BY <2>1 DEF F, DL
  <2> QED BY <2>1, <2>2, <2>3
<1> QED BY <1>1, <1>2

-----------------------------------------------------------------------------
\* The inductive invariants.

Place ==
  /\ now \in Nat /\ now <= MaxSlot /\ phase \in Phases
  /\ phase # "gnb" => now < MaxSlot

\* A queue has a list for this slot and for each slot of the latency.
Queue(M) == [1 .. 3 -> SUBSET M]

\* The gNB queues no DCI: it sends each one in the slot that encodes it.
Queued == [type : {"Mib"}] \cup [type : {"Rar"}, made : Nat]

\* A slot with downlink data has a DL CTRL.  A downlink DCI is for the slot
\* it is encoded in and is taken in the DL CTRL of that slot.
DciInv ==
  /\ slotAllocInfo \in [Slots -> SUBSET (Data \cup Ctrl)]
  /\ \A t \in Slots :
       "DlData" \in slotAllocInfo[t] => "DlCtrl" \in slotAllocInfo[t]
  /\ ctrlQueue \in Queue(Queued)
  /\ \A m \in ctrlMsgs : m.type = "DlDci" =>
       /\ phase \in {"ue", "dlCtrl"}
       /\ m.k1 = HarqSlot(now) /\ Type(now) # UL /\ "DlCtrl" \in currSlot

\* What the UE expects of the slot: control symbols by its type, downlink
\* data with the K1 of its DCI.
UeSlotInv ==
  /\ ueAllocInfo \in [Slots -> SUBSET {"UlData"}]
  /\ phase \notin {"gnb", "ue"} =>
       ("UlCtrl" \in ueCurrSlot <=> Type(now) # DL)
  /\ phase = "dlCtrl" => "DlData" \notin ueCurrSlot
  /\ phase = "data" /\ "DlData" \in ueCurrSlot =>
       k1 = HarqSlot(now) /\ Type(now) # UL

\* Feedback scheduled for a later slot, in the queue, and encoded for the
\* next UL CTRL has its slot ahead.
Waiting(d) == d \in Nat /\ d < MaxSlot /\ AnswerSlot(d) >= now

FeedbackInv ==
  /\ \A f \in feedback :
       /\ Waiting(f.slot) /\ f.at = AnswerSlot(f.slot)
       /\ phase \notin {"gnb", "ue"} => f.at # now
  /\ ueCtrlQueue \in Queue(UeMessage)
  /\ \A i \in 1 .. 3 : \A d \in HarqMessages(ueCtrlQueue[i]) :
       /\ i = 1 /\ Waiting(d) /\ Itself(d)
       /\ \/ phase \in {"gnb", "ue"} /\ d < now
          \/ phase = "ulCtrl" /\ d = now
  /\ \A d \in HarqMessages(ueCtrlMsgs) :
       /\ Waiting(d)
       /\ \/ Itself(d) /\ d < now
          \/ phase \notin {"gnb", "ue"} /\ AnswerSlot(d) = now

PhyInv == Config /\ Place /\ DciInv /\ UeSlotInv /\ FeedbackInv

-----------------------------------------------------------------------------
\* The pattern and the delays do not change, and nor does what they define.
LEMMA SameConfig ==
  ASSUME Config, UNCHANGED config
  PROVE  /\ Config' /\ tdd' = tdd /\ n1' = n1
         /\ \A d : AnswerSlot(d)' = AnswerSlot(d) /\ (Itself(d)' <=> Itself(d))
         /\ \A d : HarqSlot(d)' = HarqSlot(d) /\ Type(d)' = Type(d)
<1>1. tdd' = tdd /\ n1' = n1 /\ n2' = n2
  BY DEF config
<1>2. \A d : Type(d)' = Type(d)
  BY <1>1 DEF Type
<1>3. \A d : HarqSlot(d)' = HarqSlot(d)
  BY <1>1 DEF HarqSlot, Type
<1>4. \A d : Itself(d)' <=> Itself(d)
  BY <1>1 DEF Itself, Type
<1>5. \A d : AnswerSlot(d)' = AnswerSlot(d)
  BY <1>1 DEF AnswerSlot, Type
<1> QED BY <1>1, <1>2, <1>3, <1>4, <1>5 DEF Config

\* Queues: where a message goes, and what is taken.
LEMMA QueueFacts ==
  ASSUME NEW M, NEW q \in Queue(M), NEW msgs \in SUBSET M
  PROVE  /\ EnqueueCtrlMsgNow(q, msgs) \in Queue(M)
         /\ EnqueueCtrlMsgNow(q, msgs)[1] = q[1] \cup msgs
         /\ \A i \in 2 .. 3 : EnqueueCtrlMsgNow(q, msgs)[i] = q[i]
         /\ EnqueueCtrlMessage(q, msgs) \in Queue(M)
         /\ EnqueueCtrlMessage(q, msgs)[1] = q[1]
         /\ PopCurrentSlotCtrlMsgs(q) \in Queue(M)
         /\ \A i \in 1 .. 2 : PopCurrentSlotCtrlMsgs(q)[i] = q[i + 1]
         /\ PopCurrentSlotCtrlMsgs(q)[3] = {}
<1>1. /\ EnqueueCtrlMsgNow(q, msgs) \in Queue(M)
      /\ EnqueueCtrlMsgNow(q, msgs)[1] = q[1] \cup msgs
      /\ \A i \in 2 .. 3 : EnqueueCtrlMsgNow(q, msgs)[i] = q[i]
  BY DEF EnqueueCtrlMsgNow, Queue
<1>2. /\ EnqueueCtrlMessage(q, msgs) \in Queue(M)
      /\ EnqueueCtrlMessage(q, msgs)[1] = q[1]
  BY DEF EnqueueCtrlMessage, Queue, L1L2CtrlLatency
<1>3. /\ PopCurrentSlotCtrlMsgs(q) \in Queue(M)
      /\ \A i \in 1 .. 2 : PopCurrentSlotCtrlMsgs(q)[i] = q[i + 1]
      /\ PopCurrentSlotCtrlMsgs(q)[3] = {}
  BY DEF PopCurrentSlotCtrlMsgs, Queue
<1> QED BY <1>1, <1>2, <1>3

\* The feedback among control messages.
LEMMA HarqMessagesFacts ==
  /\ HarqMessages({}) = {}
  /\ \A A, B : HarqMessages(A \cup B) = HarqMessages(A) \cup HarqMessages(B)
  /\ HarqMessages({[type |-> "Preamble"]}) = {}
  /\ \A d : HarqMessages({[type |-> "DlHarq", slot |-> d]}) \subseteq {d}
  /\ \A D : HarqMessages({[type |-> "DlHarq", slot |-> f.slot] : f \in D})
              \subseteq {f.slot : f \in D}
<1>1. HarqMessages({}) = {}
  BY DEF HarqMessages
<1>2. \A A, B : HarqMessages(A \cup B) = HarqMessages(A) \cup HarqMessages(B)
  BY DEF HarqMessages
<1>3. HarqMessages({[type |-> "Preamble"]}) = {}
  BY DEF HarqMessages
<1>4. \A d : HarqMessages({[type |-> "DlHarq", slot |-> d]}) \subseteq {d}
  BY DEF HarqMessages
<1>5. ASSUME NEW D
      PROVE  HarqMessages({[type |-> "DlHarq", slot |-> f.slot] : f \in D})
               \subseteq {f.slot : f \in D}
  <2> DEFINE msg(f) == [type |-> "DlHarq", slot |-> f.slot]
  <2>1. \A f : msg(f).slot = f.slot
    OBVIOUS
  <2> HIDE DEF msg
  <2>2. HarqMessages({msg(f) : f \in D}) \subseteq {f.slot : f \in D}
    BY <2>1, Zenon DEF HarqMessages
  <2> QED BY <2>2 DEF msg
<1> QED BY <1>1, <1>2, <1>3, <1>4, <1>5

\* A slot that is not an uplink slot carries its own downlink DCI.
LEMMA DlDciInItsSlot ==
  ASSUME Config, now \in Nat, NEW t \in ToSendDl
  PROVE  t = now /\ Type(t) # UL
<1>1. t \in now .. now + Ahead /\ Type(t) # UL /\ now + DciSlot(t, N0) = t
  BY DEF ToSendDl, DlSlots
<1>2. t \in Int
  BY <1>1
<1>3. Type(t) <= F
  BY <1>1, <1>2, TypeRange DEF F, UL
<1> DEFINE K == {k \in N0 .. N0 + Len(tdd) - 1 : Type(t - k) <= F}
<1>4. K \in SUBSET Nat
  BY PatternFacts DEF N0
<1>5. 0 \in K
  BY <1>2, <1>3, PatternFacts DEF N0
<1>6. \A k \in K : 0 <= k
  BY <1>4
<1>7. Min(K) = 0
  <2> HIDE DEF K
  <2> QED BY <1>4, <1>5, <1>6, MinIs
<1>8. DciSlot(t, N0) = 0
  BY <1>7 DEF DciSlot
<1> QED BY <1>1, <1>2, <1>8

-----------------------------------------------------------------------------
\* The steps.

LEMMA SameWaiting ==
  ASSUME Config, UNCHANGED config, now' = now
  PROVE  \A d : Waiting(d)' <=> Waiting(d)
BY SameConfig DEF Waiting

LEMMA SendRachPreambleKeeps ==
  ASSUME PhyInv, SendRachPreamble
  PROVE  PhyInv'
<1>1. /\ phase = "gnb" /\ now' = now /\ phase' = phase
      /\ ueCtrlQueue' = EnqueueCtrlMsgNow(ueCtrlQueue, {[type |-> "Preamble"]})
      /\ UNCHANGED <<config, gnb, ueAllocInfo, ueCurrSlot, ueCtrlMsgs, k1, feedback>>
  BY DEF SendRachPreamble
<1>2. Config' /\ Place'
  BY <1>1, SameConfig DEF PhyInv, Place
<1>3. DciInv'
  BY <1>1, SameConfig DEF PhyInv, DciInv, gnb
<1>4. UeSlotInv'
  BY <1>1, SameConfig DEF PhyInv, UeSlotInv
<1>5. FeedbackInv'
  <2>1. /\ ueCtrlQueue' \in Queue(UeMessage)
        /\ \A i \in 1 .. 3 :
             HarqMessages(ueCtrlQueue'[i]) = HarqMessages(ueCtrlQueue[i])
    <3>1. {[type |-> "Preamble"]} \in SUBSET UeMessage
      BY DEF UeMessage
    <3>2. /\ ueCtrlQueue' \in Queue(UeMessage)
          /\ ueCtrlQueue'[1] = ueCtrlQueue[1] \cup {[type |-> "Preamble"]}
          /\ \A i \in 2 .. 3 : ueCtrlQueue'[i] = ueCtrlQueue[i]
      BY <1>1, <3>1, QueueFacts DEF PhyInv, FeedbackInv
    <3> QED BY <3>2, HarqMessagesFacts
  <2> QED BY <1>1, <2>1, SameConfig, SameWaiting DEF PhyInv, FeedbackInv
<1> QED BY <1>2, <1>3, <1>4, <1>5 DEF PhyInv

LEMMA SameNow ==
  ASSUME Config, UNCHANGED config, now' = now
  PROVE  Type(now)' = Type(now) /\ HarqSlot(now)' = HarqSlot(now)
<1>1. tdd' = tdd /\ n1' = n1
  BY DEF config
<1> QED BY <1>1 DEF Type, HarqSlot

\* What the gNB prepares keeps a DL CTRL with downlink data.
LEMMA PreparedFacts ==
  ASSUME DciInv, NEW idle
  PROVE  /\ Prepared(idle) \in [Slots -> SUBSET (Data \cup Ctrl)]
         /\ \A t \in Slots :
              "DlData" \in Prepared(idle)[t] => "DlCtrl" \in Prepared(idle)[t]
<1>1. \A t : /\ UlAllocation(t, idle) \subseteq Data \cup Ctrl
             /\ "DlData" \notin UlAllocation(t, idle)
  BY DEF UlAllocation, Data, Ctrl
<1>2. \A t : /\ DlAllocation(t, idle) \subseteq Data \cup Ctrl
             /\ "DlCtrl" \in DlAllocation(t, idle)
  BY DEF DlAllocation, Data, Ctrl
<1> DEFINE P(t) == slotAllocInfo[t]
                     \cup (IF t \in GenerateUl THEN UlAllocation(t, idle) ELSE {})
                     \cup (IF t \in GenerateDl THEN DlAllocation(t, idle) ELSE {})
<1>3. \A t \in Slots : /\ P(t) \subseteq Data \cup Ctrl
                       /\ "DlData" \in P(t) => "DlCtrl" \in P(t)
  BY <1>1, <1>2 DEF DciInv
<1>4. Prepared(idle) = [t \in Slots |-> P(t)]
  BY DEF Prepared
<1> QED
  <2> HIDE DEF P
  <2> QED BY <1>3, <1>4

LEMMA GnbStartSlotKeeps ==
  ASSUME PhyInv, GnbStartSlot
  PROVE  PhyInv'
<1>1. /\ phase = "gnb" /\ now < MaxSlot /\ now' = now /\ phase' = "ue"
      /\ currSlot' = SlotToStart
      /\ UNCHANGED <<config, ue>>
  BY DEF GnbStartSlot
<1>2. PICK idle :
        LET allocs == Prepared(idle)
            queue == EnqueueCtrlMsgNow(EnqueueCtrlMessage(ctrlQueue, Rar), Mib)
        IN  /\ slotAllocInfo' = [allocs EXCEPT ![now] = {}]
            /\ ctrlQueue' = IF Pops THEN PopCurrentSlotCtrlMsgs(queue) ELSE queue
            /\ ctrlMsgs' = IF Pops THEN ctrlMsgs \cup queue[1]
                                         \cup Dcis([allocs EXCEPT ![now] = SlotToStart])
                           ELSE ctrlMsgs
  BY DEF GnbStartSlot
<1> DEFINE allocs == Prepared(idle)
           queue == EnqueueCtrlMsgNow(EnqueueCtrlMessage(ctrlQueue, Rar), Mib)
<1>3. /\ allocs \in [Slots -> SUBSET (Data \cup Ctrl)]
      /\ \A t \in Slots : "DlData" \in allocs[t] => "DlCtrl" \in allocs[t]
  BY PreparedFacts DEF PhyInv
<1>4. Config' /\ Place'
  BY <1>1, SameConfig DEF PhyInv, Place, Phases
<1>5. queue \in Queue(Queued)
  <2>1. Rar \in SUBSET Queued /\ Mib \in SUBSET Queued
    BY DEF Rar, Mib, Queued, PhyInv, Place
  <2>2. EnqueueCtrlMessage(ctrlQueue, Rar) \in Queue(Queued)
    BY <2>1, QueueFacts DEF PhyInv, DciInv
  <2> QED BY <2>1, <2>2, QueueFacts
<1>6. PopCurrentSlotCtrlMsgs(queue) \in Queue(Queued)
  <2> HIDE DEF queue
  <2>1. {} \in SUBSET Queued
    OBVIOUS
  <2> QED BY <1>5, <2>1, QueueFacts
<1>7. now \in Slots
  BY <1>1, SlotAssumption DEF PhyInv, Place, Slots, L1L2CtrlLatency
<1>8. ASSUME NEW m \in ctrlMsgs', m.type = "DlDci"
      PROVE  m.k1 = HarqSlot(now) /\ Type(now) # UL /\ "DlCtrl" \in currSlot'
  <2> DEFINE sent == [allocs EXCEPT ![now] = SlotToStart]
  <2>1. m \notin ctrlMsgs
    BY <1>1, <1>8 DEF PhyInv, DciInv
  <2>2. m \notin queue[1]
    <3> HIDE DEF queue
    <3>1. queue[1] \in SUBSET Queued
      BY <1>5 DEF Queue
    <3>2. \A x \in Queued : x.type # "DlDci"
      BY DEF Queued
    <3> QED BY <1>8, <3>1, <3>2
  <2>3. m \in Dcis(sent)
    <3> HIDE DEF queue, sent, allocs
    <3>1. ctrlMsgs' = IF Pops THEN ctrlMsgs \cup queue[1] \cup Dcis(sent) ELSE ctrlMsgs
      BY <1>2 DEF queue, sent, allocs
    <3> QED BY <1>8, <2>1, <2>2, <3>1
  <2>4. \E t \in ToSendDl : "DlData" \in sent[t] /\ m.k1 = HarqSlot(now)
    <3> HIDE DEF sent
    <3> QED BY <1>8, <2>3 DEF Dcis
  <2>5. m.k1 = HarqSlot(now) /\ now \in ToSendDl /\ "DlData" \in sent[now] /\ Type(now) # UL
    <3> HIDE DEF sent
    <3> QED BY <2>4, DlDciInItsSlot DEF PhyInv, Place
  <2>6. "DlData" \in SlotToStart
    BY <1>3, <1>7, <2>5
  <2>7. "DlCtrl" \in SlotToStart
    BY <1>7, <2>6 DEF SlotToStart, PhyInv, DciInv
  <2> QED BY <1>1, <2>5, <2>7
<1>9. DciInv'
  <2>1. /\ slotAllocInfo' \in [Slots -> SUBSET (Data \cup Ctrl)]
        /\ \A t \in Slots :
             "DlData" \in slotAllocInfo'[t] => "DlCtrl" \in slotAllocInfo'[t]
    <3> HIDE DEF allocs
    <3>1. slotAllocInfo' = [allocs EXCEPT ![now] = {}]
      BY <1>2 DEF allocs
    <3> QED BY <1>3, <3>1
  <2>2. ctrlQueue' \in Queue(Queued)
    <3>1. ctrlQueue' = PopCurrentSlotCtrlMsgs(queue) \/ ctrlQueue' = queue
      BY <1>2
    <3> HIDE DEF queue
    <3> QED BY <1>5, <1>6, <3>1
  <2>3. Type(now)' = Type(now) /\ HarqSlot(now)' = HarqSlot(now)
    BY <1>1, SameNow DEF PhyInv
  <2> QED BY <1>1, <1>8, <2>1, <2>2, <2>3 DEF DciInv
<1>10. UeSlotInv'
  BY <1>1 DEF PhyInv, UeSlotInv, ue
<1>11. FeedbackInv'
  BY <1>1, SameConfig, SameWaiting DEF PhyInv, FeedbackInv, ue
<1> QED BY <1>4, <1>9, <1>10, <1>11 DEF PhyInv

LEMMA UeStartSlotKeeps ==
  ASSUME PhyInv, UeStartSlot
  PROVE  PhyInv'
<1> DEFINE due == {f \in feedback : f.at = now}
           late == {[type |-> "DlHarq", slot |-> f.slot] : f \in due}
           queue == EnqueueCtrlMsgNow(ueCtrlQueue, late)
<1>1. /\ phase = "ue" /\ now' = now /\ phase' = "dlCtrl"
      /\ feedback' = feedback \ due
      /\ ueCtrlQueue' = PopCurrentSlotCtrlMsgs(queue)
      /\ ueCtrlMsgs' = ueCtrlMsgs \cup queue[1]
      /\ ueCurrSlot' = ueAllocInfo[now] \cup CtrlAllocations
      /\ ueAllocInfo' = [ueAllocInfo EXCEPT ![now] = {}]
      /\ UNCHANGED <<config, gnb>>
  BY DEF UeStartSlot
<1>2. Config' /\ Place'
  BY <1>1, SameConfig DEF PhyInv, Place, Phases
<1>3. Type(now)' = Type(now) /\ HarqSlot(now)' = HarqSlot(now)
  BY <1>1, SameNow DEF PhyInv
<1>4. DciInv'
  BY <1>1, <1>3 DEF PhyInv, DciInv, gnb
<1>5. UeSlotInv'
  <2>1. now \in Slots
    BY SlotAssumption DEF PhyInv, Place, Slots, L1L2CtrlLatency
  <2>2. /\ ueAllocInfo' \in [Slots -> SUBSET {"UlData"}]
        /\ ueAllocInfo[now] \subseteq {"UlData"}
    BY <1>1, <2>1 DEF PhyInv, UeSlotInv
  <2>3. Type(now) \in 0 .. 3
    BY TypeRange DEF PhyInv, Place
  <2>4. /\ "UlCtrl" \in CtrlAllocations <=> Type(now) # DL
        /\ "DlData" \notin CtrlAllocations
    BY <2>3 DEF CtrlAllocations, DL, UL
  <2>5. /\ "UlCtrl" \in ueCurrSlot' <=> Type(now) # DL
        /\ "DlData" \notin ueCurrSlot'
    BY <1>1, <2>2, <2>4
  <2> QED BY <1>1, <1>3, <2>2, <2>5 DEF UeSlotInv
<1>6. \A f \in due : /\ Waiting(f.slot) /\ AnswerSlot(f.slot) = now
                     /\ f.slot \in Nat
  BY DEF PhyInv, FeedbackInv, Waiting
<1>7. late \in SUBSET UeMessage
  <2>1. \A f \in due : f.slot \in Nat
    BY <1>6
  <2> HIDE DEF due
  <2> QED BY <2>1 DEF UeMessage
<1>8. /\ queue \in Queue(UeMessage) /\ queue[1] = ueCtrlQueue[1] \cup late
      /\ \A i \in 2 .. 3 : queue[i] = ueCtrlQueue[i]
  <2>1. ueCtrlQueue \in Queue(UeMessage)
    BY DEF PhyInv, FeedbackInv
  <2> HIDE DEF late
  <2>2. EnqueueCtrlMsgNow(ueCtrlQueue, late) \in Queue(UeMessage)
    BY <1>7, <2>1, QueueFacts
  <2>3. EnqueueCtrlMsgNow(ueCtrlQueue, late)[1] = ueCtrlQueue[1] \cup late
    BY <2>1 DEF EnqueueCtrlMsgNow, Queue
  <2>4. \A i \in 2 .. 3 : EnqueueCtrlMsgNow(ueCtrlQueue, late)[i] = ueCtrlQueue[i]
    BY <2>1 DEF EnqueueCtrlMsgNow, Queue
  <2> QED BY <2>2, <2>3, <2>4
<1>9. /\ ueCtrlQueue' \in Queue(UeMessage)
      /\ \A i \in 1 .. 3 : HarqMessages(ueCtrlQueue'[i]) = {}
  <2> HIDE DEF queue
  <2>1. {} \in SUBSET UeMessage
    OBVIOUS
  <2>2. /\ ueCtrlQueue' \in Queue(UeMessage)
        /\ ueCtrlQueue'[1] = queue[2] /\ ueCtrlQueue'[2] = queue[3]
        /\ ueCtrlQueue'[3] = {}
    <3>1. /\ PopCurrentSlotCtrlMsgs(queue) \in Queue(UeMessage)
          /\ \A i \in 1 .. 2 : PopCurrentSlotCtrlMsgs(queue)[i] = queue[i + 1]
          /\ PopCurrentSlotCtrlMsgs(queue)[3] = {}
      BY SMTT(40), <1>8, <2>1, QueueFacts
    <3> QED BY <1>1, <3>1
  <2>3. \A i \in 2 .. 3 : HarqMessages(ueCtrlQueue[i]) = {}
    BY DEF PhyInv, FeedbackInv
  <2>4. HarqMessages(ueCtrlQueue'[1]) = {} /\ HarqMessages(ueCtrlQueue'[2]) = {}
    BY <1>8, <2>2, <2>3
  <2>5. HarqMessages(ueCtrlQueue'[3]) = {}
    BY <2>2, HarqMessagesFacts
  <2> QED BY <2>2, <2>4, <2>5
<1>10. ASSUME NEW d \in HarqMessages(ueCtrlMsgs')
       PROVE  Waiting(d) /\ ((Itself(d) /\ d < now) \/ AnswerSlot(d) = now)
  <2>1. ueCtrlMsgs' = ueCtrlMsgs \cup (ueCtrlQueue[1] \cup late)
    BY <1>1, <1>8
  <2>2. \/ d \in HarqMessages(ueCtrlMsgs) \/ d \in HarqMessages(ueCtrlQueue[1])
        \/ d \in HarqMessages(late)
    <3> HIDE DEF late
    <3>1. HarqMessages(ueCtrlMsgs') =
            HarqMessages(ueCtrlMsgs) \cup HarqMessages(ueCtrlQueue[1] \cup late)
      BY <2>1, HarqMessagesFacts
    <3>2. HarqMessages(ueCtrlQueue[1] \cup late) =
            HarqMessages(ueCtrlQueue[1]) \cup HarqMessages(late)
      BY HarqMessagesFacts
    <3> QED BY <1>10, <3>1, <3>2
  <2>3. CASE d \in HarqMessages(ueCtrlMsgs)
    BY <1>1, <2>3 DEF PhyInv, FeedbackInv
  <2>4. CASE d \in HarqMessages(ueCtrlQueue[1])
    BY <1>1, <2>4 DEF PhyInv, FeedbackInv
  <2>5. CASE d \in HarqMessages(late)
    <3>1. \E f \in due : d = f.slot
      <4> HIDE DEF due
      <4> QED BY SMTT(40), <2>5, HarqMessagesFacts
    <3> QED BY <1>6, <3>1
  <2> QED BY <2>2, <2>3, <2>4, <2>5
<1>11. \A d : /\ Waiting(d)' <=> Waiting(d)
              /\ Itself(d)' <=> Itself(d)
              /\ AnswerSlot(d)' = AnswerSlot(d)
  BY <1>1, SameConfig, SameWaiting DEF PhyInv
<1>12. \A f \in feedback' :
         Waiting(f.slot) /\ f.at = AnswerSlot(f.slot) /\ f.at # now
  BY <1>1 DEF PhyInv, FeedbackInv
<1>13. FeedbackInv'
  <2> HIDE DEF due, late, queue
  <2> QED BY <1>1, <1>9, <1>10, <1>11, <1>12 DEF FeedbackInv
<1> QED BY <1>2, <1>4, <1>5, <1>13 DEF PhyInv

LEMMA DlCtrlKeeps ==
  ASSUME PhyInv, DlCtrl
  PROVE  PhyInv'
<1>1. /\ phase = "dlCtrl" /\ now' = now /\ phase' = "data"
      /\ UNCHANGED <<config, slotAllocInfo, currSlot, ctrlQueue, ueCtrlQueue,
                     ueCtrlMsgs, feedback>>
  BY DEF DlCtrl
<1>2. IF "DlCtrl" \in currSlot
      THEN /\ ueCurrSlot' = ueCurrSlot \cup {"DlData" : d \in DlDcis}
                              \cup {"UlData" : t \in UlDcis \cap {now}}
           /\ ueAllocInfo' = [t \in Slots |-> ueAllocInfo[t]
                                \cup {"UlData" : u \in UlDcis \cap ({t} \ {now})}]
           /\ k1' = IF DlDcis = {} THEN k1 ELSE (CHOOSE d \in DlDcis : TRUE).k1
           /\ ctrlMsgs' = {}
      ELSE UNCHANGED <<ueCurrSlot, ueAllocInfo, k1, ctrlMsgs>>
  BY DEF DlCtrl
<1>3. Config' /\ Place'
  BY <1>1, SameConfig DEF PhyInv, Place, Phases
<1>4. Type(now)' = Type(now) /\ HarqSlot(now)' = HarqSlot(now)
  BY <1>1, SameNow DEF PhyInv
<1>5. \A m \in ctrlMsgs' : m.type # "DlDci"
  BY <1>2 DEF PhyInv, DciInv
<1>6. DciInv'
  BY <1>1, <1>5 DEF PhyInv, DciInv
<1>7. \A m \in DlDcis : m.k1 = HarqSlot(now) /\ Type(now) # UL
  BY DEF DlDcis, PhyInv, DciInv
<1>8. ueAllocInfo' \in [Slots -> SUBSET {"UlData"}]
  BY <1>2 DEF PhyInv, UeSlotInv
<1>9. "UlCtrl" \in ueCurrSlot' <=> "UlCtrl" \in ueCurrSlot
  BY <1>2
<1>10. ASSUME "DlData" \in ueCurrSlot'
       PROVE  k1' = HarqSlot(now) /\ Type(now) # UL
  <2>1. "DlData" \notin ueCurrSlot
    BY <1>1 DEF PhyInv, UeSlotInv
  <2>2. DlDcis # {} /\ k1' = (CHOOSE d \in DlDcis : TRUE).k1
    BY <1>2, <1>10, <2>1
  <2> QED BY <1>7, <2>2
<1>11. UeSlotInv'
  BY <1>1, <1>4, <1>8, <1>9, <1>10 DEF PhyInv, UeSlotInv
<1>12. \A d : /\ Waiting(d)' <=> Waiting(d)
              /\ Itself(d)' <=> Itself(d)
              /\ AnswerSlot(d)' = AnswerSlot(d)
  BY <1>1, SameConfig, SameWaiting DEF PhyInv
<1>13. FeedbackInv'
  BY <1>1, <1>12 DEF PhyInv, FeedbackInv
<1> QED BY <1>3, <1>6, <1>11, <1>13 DEF PhyInv

\* The K1 of a block is that of its slot; 0 is left to a flexible slot.
LEMMA K1Facts ==
  ASSUME PhyInv, phase = "data", "DlData" \in ueCurrSlot
  PROVE  /\ k1 \in Nat
         /\ k1 > 0 => ~Itself(now) /\ AnswerSlot(now) = now + k1
         /\ k1 = 0 => Itself(now)
<1>1. /\ Config /\ now \in Nat /\ now < MaxSlot
      /\ k1 = HarqSlot(now) /\ Type(now) # UL
  BY DEF PhyInv, Place, UeSlotInv
<1>2. /\ n1 \in Nat /\ Len(tdd) \in Nat \ {0} /\ Type(now) \in 0 .. 3
  BY <1>1, SlotAssumption, PatternFacts, TypeRange DEF Config
<1>3. /\ k1 \in n1 .. n1 + Len(tdd) - 1 /\ Type(now + k1) >= F
      /\ \A k \in n1 .. n1 + Len(tdd) - 1 : Type(now + k) >= F => k1 <= k
  BY <1>1, HarqSlotFacts
<1>4. k1 \in Nat /\ n1 <= k1
  BY <1>2, <1>3
<1>5. ASSUME k1 > 0
      PROVE  ~Itself(now)
  <2>1. n1 = 0 => 0 \in n1 .. n1 + Len(tdd) - 1 /\ now + 0 = now
    BY <1>1, <1>2
  <2>2. n1 = 0 /\ Type(now) = F => k1 <= 0
    BY <1>3, <2>1 DEF F
  <2> QED BY <1>4, <1>5, <2>2 DEF Itself
<1>6. ASSUME k1 = 0
      PROVE  Itself(now)
  <2>1. n1 = 0 /\ now + k1 = now
    BY <1>1, <1>2, <1>4, <1>6
  <2>2. Type(now) >= F
    BY <1>3, <2>1
  <2> QED BY <1>1, <1>2, <2>1, <2>2 DEF Itself, F, UL
<1>7. ~Itself(now) => AnswerSlot(now) = now + k1
  BY <1>1, AnswerIsHarqSlot
<1> QED BY <1>4, <1>5, <1>6, <1>7

LEMMA DlDataKeeps ==
  ASSUME PhyInv, DlData
  PROVE  PhyInv'
<1> DEFINE received == "DlData" \in currSlot \cap ueCurrSlot
           later == IF received /\ k1 > 0
                    THEN {[slot |-> now, at |-> now + k1]} ELSE {}
           here == IF received /\ k1 = 0
                   THEN {[type |-> "DlHarq", slot |-> now]} ELSE {}
<1>1. /\ phase = "data" /\ now' = now /\ phase' = "ulCtrl"
      /\ feedback' = feedback \cup later
      /\ ueCtrlQueue' = EnqueueCtrlMsgNow(ueCtrlQueue, here)
      /\ UNCHANGED <<config, gnb, ueAllocInfo, ueCurrSlot, ueCtrlMsgs, k1>>
  BY DEF DlData
<1>2. Config' /\ Place'
  BY <1>1, SameConfig DEF PhyInv, Place, Phases
<1>3. Type(now)' = Type(now) /\ HarqSlot(now)' = HarqSlot(now)
  BY <1>1, SameNow DEF PhyInv
<1>4. DciInv'
  BY <1>1, <1>3 DEF PhyInv, DciInv, gnb
<1>5. UeSlotInv'
  BY <1>1, <1>3 DEF PhyInv, UeSlotInv
<1>6. received => /\ k1 \in Nat
                  /\ k1 > 0 => ~Itself(now) /\ AnswerSlot(now) = now + k1
                  /\ k1 = 0 => Itself(now)
  BY <1>1, K1Facts
<1>7. Waiting(now)
  <2>1. Config /\ now \in Nat /\ now < MaxSlot
    BY <1>1 DEF PhyInv, Place
  <2> QED BY <2>1, AnswerFacts DEF Waiting
<1>8. now \in Nat
  BY DEF PhyInv, Place
<1>9. \A f \in feedback' :
        Waiting(f.slot) /\ f.at = AnswerSlot(f.slot) /\ f.at # now
  <2>1. \A f \in later :
          Waiting(f.slot) /\ f.at = AnswerSlot(f.slot) /\ f.at # now
    BY <1>6, <1>7, <1>8
  <2>2. \A f \in feedback :
          Waiting(f.slot) /\ f.at = AnswerSlot(f.slot) /\ f.at # now
    BY <1>1 DEF PhyInv, FeedbackInv
  <2> HIDE DEF later
  <2> QED BY <1>1, <2>1, <2>2
<1>10. here \in SUBSET UeMessage
  <2>1. {[type |-> "DlHarq", slot |-> now]} \subseteq UeMessage
    BY <1>8 DEF UeMessage
  <2> QED BY <2>1
<1>11. \A d \in HarqMessages(here) : d = now /\ Itself(now)
  <2>1. CASE received /\ k1 = 0
    <3>1. here = {[type |-> "DlHarq", slot |-> now]}
      BY <2>1
    <3>2. HarqMessages({[type |-> "DlHarq", slot |-> now]}) \subseteq {now}
      BY HarqMessagesFacts
    <3> HIDE DEF here
    <3> QED BY <1>6, <2>1, <3>1, <3>2
  <2>2. CASE ~(received /\ k1 = 0)
    <3>1. here = {}
      BY <2>2
    <3> HIDE DEF here
    <3> QED BY <3>1, HarqMessagesFacts
  <2> QED BY <2>1, <2>2
<1>12. \A i \in 1 .. 3 : HarqMessages(ueCtrlQueue[i]) = {}
  BY <1>1 DEF PhyInv, FeedbackInv
<1>13. /\ ueCtrlQueue' \in Queue(UeMessage)
       /\ ueCtrlQueue'[1] = ueCtrlQueue[1] \cup here
       /\ ueCtrlQueue'[2] = ueCtrlQueue[2] /\ ueCtrlQueue'[3] = ueCtrlQueue[3]
  <2>1. ueCtrlQueue \in Queue(UeMessage)
    BY DEF PhyInv, FeedbackInv
  <2> HIDE DEF here
  <2>2. EnqueueCtrlMsgNow(ueCtrlQueue, here) \in Queue(UeMessage)
    BY <1>10, <2>1, QueueFacts
  <2>3. /\ ueCtrlQueue'[1] = ueCtrlQueue[1] \cup here
        /\ ueCtrlQueue'[2] = ueCtrlQueue[2] /\ ueCtrlQueue'[3] = ueCtrlQueue[3]
    BY <1>1, <2>1 DEF EnqueueCtrlMsgNow, Queue
  <2> QED BY <1>1, <2>2, <2>3
<1>14. \A i \in 1 .. 3 : \A d \in HarqMessages(ueCtrlQueue'[i]) :
         i = 1 /\ d = now /\ Itself(now)
  <2> HIDE DEF here
  <2>1. HarqMessages(ueCtrlQueue[1] \cup here) =
          HarqMessages(ueCtrlQueue[1]) \cup HarqMessages(here)
    BY HarqMessagesFacts
  <2>2. \A d \in HarqMessages(ueCtrlQueue'[1]) : d = now /\ Itself(now)
    BY <1>11, <1>12, <1>13, <2>1
  <2>3. HarqMessages(ueCtrlQueue'[2]) = {} /\ HarqMessages(ueCtrlQueue'[3]) = {}
    BY <1>12, <1>13
  <2>4. \A i \in 1 .. 3 : i = 1 \/ i = 2 \/ i = 3
    OBVIOUS
  <2> QED BY <2>2, <2>3, <2>4
<1>15. \A d : /\ Waiting(d)' <=> Waiting(d)
              /\ Itself(d)' <=> Itself(d)
              /\ AnswerSlot(d)' = AnswerSlot(d)
  BY <1>1, SameConfig, SameWaiting DEF PhyInv
<1>16. \A d \in HarqMessages(ueCtrlMsgs) :
         Waiting(d) /\ ((Itself(d) /\ d < now) \/ AnswerSlot(d) = now)
  BY <1>1 DEF PhyInv, FeedbackInv
<1>17. FeedbackInv'
  <2> HIDE DEF later, here, received
  <2> QED BY <1>1, <1>7, <1>9, <1>13, <1>14, <1>15, <1>16 DEF FeedbackInv
<1> QED BY <1>2, <1>4, <1>5, <1>17 DEF PhyInv

LEMMA UlCtrlKeeps ==
  ASSUME PhyInv, UlCtrl
  PROVE  PhyInv'
<1>1. /\ phase = "ulCtrl" /\ now' = now + 1 /\ phase' = "gnb"
      /\ ueCtrlMsgs' = IF "UlCtrl" \in ueCurrSlot THEN {} ELSE ueCtrlMsgs
      /\ UNCHANGED <<config, slotAllocInfo, ctrlQueue, ctrlMsgs, ueAllocInfo,
                     ueCtrlQueue, feedback>>
  BY DEF UlCtrl
<1>2. Config /\ now \in Nat /\ now < MaxSlot /\ MaxSlot \in Nat
  BY <1>1, SlotAssumption DEF PhyInv, Place
<1>3. Config' /\ Place'
  <2>1. now + 1 \in Nat /\ now + 1 <= MaxSlot
    BY <1>2
  <2> QED BY <1>1, <1>2, <2>1, SameConfig DEF Place, Phases
<1>4. DciInv'
  BY <1>1 DEF PhyInv, DciInv
<1>5. UeSlotInv'
  BY <1>1 DEF PhyInv, UeSlotInv
<1>6. \A d : Waiting(d) /\ AnswerSlot(d) # now => Waiting(d)'
  <2>1. \A d : Waiting(d) => AnswerSlot(d) \in Nat
    BY <1>2, AnswerFacts DEF Waiting
  <2>2. \A d : AnswerSlot(d)' = AnswerSlot(d)
    BY <1>1, <1>2, SameConfig
  <2>3. \A d : Waiting(d) /\ AnswerSlot(d) # now => AnswerSlot(d) >= now + 1
    BY <1>2, <2>1 DEF Waiting
  <2> QED BY <1>1, <2>2, <2>3 DEF Waiting
<1>7. \A d : /\ Itself(d)' <=> Itself(d)
             /\ AnswerSlot(d)' = AnswerSlot(d)
  BY <1>1, <1>2, SameConfig
<1>8. \A f \in feedback : Waiting(f.slot)' /\ f.at = AnswerSlot(f.slot)
  BY <1>1, <1>6 DEF PhyInv, FeedbackInv
<1>9. \A i \in 1 .. 3 : \A d \in HarqMessages(ueCtrlQueue[i]) :
        i = 1 /\ Waiting(d)' /\ Itself(d) /\ d < now + 1
  <2> SUFFICES ASSUME NEW i \in 1 .. 3, NEW d \in HarqMessages(ueCtrlQueue[i])
               PROVE  i = 1 /\ Waiting(d)' /\ Itself(d) /\ d < now + 1
    OBVIOUS
  <2>1. i = 1 /\ Waiting(d) /\ Itself(d) /\ d = now
    BY <1>1 DEF PhyInv, FeedbackInv
  <2>2. AnswerSlot(d) \in Nat /\ AnswerSlot(d) > d
    BY <1>2, <2>1, AnswerOfItself
  <2> QED BY <1>2, <1>6, <2>1, <2>2
<1>10. ASSUME NEW d \in HarqMessages(ueCtrlMsgs')
       PROVE  Waiting(d)' /\ Itself(d) /\ d < now + 1
  <2>1. "UlCtrl" \notin ueCurrSlot /\ d \in HarqMessages(ueCtrlMsgs)
    BY <1>1, <1>10, HarqMessagesFacts
  <2>2. Type(now) = DL
    BY <1>1, <2>1 DEF PhyInv, UeSlotInv
  <2>3. Waiting(d) /\ ((Itself(d) /\ d < now) \/ AnswerSlot(d) = now)
    BY <2>1 DEF PhyInv, FeedbackInv
  <2>4. Type(AnswerSlot(d)) # DL /\ d \in Nat
    BY <1>2, <2>3, AnswerFacts DEF Waiting
  <2>5. AnswerSlot(d) # now
    BY <2>2, <2>4
  <2> QED BY <1>2, <1>6, <2>3, <2>4, <2>5
<1>11. FeedbackInv'
  BY <1>1, <1>7, <1>8, <1>9, <1>10 DEF PhyInv, FeedbackInv
<1> QED BY <1>3, <1>4, <1>5, <1>11 DEF PhyInv

-----------------------------------------------------------------------------
\* The invariant holds in the first slot.
LEMMA PhyInit ==
  ASSUME Init
  PROVE  PhyInv
<1>1. Config /\ Place
  BY SlotAssumption DEF Init, Config, Place, Phases
<1>2. EmptyQueue \in [1 .. 3 -> {{}}]
  BY DEF EmptyQueue, L1L2CtrlLatency
<1>3. DciInv
  <2>1. ctrlQueue \in Queue(Queued)
    BY <1>2 DEF Init, Queue
  <2> QED BY <2>1 DEF Init, DciInv
<1>4. UeSlotInv
  BY DEF Init, UeSlotInv
<1>5. FeedbackInv
  <2>1. ueCtrlQueue \in Queue(UeMessage) /\ \A i \in 1 .. 3 : ueCtrlQueue[i] = {}
    BY <1>2 DEF Init, Queue
  <2> QED BY <2>1, HarqMessagesFacts DEF Init, FeedbackInv
<1> QED BY <1>1, <1>3, <1>4, <1>5 DEF PhyInv

\* What waits has its slot ahead, and what leaves is in its slot.
LEMMA PhyInvGivesFeedbackOnTime ==
  ASSUME PhyInv
  PROVE  FeedbackOnTime
<1>1. ASSUME phase = "ulCtrl", "UlCtrl" \in ueCurrSlot,
             NEW d \in HarqMessages(ueCtrlMsgs)
      PROVE  now = AnswerSlot(d)
  <2>1. Waiting(d) /\ ((Itself(d) /\ d < now) \/ AnswerSlot(d) = now)
    BY <1>1 DEF PhyInv, FeedbackInv
  <2>2. Type(now) # DL /\ now \in Nat /\ now <= MaxSlot
    BY <1>1 DEF PhyInv, UeSlotInv, Place
  <2>3. CASE Itself(d) /\ d < now
    <3>1. Config /\ d \in Nat /\ d < MaxSlot
      BY <2>1 DEF Waiting, PhyInv
    <3>2. AnswerSlot(d) \in Nat /\ AnswerSlot(d) <= now
      BY <2>2, <2>3, <3>1, AnswerOfItself
    <3> QED BY <2>1, <2>2, <3>2 DEF Waiting
  <2> QED BY <2>1, <2>3
<1>2. \A f \in feedback : now <= AnswerSlot(f.slot)
  BY DEF PhyInv, FeedbackInv, Waiting
<1>3. DOMAIN ueCtrlQueue = 1 .. 3
  BY DEF PhyInv, FeedbackInv, Queue
<1>4. \A i \in 1 .. 3 : \A d \in HarqMessages(ueCtrlQueue[i]) : now <= AnswerSlot(d)
  BY DEF PhyInv, FeedbackInv, Waiting
<1> QED BY <1>1, <1>2, <1>3, <1>4 DEF FeedbackOnTime

LEMMA PhyStep ==
  ASSUME PhyInv, [Next]_vars
  PROVE  PhyInv'
<1>1. CASE SendRachPreamble
  BY <1>1, SendRachPreambleKeeps
<1>2. CASE GnbStartSlot
  BY <1>2, GnbStartSlotKeeps
<1>3. CASE UeStartSlot
  BY <1>3, UeStartSlotKeeps
<1>4. CASE DlCtrl
  BY <1>4, DlCtrlKeeps
<1>5. CASE DlData
  BY <1>5, DlDataKeeps
<1>6. CASE UlCtrl
  BY <1>6, UlCtrlKeeps
<1>7. CASE UNCHANGED vars
  <2>1. UNCHANGED <<config, now, phase, gnb, ue>>
    BY <1>7 DEF vars
  <2>2. Type(now)' = Type(now) /\ HarqSlot(now)' = HarqSlot(now)
    BY <2>1, SameNow DEF PhyInv
  <2>3. Config' /\ Place' /\ DciInv' /\ UeSlotInv'
    BY <2>1, <2>2, SameConfig DEF PhyInv, Place, DciInv, UeSlotInv, gnb, ue
  <2>4. FeedbackInv'
    BY <2>1, SameConfig, SameWaiting DEF PhyInv, FeedbackInv, ue
  <2> QED BY <2>3, <2>4 DEF PhyInv
<1> QED BY <1>1, <1>2, <1>3, <1>4, <1>5, <1>6, <1>7 DEF Next

\* For every TDD pattern and every N1 and N2, the feedback of a downlink
\* block leaves the UE in the slot its K1 promises, and none is overdue; only
\* with N1 = 0, a block in a flexible slot is answered in the next UL CTRL.
THEOREM PhyFeedbackOnTime == Spec => []FeedbackOnTime
<1>1. Init => PhyInv
  BY PhyInit
<1>2. PhyInv /\ [Next]_vars => PhyInv'
  BY PhyStep
<1>3. PhyInv => FeedbackOnTime
  BY PhyInvGivesFeedbackOnTime
<1> QED BY <1>1, <1>2, <1>3, PTL DEF Spec

-----------------------------------------------------------------------------
(***************************************************************************)
(* The gNB and the UE agree on every slot, and each DL CTRL takes the      *)
(* messages of its slot, for every TDD pattern and all delays.  The        *)
(* argument: Sent(t) is the one slot that carries the DCI of uplink slot   *)
(* t, and the MAC prepares t two slots before it.  So it is known of every *)
(* slot ahead what the gNB holds for it (GnbContent), which of that the UE *)
(* has heard (UeContent), and that a slot that carries a DCI was prepared  *)
(* and has a DL CTRL.                                                      *)
(***************************************************************************)

-----------------------------------------------------------------------------
\* Where DCIs travel.

LEMMA DciSlotExists ==
  ASSUME Config, NEW a \in Int
  PROVE  \E k \in 0 .. Len(tdd) - 1 : Type(a - k) # UL
<1> DEFINE L == Len(tdd)
           q == a \div L
           r == a % L
<1>1. L \in Nat \ {0}
  BY PatternFacts
<1>2. PICK i \in 1 .. L : tdd[i] # UL
  <2>1. tdd \in Seq(0 .. 3)
    BY PatternAssumption DEF Config, DL, UL
  <2> DEFINE types == {tdd[i] : i \in DOMAIN tdd}
  <2>2. F \in types \/ DL \in types
    BY PatternAssumption DEF Config
  <2>3. \E i \in DOMAIN tdd : tdd[i] = F \/ tdd[i] = DL
    BY <2>2
  <2>4. DOMAIN tdd = 1 .. L
    BY <2>1
  <2> QED BY <2>3, <2>4 DEF F, DL, UL
<1>3. a = L * q + r /\ r \in 0 .. L - 1 /\ q \in Int
  BY <1>1
<1> HIDE DEF L, q, r
<1>4. \A p \in Int, k \in Int : a - k = L * p + (i - 1) => Type(a - k) # UL
  <2> SUFFICES ASSUME NEW p \in Int, NEW k \in Int, a - k = L * p + (i - 1)
               PROVE  Type(a - k) # UL
    OBVIOUS
  <2>1. i - 1 \in 0 .. L - 1
    BY <1>1
  <2>2. (L * p + (i - 1)) % L = i - 1
    BY <1>1, <2>1, ModUnique
  <2>3. Type(a - k) = tdd[(i - 1) + 1]
    BY <2>2 DEF Type, L
  <2> QED BY <1>2, <2>3
<1>5. CASE i - 1 <= r
  <2>1. r - (i - 1) \in 0 .. L - 1
    BY <1>1, <1>3, <1>5
  <2>2. a - (r - (i - 1)) = L * q + (i - 1)
    <3>1. L * q \in Int /\ i \in Int /\ r \in Int /\ a = L * q + r
      BY <1>1, <1>3
    <3> HIDE DEF Config
    <3> QED BY <3>1
  <2>3. Type(a - (r - (i - 1))) # UL
    BY <1>3, <1>4, <2>1, <2>2
  <2> QED BY <2>1, <2>3 DEF L
<1>6. CASE i - 1 > r
  <2>1. r - (i - 1) + L \in 0 .. L - 1
    BY <1>1, <1>3, <1>6
  <2>2. L * (q - 1) = L * q - L /\ q - 1 \in Int /\ L * q \in Int
    BY <1>1, <1>3
  <2>3. a - (r - (i - 1) + L) = L * (q - 1) + (i - 1)
    BY <1>1, <1>3, <2>2
  <2>4. Type(a - (r - (i - 1) + L)) # UL
    BY <1>4, <2>1, <2>2, <2>3
  <2> QED BY <2>1, <2>4 DEF L
<1> QED BY <1>1, <1>3, <1>5, <1>6

LEMMA DciSlotFacts ==
  ASSUME Config, NEW t \in Int, NEW n \in Nat
  PROVE  /\ DciSlot(t, n) \in n .. n + Len(tdd) - 1
         /\ Type(t - DciSlot(t, n)) # UL
<1> DEFINE K == {j \in n .. n + Len(tdd) - 1 : Type(t - j) <= F}
<1>1. Len(tdd) \in Nat
  BY PatternFacts
<1>2. PICK k \in 0 .. Len(tdd) - 1 : Type((t - n) - k) # UL
  <2>1. t - n \in Int
    OBVIOUS
  <2> QED BY <2>1, DciSlotExists
<1>3. n + k \in n .. n + Len(tdd) - 1 /\ (t - n) - k = t - (n + k)
  BY <1>1
<1>4. \A s \in Int : Type(s) # UL <=> Type(s) <= F
  BY TypeRange DEF UL, F
<1>5. n + k \in K
  <2>1. t - (n + k) \in Int /\ Type(t - (n + k)) # UL
    BY <1>1, <1>2, <1>3
  <2> QED BY <1>3, <1>4, <2>1
<1>6. K \in SUBSET Nat
  BY <1>1
<1>7. Min(K) \in K
  <2> HIDE DEF K
  <2> QED BY <1>5, <1>6, MinOfNaturals
<1>8. DciSlot(t, n) = Min(K)
  BY DEF DciSlot
<1>9. \A j \in K : /\ j \in n .. n + Len(tdd) - 1
                   /\ t - j \in Int /\ Type(t - j) <= F
  BY <1>6
<1>10. \A j \in K : Type(t - j) # UL
  BY <1>4, <1>9
<1> QED
  <2> HIDE DEF K
  <2> QED BY <1>7, <1>8, <1>9, <1>10

\* The slot that carries the DCI of uplink slot t.
Sent(t) == t - DciSlot(t, n2)
HasUplink(t) == Type(t) \in {F, UL}

LEMMA SentFacts ==
  ASSUME Config, NEW t \in Nat
  PROVE  /\ Sent(t) \in Int /\ Sent(t) <= t /\ Type(Sent(t)) # UL
         /\ Sent(t) >= t - n2 - Len(tdd) + 1
         /\ n2 \in Nat /\ n2 <= MaxDelay
<1>1. n2 \in Nat /\ n2 <= MaxDelay
  BY SlotAssumption DEF Config
<1>2. Len(tdd) \in Nat
  BY PatternFacts
<1>3. /\ DciSlot(t, n2) \in n2 .. n2 + Len(tdd) - 1
      /\ Type(t - DciSlot(t, n2)) # UL
  <2>1. n2 \in Nat /\ t \in Int
    BY <1>1
  <2> QED BY <2>1, DciSlotFacts
<1> QED BY <1>1, <1>2, <1>3 DEF Sent

LEMMA OwnDci ==
  ASSUME Config, NEW t \in Nat, Type(t) # UL
  PROVE  DciSlot(t, N0) = 0
<1> DEFINE K == {k \in N0 .. N0 + Len(tdd) - 1 : Type(t - k) <= F}
<1>1. Type(t) <= F
  BY TypeRange DEF F, UL
<1>2. K \in SUBSET Nat
  BY PatternFacts DEF N0
<1>3. 0 \in K
  BY <1>1, PatternFacts DEF N0
<1>4. Min(K) = 0
  <2> HIDE DEF K
  <2> QED BY <1>2, <1>3, MinIs
<1> QED BY <1>4 DEF DciSlot

\* Which slots are prepared now, and whose DCIs are sent now.
LEMMA DciMaps ==
  ASSUME Config, now \in Nat, NEW t \in Nat
  PROVE  /\ t \in GenerateDl <=> t = now + 2 /\ Type(t) # UL
         /\ t \in GenerateUl <=> HasUplink(t) /\ Sent(t) = now + 2
         /\ t \in ToSendDl <=> t = now /\ Type(t) # UL
         /\ t \in ToSendUl <=> HasUplink(t) /\ Sent(t) = now
<1>1. /\ n2 \in Nat /\ Len(tdd) \in Nat /\ Len(tdd) > 0
      /\ Ahead = 2 + n2 + Len(tdd)
  BY SentFacts, PatternFacts DEF Ahead, L1L2CtrlLatency
<1>2. Type(t) # UL => DciSlot(t, N0) = 0
  BY OwnDci
<1>3. DciSlot(t, n2) \in n2 .. n2 + Len(tdd) - 1
  <2>1. n2 \in Nat /\ t \in Int
    BY <1>1
  <2> QED BY <2>1, DciSlotFacts
<1>4. t \in GenerateDl <=> t = now + 2 /\ Type(t) # UL
  <2>1. t \in GenerateDl <=> /\ t \in now .. now + Ahead /\ Type(t) # UL
                             /\ now + DciSlot(t, N0) + 2 = t
    BY DEF GenerateDl, DlSlots, L1L2CtrlLatency
  <2> QED BY <1>1, <1>2, <2>1
<1>5. t \in ToSendDl <=> t = now /\ Type(t) # UL
  <2>1. t \in ToSendDl <=> /\ t \in now .. now + Ahead /\ Type(t) # UL
                           /\ now + DciSlot(t, N0) = t
    BY DEF ToSendDl, DlSlots
  <2> QED BY <1>1, <1>2, <2>1
<1>6. t \in GenerateUl <=> HasUplink(t) /\ Sent(t) = now + 2
  <2>1. t \in GenerateUl <=> /\ t \in now .. now + Ahead /\ HasUplink(t)
                             /\ now + DciSlot(t, n2) + 2 = t
    BY DEF GenerateUl, UlSlots, L1L2CtrlLatency, HasUplink
  <2> QED BY <1>1, <1>3, <2>1 DEF Sent
<1>7. t \in ToSendUl <=> HasUplink(t) /\ Sent(t) = now
  <2>1. t \in ToSendUl <=> /\ t \in now .. now + Ahead /\ HasUplink(t)
                           /\ now + DciSlot(t, n2) = t
    BY DEF ToSendUl, UlSlots, HasUplink
  <2> QED BY <1>1, <1>3, <2>1 DEF Sent
<1> QED BY <1>4, <1>5, <1>6, <1>7

-----------------------------------------------------------------------------
\* The inductive invariant.

\* What either side holds for slot t: the slot begun is kept apart.
GnbSlot(t) == IF t = now /\ phase # "gnb" THEN currSlot ELSE slotAllocInfo[t]
UeSlot(t) == IF t = now /\ phase \notin {"gnb", "ue"} THEN ueCurrSlot ELSE ueAllocInfo[t]

\* The last slot the gNB has begun, and whether the MAC's indication in slot
\* s, two before the slot it is for or whose DCI it is for, has been given.
Begun == IF phase = "gnb" THEN now - 1 ELSE now
Indicated(s) == s \in 2 .. Begun + 2

\* The gNB holds for each slot ahead what its type asks for, and the data of
\* slots prepared; only a slot with a MIB has a DL CTRL besides.
GnbContent ==
  \A t \in Slots : t >= now =>
    /\ "DlCtrl" \in GnbSlot(t) <=>
         \/ Type(t) # UL /\ Indicated(t)
         \/ t = now /\ phase # "gnb" /\ MibOrSib
    /\ "UlCtrl" \in GnbSlot(t) <=>
         \/ Type(t) = S /\ Indicated(t)
         \/ HasUplink(t) /\ Indicated(Sent(t))
    /\ "DlData" \in GnbSlot(t) => Type(t) # UL /\ Indicated(t)
    /\ "UlData" \in GnbSlot(t) => HasUplink(t) /\ Indicated(Sent(t))

\* The UE expects the uplink data whose DCI it has heard; the DCIs under way
\* are those of this slot.
Heard(t) == IF phase \in {"data", "ulCtrl"} THEN Sent(t) <= now ELSE Sent(t) < now

UeContent ==
  /\ currSlot \subseteq Data \cup Ctrl /\ ueCurrSlot \subseteq Data \cup Ctrl
  /\ \A t \in Slots : t >= now =>
       ("UlData" \in UeSlot(t) <=> "UlData" \in GnbSlot(t) /\ Heard(t))
  /\ phase \in {"ue", "dlCtrl"} =>
       \A t : t \in UlDcis <=>
         t \in Slots /\ t >= now /\ Sent(t) = now /\ "UlData" \in GnbSlot(t)
  /\ phase \notin {"ue", "dlCtrl"} => UlDcis = {}
  /\ phase \in {"ue", "dlCtrl"} => ("DlData" \in currSlot <=> DlDcis # {})
  /\ phase \in {"data", "ulCtrl"} =>
       ("DlData" \in currSlot <=> "DlData" \in ueCurrSlot)
  /\ phase \notin {"gnb", "ue"} => ("DlCtrl" \in ueCurrSlot <=> Type(now) # UL)

\* A RAR is made for a slot with a DL CTRL, the second after this.
RarIsDue(m) == m.made \in Nat /\ Type(m.made + 2) # UL

CtrlInv ==
  /\ \A i \in 1 .. 3 : \A m \in ctrlQueue[i] :
       m.type = "Rar" /\ RarIsDue(m) /\ m.made + 2 - i <= Begun
  /\ \A m \in ctrlMsgs :
       /\ m.type = "Rar" => RarIsDue(m) /\ m.made + 2 <= now
       /\ phase \in {"ue", "dlCtrl"} =>
            \/ m.type \in {"DlDci", "UlDci"}
            \/ m.type = "Mib" /\ MibOrSib
            \/ m.type = "Rar"
       /\ phase \notin {"ue", "dlCtrl"} => m.type = "Rar" /\ m.made + 2 < now

AgreeInv == PhyInv /\ GnbContent /\ UeContent /\ CtrlInv

\* A slot that carries the DCI of a slot prepared has been prepared itself.
LEMMA DciSlotHasDlCtrl ==
  ASSUME Config, Place, GnbContent,
         NEW t \in Slots, t >= now, Sent(t) = now, "UlData" \in GnbSlot(t)
  PROVE  "DlCtrl" \in GnbSlot(now)
<1>1. t \in Nat /\ now \in Nat /\ now \in Slots
  BY SlotAssumption DEF Place, Slots, L1L2CtrlLatency
<1>2. Type(now) # UL
  BY <1>1, SentFacts
<1>3. Indicated(now)
  BY DEF GnbContent
<1> QED BY <1>1, <1>2, <1>3 DEF GnbContent

\* In the DL CTRL every DCI, MIB and RAR that is not late is taken.
LEMMA NothingMissed ==
  ASSUME AgreeInv, phase \in {"ue", "dlCtrl"}, "DlCtrl" \notin currSlot
  PROVE  \A m \in ctrlMsgs : m.type = "Rar" /\ m.made + 2 < now
<1>1. Config /\ Place /\ GnbContent /\ now \in Nat /\ now \in Slots
  BY SlotAssumption DEF AgreeInv, PhyInv, Place, Slots, L1L2CtrlLatency
<1>2. GnbSlot(now) = currSlot
  BY DEF GnbSlot
<1>3. ~MibOrSib
  BY <1>1, <1>2 DEF GnbContent
<1>4. UlDcis = {}
  <2> SUFFICES ASSUME NEW t \in UlDcis PROVE FALSE
    OBVIOUS
  <2>1. t \in Slots /\ t >= now /\ Sent(t) = now /\ "UlData" \in GnbSlot(t)
    BY DEF AgreeInv, UeContent
  <2> QED BY <1>1, <1>2, <2>1, DciSlotHasDlCtrl
<1>5. \A m \in ctrlMsgs : m.type # "UlDci"
  BY <1>4 DEF UlDcis
<1>6. \A m \in ctrlMsgs : m.type # "DlDci"
  BY DEF AgreeInv, PhyInv, DciInv
<1>7. ASSUME NEW m \in ctrlMsgs, m.type = "Rar"
      PROVE  m.made + 2 < now
  <2>1. m.made \in Nat /\ Type(m.made + 2) # UL /\ m.made + 2 <= now
    BY <1>7 DEF AgreeInv, CtrlInv, RarIsDue
  <2>2. m.made + 2 = now => Indicated(now)
    BY <1>1, <2>1 DEF Indicated, Begun
  <2>3. m.made + 2 # now
    BY <1>1, <1>2, <2>1, <2>2 DEF GnbContent
  <2> QED BY <1>1, <2>1, <2>3
<1>8. \A m \in ctrlMsgs : m.type = "Rar"
  BY <1>3, <1>5, <1>6 DEF AgreeInv, CtrlInv
<1> QED BY <1>7, <1>8

-----------------------------------------------------------------------------
\* The steps.

LEMMA SameTimes ==
  ASSUME Config, UNCHANGED config
  PROVE  /\ \A t : Type(t)' = Type(t) /\ Sent(t)' = Sent(t)
         /\ \A t : HasUplink(t)' <=> HasUplink(t)
         /\ \A m : RarIsDue(m)' <=> RarIsDue(m)
<1>1. tdd' = tdd /\ n2' = n2
  BY DEF config
<1>2. \A t : Type(t)' = Type(t)
  BY <1>1 DEF Type
<1>3. \A t : Sent(t)' = Sent(t)
  BY <1>1 DEF Sent, DciSlot, Type
<1>4. \A t : HasUplink(t)' <=> HasUplink(t)
  BY <1>2 DEF HasUplink
<1>5. \A m : RarIsDue(m)' <=> RarIsDue(m)
  BY <1>1 DEF RarIsDue, Type
<1> QED BY <1>2, <1>3, <1>4, <1>5

\* A step of the UE within a slot leaves what the gNB holds.
LEMMA SameGnb ==
  ASSUME AgreeInv, UNCHANGED <<config, now, slotAllocInfo, currSlot>>,
         phase = "gnb" <=> phase' = "gnb"
  PROVE  /\ GnbContent' /\ Begun' = Begun
         /\ \A t : GnbSlot(t)' = GnbSlot(t)
         /\ (MibOrSib' <=> MibOrSib) /\ Type(now)' = Type(now)
<1>1. Config /\ GnbContent
  BY DEF AgreeInv, PhyInv
<1>2. Begun' = Begun
  BY DEF Begun
<1>3. \A t : GnbSlot(t)' = GnbSlot(t)
  BY DEF GnbSlot
<1>4. MibOrSib' <=> MibOrSib
  BY DEF MibOrSib
<1>5. Type(now)' = Type(now)
  BY <1>1, SameNow
<1>6. \A t : /\ Indicated(t)' <=> Indicated(t)
             /\ Indicated(Sent(t))' <=> Indicated(Sent(t))
  BY <1>1, <1>2, SameTimes DEF Indicated
<1>7. GnbContent'
  BY <1>1, <1>3, <1>4, <1>6, SameTimes DEF GnbContent
<1> QED BY <1>2, <1>3, <1>4, <1>5, <1>7

LEMMA SendRachAgrees ==
  ASSUME AgreeInv, SendRachPreamble
  PROVE  AgreeInv'
<1>1. UNCHANGED <<config, now, phase, gnb, ueAllocInfo, ueCurrSlot>>
  BY DEF SendRachPreamble
<1>2. UNCHANGED <<slotAllocInfo, currSlot, ctrlQueue, ctrlMsgs>>
  BY <1>1 DEF gnb
<1>3. Config
  BY DEF AgreeInv, PhyInv
<1>4. PhyInv'
  BY SendRachPreambleKeeps DEF AgreeInv
<1>5. /\ GnbContent' /\ Begun' = Begun /\ \A t : GnbSlot(t)' = GnbSlot(t)
      /\ (MibOrSib' <=> MibOrSib) /\ Type(now)' = Type(now)
  BY <1>1, <1>2, SameGnb
<1>6. \A t : UeSlot(t)' = UeSlot(t) /\ (Heard(t)' <=> Heard(t))
  BY <1>1, <1>3, SameTimes DEF UeSlot, Heard
<1>7. UlDcis' = UlDcis /\ DlDcis' = DlDcis
  BY <1>2 DEF UlDcis, DlDcis
<1>8. UeContent'
  BY <1>1, <1>2, <1>3, <1>5, <1>6, <1>7, SameTimes DEF AgreeInv, UeContent
<1>9. CtrlInv'
  BY <1>1, <1>2, <1>3, <1>5, SameTimes DEF AgreeInv, CtrlInv
<1> QED BY <1>4, <1>5, <1>8, <1>9 DEF AgreeInv

LEMMA UeStartSlotAgrees ==
  ASSUME AgreeInv, UeStartSlot
  PROVE  AgreeInv'
<1>1. /\ phase = "ue" /\ phase' = "dlCtrl" /\ now' = now
      /\ ueCurrSlot' = ueAllocInfo[now] \cup CtrlAllocations
      /\ ueAllocInfo' = [ueAllocInfo EXCEPT ![now] = {}]
      /\ UNCHANGED <<config, gnb>>
  BY DEF UeStartSlot
<1>2. UNCHANGED <<slotAllocInfo, currSlot, ctrlQueue, ctrlMsgs>>
  BY <1>1 DEF gnb
<1>3. Config /\ now \in Nat /\ now \in Slots
  BY SlotAssumption DEF AgreeInv, PhyInv, Place, Slots, L1L2CtrlLatency
<1>4. PhyInv'
  BY UeStartSlotKeeps DEF AgreeInv
<1>5. /\ GnbContent' /\ Begun' = Begun /\ \A t : GnbSlot(t)' = GnbSlot(t)
      /\ (MibOrSib' <=> MibOrSib) /\ Type(now)' = Type(now)
  BY <1>1, <1>2, SameGnb
<1>6. ueAllocInfo \in [Slots -> SUBSET {"UlData"}] /\ ueAllocInfo[now] \subseteq {"UlData"}
  BY <1>3 DEF AgreeInv, PhyInv, UeSlotInv
<1>7. /\ CtrlAllocations \subseteq Ctrl
      /\ "DlCtrl" \in CtrlAllocations <=> Type(now) # UL
  <2>1. Type(now) \in 0 .. 3
    BY <1>3, TypeRange
  <2> QED BY <2>1 DEF CtrlAllocations, Ctrl, UL, DL
<1>8. /\ ueCurrSlot' \subseteq Data \cup Ctrl
      /\ "DlCtrl" \in ueCurrSlot' <=> Type(now) # UL
  BY <1>1, <1>6, <1>7 DEF Data, Ctrl
<1>9. \A t \in Slots : t >= now =>
        ("UlData" \in UeSlot(t)' <=> "UlData" \in UeSlot(t))
  <2>1. "UlData" \in ueCurrSlot' <=> "UlData" \in ueAllocInfo[now]
    BY <1>1, <1>7 DEF Ctrl
  <2>2. UeSlot(now) = ueAllocInfo[now]
    BY <1>1 DEF UeSlot
  <2>3. \A t \in Slots : t # now => UeSlot(t)' = UeSlot(t)
    BY <1>1, <1>6 DEF UeSlot
  <2>4. \A t : t = now => UeSlot(t)' = ueCurrSlot'
    BY <1>1 DEF UeSlot
  <2> QED BY <2>1, <2>2, <2>3, <2>4
<1>10. \A t : Heard(t)' <=> Heard(t)
  BY <1>1, <1>3, SameTimes DEF Heard
<1>11. UlDcis' = UlDcis /\ DlDcis' = DlDcis
  BY <1>2 DEF UlDcis, DlDcis
<1>12. UeContent'
  BY <1>1, <1>2, <1>3, <1>5, <1>8, <1>9, <1>10, <1>11, SameTimes
     DEF AgreeInv, UeContent
<1>13. CtrlInv'
  BY <1>1, <1>2, <1>3, <1>5, SameTimes DEF AgreeInv, CtrlInv
<1> QED BY <1>4, <1>5, <1>12, <1>13 DEF AgreeInv

LEMMA DlDataAgrees ==
  ASSUME AgreeInv, DlData
  PROVE  AgreeInv'
<1>1. /\ phase = "data" /\ phase' = "ulCtrl" /\ now' = now
      /\ UNCHANGED <<config, gnb, ueAllocInfo, ueCurrSlot>>
  BY DEF DlData
<1>2. UNCHANGED <<slotAllocInfo, currSlot, ctrlQueue, ctrlMsgs>>
  BY <1>1 DEF gnb
<1>3. Config
  BY DEF AgreeInv, PhyInv
<1>4. PhyInv'
  BY DlDataKeeps DEF AgreeInv
<1>5. /\ GnbContent' /\ Begun' = Begun /\ \A t : GnbSlot(t)' = GnbSlot(t)
      /\ (MibOrSib' <=> MibOrSib) /\ Type(now)' = Type(now)
  BY <1>1, <1>2, SameGnb
<1>6. \A t : UeSlot(t)' = UeSlot(t) /\ (Heard(t)' <=> Heard(t))
  BY <1>1, <1>3, SameTimes DEF UeSlot, Heard
<1>7. UlDcis' = UlDcis /\ DlDcis' = DlDcis
  BY <1>2 DEF UlDcis, DlDcis
<1>8. UeContent'
  BY <1>1, <1>2, <1>3, <1>5, <1>6, <1>7, SameTimes DEF AgreeInv, UeContent
<1>9. CtrlInv'
  BY <1>1, <1>2, <1>3, <1>5, SameTimes DEF AgreeInv, CtrlInv
<1> QED BY <1>4, <1>5, <1>8, <1>9 DEF AgreeInv

\* The next slot: the one begun is done with.
LEMMA UlCtrlAgrees ==
  ASSUME AgreeInv, UlCtrl
  PROVE  AgreeInv'
<1>1. /\ phase = "ulCtrl" /\ phase' = "gnb" /\ now' = now + 1
      /\ currSlot' = {} /\ ueCurrSlot' = {}
      /\ UNCHANGED <<config, slotAllocInfo, ctrlQueue, ctrlMsgs, ueAllocInfo>>
  BY DEF UlCtrl
<1>2. Config /\ now \in Nat
  BY DEF AgreeInv, PhyInv, Place
<1>3. PhyInv'
  BY UlCtrlKeeps DEF AgreeInv
<1>4. Begun' = now /\ Begun = now
  BY <1>1, <1>2 DEF Begun
<1>5. \A t \in Slots : t >= now + 1 =>
        /\ GnbSlot(t)' = GnbSlot(t) /\ UeSlot(t)' = UeSlot(t)
        /\ t >= now /\ t # now
  <2>1. \A t \in Slots : t \in Int
    BY DEF Slots
  <2> QED BY <1>1, <1>2, <2>1 DEF GnbSlot, UeSlot
<1>6. \A t : /\ Indicated(t)' <=> Indicated(t)
             /\ Indicated(Sent(t))' <=> Indicated(Sent(t))
  BY <1>1, <1>2, <1>4, SameTimes DEF Indicated
<1>7. GnbContent'
  BY <1>1, <1>2, <1>5, <1>6, SameTimes DEF AgreeInv, GnbContent
<1>8. \A t \in Slots : Heard(t)' <=> Heard(t)
  <2>1. \A t \in Slots : Sent(t) \in Int
    <3>1. \A t \in Slots : t \in Nat
      BY SlotAssumption DEF Slots
    <3> QED BY <1>2, <3>1, SentFacts
  <2> QED BY <1>1, <1>2, <2>1, SameTimes DEF Heard
<1>9. UlDcis' = {}
  BY <1>1 DEF AgreeInv, UeContent, UlDcis
<1>10. UeContent'
  BY <1>1, <1>5, <1>8, <1>9 DEF AgreeInv, UeContent
<1>11. CtrlInv'
  <2>1. \A m : RarIsDue(m)' <=> RarIsDue(m)
    BY <1>1, <1>2, SameTimes
  <2>2. \A m \in ctrlMsgs : /\ m.type = "Rar" /\ m.made + 2 < now
                            /\ RarIsDue(m)
    BY <1>1 DEF AgreeInv, CtrlInv
  <2>3. \A m \in ctrlMsgs : m.made + 2 < now + 1 /\ m.made + 2 <= now + 1
    BY <1>2, <2>2 DEF RarIsDue
  <2> QED BY <1>1, <1>4, <2>1, <2>2, <2>3 DEF AgreeInv, CtrlInv
<1> QED BY <1>3, <1>7, <1>10, <1>11 DEF AgreeInv

LEMMA DlCtrlAgrees ==
  ASSUME AgreeInv, DlCtrl
  PROVE  AgreeInv'
<1>1. /\ phase = "dlCtrl" /\ phase' = "data" /\ now' = now
      /\ UNCHANGED <<config, slotAllocInfo, currSlot, ctrlQueue>>
  BY DEF DlCtrl
<1>2. IF "DlCtrl" \in currSlot
      THEN /\ ueCurrSlot' = ueCurrSlot \cup {"DlData" : d \in DlDcis}
                              \cup {"UlData" : t \in UlDcis \cap {now}}
           /\ ueAllocInfo' = [t \in Slots |-> ueAllocInfo[t]
                                \cup {"UlData" : u \in UlDcis \cap ({t} \ {now})}]
           /\ ctrlMsgs' = {}
      ELSE UNCHANGED <<ueCurrSlot, ueAllocInfo, ctrlMsgs>>
  BY DEF DlCtrl
<1>3. /\ Config /\ Place /\ GnbContent
      /\ now \in Nat /\ now \in Slots /\ now >= now
  BY SlotAssumption DEF AgreeInv, PhyInv, Place, Slots, L1L2CtrlLatency
<1>4. PhyInv'
  BY DlCtrlKeeps DEF AgreeInv
<1>5. /\ GnbContent' /\ Begun' = Begun /\ \A t : GnbSlot(t)' = GnbSlot(t)
      /\ (MibOrSib' <=> MibOrSib) /\ Type(now)' = Type(now)
  BY <1>1, SameGnb
<1>6. "DlCtrl" \notin currSlot =>
        \A m \in ctrlMsgs : m.type = "Rar" /\ m.made + 2 < now
  BY <1>1, NothingMissed
<1>7. "DlCtrl" \notin currSlot => UlDcis = {} /\ DlDcis = {}
  BY <1>6 DEF UlDcis, DlDcis
<1>8. /\ ueCurrSlot' \subseteq Data \cup Ctrl
      /\ "DlCtrl" \in ueCurrSlot' <=> "DlCtrl" \in ueCurrSlot
      /\ "DlData" \in ueCurrSlot' <=> "DlData" \in ueCurrSlot \/ DlDcis # {}
      /\ "UlData" \in ueCurrSlot' <=> "UlData" \in ueCurrSlot \/ now \in UlDcis
  <2>1. CASE "DlCtrl" \in currSlot
    <3> DEFINE dl == {"DlData" : d \in DlDcis}
               ul == {"UlData" : t \in UlDcis \cap {now}}
    <3>1. dl \subseteq {"DlData"} /\ ("DlData" \in dl <=> DlDcis # {})
      OBVIOUS
    <3>2. ul \subseteq {"UlData"} /\ ("UlData" \in ul <=> now \in UlDcis)
      OBVIOUS
    <3>3. ueCurrSlot' = ueCurrSlot \cup dl \cup ul
      BY <1>2, <2>1
    <3>4. ueCurrSlot \subseteq Data \cup Ctrl
      BY DEF AgreeInv, UeContent
    <3> HIDE DEF dl, ul
    <3> QED BY <3>1, <3>2, <3>3, <3>4 DEF Data, Ctrl
  <2>2. CASE "DlCtrl" \notin currSlot
    BY <1>2, <1>7, <2>2 DEF AgreeInv, UeContent
  <2> QED BY <2>1, <2>2
<1>9. \A t \in Slots : t # now =>
        ("UlData" \in ueAllocInfo'[t] <=> "UlData" \in ueAllocInfo[t] \/ t \in UlDcis)
  <2>1. CASE "DlCtrl" \in currSlot
    BY <1>2, <2>1
  <2>2. CASE "DlCtrl" \notin currSlot
    BY <1>2, <1>7, <2>2
  <2> QED BY <2>1, <2>2
<1>10. \A t \in Slots : t >= now =>
         ("UlData" \in UeSlot(t)' <=> "UlData" \in UeSlot(t) \/ t \in UlDcis)
  <2>1. \A t : t = now => UeSlot(t)' = ueCurrSlot' /\ UeSlot(t) = ueCurrSlot
    BY <1>1 DEF UeSlot
  <2>2. \A t : t # now => UeSlot(t)' = ueAllocInfo'[t] /\ UeSlot(t) = ueAllocInfo[t]
    BY <1>1 DEF UeSlot
  <2> QED BY <1>8, <1>9, <2>1, <2>2
<1>11. \A t \in Slots : Heard(t)' <=> Heard(t) \/ Sent(t) = now
  <2>1. \A t \in Slots : Sent(t) \in Int
    <3>1. \A t \in Slots : t \in Nat
      BY SlotAssumption DEF Slots
    <3> QED BY <1>3, <3>1, SentFacts
  <2>2. \A t : Heard(t)' <=> Sent(t) <= now
    BY <1>1, <1>3, SameTimes DEF Heard
  <2>3. \A t : Heard(t) <=> Sent(t) < now
    BY <1>1 DEF Heard
  <2> QED BY <1>3, <2>1, <2>2, <2>3
<1>12. \A t \in Slots : t >= now =>
         ("UlData" \in UeSlot(t)' <=> "UlData" \in GnbSlot(t) /\ Heard(t)')
  <2>1. \A t \in Slots : t >= now =>
          /\ "UlData" \in UeSlot(t) <=> "UlData" \in GnbSlot(t) /\ Heard(t)
          /\ t \in UlDcis <=> Sent(t) = now /\ "UlData" \in GnbSlot(t)
    BY <1>1 DEF AgreeInv, UeContent
  <2> QED BY <1>10, <1>11, <2>1
<1>13. "DlData" \in currSlot <=> "DlData" \in ueCurrSlot'
  <2>1. "DlData" \notin ueCurrSlot
    BY <1>1 DEF AgreeInv, PhyInv, UeSlotInv
  <2> QED BY <1>1, <1>8, <2>1 DEF AgreeInv, UeContent
<1>14. \A m \in ctrlMsgs' : m.type = "Rar" /\ m.made + 2 < now /\ m \in ctrlMsgs
  BY <1>2, <1>6
<1>15. UlDcis' = {}
  BY <1>14 DEF UlDcis
<1>16. UeContent'
  BY <1>1, <1>5, <1>8, <1>12, <1>13, <1>15 DEF AgreeInv, UeContent
<1>17. CtrlInv'
  BY <1>1, <1>3, <1>5, <1>14, SameTimes DEF AgreeInv, CtrlInv
<1> QED BY <1>4, <1>5, <1>16, <1>17 DEF AgreeInv

-----------------------------------------------------------------------------
\* The gNB begins a slot.

\* What the indications of this slot add to slot t.
LEMMA PreparedContent ==
  ASSUME Config, now \in Nat, NEW idle, NEW t \in Slots
  PROVE  /\ "DlCtrl" \in Prepared(idle)[t] <=>
              "DlCtrl" \in slotAllocInfo[t] \/ (Type(t) # UL /\ t = now + 2)
         /\ "UlCtrl" \in Prepared(idle)[t] <=>
              \/ "UlCtrl" \in slotAllocInfo[t]
              \/ Type(t) = S /\ t = now + 2
              \/ HasUplink(t) /\ Sent(t) = now + 2
         /\ "DlData" \in Prepared(idle)[t] =>
              "DlData" \in slotAllocInfo[t] \/ (Type(t) # UL /\ t = now + 2)
         /\ "UlData" \in slotAllocInfo[t] => "UlData" \in Prepared(idle)[t]
         /\ "UlData" \in Prepared(idle)[t] =>
              "UlData" \in slotAllocInfo[t] \/ (HasUplink(t) /\ Sent(t) = now + 2)
<1>1. t \in Nat
  BY SlotAssumption DEF Slots
<1>2. /\ t \in GenerateDl <=> t = now + 2 /\ Type(t) # UL
      /\ t \in GenerateUl <=> HasUplink(t) /\ Sent(t) = now + 2
  BY <1>1, DciMaps
<1> DEFINE ul == UlAllocation(t, idle)
           dl == DlAllocation(t, idle)
<1>3. /\ "DlCtrl" \notin ul /\ "UlCtrl" \in ul /\ "DlData" \notin ul
  BY DEF UlAllocation
<1>4. /\ "DlCtrl" \in dl /\ "UlData" \notin dl
      /\ "UlCtrl" \in dl <=> Type(t) = S
  BY DEF DlAllocation
<1>5. Prepared(idle)[t] = slotAllocInfo[t] \cup (IF t \in GenerateUl THEN ul ELSE {})
                            \cup (IF t \in GenerateDl THEN dl ELSE {})
  BY DEF Prepared
<1>6. Type(t) = S => Type(t) # UL
  BY DEF S, UL
<1> HIDE DEF ul, dl
<1> QED BY <1>2, <1>3, <1>4, <1>5, <1>6

LEMMA GnbStartSlotAgrees ==
  ASSUME AgreeInv, GnbStartSlot
  PROVE  AgreeInv'
<1>1. /\ phase = "gnb" /\ now < MaxSlot /\ now' = now /\ phase' = "ue"
      /\ currSlot' = SlotToStart
      /\ UNCHANGED <<config, ue>>
  BY DEF GnbStartSlot
<1>2. PICK idle :
        LET allocs == Prepared(idle)
            queue == EnqueueCtrlMsgNow(EnqueueCtrlMessage(ctrlQueue, Rar), Mib)
        IN  /\ slotAllocInfo' = [allocs EXCEPT ![now] = {}]
            /\ ctrlQueue' = IF Pops THEN PopCurrentSlotCtrlMsgs(queue) ELSE queue
            /\ ctrlMsgs' = IF Pops THEN ctrlMsgs \cup queue[1]
                                         \cup Dcis([allocs EXCEPT ![now] = SlotToStart])
                           ELSE ctrlMsgs
  BY DEF GnbStartSlot
<1> DEFINE allocs == Prepared(idle)
           queue == EnqueueCtrlMsgNow(EnqueueCtrlMessage(ctrlQueue, Rar), Mib)
           sent == [allocs EXCEPT ![now] = SlotToStart]
<1>3. /\ Config /\ Place /\ now \in Nat /\ now \in Slots
      /\ \A t \in Slots : t \in Nat
  BY SlotAssumption DEF AgreeInv, PhyInv, Place, Slots, L1L2CtrlLatency
<1>4. PhyInv'
  BY GnbStartSlotKeeps DEF AgreeInv
<1>5. allocs \in [Slots -> SUBSET (Data \cup Ctrl)]
  BY PreparedFacts DEF AgreeInv, PhyInv
<1>6. \A t \in Slots : GnbSlot(t)' = sent[t]
  <2>1. slotAllocInfo' = [allocs EXCEPT ![now] = {}]
    BY <1>2
  <2> HIDE DEF allocs
  <2> QED BY <1>1, <1>3, <1>5, <2>1 DEF GnbSlot
<1>7. \A t \in Slots : sent[t] = IF t = now THEN SlotToStart ELSE allocs[t]
  <2> HIDE DEF allocs
  <2> QED BY <1>3, <1>5
<1>8. Begun = now - 1 /\ Begun' = now
  BY <1>1 DEF Begun
<1>9. \A t \in Slots : t >= now =>
        /\ "DlCtrl" \in slotAllocInfo[t] <=> Type(t) # UL /\ t \in 2 .. now + 1
        /\ "UlCtrl" \in slotAllocInfo[t] <=>
             \/ Type(t) = S /\ t \in 2 .. now + 1
             \/ HasUplink(t) /\ Sent(t) \in 2 .. now + 1
        /\ "DlData" \in slotAllocInfo[t] => Type(t) # UL /\ t \in 2 .. now + 1
        /\ "UlData" \in slotAllocInfo[t] =>
             HasUplink(t) /\ Sent(t) \in 2 .. now + 1
  <2>1. \A t : Indicated(t) <=> t \in 2 .. now + 1
    <3>1. Begun + 2 = now + 1
      BY <1>3, <1>8
    <3> QED BY <3>1 DEF Indicated
  <2>2. \A t : GnbSlot(t) = slotAllocInfo[t]
    BY <1>1 DEF GnbSlot
  <2> QED BY <1>1, <2>1, <2>2 DEF AgreeInv, GnbContent
<1>10. \A t \in Slots : t >= now =>
         /\ "DlCtrl" \in sent[t] <=>
              (Type(t) # UL /\ t \in 2 .. now + 2) \/ (t = now /\ MibOrSib)
         /\ "UlCtrl" \in sent[t] <=>
              \/ Type(t) = S /\ t \in 2 .. now + 2
              \/ HasUplink(t) /\ Sent(t) \in 2 .. now + 2
         /\ "DlData" \in sent[t] => Type(t) # UL /\ t \in 2 .. now + 2
         /\ "UlData" \in sent[t] => HasUplink(t) /\ Sent(t) \in 2 .. now + 2
         /\ Sent(t) <= now => ("UlData" \in sent[t] <=> "UlData" \in slotAllocInfo[t])
  <2> SUFFICES ASSUME NEW t \in Slots, t >= now
               PROVE  /\ "DlCtrl" \in sent[t] <=>
                           \/ Type(t) # UL /\ t \in 2 .. now + 2
                           \/ t = now /\ MibOrSib
                      /\ "UlCtrl" \in sent[t] <=>
                           \/ Type(t) = S /\ t \in 2 .. now + 2
                           \/ HasUplink(t) /\ Sent(t) \in 2 .. now + 2
                      /\ "DlData" \in sent[t] => Type(t) # UL /\ t \in 2 .. now + 2
                      /\ "UlData" \in sent[t] =>
                           HasUplink(t) /\ Sent(t) \in 2 .. now + 2
                      /\ Sent(t) <= now =>
                           ("UlData" \in sent[t] <=> "UlData" \in slotAllocInfo[t])
    OBVIOUS
  <2>1. t \in Nat /\ Sent(t) \in Int /\ Sent(t) <= t
    BY <1>3, SentFacts
  <2>2. CASE t = now
    <3>1. sent[t] = slotAllocInfo[now] \cup (IF MibOrSib THEN {"DlCtrl"} ELSE {})
      BY <1>7, <2>2 DEF SlotToStart
    <3> HIDE DEF sent
    <3> QED BY <1>3, <1>9, <2>1, <2>2, <3>1
  <2>3. CASE t # now
    <3>1. sent[t] = allocs[t]
      BY <1>7, <2>3
    <3> HIDE DEF sent
    <3> QED BY <1>3, <1>9, <2>1, <2>3, <3>1, PreparedContent
  <2> QED BY <2>2, <2>3
<1>11. \A t : /\ Indicated(t)' <=> t \in 2 .. now + 2
              /\ Indicated(Sent(t))' <=> Sent(t) \in 2 .. now + 2
  BY <1>1, <1>3, <1>8, SameTimes DEF Indicated
<1>12. MibOrSib' <=> MibOrSib
  BY <1>1 DEF MibOrSib
<1>13. GnbContent'
  <2> HIDE DEF sent
  <2> QED BY <1>1, <1>3, <1>6, <1>10, <1>11, <1>12, SameTimes DEF GnbContent
<1>14. sent[now] = SlotToStart
  BY <1>3, <1>7
<1>15. "DlCtrl" \in SlotToStart \/ "DlData" \in SlotToStart => Pops
  BY DEF Pops, Starts, Data
<1>16. \A t \in Slots : t >= now /\ Sent(t) = now /\ "UlData" \in sent[t] => Pops
  <2> SUFFICES ASSUME NEW t \in Slots, t >= now, Sent(t) = now, "UlData" \in sent[t]
               PROVE  "DlCtrl" \in SlotToStart
    BY <1>15
  <2>1. Type(now) # UL
    BY <1>3, SentFacts
  <2>2. now \in 2 .. now + 2
    <3> HIDE DEF sent
    <3> QED BY <1>10
  <2> HIDE DEF sent
  <2> QED BY <1>3, <1>10, <1>14, <2>1, <2>2
<1>17. \A t : t \in ToSendUl <=> t \in Slots /\ t >= now /\ HasUplink(t) /\ Sent(t) = now
  <2>1. \A t \in ToSendUl : t \in Nat
    BY <1>3 DEF ToSendUl, UlSlots
  <2>2. \A t \in Nat : Sent(t) = now => t \in Slots /\ t >= now
    <3> SUFFICES ASSUME NEW t \in Nat, Sent(t) = now
                 PROVE  t \in Slots /\ t >= now
      OBVIOUS
    <3>1. /\ now <= t /\ now >= t - n2 - Len(tdd) + 1
          /\ n2 \in Nat /\ n2 <= MaxDelay
      BY <1>3, SentFacts
    <3>2. /\ Len(tdd) \in Nat /\ Len(tdd) <= MaxLength
          /\ MaxDelay \in Nat /\ MaxLength \in Nat /\ MaxSlot \in Nat
      BY <1>3, PatternFacts, SlotAssumption
    <3>3. Slots = 0 .. MaxSlot + 2 + MaxDelay + MaxLength
      BY DEF Slots, L1L2CtrlLatency
    <3> QED BY <1>1, <1>3, <3>1, <3>2, <3>3
  <2>3. \A t \in Nat : t \in ToSendUl <=> HasUplink(t) /\ Sent(t) = now
    BY <1>3, DciMaps
  <2> QED BY <1>3, <2>1, <2>2, <2>3
<1>18. queue \in Queue(Queued)
  <2>1. Rar \in SUBSET Queued /\ Mib \in SUBSET Queued
    BY DEF Rar, Mib, Queued, AgreeInv, PhyInv, Place
  <2>2. EnqueueCtrlMessage(ctrlQueue, Rar) \in Queue(Queued)
    BY <2>1, QueueFacts DEF AgreeInv, PhyInv, DciInv
  <2> QED BY <2>1, <2>2, QueueFacts
<1>19. \A m \in queue[1] : m.type \notin {"DlDci", "UlDci"}
  <2> HIDE DEF queue
  <2>1. queue[1] \in SUBSET Queued
    BY <1>18 DEF Queue
  <2>2. \A m \in Queued : m.type \notin {"DlDci", "UlDci"}
    BY DEF Queued
  <2> QED BY <2>1, <2>2
<1>20. \A m \in ctrlMsgs : m.type = "Rar" /\ RarIsDue(m) /\ m.made + 2 < now
  BY <1>1 DEF AgreeInv, CtrlInv
<1>21. /\ Pops => ctrlMsgs' = ctrlMsgs \cup queue[1] \cup Dcis(sent)
       /\ ~Pops => ctrlMsgs' = ctrlMsgs
  BY <1>2
<1>22. \A m : m \in Dcis(sent) <=>
         \/ /\ m = [type |-> "DlDci", k1 |-> HarqSlot(now)]
            /\ \E t \in ToSendDl : "DlData" \in sent[t]
         \/ \E t \in ToSendUl : /\ "UlData" \in sent[t]
                                /\ m = [type |-> "UlDci", slot |-> t]
  <2> HIDE DEF sent
  <2> QED BY DEF Dcis
<1>23. \A t : t \in UlDcis' <=>
         t \in Slots /\ t >= now /\ Sent(t) = now /\ "UlData" \in sent[t]
  <2> HIDE DEF sent, queue
  <2>1. \A t : t \in UlDcis' <=> \E m \in ctrlMsgs' : m.type = "UlDci" /\ m.slot = t
    BY DEF UlDcis
  <2>2. \A m \in Dcis(sent) : m.type = "UlDci" =>
          m.slot \in ToSendUl /\ "UlData" \in sent[m.slot]
    BY <1>22
  <2>3. \A t \in ToSendUl : "UlData" \in sent[t] =>
          \E m \in Dcis(sent) : m.type = "UlDci" /\ m.slot = t
    <3> SUFFICES ASSUME NEW t \in ToSendUl, "UlData" \in sent[t]
                 PROVE  \E m \in Dcis(sent) : m.type = "UlDci" /\ m.slot = t
      OBVIOUS
    <3> DEFINE dci == [type |-> "UlDci", slot |-> t]
    <3>1. dci.type = "UlDci" /\ dci.slot = t
      OBVIOUS
    <3>2. dci \in Dcis(sent)
      BY DEF Dcis
    <3> QED BY <3>1, <3>2
  <2>4. \A t \in Slots : t >= now /\ "UlData" \in sent[t] => HasUplink(t)
    BY <1>10
  <2>5. \A m \in ctrlMsgs' : m.type = "UlDci" => Pops /\ m \in Dcis(sent)
    BY <1>19, <1>20, <1>21
  <2> QED BY <1>16, <1>17, <1>21, <2>1, <2>2, <2>3, <2>4, <2>5
<1>24. DlDcis' # {} <=> "DlData" \in currSlot'
  <2>1. \A t : t \in ToSendDl <=> t = now /\ Type(now) # UL
    <3>1. \A t \in ToSendDl : t \in Nat
      BY <1>3 DEF ToSendDl, DlSlots
    <3>2. \A t \in Nat : t \in ToSendDl <=> t = now /\ Type(t) # UL
      BY <1>3, DciMaps
    <3> QED BY <1>3, <3>1, <3>2
  <2>2. "DlData" \in SlotToStart => Type(now) # UL
    <3> HIDE DEF sent
    <3> QED BY <1>3, <1>10, <1>14
  <2> HIDE DEF sent, queue
  <2>3. DlDcis' # {} <=> \E m \in ctrlMsgs' : m.type = "DlDci"
    BY DEF DlDcis
  <2>4. \A m \in ctrlMsgs' : m.type = "DlDci" => Pops /\ m \in Dcis(sent)
    BY <1>19, <1>20, <1>21
  <2>5. (\E m \in Dcis(sent) : m.type = "DlDci") <=> "DlData" \in SlotToStart
    <3> DEFINE dci == [type |-> "DlDci", k1 |-> HarqSlot(now)]
    <3>1. ASSUME NEW m \in Dcis(sent), m.type = "DlDci"
          PROVE  "DlData" \in SlotToStart
      <4>1. \A t : [type |-> "UlDci", slot |-> t].type = "UlDci"
        OBVIOUS
      <4>2. \E t \in ToSendDl : "DlData" \in sent[t]
        BY <1>22, <3>1, <4>1
      <4> QED BY <1>14, <2>1, <4>2
    <3>2. ASSUME "DlData" \in SlotToStart
          PROVE  dci \in Dcis(sent)
      <4>1. now \in ToSendDl /\ "DlData" \in sent[now]
        BY <1>14, <2>1, <2>2, <3>2
      <4> QED BY <4>1 DEF Dcis
    <3>3. dci.type = "DlDci"
      OBVIOUS
    <3> HIDE DEF dci
    <3> QED BY <3>1, <3>2, <3>3
  <2> QED BY <1>1, <1>15, <1>21, <2>3, <2>4, <2>5
<1>25. UeContent'
  <2>1. SlotToStart \subseteq Data \cup Ctrl
    <3>1. slotAllocInfo[now] \subseteq Data \cup Ctrl
      BY <1>3 DEF AgreeInv, PhyInv, DciInv
    <3> QED BY <3>1 DEF SlotToStart, Ctrl
  <2>2. \A t : UeSlot(t)' = UeSlot(t) /\ (Heard(t)' <=> Sent(t) < now)
               /\ (Heard(t) <=> Sent(t) < now)
    BY <1>1, <1>3, SameTimes DEF UeSlot, Heard, ue
  <2>3. \A t \in Slots : t >= now =>
          ("UlData" \in UeSlot(t) <=> "UlData" \in slotAllocInfo[t] /\ Sent(t) < now)
    <3>1. \A t : GnbSlot(t) = slotAllocInfo[t]
      BY <1>1 DEF GnbSlot
    <3> QED BY <2>2, <3>1 DEF AgreeInv, UeContent
  <2>4. \A t \in Slots : Sent(t) < now => Sent(t) <= now
    <3>1. \A t \in Slots : Sent(t) \in Int
      BY <1>3, SentFacts
    <3> QED BY <1>3, <3>1
  <2>5. \A t \in Slots : t >= now =>
          ("UlData" \in UeSlot(t)' <=> "UlData" \in GnbSlot(t)' /\ Heard(t)')
    <3> HIDE DEF sent
    <3> QED BY <1>6, <1>10, <2>2, <2>3, <2>4
  <2>6. \A t : t \in UlDcis' <=>
          t \in Slots /\ t >= now /\ Sent(t) = now /\ "UlData" \in GnbSlot(t)'
    <3> HIDE DEF sent
    <3> QED BY <1>6, <1>23
  <2>7. ueCurrSlot' \subseteq Data \cup Ctrl /\ currSlot' \subseteq Data \cup Ctrl
    BY <1>1, <2>1 DEF AgreeInv, UeContent, ue
  <2> HIDE DEF sent, queue, allocs
  <2> QED BY <1>1, <1>3, <1>24, <2>5, <2>6, <2>7, SameTimes DEF UeContent
<1>26. /\ queue[1] = ctrlQueue[1] \cup Mib /\ queue[2] = ctrlQueue[2]
       /\ queue[3] = ctrlQueue[3] \cup Rar
  <2>1. ctrlQueue \in Queue(Queued)
    BY DEF AgreeInv, PhyInv, DciInv
  <2>2. ctrlQueue \in [1 .. 3 -> SUBSET Queued]
    BY <2>1 DEF Queue
  <2> DEFINE q == [ctrlQueue EXCEPT ![3] = ctrlQueue[3] \cup Rar]
  <2>3. q = EnqueueCtrlMessage(ctrlQueue, Rar)
    BY DEF EnqueueCtrlMessage, L1L2CtrlLatency
  <2>4. DOMAIN q = 1 .. 3
    BY <2>2
  <2>5. q[1] = ctrlQueue[1] /\ q[2] = ctrlQueue[2] /\ q[3] = ctrlQueue[3] \cup Rar
    BY <2>2
  <2> HIDE DEF q
  <2>6. queue = [q EXCEPT ![1] = q[1] \cup Mib]
    BY <2>3 DEF EnqueueCtrlMsgNow
  <2> HIDE DEF queue
  <2>7. queue[1] = q[1] \cup Mib /\ queue[2] = q[2] /\ queue[3] = q[3]
    BY <2>4, <2>6
  <2> QED BY <2>5, <2>7
<1>27. \A m \in Rar : m.type = "Rar" /\ RarIsDue(m) /\ m.made = now
  <2> SUFFICES ASSUME Rar # {}
               PROVE  RarIsDue([type |-> "Rar", made |-> now])
    BY DEF Rar
  <2>1. \E t \in GenerateDl : TRUE
    BY DEF Rar, AnswersPreambles
  <2>2. \A t \in GenerateDl : t \in Nat
    BY <1>3 DEF GenerateDl, DlSlots
  <2>3. Type(now + 2) # UL
    BY <1>3, <2>1, <2>2, DciMaps
  <2> QED BY <1>3, <2>3 DEF RarIsDue
<1>28. /\ \A m \in Mib : m.type = "Mib"
       /\ Mib # {} => MibOrSib
  BY DEF Mib
<1>29. MibOrSib => Pops
  BY <1>15 DEF SlotToStart
<1>30. \A i \in 1 .. 3 : \A m \in ctrlQueue[i] :
         m.type = "Rar" /\ RarIsDue(m) /\ m.made + 3 - i <= now
  <2>1. \A i \in 1 .. 3 : \A m \in ctrlQueue[i] :
          m.type = "Rar" /\ RarIsDue(m) /\ m.made + 2 - i <= now - 1
    BY <1>8 DEF AgreeInv, CtrlInv
  <2> QED BY <1>3, <2>1 DEF RarIsDue
<1>31. \A i \in 1 .. 3 : \A m \in ctrlQueue'[i] :
         m.type = "Rar" /\ RarIsDue(m) /\ m.made + 2 - i <= now
  <2> HIDE DEF queue
  <2>1. CASE Pops
    <3>1. ctrlQueue' = PopCurrentSlotCtrlMsgs(queue)
      BY <1>2, <2>1 DEF queue
    <3>2. ctrlQueue'[1] = queue[2] /\ ctrlQueue'[2] = queue[3] /\ ctrlQueue'[3] = {}
      BY <1>18, <3>1 DEF PopCurrentSlotCtrlMsgs, Queue
    <3>3. \A m \in queue[2] : m.type = "Rar" /\ RarIsDue(m) /\ m.made + 1 <= now
      BY <1>26, <1>30
    <3>4. \A m \in queue[3] : m.type = "Rar" /\ RarIsDue(m) /\ m.made <= now
      BY <1>3, <1>26, <1>27, <1>30 DEF RarIsDue
    <3>5. \A i \in 1 .. 3 : i = 1 \/ i = 2 \/ i = 3
      OBVIOUS
    <3> QED BY <1>3, <3>2, <3>3, <3>4, <3>5 DEF RarIsDue
  <2>2. CASE ~Pops
    <3>1. ctrlQueue' = queue
      BY <1>2, <2>2 DEF queue
    <3>2. Mib = {}
      BY <1>28, <1>29, <2>2
    <3>3. \A m \in queue[3] : m.type = "Rar" /\ RarIsDue(m) /\ m.made <= now
      BY <1>3, <1>26, <1>27, <1>30 DEF RarIsDue
    <3>4. \A i \in 1 .. 2 : queue[i] = ctrlQueue[i]
      BY <1>26, <3>2
    <3>5. \A i \in 1 .. 3 : i \in 1 .. 2 \/ i = 3
      OBVIOUS
    <3> QED BY <1>3, <1>30, <3>1, <3>3, <3>4, <3>5 DEF RarIsDue
  <2> QED BY <2>1, <2>2
<1>32. \A m \in ctrlMsgs' :
         /\ m.type = "Rar" => RarIsDue(m) /\ m.made + 2 <= now
         /\ \/ m.type \in {"DlDci", "UlDci"}
            \/ m.type = "Mib" /\ MibOrSib
            \/ m.type = "Rar"
  <2> HIDE DEF queue, sent
  <2>1. \A m \in Dcis(sent) : m.type \in {"DlDci", "UlDci"} /\ m.type # "Rar"
    BY <1>22
  <2>2. \A m \in queue[1] :
          /\ m.type = "Rar" => RarIsDue(m) /\ m.made + 2 <= now
          /\ (m.type = "Mib" /\ MibOrSib) \/ m.type = "Rar"
    <3>1. \A m \in ctrlQueue[1] : m.type = "Rar" /\ RarIsDue(m) /\ m.made + 2 <= now
      BY <1>3, <1>30 DEF RarIsDue
    <3> QED BY <1>26, <1>28, <3>1
  <2>3. \A m \in ctrlMsgs : m.type = "Rar" /\ RarIsDue(m) /\ m.made + 2 <= now
    BY <1>3, <1>20 DEF RarIsDue
  <2> QED BY <1>21, <2>1, <2>2, <2>3
<1>33. CtrlInv'
  <2> HIDE DEF queue, sent, allocs
  <2> QED BY <1>1, <1>3, <1>8, <1>12, <1>31, <1>32, SameTimes DEF CtrlInv
<1> QED BY <1>4, <1>13, <1>25, <1>33 DEF AgreeInv

LEMMA AgreeInit ==
  ASSUME Init
  PROVE  AgreeInv
<1>1. /\ now = 0 /\ phase = "gnb" /\ currSlot = {} /\ ueCurrSlot = {}
      /\ slotAllocInfo = [s \in Slots |-> {}] /\ ueAllocInfo = [s \in Slots |-> {}]
      /\ ctrlQueue = [i \in 1 .. 3 |-> {}] /\ ctrlMsgs = {}
  BY DEF Init, EmptyQueue, L1L2CtrlLatency
<1>2. PhyInv
  BY PhyInit
<1>3. \A t \in Slots : GnbSlot(t) = {} /\ UeSlot(t) = {}
  BY <1>1 DEF GnbSlot, UeSlot
<1>4. \A s : ~Indicated(s)
  BY <1>1 DEF Indicated, Begun
<1>5. GnbContent
  BY <1>1, <1>3, <1>4 DEF GnbContent
<1>6. UeContent
  BY <1>1, <1>3 DEF UeContent, UlDcis
<1>7. CtrlInv
  BY <1>1 DEF CtrlInv
<1> QED BY <1>2, <1>5, <1>6, <1>7 DEF AgreeInv

LEMMA AgreeStep ==
  ASSUME AgreeInv, [Next]_vars
  PROVE  AgreeInv'
<1>1. CASE SendRachPreamble
  BY <1>1, SendRachAgrees
<1>2. CASE GnbStartSlot
  BY <1>2, GnbStartSlotAgrees
<1>3. CASE UeStartSlot
  BY <1>3, UeStartSlotAgrees
<1>4. CASE DlCtrl
  BY <1>4, DlCtrlAgrees
<1>5. CASE DlData
  BY <1>5, DlDataAgrees
<1>6. CASE UlCtrl
  BY <1>6, UlCtrlAgrees
<1>7. CASE UNCHANGED vars
  <2>1. UNCHANGED <<config, now, phase, gnb, ue>>
    BY <1>7 DEF vars
  <2>2. UNCHANGED <<slotAllocInfo, currSlot, ctrlQueue, ctrlMsgs, ueAllocInfo,
                    ueCurrSlot>>
    BY <2>1 DEF gnb, ue
  <2>3. Config
    BY DEF AgreeInv, PhyInv
  <2>4. PhyInv'
    BY <1>7, PhyStep DEF AgreeInv
  <2>5. /\ GnbContent' /\ Begun' = Begun /\ \A t : GnbSlot(t)' = GnbSlot(t)
        /\ (MibOrSib' <=> MibOrSib) /\ Type(now)' = Type(now)
    BY <2>1, <2>2, SameGnb
  <2>6. \A t : UeSlot(t)' = UeSlot(t) /\ (Heard(t)' <=> Heard(t))
    BY <2>1, <2>2, <2>3, SameTimes DEF UeSlot, Heard
  <2>7. UlDcis' = UlDcis /\ DlDcis' = DlDcis
    BY <2>2 DEF UlDcis, DlDcis
  <2>8. UeContent'
    BY <2>1, <2>2, <2>3, <2>5, <2>6, <2>7, SameTimes DEF AgreeInv, UeContent
  <2>9. CtrlInv'
    BY <2>1, <2>2, <2>3, <2>5, SameTimes DEF AgreeInv, CtrlInv
  <2> QED BY <2>4, <2>5, <2>8, <2>9 DEF AgreeInv
<1> QED BY <1>1, <1>2, <1>3, <1>4, <1>5, <1>6, <1>7 DEF Next

-----------------------------------------------------------------------------
\* The theorems.

LEMMA AgreeInvGivesSlotsAgree ==
  ASSUME AgreeInv
  PROVE  SlotsAgree
<1> SUFFICES ASSUME phase = "data"
             PROVE  /\ currSlot \cap Data = ueCurrSlot \cap Data
                    /\ now >= Ahead =>
                         currSlot \in {ueCurrSlot}
                           \cup (IF MibOrSib THEN {ueCurrSlot \cup {"DlCtrl"}} ELSE {})
  BY DEF SlotsAgree
<1>1. Config /\ Place /\ now \in Nat /\ now \in Slots
  BY SlotAssumption DEF AgreeInv, PhyInv, Place, Slots, L1L2CtrlLatency
<1>2. GnbSlot(now) = currSlot /\ UeSlot(now) = ueCurrSlot
  BY DEF GnbSlot, UeSlot
<1>3. /\ Sent(now) \in Int /\ Sent(now) <= now
      /\ Sent(now) >= now - n2 - Len(tdd) + 1 /\ n2 \in Nat
  BY <1>1, SentFacts
<1>4. Heard(now)
  BY <1>3 DEF Heard
<1>5. /\ "UlData" \in ueCurrSlot <=> "UlData" \in currSlot
      /\ "DlData" \in ueCurrSlot <=> "DlData" \in currSlot
      /\ "DlCtrl" \in ueCurrSlot <=> Type(now) # UL
      /\ currSlot \subseteq Data \cup Ctrl /\ ueCurrSlot \subseteq Data \cup Ctrl
  BY <1>1, <1>2, <1>4 DEF AgreeInv, UeContent
<1>6. currSlot \cap Data = ueCurrSlot \cap Data
  BY <1>5 DEF Data
<1>7. ASSUME now >= Ahead
      PROVE  currSlot \in {ueCurrSlot}
               \cup (IF MibOrSib THEN {ueCurrSlot \cup {"DlCtrl"}} ELSE {})
  <2>1. Len(tdd) \in Nat /\ Len(tdd) > 0 /\ Ahead = 2 + n2 + Len(tdd)
    BY <1>1, PatternFacts DEF Ahead, L1L2CtrlLatency
  <2>2. Indicated(now) /\ Indicated(Sent(now))
    BY <1>1, <1>3, <1>7, <2>1 DEF Indicated, Begun
  <2>3. Type(now) \in 0 .. 3
    BY <1>1, TypeRange
  <2>4. "UlCtrl" \in ueCurrSlot <=> Type(now) # DL
    BY DEF AgreeInv, PhyInv, UeSlotInv
  <2>5. "UlCtrl" \in currSlot <=> Type(now) # DL
    <3>1. "UlCtrl" \in currSlot <=> Type(now) = S \/ HasUplink(now)
      BY <1>1, <1>2, <2>2 DEF GnbContent, AgreeInv
    <3> QED BY <2>3, <3>1 DEF HasUplink, DL, S, F, UL
  <2>6. "DlCtrl" \in currSlot <=> Type(now) # UL \/ MibOrSib
    BY <1>1, <1>2, <2>2 DEF GnbContent, AgreeInv
  <2>7. \A x \in Data \cup Ctrl : x # "DlCtrl" => (x \in currSlot <=> x \in ueCurrSlot)
    BY <1>5, <2>4, <2>5 DEF Data, Ctrl
  <2>8. CASE "DlCtrl" \in ueCurrSlot <=> "DlCtrl" \in currSlot
    BY <1>5, <2>7, <2>8
  <2>9. CASE MibOrSib /\ currSlot = ueCurrSlot \cup {"DlCtrl"}
    BY <2>9
  <2>10. CASE ~("DlCtrl" \in ueCurrSlot <=> "DlCtrl" \in currSlot)
    <3>1. MibOrSib /\ "DlCtrl" \in currSlot
      BY <1>5, <2>6, <2>10
    <3>2. currSlot = ueCurrSlot \cup {"DlCtrl"}
      BY <1>5, <2>7, <3>1
    <3> QED BY <2>9, <3>1, <3>2
  <2> QED BY <2>8, <2>10
<1> QED BY <1>6, <1>7

LEMMA AgreeInvGivesNoneLeftOver ==
  ASSUME AgreeInv
  PROVE  NoCtrlLeftOverUnlessDelayed
<1> SUFFICES ASSUME phase \in {"data", "ulCtrl"}, NEW m \in ctrlMsgs
             PROVE  m.type = "Rar" /\ now > m.made + L1L2CtrlLatency
  BY DEF NoCtrlLeftOverUnlessDelayed
<1>1. m.type = "Rar" /\ m.made + 2 < now /\ m.made \in Nat /\ now \in Nat
  BY DEF AgreeInv, CtrlInv, RarIsDue, PhyInv, Place
<1> QED BY <1>1 DEF L1L2CtrlLatency

\* What TypeOK says beyond AgreeInv.
TypeInv ==
  /\ granted \in BOOLEAN
  /\ ctrlMsgs \subseteq Message /\ ueCtrlMsgs \subseteq UeMessage
  /\ rachList \in Nat /\ k1 \in Nat
  /\ feedback \subseteq [slot : Nat, at : Nat]

LEMMA DcisTyped ==
  ASSUME Config, now \in Nat, NEW allocs
  PROVE  Dcis(allocs) \subseteq Message
<1>1. HarqSlot(now) \in Nat
  <2>1. n1 \in Nat /\ Len(tdd) \in Nat
    BY SlotAssumption, PatternFacts DEF Config
  <2>2. HarqSlot(now) \in n1 .. n1 + Len(tdd) - 1
    BY HarqSlotFacts
  <2> QED BY <2>1, <2>2
<1>2. \A t \in ToSendUl : t \in Nat
  BY DEF ToSendUl, UlSlots
<1> QED BY <1>1, <1>2 DEF Dcis, Message

LEMMA TypeStep ==
  ASSUME AgreeInv, TypeInv, [Next]_vars
  PROVE  TypeInv'
<1>1. Config /\ now \in Nat
  BY DEF AgreeInv, PhyInv, Place
<1>2. CASE SendRachPreamble
  BY <1>2 DEF SendRachPreamble, TypeInv, gnb
<1>3. CASE GnbStartSlot
  <2>1. PICK idle :
          LET allocs == Prepared(idle)
              queue == EnqueueCtrlMsgNow(EnqueueCtrlMessage(ctrlQueue, Rar), Mib)
          IN  ctrlMsgs' = IF Pops THEN ctrlMsgs \cup queue[1]
                                         \cup Dcis([allocs EXCEPT ![now] = SlotToStart])
                          ELSE ctrlMsgs
    BY <1>3 DEF GnbStartSlot
  <2> DEFINE sent == [Prepared(idle) EXCEPT ![now] = SlotToStart]
             queue == EnqueueCtrlMsgNow(EnqueueCtrlMessage(ctrlQueue, Rar), Mib)
  <2>2. queue \in Queue(Queued)
    <3>1. Rar \in SUBSET Queued /\ Mib \in SUBSET Queued
      BY <1>1 DEF Rar, Mib, Queued
    <3>2. EnqueueCtrlMessage(ctrlQueue, Rar) \in Queue(Queued)
      BY <3>1, QueueFacts DEF AgreeInv, PhyInv, DciInv
    <3> QED BY <3>1, <3>2, QueueFacts
  <2>3. Dcis(sent) \subseteq Message
    BY <1>1, DcisTyped
  <2> HIDE DEF queue, sent
  <2>4. queue[1] \subseteq Message
    <3>1. queue[1] \in SUBSET Queued
      BY <2>2 DEF Queue
    <3> QED BY <3>1 DEF Queued, Message
  <2>5. ctrlMsgs' \subseteq Message
    BY <2>1, <2>3, <2>4 DEF TypeInv, queue, sent
  <2>6. granted' \in BOOLEAN /\ rachList' \in Nat /\ UNCHANGED ue
    BY <1>3 DEF GnbStartSlot, Keeps, Starts, TypeInv
  <2> QED BY <2>5, <2>6 DEF TypeInv, ue
<1>4. CASE UeStartSlot
  <2> DEFINE due == {f \in feedback : f.at = now}
             harq == {[type |-> "DlHarq", slot |-> f.slot] : f \in due}
             queue == EnqueueCtrlMsgNow(ueCtrlQueue, harq)
  <2>1. /\ feedback' = feedback \ due /\ ueCtrlMsgs' = ueCtrlMsgs \cup queue[1]
        /\ UNCHANGED <<gnb, k1>>
    BY <1>4 DEF UeStartSlot
  <2>2. harq \in SUBSET UeMessage
    BY DEF TypeInv, UeMessage
  <2>3. queue \in Queue(UeMessage)
    <3> HIDE DEF harq
    <3> QED BY <2>2, QueueFacts DEF AgreeInv, PhyInv, FeedbackInv
  <2> HIDE DEF queue, due, harq
  <2>4. queue[1] \in SUBSET UeMessage
    BY <2>3 DEF Queue
  <2> QED BY <2>1, <2>4 DEF TypeInv, gnb, due
<1>5. CASE DlCtrl
  <2>1. /\ ctrlMsgs' = {} \/ ctrlMsgs' = ctrlMsgs
        /\ UNCHANGED <<granted, rachList, ueCtrlMsgs, feedback>>
    BY <1>5 DEF DlCtrl
  <2>2. k1' \in Nat
    <3>1. k1' = k1 \/ k1' = IF DlDcis = {} THEN k1 ELSE (CHOOSE d \in DlDcis : TRUE).k1
      BY <1>5 DEF DlCtrl
    <3>2. \A d \in DlDcis : d.k1 \in Nat
      BY DEF DlDcis, TypeInv, Message
    <3>3. DlDcis # {} => (CHOOSE d \in DlDcis : TRUE) \in DlDcis
      OBVIOUS
    <3> QED BY <3>1, <3>2, <3>3 DEF TypeInv
  <2> QED BY <2>1, <2>2 DEF TypeInv
<1>6. CASE DlData
  <2> DEFINE received == "DlData" \in currSlot \cap ueCurrSlot
  <2>1. /\ feedback' = feedback \cup
             (IF received /\ k1 > 0 THEN {[slot |-> now, at |-> now + k1]} ELSE {})
        /\ UNCHANGED <<gnb, ueCtrlMsgs, k1>>
    BY <1>6 DEF DlData
  <2>2. [slot |-> now, at |-> now + k1] \in [slot : Nat, at : Nat]
    BY <1>1 DEF TypeInv
  <2> QED BY <2>1, <2>2 DEF TypeInv, gnb
<1>7. CASE UlCtrl
  <2> DEFINE heard == {m \in ueCtrlMsgs : m.type = "Preamble"}
  <2>1. /\ rachList' = rachList + Cardinality(heard) \/ rachList' = rachList
        /\ ueCtrlMsgs' = {} \/ ueCtrlMsgs' = ueCtrlMsgs
        /\ UNCHANGED <<granted, ctrlMsgs, k1, feedback>>
    BY <1>7 DEF UlCtrl
  <2>2. Cardinality(heard) \in Nat
    <3>1. heard \subseteq {[type |-> "Preamble"]}
      BY DEF TypeInv, UeMessage
    <3>2. IsFiniteSet({[type |-> "Preamble"]})
      BY FS_Singleton
    <3>3. IsFiniteSet(heard)
      <4> HIDE DEF heard
      <4> QED BY <3>1, <3>2, FS_Subset
    <3> QED BY <3>3, FS_CardinalityType
  <2> HIDE DEF heard
  <2> QED BY <2>1, <2>2 DEF TypeInv
<1>8. CASE UNCHANGED vars
  BY <1>8 DEF vars, gnb, ue, TypeInv
<1> QED BY <1>2, <1>3, <1>4, <1>5, <1>6, <1>7, <1>8 DEF Next

LEMMA InvGivesTypeOK ==
  ASSUME AgreeInv, TypeInv
  PROVE  TypeOK
<1>1. /\ tdd \in Patterns /\ n1 \in N1Delays /\ n2 \in N2Delays
      /\ now \in Nat /\ phase \in Phases
      /\ slotAllocInfo \in [Slots -> SUBSET (Data \cup Ctrl)]
      /\ currSlot \subseteq Data \cup Ctrl /\ ueCurrSlot \subseteq Data \cup Ctrl
  BY DEF AgreeInv, PhyInv, Config, Place, DciInv, UeContent
<1>2. ueAllocInfo \in [Slots -> SUBSET Data]
  BY DEF AgreeInv, PhyInv, UeSlotInv, Data
<1>3. DOMAIN EmptyQueue = 1 .. 3
  BY DEF EmptyQueue, L1L2CtrlLatency
<1>4. /\ DOMAIN ctrlQueue = 1 .. 3 /\ \A i \in 1 .. 3 : ctrlQueue[i] \subseteq Message
  <2>1. ctrlQueue \in [1 .. 3 -> SUBSET Queued]
    BY DEF AgreeInv, PhyInv, DciInv, Queue
  <2>2. Queued \subseteq Message
    BY DEF Queued, Message
  <2> QED BY <2>1, <2>2
<1>5. /\ DOMAIN ueCtrlQueue = 1 .. 3
      /\ \A i \in 1 .. 3 : ueCtrlQueue[i] \subseteq UeMessage
  BY DEF AgreeInv, PhyInv, FeedbackInv, Queue
<1> QED BY <1>1, <1>2, <1>3, <1>4, <1>5 DEF TypeOK, TypeInv

\* Every variable keeps its type, for every pattern and all delays: in
\* particular the queues have a list for each slot of the latency.
THEOREM PhyTypeOK == Spec => []TypeOK
<1>1. Init => AgreeInv /\ TypeInv
  <2>1. Init => TypeInv
    <3> SUFFICES ASSUME Init PROVE TypeInv
      OBVIOUS
    <3>1. granted = FALSE
      BY DEF Init
    <3>2. ctrlMsgs = {} /\ ueCtrlMsgs = {} /\ feedback = {} /\ rachList = 0 /\ k1 = 0
      BY DEF Init
    <3> QED BY <3>1, <3>2 DEF TypeInv
  <2> QED BY <2>1, AgreeInit
<1>2. AgreeInv /\ TypeInv /\ [Next]_vars => AgreeInv' /\ TypeInv'
  BY AgreeStep, TypeStep
<1>3. AgreeInv /\ TypeInv => TypeOK
  BY InvGivesTypeOK
<1> QED BY <1>1, <1>2, <1>3, PTL DEF Spec

\* For every TDD pattern and every N1 and N2, the gNB, from what its MAC
\* prepared, and the UE, from the DCIs it heard, believe the same of every
\* slot whose data begins; only a MIB's DL CTRL in an uplink slot differs.
THEOREM PhySlotsAgree == Spec => []SlotsAgree
<1>1. Init => AgreeInv
  BY AgreeInit
<1>2. AgreeInv /\ [Next]_vars => AgreeInv'
  BY AgreeStep
<1>3. AgreeInv => SlotsAgree
  BY AgreeInvGivesSlotsAgree
<1> QED BY <1>1, <1>2, <1>3, PTL DEF Spec

\* For every TDD pattern and every N1 and N2, the DL CTRL of a slot takes
\* all control messages: DoStartSlot's assertion can fail only because of
\* a random access response that was held back beyond its slot.
THEOREM PhyNoCtrlLeftOver == Spec => []NoCtrlLeftOverUnlessDelayed
<1>1. Init => AgreeInv
  BY AgreeInit
<1>2. AgreeInv /\ [Next]_vars => AgreeInv'
  BY AgreeStep
<1>3. AgreeInv => NoCtrlLeftOverUnlessDelayed
  BY AgreeInvGivesNoneLeftOver
<1> QED BY <1>1, <1>2, <1>3, PTL DEF Spec

=============================================================================
