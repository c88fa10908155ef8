------------------------ MODULE NrUplinkSchedulingProofs ------------------------
(***************************************************************************)
(* Proofs about NrUplinkScheduling, for any TDD pattern, delays, numbers   *)
(* of HARQ processes and sizes.  The argument: at any time there is at     *)
(* most one thing under way for a HARQ process, its DCI, its transport     *)
(* block, its feedback or an entry of m_ulHarqToRetransmit (OneThing), and *)
(* each of the first three arrives before the timer expires (InTime).  The *)
(* last section shows that NrUplinkScheduling implements StopAndWait.      *)
(***************************************************************************)
EXTENDS NrUplinkScheduling, ListProofs

OneThing ==
  /\ \A x, y \in dcis : x.h = y.h => x = y
  /\ \A x, y \in blocks : x.h = y.h => x = y
  /\ \A x \in dcis, y \in blocks : x.h # y.h
  /\ \A i, j \in DOMAIN feedback : feedback[i].h = feedback[j].h => i = j
  /\ \A i, j \in DOMAIN toRetransmit : toRetransmit[i] = toRetransmit[j] => i = j
  /\ \A i \in DOMAIN feedback, j \in DOMAIN toRetransmit :
       feedback[i].h # toRetransmit[j]
  /\ \A x \in InFlight : /\ \A i \in DOMAIN feedback : feedback[i].h # x.h
                         /\ \A i \in DOMAIN toRetransmit : toRetransmit[i] # x.h

\* The slots until the gNB has the feedback: one less once this slot's DCIs,
\* or blocks, are dealt with.
DcisDone == IF phase \in {"air", "schedule"} THEN 1 ELSE 0
BlocksDone == IF phase = "schedule" THEN 1 ELSE 0

InTime ==
  /\ \A d \in dcis : process[d.h].timer + d.left + d.k2 + DcisDone < NumHarqProcess
  /\ \A b \in blocks : process[b.h].timer + b.left + BlocksDone < NumHarqProcess
  /\ \A i \in DOMAIN feedback : process[feedback[i].h].timer < NumHarqProcess

\* What is under way is about the block the process holds.
Current ==
  /\ \A x \in InFlight :
       process[x.h].status = "WAITING_FEEDBACK" /\ process[x.h].rv = x.rv
  /\ \A b \in blocks : b.data = packet[b.h]
  /\ \A i \in DOMAIN feedback : IsActive(process[feedback[i].h])
  /\ \A i \in DOMAIN toRetransmit : IsActive(process[toRetransmit[i]])

UplinkInv == TypeOK /\ OneThing /\ InTime /\ Current

-----------------------------------------------------------------------------
\* Helpers of the model.

LEMMA NumFacts == NumHarqProcess \in Nat /\ NumHarqProcess > 0
<1>1. NumHarqProcess \in Nat
  BY UplinkAssumption, FS_CardinalityType DEF NumHarqProcess
<1>2. NumHarqProcess # 0
  BY UplinkAssumption, FS_EmptySet DEF NumHarqProcess
<1> QED BY <1>1, <1>2

LEMMA AtMostFacts ==
  ASSUME NEW u \in Nat, NEW n \in Nat
  PROVE  AtMost(u, n) \in Nat /\ AtMost(u, n) <= n
BY DEF AtMost

LEMMA ReportedFacts ==
  ASSUME NEW n \in Nat
  PROVE  ReportedBytes(n) \in Nat
<1>1. BsrStep \in Nat /\ BsrStep > 0
  BY UplinkAssumption
<1> DEFINE m == n + BsrStep - 1
           q == m \div BsrStep
<1>2. m \in Nat
  BY <1>1
<1>3. q \in Nat
  BY <1>1, <1>2
<1> HIDE DEF q
<1>4. q * BsrStep \in Nat
  BY <1>1, <1>3
<1> QED BY <1>4 DEF ReportedBytes, q

\* Things that are under way, a slot later.
LEMMA LaterDcis ==
  ASSUME NEW D \in SUBSET Dci, NEW e \in Later(D)
  PROVE  /\ e \in Dci
         /\ \E d \in D : /\ d.left > 0 /\ e.left = d.left - 1
                         /\ e.h = d.h /\ e.rv = d.rv /\ e.k2 = d.k2
                         /\ e = [d EXCEPT !.left = @ - 1]
<1>1. PICK d \in D : d.left # 0 /\ e = [d EXCEPT !.left = d.left - 1]
  BY DEF Later, DueNow
<1>2. d.left \in 0 .. DciDelay /\ d.left \in Nat /\ DciDelay \in Nat
  BY UplinkAssumption DEF Dci
<1>3. d.left - 1 \in 0 .. DciDelay /\ d.left > 0
  BY <1>1, <1>2
<1> QED BY <1>1, <1>3 DEF Dci

LEMMA LaterBlocks ==
  ASSUME NEW B \in SUBSET Block, NEW e \in Later(B)
  PROVE  /\ e \in Block
         /\ \E b \in B : /\ b.left > 0 /\ e.left = b.left - 1
                         /\ e.h = b.h /\ e.rv = b.rv /\ e.data = b.data
                         /\ e = [b EXCEPT !.left = @ - 1]
<1>1. PICK b \in B : b.left # 0 /\ e = [b EXCEPT !.left = b.left - 1]
  BY DEF Later, DueNow
<1>2. b.left \in Nat
  BY DEF Block
<1>3. b.left - 1 \in Nat /\ b.left > 0
  BY <1>1, <1>2
<1> QED BY <1>1, <1>3 DEF Block

LEMMA LaterBsrs ==
  ASSUME NEW B \in SUBSET Bsr
  PROVE  Later(B) \subseteq Bsr
<1> SUFFICES ASSUME NEW e \in Later(B)
             PROVE  e \in Bsr
  OBVIOUS
<1>1. PICK b \in B : b.left # 0 /\ e = [b EXCEPT !.left = b.left - 1]
  BY DEF Later, DueNow
<1>2. b.left \in 0 .. DecodeDelay /\ DecodeDelay \in Nat
  BY UplinkAssumption DEF Bsr
<1>3. b.left - 1 \in 0 .. DecodeDelay
  BY <1>1, <1>2
<1> QED BY <1>1, <1>3 DEF Bsr

LEMMA PosFacts ==
  ASSUME pos \in Pattern
  PROVE  (pos + 1) % Length \in Pattern
BY UplinkAssumption DEF Pattern

\* What the end of the slot does to the delays.
LEMMA EndSlotFacts ==
  ASSUME TypeOK, EndSlot
  PROVE  /\ sr' \subseteq 0 .. SrDelay /\ bsrs' \subseteq Bsr
         /\ phase' = "slot" /\ pos' \in Pattern
<1>1. sr' \subseteq 0 .. SrDelay
  <2> SUFFICES ASSUME NEW m \in sr'
               PROVE  m \in 0 .. SrDelay
    OBVIOUS
  <2>1. PICK n \in sr : n # 0 /\ m = n - 1
    BY DEF EndSlot
  <2>2. n \in 0 .. SrDelay /\ SrDelay \in Nat
    BY UplinkAssumption DEF TypeOK
  <2> QED BY <2>1, <2>2
<1>2. bsrs' \subseteq Bsr
  BY LaterBsrs DEF EndSlot, TypeOK
<1> QED BY <1>1, <1>2, PosFacts DEF EndSlot, TypeOK

LEMMA LastCeFacts ==
  ASSUME TypeOK
  PROVE  LastCe \in Seq(Nat) /\ Len(LastCe) <= 1 /\ AfterBsr \in Nat
<1>1. CASE DueNow(bsrs) = {}
  <2>1. LastCe = ulCe
    BY <1>1 DEF LastCe
  <2>2. LastCe # <<>> => LastCe[1] \in Nat
    BY <2>1 DEF TypeOK
  <2>3. AfterBsr \in Nat
    <3>1. CASE LastCe = <<>>
      BY <3>1 DEF AfterBsr, TypeOK
    <3>2. CASE LastCe # <<>>
      <4>1. AfterBsr = ReportedBytes(LastCe[1])
        BY <3>2 DEF AfterBsr
      <4> QED BY <4>1, <3>2, <2>2, ReportedFacts
    <3> QED BY <3>1, <3>2
  <2>4. ulCe \in Seq(Nat) /\ Len(ulCe) <= 1
    BY DEF TypeOK
  <2> QED BY <2>1, <2>3, <2>4
<1>2. CASE DueNow(bsrs) # {}
  <2> DEFINE b == CHOOSE x \in DueNow(bsrs) : TRUE
  <2>1. b \in DueNow(bsrs)
    BY <1>2
  <2>2. b.size \in Nat
    BY <2>1 DEF DueNow, TypeOK, Bsr
  <2>3. LastCe = <<b.size>>
    BY <1>2 DEF LastCe
  <2> HIDE DEF b
  <2>4. LastCe \in Seq(Nat) /\ Len(LastCe) = 1 /\ LastCe[1] \in Nat
    BY <2>2, <2>3
  <2>5. LastCe # <<>>
    BY <2>4
  <2>6. AfterBsr = ReportedBytes(LastCe[1])
    BY <2>5 DEF AfterBsr
  <2>7. AfterBsr \in Nat
    BY <2>4, <2>6, ReportedFacts
  <2> QED BY <2>4, <2>7
<1> QED BY <1>1, <1>2

-----------------------------------------------------------------------------
\* The feedback of one call of the scheduler.

\* No process has two entries in a list of feedback.
OncePerProcess(fb) == \A k, l \in DOMAIN fb : fb[k].h = fb[l].h => k = l

\* fb is the feedback to be dealt with: that of each active process.
IsMerged(fb, procs) ==
  /\ \A k \in DOMAIN fb :
       /\ IsActive(procs[fb[k].h])
       /\ \/ \E i \in DOMAIN feedback : feedback[i] = fb[k]
          \/ ~fb[k].ok /\ \E i \in DOMAIN toRetransmit : toRetransmit[i] = fb[k].h
  /\ \A i \in DOMAIN feedback : IsActive(procs[feedback[i].h]) =>
       \E k \in DOMAIN fb : fb[k].h = feedback[i].h
  /\ \A i \in DOMAIN toRetransmit : IsActive(procs[toRetransmit[i]]) =>
       \E k \in DOMAIN fb : fb[k].h = toRetransmit[i]

LEMMA MergedFacts ==
  ASSUME TypeOK, OneThing, NEW procs
  PROVE  /\ Merged(procs) \in Seq(Feedback)
         /\ OncePerProcess(Merged(procs))
         /\ IsMerged(Merged(procs), procs)
<1> DEFINE n == Len(toRetransmit)
           m == Len(feedback)
           old == [i \in DOMAIN toRetransmit |-> [h |-> toRetransmit[i], ok |-> FALSE]]
           s == old \o feedback
           A == {f \in Feedback : IsActive(procs[f.h])}
           r == Filter(s, A)
<1>1. /\ feedback \in Seq(Feedback) /\ DOMAIN feedback = 1 .. m /\ m \in Nat
      /\ toRetransmit \in Seq(HarqIds) /\ DOMAIN toRetransmit = 1 .. n /\ n \in Nat
  BY DEF TypeOK
<1>2. old \in Seq(Feedback) /\ Len(old) = n
  <2>1. ASSUME NEW i \in DOMAIN toRetransmit
        PROVE  [h |-> toRetransmit[i], ok |-> FALSE] \in Feedback
    BY <1>1 DEF Feedback
  <2>2. old \in [1 .. n -> Feedback]
    BY <1>1, <2>1
  <2> QED BY <2>2, <1>1
<1>3. \A i \in 1 .. n : old[i].h = toRetransmit[i] /\ ~old[i].ok
  BY <1>1
<1> HIDE DEF old
<1>4. s \in Seq(Feedback) /\ DOMAIN s = 1 .. n + m
  BY <1>1, <1>2
<1>5. /\ \A i \in 1 .. n : s[i] = old[i]
      /\ \A i \in n + 1 .. n + m : s[i] = feedback[i - n] /\ i - n \in 1 .. m
      /\ \A i \in 1 .. m : s[n + i] = feedback[i] /\ n + i \in DOMAIN s
      /\ \A i \in DOMAIN s : i \in 1 .. n \/ i \in n + 1 .. n + m
  BY <1>1, <1>2, <1>4
<1> HIDE DEF s
<1> DEFINE key == [f \in Feedback |-> f.h]
<1>6. \A i \in DOMAIN s : s[i] \in Feedback /\ key[s[i]] = s[i].h
  BY <1>4
<1>7. ASSUME NEW i \in DOMAIN s, NEW j \in DOMAIN s, s[i].h = s[j].h
      PROVE  i = j
  <2>1. CASE i \in 1 .. n /\ j \in 1 .. n
    <3>1. toRetransmit[i] = toRetransmit[j]
      BY <2>1, <1>3, <1>5, <1>7
    <3> QED BY <3>1, <2>1, <1>1 DEF OneThing
  <2>2. CASE i \in n + 1 .. n + m /\ j \in n + 1 .. n + m
    <3>1. feedback[i - n].h = feedback[j - n].h
      BY <2>2, <1>5, <1>7
    <3>2. i - n = j - n
      BY <3>1, <2>2, <1>1, <1>5 DEF OneThing
    <3> QED BY <3>2, <2>2, <1>1
  <2>3. CASE i \in 1 .. n /\ j \in n + 1 .. n + m
    <3>1. toRetransmit[i] = feedback[j - n].h
      BY <2>3, <1>3, <1>5, <1>7
    <3> QED BY <3>1, <2>3, <1>1, <1>5 DEF OneThing
  <2>4. CASE j \in 1 .. n /\ i \in n + 1 .. n + m
    <3>1. toRetransmit[j] = feedback[i - n].h
      BY <2>4, <1>3, <1>5, <1>7
    <3> QED BY <3>1, <2>4, <1>1, <1>5 DEF OneThing
  <2> QED BY <2>1, <2>2, <2>3, <2>4, <1>5
<1>8. \A i, j \in DOMAIN s : key[s[i]] = key[s[j]] => i = j
  BY <1>6, <1>7
<1> HIDE DEF A, key
<1>9. /\ r \in Seq(Feedback)
      /\ \A k \in DOMAIN r : r[k] \in A /\ \E i \in DOMAIN s : s[i] = r[k]
      /\ \A i \in DOMAIN s : s[i] \in A => \E k \in DOMAIN r : r[k] = s[i]
  <2>1. r \in Seq(Feedback) /\ Keeps(r, s, A)
    BY <1>4, FilterElements
  <2> HIDE DEF r
  <2> QED BY <2>1 DEF Keeps
<1>10. \A k, l \in DOMAIN r : key[r[k]] = key[r[l]] => k = l
  BY <1>4, <1>8, FilterDistinct
<1>11. Merged(procs) = r
  BY DEF Merged, A, s, old
<1> HIDE DEF r
<1>12. \A k \in DOMAIN r : r[k] \in Feedback /\ key[r[k]] = r[k].h
  BY <1>6, <1>9
<1>13. OncePerProcess(r)
  BY <1>10, <1>12 DEF OncePerProcess
<1>14. ASSUME NEW k \in DOMAIN r
       PROVE  /\ IsActive(procs[r[k].h])
              /\ \/ \E i \in DOMAIN feedback : feedback[i] = r[k]
                 \/ ~r[k].ok /\ \E i \in DOMAIN toRetransmit : toRetransmit[i] = r[k].h
  <2>1. PICK i \in DOMAIN s : s[i] = r[k]
    BY <1>9
  <2>2. IsActive(procs[r[k].h])
    BY <1>9 DEF A
  <2>3. CASE i \in 1 .. n
    BY <2>1, <2>2, <2>3, <1>1, <1>3, <1>5
  <2>4. CASE i \in n + 1 .. n + m
    BY <2>1, <2>2, <2>4, <1>1, <1>5
  <2> QED BY <2>3, <2>4, <1>5
<1>15. ASSUME NEW i \in DOMAIN feedback, IsActive(procs[feedback[i].h])
       PROVE  \E k \in DOMAIN r : r[k].h = feedback[i].h
  <2>1. n + i \in DOMAIN s /\ s[n + i] = feedback[i]
    BY <1>1, <1>5
  <2>2. s[n + i] \in A
    BY <2>1, <1>6, <1>15 DEF A
  <2> QED BY <2>1, <2>2, <1>9
<1>16. ASSUME NEW i \in DOMAIN toRetransmit, IsActive(procs[toRetransmit[i]])
       PROVE  \E k \in DOMAIN r : r[k].h = toRetransmit[i]
  <2>1. i \in DOMAIN s /\ s[i].h = toRetransmit[i]
    BY <1>1, <1>3, <1>4, <1>5
  <2>2. s[i] \in A
    BY <2>1, <1>6, <1>16 DEF A
  <2> QED BY <2>1, <2>2, <1>9
<1>17. IsMerged(r, procs)
  BY <1>14, <1>15, <1>16 DEF IsMerged
<1> QED BY <1>9, <1>11, <1>13, <1>17

\* n has the processes of the NACKs in fb that have versions left.
HasVersion(f, procs) == ~f.ok /\ ~LastVersion(procs[f.h])
Distinct(n) == \A i, j \in DOMAIN n : n[i] = n[j] => i = j
IsNacked(n, procs, fb) ==
  /\ \A i \in DOMAIN n : \E k \in DOMAIN fb : fb[k].h = n[i] /\ HasVersion(fb[k], procs)
  /\ \A k \in DOMAIN fb : HasVersion(fb[k], procs) => \E i \in DOMAIN n : n[i] = fb[k].h

LEMMA NackedFacts ==
  ASSUME NEW fb \in Seq(Feedback), OncePerProcess(fb), NEW procs
  PROVE  /\ Nacked(procs, fb) \in Seq(HarqIds)
         /\ Distinct(Nacked(procs, fb))
         /\ IsNacked(Nacked(procs, fb), procs, fb)
<1> DEFINE A == {f \in Feedback : ~f.ok /\ ~LastVersion(procs[f.h])}
           r == Filter(fb, A)
           key == [f \in Feedback |-> f.h]
           n == Nacked(procs, fb)
<1>1. \A k \in DOMAIN fb : fb[k] \in Feedback /\ key[fb[k]] = fb[k].h
  OBVIOUS
<1>2. \A i, j \in DOMAIN fb : key[fb[i]] = key[fb[j]] => i = j
  BY <1>1 DEF OncePerProcess
<1> HIDE DEF key, A
<1>3. r \in Seq(Feedback) /\ Keeps(r, fb, A)
  BY FilterElements
<1>4. \A k, l \in DOMAIN r : key[r[k]] = key[r[l]] => k = l
  BY <1>2, FilterDistinct
<1>5. n = [i \in DOMAIN r |-> r[i].h]
  BY DEF Nacked, A, r
<1> HIDE DEF r, n
<1>6. \A k \in DOMAIN r : r[k] \in Feedback /\ r[k].h \in HarqIds /\ key[r[k]] = r[k].h
  <2>1. ASSUME NEW k \in DOMAIN r
        PROVE  r[k] \in Feedback
    BY <1>3
  <2>2. \A f \in Feedback : f.h \in HarqIds /\ key[f] = f.h
    BY DEF Feedback, key
  <2> QED BY <2>1, <2>2
<1>7. DOMAIN r = 1 .. Len(r) /\ Len(r) \in Nat
  BY <1>3
<1>8. n \in Seq(HarqIds)
  <2>1. n \in [1 .. Len(r) -> HarqIds]
    BY <1>5, <1>6, <1>7
  <2> QED BY <2>1, <1>7
<1>9. DOMAIN n = DOMAIN r /\ \A i \in DOMAIN n : n[i] = r[i].h
  BY <1>5
<1>10. \A i, j \in DOMAIN n : n[i] = n[j] => i = j
  BY <1>4, <1>6, <1>9
<1>11. ASSUME NEW i \in DOMAIN n
       PROVE  \E k \in DOMAIN fb : /\ fb[k].h = n[i]
                                   /\ ~fb[k].ok /\ ~LastVersion(procs[fb[k].h])
  <2>1. r[i] \in A /\ \E k \in DOMAIN fb : fb[k] = r[i]
    BY <1>3, <1>9 DEF Keeps
  <2>2. ~r[i].ok /\ ~LastVersion(procs[r[i].h]) /\ n[i] = r[i].h
    BY <2>1, <1>9 DEF A
  <2> QED BY <2>1, <2>2
<1>12. ASSUME NEW k \in DOMAIN fb, ~fb[k].ok, ~LastVersion(procs[fb[k].h])
       PROVE  \E i \in DOMAIN n : n[i] = fb[k].h
  <2>1. fb[k] \in A
    BY <1>1, <1>12 DEF A
  <2>2. PICK i \in DOMAIN r : r[i] = fb[k]
    BY <2>1, <1>3 DEF Keeps
  <2> QED BY <2>2, <1>9
<1>13. Distinct(n) /\ IsNacked(n, procs, fb)
  BY <1>10, <1>11, <1>12 DEF Distinct, IsNacked, HasVersion
<1> QED BY <1>8, <1>13 DEF n

\* SymbolsLeft is well defined: this is what its recursion computes.
Leaves(left, procs, n) ==
  /\ left[0] = UlSymbols[pos]
  /\ \A i \in 1 .. Len(n) :
       left[i] = IF Fits(procs[n[i]], left[i - 1]) THEN left[i - 1] - procs[n[i]].sym
                 ELSE left[i - 1]

LEMMA SymbolsFacts ==
  ASSUME TypeOK, NEW procs \in [HarqIds -> Process], NEW n \in Seq(HarqIds)
  PROVE  /\ SymbolsLeft(procs, n) \in [0 .. Len(n) -> Nat]
         /\ Leaves(SymbolsLeft(procs, n), procs, n)
<1> DEFINE N == Len(n)
           step == [p \in Nat \X (1 .. N) |->
                      IF Fits(procs[n[p[2]]], p[1]) THEN p[1] - procs[n[p[2]]].sym
                      ELSE p[1]]
           Rec(f) == f = [i \in 0 .. Len(n) |->
                            IF i = 0 THEN UlSymbols[pos]
                            ELSE IF Fits(procs[n[i]], f[i - 1])
                            THEN f[i - 1] - procs[n[i]].sym
                            ELSE f[i - 1]]
<1>1. N \in Nat /\ UlSymbols[pos] \in Nat
  BY UplinkAssumption DEF TypeOK
<1>2. \A i \in 1 .. N : n[i] \in HarqIds /\ procs[n[i]].sym \in Nat
  <2>1. ASSUME NEW i \in 1 .. N
        PROVE  n[i] \in HarqIds /\ procs[n[i]].sym \in Nat
    <3>1. n[i] \in HarqIds
      OBVIOUS
    <3>2. procs[n[i]] \in Process
      BY <3>1
    <3>3. procs[n[i]].sym \in TbSymbols \cup {0}
      BY <3>2 DEF Process
    <3>4. \A t \in TbSymbols \cup {0} : t \in Nat
      BY UplinkAssumption
    <3>5. procs[n[i]].sym \in Nat
      BY <3>3, <3>4
    <3> QED BY <3>1, <3>5
  <2> QED BY <2>1
<1>3. step \in [Nat \X (1 .. N) -> Nat]
  <2>1. ASSUME NEW p \in Nat \X (1 .. N)
        PROVE  (IF Fits(procs[n[p[2]]], p[1]) THEN p[1] - procs[n[p[2]]].sym
                ELSE p[1]) \in Nat
    <3>1. p[1] \in Nat /\ p[2] \in 1 .. N
      OBVIOUS
    <3>2. procs[n[p[2]]].sym \in Nat
      BY <3>1, <1>2
    <3> QED BY <3>1, <3>2 DEF Fits
  <2> QED BY <2>1
<1>4. \A x \in Nat, i \in 1 .. N :
        step[<<x, i>>] = IF Fits(procs[n[i]], x) THEN x - procs[n[i]].sym ELSE x
  OBVIOUS
<1> HIDE DEF step, N
<1>5. PICK f \in [0 .. N -> Nat] : Follows(f, N, UlSymbols[pos], step)
  BY <1>1, <1>3, FiniteRecursion
<1>6. ASSUME NEW i \in 1 .. N
      PROVE  f[i] = IF Fits(procs[n[i]], f[i - 1]) THEN f[i - 1] - procs[n[i]].sym
                    ELSE f[i - 1]
  <2>1. i - 1 \in 0 .. N
    BY <1>1
  <2>2. f[i - 1] \in Nat
    BY <2>1
  <2>3. f[i] = step[<<f[i - 1], i>>]
    BY <1>5 DEF Follows
  <2> QED BY <2>2, <2>3, <1>4
<1>7. Rec(f)
  <2>1. f = [i \in 0 .. N |-> f[i]]
    OBVIOUS
  <2>2. ASSUME NEW i \in 0 .. N
        PROVE  f[i] = IF i = 0 THEN UlSymbols[pos]
                      ELSE IF Fits(procs[n[i]], f[i - 1])
                      THEN f[i - 1] - procs[n[i]].sym
                      ELSE f[i - 1]
    <3>1. CASE i = 0
      BY <3>1, <1>5 DEF Follows
    <3>2. CASE i # 0
      <4>1. i \in 1 .. N
        BY <3>2, <1>1
      <4> QED BY <4>1, <3>2, <1>6, Zenon
    <3> QED BY <3>1, <3>2
  <2> QED BY <2>1, <2>2 DEF N
<1> DEFINE h == CHOOSE g : Rec(g)
<1>8. Rec(h)
  BY <1>7
<1>9. SymbolsLeft(procs, n) = h
  BY DEF SymbolsLeft
<1> HIDE DEF h
<1>10. /\ h[0] = UlSymbols[pos]
       /\ \A i \in 1 .. N : h[i] = IF Fits(procs[n[i]], h[i - 1])
                                   THEN h[i - 1] - procs[n[i]].sym ELSE h[i - 1]
  <2>1. \A i \in 0 .. N : h[i] = IF i = 0 THEN UlSymbols[pos]
                                 ELSE IF Fits(procs[n[i]], h[i - 1])
                                 THEN h[i - 1] - procs[n[i]].sym
                                 ELSE h[i - 1]
    BY <1>8, Zenon DEF N
  <2>2. 0 \in 0 .. N /\ \A i \in 1 .. N : i \in 0 .. N /\ i # 0
    BY <1>1
  <2> QED BY <2>1, <2>2, Zenon
<1>11. \A i \in 0 .. N : h[i] \in Nat
  <2> DEFINE G == {i \in 0 .. N : h[i] \in Nat}
  <2>1. 0 \in G
    BY <1>1, <1>10
  <2>2. ASSUME NEW i \in 0 .. N - 1, i \in G
        PROVE  i + 1 \in G
    <3>1. i + 1 \in 1 .. N /\ (i + 1) - 1 = i /\ h[i] \in Nat
      BY <1>1, <2>2
    <3>2. h[i + 1] = IF Fits(procs[n[i + 1]], h[i])
                     THEN h[i] - procs[n[i + 1]].sym ELSE h[i]
      BY <1>10, <3>1
    <3>3. procs[n[i + 1]].sym \in Nat
      BY <1>2, <3>1
    <3> QED BY <3>1, <3>2, <3>3 DEF Fits
  <2> HIDE DEF G
  <2>3. \A i \in 0 .. N : i \in G
    BY <1>1, <2>1, <2>2, InductionUpTo
  <2> QED BY <2>3 DEF G
<1>12. h \in [0 .. N -> Nat]
  <2>1. ASSUME NEW i \in 0 .. N
        PROVE  (IF i = 0 THEN UlSymbols[pos]
                ELSE IF Fits(procs[n[i]], h[i - 1]) THEN h[i - 1] - procs[n[i]].sym
                ELSE h[i - 1]) \in Nat
    <3>1. h[i] = IF i = 0 THEN UlSymbols[pos]
                 ELSE IF Fits(procs[n[i]], h[i - 1]) THEN h[i - 1] - procs[n[i]].sym
                 ELSE h[i - 1]
      BY <1>8, Zenon DEF N
    <3> QED BY <3>1, <1>11, Zenon
  <2> QED BY <2>1, <1>8, Zenon DEF N
<1> QED BY <1>9, <1>10, <1>12 DEF N, Leaves

LEMMA RetransmittedFacts ==
  ASSUME NEW n \in Seq(HarqIds), NEW procs
  PROVE  /\ Retransmitted(procs, n) \subseteq Visited(procs, n)
         /\ \A h \in Visited(procs, n) : h \in HarqIds /\ \E i \in DOMAIN n : n[i] = h
<1>1. \A j \in DOMAIN n : n[j] \in HarqIds
  OBVIOUS
<1>2. Retransmitted(procs, n) \subseteq Visited(procs, n)
  BY DEF Retransmitted, Visited, Fits
<1> QED BY <1>1, <1>2 DEF Visited

\* The processes for which m_ulHarqToRetransmit keeps the feedback.
LEMMA BufferedFacts ==
  ASSUME NEW n \in Seq(HarqIds), NEW procs, Distinct(n)
  PROVE  /\ Buffered(procs, n) \in Seq(HarqIds)
         /\ Distinct(Buffered(procs, n))
         /\ Keeps(Buffered(procs, n), n, Visited(procs, n) \ Retransmitted(procs, n))
<1> DEFINE A == Visited(procs, n) \ Retransmitted(procs, n)
           r == Filter(n, A)
           key == [h \in HarqIds |-> h]
<1>1. \A i \in DOMAIN n : n[i] \in HarqIds /\ key[n[i]] = n[i]
  OBVIOUS
<1>2. \A i, j \in DOMAIN n : key[n[i]] = key[n[j]] => i = j
  BY <1>1 DEF Distinct
<1>3. Buffered(procs, n) = r
  BY DEF Buffered
<1> HIDE DEF A
<1>5. r \in Seq(HarqIds) /\ Keeps(r, n, A)
  BY FilterElements
<1>6. \A k, l \in DOMAIN r : key[r[k]] = key[r[l]] => k = l
  BY <1>2, FilterDistinct
<1> HIDE DEF r
<1>7. \A k \in DOMAIN r : r[k] \in HarqIds /\ key[r[k]] = r[k]
  BY <1>5
<1> HIDE DEF key
<1>8. \A k, l \in DOMAIN r : r[k] = r[l] => k = l
  BY <1>6, <1>7
<1> QED BY <1>3, <1>5, <1>8 DEF A, Distinct

LEMMA ProcessFacts ==
  ASSUME NEW p \in Process
  PROVE  /\ p.status \in {"INACTIVE", "WAITING_FEEDBACK", "RECEIVED_FEEDBACK"}
         /\ p.timer \in 0 .. NumHarqProcess /\ p.timer \in Nat
         /\ p.rv \in 0 .. MaxRv /\ p.rv \in Nat
         /\ p.sym \in TbSymbols \cup {0} /\ p.sym \in Nat
<1>1. /\ p.status \in {"INACTIVE", "WAITING_FEEDBACK", "RECEIVED_FEEDBACK"}
      /\ p.timer \in 0 .. NumHarqProcess /\ p.rv \in 0 .. MaxRv
      /\ p.sym \in TbSymbols \cup {0}
  BY DEF Process
<1>2. \A t \in TbSymbols \cup {0} : t \in Nat
  BY UplinkAssumption
<1>3. p.sym \in Nat
  BY <1>1, <1>2
<1>4. p.timer \in Nat /\ p.rv \in Nat
  BY <1>1, NumFacts, UplinkAssumption
<1> QED BY <1>1, <1>3, <1>4

LEMMA IdleFacts == Idle \in Process /\ ~IsActive(Idle)
<1>1. /\ Idle.status = "INACTIVE" /\ 0 \in 0 .. NumHarqProcess
      /\ 0 \in 0 .. MaxRv /\ 0 \in TbSymbols \cup {0}
  BY NumFacts, UplinkAssumption DEF Idle
<1> QED BY <1>1 DEF Idle, Process, IsActive

LEMMA ExpiredFacts ==
  ASSUME NEW p \in Process
  PROVE  /\ ResetExpired(p) \in Process
         /\ IsActive(p) /\ p.timer < NumHarqProcess =>
              /\ IsActive(ResetExpired(p))
              /\ ResetExpired(p).timer = p.timer + 1
              /\ ResetExpired(p).status = p.status /\ ResetExpired(p).rv = p.rv
         /\ IsActive(ResetExpired(p)) => IsActive(p) /\ p.timer < NumHarqProcess
<1> DEFINE q == [p EXCEPT !.timer = p.timer + 1]
<1>1. CASE ~IsActive(p)
  BY <1>1 DEF ResetExpired
<1>2. CASE IsActive(p) /\ p.timer < NumHarqProcess
  <2>1. ResetExpired(p) = q
    BY <1>2 DEF ResetExpired
  <2>2. p.timer + 1 \in 0 .. NumHarqProcess
    BY <1>2, NumFacts, ProcessFacts
  <2>3. q \in Process
    BY <2>2 DEF Process
  <2>4. q.timer = p.timer + 1 /\ q.status = p.status /\ q.rv = p.rv
    BY DEF Process
  <2>5. IsActive(q)
    BY <2>4, <1>2 DEF IsActive
  <2> HIDE DEF q
  <2> QED BY <2>1, <2>3, <2>4, <2>5, <1>2
<1>3. CASE IsActive(p) /\ ~(p.timer < NumHarqProcess)
  <2>1. ResetExpired(p) = Idle
    BY <1>3 DEF ResetExpired
  <2> QED BY <2>1, <1>3, IdleFacts
<1> QED BY <1>1, <1>2, <1>3

\* What ScheduleUlHarq leaves of the processes.
LEMMA AfterHarqFacts ==
  ASSUME NEW procs \in [HarqIds -> Process], NEW fb \in Seq(Feedback),
         OncePerProcess(fb), \A k \in DOMAIN fb : IsActive(procs[fb[k].h])
  PROVE  LET n == Nacked(procs, fb)
             q == AfterHarq(procs, fb)
         IN  /\ q \in [HarqIds -> Process]
             /\ \A h \in HarqIds : (\A k \in DOMAIN fb : fb[k].h # h) => q[h] = procs[h]
             /\ \A h \in Retransmitted(procs, n) :
                  /\ q[h].status = "WAITING_FEEDBACK" /\ q[h].timer = 0
                  /\ q[h].rv = procs[h].rv + 1
             /\ \A i \in DOMAIN n : IsActive(q[n[i]])
             /\ \A k \in DOMAIN fb : IsActive(q[fb[k].h]) =>
                  \E i \in DOMAIN n : n[i] = fb[k].h
<1> DEFINE n == Nacked(procs, fb)
           q == AfterHarq(procs, fb)
           E == Erased(procs, fb)
           R == Retransmitted(procs, n)
           V == Visited(procs, n)
           N == {n[i] : i \in DOMAIN n}
<1>1. /\ n \in Seq(HarqIds)
      /\ \A i \in DOMAIN n : \E k \in DOMAIN fb :
           fb[k].h = n[i] /\ ~fb[k].ok /\ ~LastVersion(procs[fb[k].h])
      /\ \A k \in DOMAIN fb : ~fb[k].ok /\ ~LastVersion(procs[fb[k].h]) =>
           \E i \in DOMAIN n : n[i] = fb[k].h
  <2>1. n \in Seq(HarqIds) /\ IsNacked(n, procs, fb)
    BY NackedFacts
  <2> HIDE DEF n
  <2> QED BY <2>1 DEF IsNacked, HasVersion
<1> HIDE DEF n
<1>2. R \subseteq V /\ V \subseteq N
  BY <1>1, RetransmittedFacts
<1>3. \A i \in DOMAIN n : n[i] \notin E
  BY SMTT(40), <1>1 DEF Erased, OncePerProcess
<1>4. q = [h \in HarqIds |->
             IF h \in E THEN Idle
             ELSE IF h \in R THEN Again(procs[h])
             ELSE IF h \in V
             THEN [procs[h] EXCEPT !.status = "WAITING_FEEDBACK", !.timer = 0]
             ELSE IF h \in N
             THEN [procs[h] EXCEPT !.status = "RECEIVED_FEEDBACK"]
             ELSE procs[h]]
  BY DEF AfterHarq, n
<1> HIDE DEF q, E, R, V
<1>5. \A h \in N : h \in HarqIds /\ h \notin E
  BY <1>1, <1>3
<1>6. ASSUME NEW h \in HarqIds
      PROVE  /\ h \in E => q[h] = Idle
             /\ h \in R => q[h] = Again(procs[h])
             /\ h \in V \ R =>
                  q[h] = [procs[h] EXCEPT !.status = "WAITING_FEEDBACK", !.timer = 0]
             /\ h \in N \ V => q[h] = [procs[h] EXCEPT !.status = "RECEIVED_FEEDBACK"]
             /\ h \notin E /\ h \notin N => q[h] = procs[h]
  <2> HIDE DEF N
  <2> QED BY <1>2, <1>4, <1>5
<1>7. ASSUME NEW h \in N
      PROVE  procs[h] \in Process /\ procs[h].rv + 1 \in 0 .. MaxRv
  <2>1. PICK i \in DOMAIN n : h = n[i]
    OBVIOUS
  <2>2. procs[h].rv # MaxRv
    BY <2>1, <1>1 DEF LastVersion
  <2>3. procs[h] \in Process
    BY <1>5
  <2>4. procs[h].rv \in 0 .. MaxRv
    BY <2>3, ProcessFacts
  <2> QED BY <2>2, <2>3, <2>4, UplinkAssumption
<1> HIDE DEF N
<1>8. 0 \in 0 .. NumHarqProcess
  BY NumFacts
<1>9. ASSUME NEW h \in R
      PROVE  /\ q[h] \in Process /\ IsActive(q[h])
             /\ q[h].status = "WAITING_FEEDBACK" /\ q[h].timer = 0
             /\ q[h].rv = procs[h].rv + 1
  <2>1. h \in N /\ h \in HarqIds
    BY <1>2, <1>5
  <2>2. procs[h] \in Process /\ procs[h].rv + 1 \in 0 .. MaxRv
    BY <1>7, <2>1
  <2>3. q[h] = [procs[h] EXCEPT !.status = "WAITING_FEEDBACK", !.timer = 0,
                                !.rv = procs[h].rv + 1]
    BY <1>6, <2>1 DEF Again
  <2> QED BY <2>2, <2>3, <1>8 DEF Process, IsActive
<1>10. ASSUME NEW h \in V \ R
       PROVE  q[h] \in Process /\ IsActive(q[h])
  <2>1. h \in N /\ h \in HarqIds /\ procs[h] \in Process
    BY <1>2, <1>5
  <2> QED BY ZenonT(40), <2>1, <1>6, <1>8 DEF Process, IsActive
<1>11. ASSUME NEW h \in N \ V
       PROVE  q[h] \in Process /\ IsActive(q[h])
  <2>1. h \in HarqIds /\ procs[h] \in Process
    BY <1>5
  <2> QED BY ZenonT(40), <2>1, <1>6 DEF Process, IsActive
<1>12. \A h \in N : IsActive(q[h]) /\ q[h] \in Process
  BY <1>9, <1>10, <1>11
<1>13. ASSUME NEW h \in HarqIds
       PROVE  q[h] \in Process
  BY <1>12, <1>6, IdleFacts
<1>14. q \in [HarqIds -> Process]
  BY <1>4, <1>13
<1>15. ASSUME NEW h \in HarqIds, \A k \in DOMAIN fb : fb[k].h # h
       PROVE  q[h] = procs[h]
  <2>1. h \notin E
    BY <1>15 DEF E, Erased
  <2>2. h \notin N
    BY <1>15, <1>1 DEF N
  <2> QED BY <2>1, <2>2, <1>6
<1>16. ASSUME NEW k \in DOMAIN fb, IsActive(q[fb[k].h])
       PROVE  \E i \in DOMAIN n : n[i] = fb[k].h
  <2>1. fb[k] \in Feedback
    OBVIOUS
  <2>2. fb[k].h \in HarqIds
    BY <2>1 DEF Feedback
  <2>3. fb[k].h \notin E
    BY <1>6, <1>16, <2>2, IdleFacts
  <2>4. ~fb[k].ok /\ ~LastVersion(procs[fb[k].h])
    BY <2>2, <2>3 DEF E, Erased
  <2> QED BY <2>4, <1>1
<1>17. \A i \in DOMAIN n : IsActive(q[n[i]])
  BY <1>12 DEF N
<1> QED BY <1>9, <1>14, <1>15, <1>16, <1>17 DEF n, q, R

-----------------------------------------------------------------------------
\* The steps.

LEMMA UplinkInit == Init => UplinkInv
<1> SUFFICES ASSUME Init PROVE UplinkInv
  OBVIOUS
<1>1. /\ dcis = {} /\ blocks = {} /\ feedback = <<>> /\ toRetransmit = <<>>
      /\ process = [h \in HarqIds |-> Idle]
  BY DEF Init
<1>2. OneThing /\ InTime /\ Current
  BY <1>1 DEF OneThing, InTime, Current, InFlight
<1>3. process \in [HarqIds -> Process]
  BY <1>1, IdleFacts
<1>4. 0 \in 0 .. MaxReports /\ 0 \in 0 .. MaxCorrupted
  BY UplinkAssumption
<1>5. /\ pos \in Pattern /\ phase \in Phases /\ packet \in [HarqIds -> Nat]
      /\ sr = {} /\ bsrs = {} /\ ulCe = <<>>
  BY DEF Init, Phases
<1>6. queue \in Nat /\ lcg \in Nat /\ reported \in 0 .. MaxReports
  BY <1>4 DEF Init
<1>7. srState \in {"INACTIVE", "TO_SEND", "ACTIVE"} /\ srList \in BOOLEAN
  BY DEF Init
<1>8. corrupted \in 0 .. MaxCorrupted
  BY <1>4 DEF Init
<1>9. TypeOK
  BY <1>1, <1>3, <1>5, <1>6, <1>7, <1>8 DEF TypeOK
<1> QED BY <1>2, <1>9 DEF UplinkInv

LEMMA ReportStep ==
  ASSUME UplinkInv, ReportBufferStatus
  PROVE  UplinkInv'
<1>1. reported' \in 0 .. MaxReports /\ queue' \in Nat
  BY UplinkAssumption DEF UplinkInv, TypeOK, ReportBufferStatus
<1>2. TypeOK'
  BY <1>1 DEF UplinkInv, TypeOK, ReportBufferStatus, gnbVars
<1>3. UNCHANGED <<phase, dcis, blocks, feedback, toRetransmit, process, packet>>
  BY DEF ReportBufferStatus, gnbVars
<1> QED BY <1>2, <1>3 DEF UplinkInv, OneThing, InTime, Current, InFlight, DcisDone,
                          BlocksDone

LEMMA SlotIndicationStep ==
  ASSUME UplinkInv, SlotIndication
  PROVE  UplinkInv'
<1>1. sr' \subseteq 0 .. SrDelay
  <2>1. sr \subseteq 0 .. SrDelay /\ SrDelay \in 0 .. SrDelay
    BY UplinkAssumption DEF UplinkInv, TypeOK
  <2> QED BY <2>1 DEF SlotIndication
<1>2. TypeOK'
  BY <1>1 DEF UplinkInv, TypeOK, SlotIndication, gnbVars, Phases
<1>3. /\ UNCHANGED <<dcis, blocks, feedback, toRetransmit, process, packet>>
      /\ DcisDone' = DcisDone /\ BlocksDone' = BlocksDone
  BY DEF SlotIndication, gnbVars, DcisDone, BlocksDone
<1> QED BY <1>2, <1>3 DEF UplinkInv, OneThing, InTime, Current, InFlight

\* The UE sends blocks for DCIs that are due.
SentFor(B) ==
  /\ blocks' = blocks \cup B
  /\ \A b \in B : \E d \in DueNow(dcis) :
       b.h = d.h /\ b.rv = d.rv /\ b.left = d.k2
  /\ \A b, c \in B : b.h = c.h => b = c
  /\ \A b \in B : b.data = packet'[b.h]
  /\ \A h \in HarqIds : packet'[h] # packet[h] => \E b \in B : b.h = h

\* A DCI is dealt with in its slot, and its block is due later.
LEMMA SendKeeps ==
  ASSUME UplinkInv, ProcessUlDci, TypeOK', NEW B, SentFor(B)
  PROVE  UplinkInv'
<1> USE DEF UplinkInv
<1>1. /\ phase = "dci" /\ phase' = "air" /\ dcis' = Later(dcis)
      /\ UNCHANGED <<feedback, toRetransmit, process>>
  BY DEF ProcessUlDci, gnbVars
<1>2. DcisDone = 0 /\ DcisDone' = 1 /\ BlocksDone = 0 /\ BlocksDone' = 0
  BY <1>1 DEF DcisDone, BlocksDone
<1>3. dcis \subseteq Dci /\ blocks \subseteq Block /\ process \in [HarqIds -> Process]
  BY DEF TypeOK
<1>4. \A e \in dcis' : \E d \in dcis :
        /\ d.left > 0 /\ e.left = d.left - 1
        /\ e.h = d.h /\ e.rv = d.rv /\ e.k2 = d.k2
        /\ e = [d EXCEPT !.left = @ - 1]
  BY <1>1, <1>3, LaterDcis
<1>5. \A b \in B : \E d \in dcis :
        d.left = 0 /\ b.h = d.h /\ b.rv = d.rv /\ b.left = d.k2
  BY DEF SentFor, DueNow
<1>6. OneThing'
  <2>1. ASSUME NEW x \in dcis', NEW y \in dcis', x.h = y.h
        PROVE  x = y
    BY <2>1, <1>4 DEF OneThing
  <2>2. ASSUME NEW x \in blocks', NEW y \in blocks', x.h = y.h
        PROVE  x = y
    <3>1. CASE x \in blocks /\ y \in blocks
      BY <2>2, <3>1 DEF OneThing
    <3>2. CASE x \in B /\ y \in B
      BY <2>2, <3>2 DEF SentFor
    <3>3. CASE (x \in blocks /\ y \in B) \/ (x \in B /\ y \in blocks)
      BY <2>2, <3>3, <1>5 DEF OneThing
    <3> QED BY <3>1, <3>2, <3>3 DEF SentFor
  <2>3. ASSUME NEW x \in dcis', NEW y \in blocks'
        PROVE  x.h # y.h
    <3>1. PICK d \in dcis : d.left > 0 /\ x.h = d.h
      BY <1>4
    <3>2. CASE y \in blocks
      BY <3>1, <3>2 DEF OneThing
    <3>3. CASE y \in B
      <4>1. PICK e \in dcis : e.left = 0 /\ y.h = e.h
        BY <1>5, <3>3
      <4> QED BY <3>1, <4>1 DEF OneThing
    <3> QED BY <3>2, <3>3 DEF SentFor
  <2>4. ASSUME NEW x \in InFlight'
        PROVE  \E y \in InFlight : y.h = x.h
    BY <1>4, <1>5, <2>4 DEF InFlight, SentFor
  <2>5. ASSUME NEW x \in InFlight'
        PROVE  /\ \A i \in DOMAIN feedback' : feedback'[i].h # x.h
               /\ \A i \in DOMAIN toRetransmit' : toRetransmit'[i] # x.h
    BY <1>1, <2>4, <2>5 DEF OneThing
  <2> QED BY <1>1, <2>1, <2>2, <2>3, <2>5 DEF OneThing
<1>7. InTime'
  <2>1. ASSUME NEW e \in dcis'
        PROVE  process'[e.h].timer + e.left + e.k2 + 1 < NumHarqProcess
    <3>1. PICK d \in dcis : /\ d.left > 0 /\ e.left = d.left - 1
                            /\ e.h = d.h /\ e.k2 = d.k2
      BY <1>4
    <3>2. process[d.h].timer + d.left + d.k2 + 0 < NumHarqProcess
      BY <1>2 DEF InTime
    <3>3. d.left \in Nat /\ d.k2 \in Nat /\ process[d.h].timer \in Nat
      BY <1>3, ProcessFacts, UplinkAssumption DEF Dci
    <3> QED BY <3>1, <3>2, <3>3, <1>1, NumFacts
  <2>2. ASSUME NEW b \in blocks'
        PROVE  process'[b.h].timer + b.left + 0 < NumHarqProcess
    <3>1. CASE b \in blocks
      BY <3>1, <1>1, <1>2 DEF InTime
    <3>2. CASE b \in B
      <4>1. PICK d \in dcis : d.left = 0 /\ b.h = d.h /\ b.left = d.k2
        BY <1>5, <3>2
      <4>2. process[d.h].timer + d.left + d.k2 + 0 < NumHarqProcess
        BY <1>2 DEF InTime
      <4>3. d.k2 \in Nat /\ process[d.h].timer \in Nat
        BY <1>3, ProcessFacts DEF Dci
      <4> QED BY <4>1, <4>2, <4>3, <1>1, NumFacts
    <3> QED BY <3>1, <3>2 DEF SentFor
  <2> QED BY <1>1, <1>2, <2>1, <2>2 DEF InTime
<1>8. Current'
  <2>1. ASSUME NEW x \in InFlight'
        PROVE  process'[x.h].status = "WAITING_FEEDBACK" /\ process'[x.h].rv = x.rv
    BY <1>1, <1>4, <1>5, <2>1 DEF Current, InFlight, SentFor
  <2>2. ASSUME NEW b \in blocks'
        PROVE  b.data = packet'[b.h]
    <3>1. CASE b \in B
      BY <3>1 DEF SentFor
    <3>2. CASE b \in blocks \ B
      <4>1. \A c \in B : c.h # b.h
        BY <3>2, <1>5 DEF OneThing
      <4>2. b.h \in HarqIds
        BY <3>2, <1>3 DEF Block
      <4>3. packet'[b.h] = packet[b.h]
        BY <4>1, <4>2 DEF SentFor
      <4> QED BY <3>2, <4>3 DEF Current
    <3> QED BY <3>1, <3>2 DEF SentFor
  <2> QED BY <1>1, <2>1, <2>2 DEF Current
<1> QED BY <1>6, <1>7, <1>8

LEMMA ProcessUlDciStep ==
  ASSUME UplinkInv, ProcessUlDci
  PROVE  UplinkInv'
<1> USE DEF UplinkInv
<1>1. /\ phase = "dci" /\ phase' = "air" /\ dcis' = Later(dcis)
      /\ UNCHANGED <<pos, sr, bsrs, ulCe, feedback, srList, lcg, process, toRetransmit,
                     reported, corrupted>>
  BY DEF ProcessUlDci, gnbVars
<1>2. dcis' \subseteq Dci
  BY <1>1, LaterDcis DEF TypeOK
<1>3. DueNow(dcis) \subseteq dcis /\ dcis \subseteq Dci
  BY DEF DueNow, TypeOK
<1>4. ASSUME queue' \in Nat, srState' \in {"INACTIVE", "TO_SEND", "ACTIVE"},
             packet' \in [HarqIds -> Nat], blocks' \subseteq Block
      PROVE  TypeOK'
  BY <1>1, <1>2, <1>4 DEF TypeOK, Phases
<1>5. ASSUME NEW d \in DueNow(dcis), SendNewData(d)
      PROVE  UplinkInv'
  <2> DEFINE data == AtMost(d.units, queue)
             b == [h |-> d.h, rv |-> d.rv, data |-> data, bsr |-> queue', left |-> d.k2]
  <2>1. d \in Dci
    BY <1>3
  <2>2. d.h \in HarqIds /\ d.rv \in 0 .. MaxRv /\ d.units \in Nat /\ d.k2 \in Nat
    BY <2>1 DEF Dci
  <2>3. data \in Nat /\ data <= queue /\ queue \in Nat /\ packet \in [HarqIds -> Nat]
    BY <2>2, AtMostFacts DEF TypeOK
  <2>4. /\ queue' = queue - data /\ packet' = [packet EXCEPT ![d.h] = data]
        /\ blocks' = blocks \cup {b}
        /\ srState' \in {"INACTIVE", "TO_SEND", "ACTIVE"}
    BY <1>5 DEF SendNewData, TypeOK
  <2> HIDE DEF data
  <2>5. queue' \in Nat
    BY <2>3, <2>4
  <2>6. b \in Block
    BY <2>2, <2>3, <2>5 DEF Block
  <2>7. b.h = d.h /\ b.rv = d.rv /\ b.left = d.k2 /\ b.data = data
    OBVIOUS
  <2> HIDE DEF b
  <2>8. packet' \in [HarqIds -> Nat]
    BY <2>2, <2>3, <2>4
  <2>9. blocks' \subseteq Block
    BY <2>4, <2>6 DEF TypeOK
  <2>10. TypeOK'
    BY <1>4, <2>4, <2>5, <2>8, <2>9
  <2>11. SentFor({b})
    <3>1. packet'[d.h] = data /\ \A h \in HarqIds : packet'[h] # packet[h] => h = d.h
      BY <2>2, <2>3, <2>4
    <3> QED BY <2>4, <2>7, <3>1 DEF SentFor
  <2> QED BY <2>10, <2>11, SendKeeps
<1>6. ASSUME TransmitRetx(DueNow(dcis))
      PROVE  UplinkInv'
  <2> DEFINE b(d) == [h |-> d.h, rv |-> d.rv, data |-> packet[d.h], bsr |-> queue,
                      left |-> d.k2]
             B == {b(d) : d \in DueNow(dcis)}
  <2>1. blocks' = blocks \cup B /\ UNCHANGED <<queue, srState, packet>>
    BY <1>6 DEF TransmitRetx, ueVars
  <2>2. ASSUME NEW d \in DueNow(dcis)
        PROVE  b(d) \in Block
    <3>1. d \in Dci
      BY <1>3
    <3>2. d.h \in HarqIds /\ d.rv \in 0 .. MaxRv /\ d.k2 \in Nat
      BY <3>1 DEF Dci
    <3>3. packet[d.h] \in Nat /\ queue \in Nat
      BY <3>2 DEF TypeOK
    <3> QED BY <3>2, <3>3 DEF Block
  <2>3. \A d \in DueNow(dcis) :
          b(d).h = d.h /\ b(d).rv = d.rv /\ b(d).left = d.k2 /\ b(d).data = packet[d.h]
    OBVIOUS
  <2> HIDE DEF b
  <2>4. B \subseteq Block
    BY <2>2
  <2>5. TypeOK'
    BY <1>4, <2>1, <2>4 DEF TypeOK
  <2>6. ASSUME NEW x \in B, NEW y \in B, x.h = y.h
        PROVE  x = y
    <3>1. PICK d \in DueNow(dcis) : x = b(d)
      OBVIOUS
    <3>2. PICK e \in DueNow(dcis) : y = b(e)
      OBVIOUS
    <3>3. d.h = e.h
      BY <2>3, <2>6, <3>1, <3>2
    <3>4. d = e
      BY <3>3, <1>3 DEF OneThing
    <3> QED BY <3>1, <3>2, <3>4
  <2>7. SentFor(B)
    BY <2>1, <2>3, <2>6 DEF SentFor
  <2> QED BY <2>5, <2>7, SendKeeps
<1> QED BY <1>5, <1>6 DEF ProcessUlDci

\* An order of a finite set lists each element once.
LEMMA OrderFacts ==
  ASSUME NEW S, IsFiniteSet(S), NEW order \in Orders(S)
  PROVE  /\ Cardinality(S) \in Nat
         /\ order \in [1 .. Cardinality(S) -> S]
         /\ \A i, j \in 1 .. Cardinality(S) : order[i] = order[j] => i = j
<1> DEFINE n == Cardinality(S)
           D == 1 .. n
<1>1. n \in Nat
  BY FS_CardinalityType
<1>2. order \in [D -> S] /\ \A x \in S : \E i \in D : order[i] = x
  BY DEF Orders
<1>3. IsFiniteSet(D) /\ Cardinality(D) = n
  <2>1. 1 \in Int /\ n \in Int
    BY <1>1
  <2>2. IsFiniteSet(D) /\ Cardinality(D) = IF 1 > n THEN 0 ELSE n - 1 + 1
    BY <2>1, FS_Interval
  <2> QED BY <2>2, <1>1
<1> HIDE DEF D
<1>4. order \in Surjection(D, S)
  BY <1>2 DEF Surjection
<1>5. order \in Injection(D, S)
  BY <1>3, <1>4, FS_Surjection
<1> QED BY <1>1, <1>2, <1>5 DEF Injection, IsInjective, D

LEMMA BlocksFinite ==
  ASSUME TypeOK, OneThing
  PROVE  IsFiniteSet(blocks)
<1> DEFINE f == [b \in blocks |-> b.h]
<1>1. f \in [blocks -> HarqIds]
  BY DEF TypeOK, Block
<1>2. \A x, y \in blocks : f[x] = f[y] => x = y
  BY DEF OneThing
<1>3. f \in Injection(blocks, HarqIds)
  BY <1>1, <1>2 DEF Injection, IsInjective
<1> HIDE DEF f
<1> QED BY <1>3, UplinkAssumption, FS_Injection

LEMMA ReceiveBlocksStep ==
  ASSUME UplinkInv, ReceiveBlocks
  PROVE  UplinkInv'
<1> USE DEF UplinkInv
<1> DEFINE due == DueNow(blocks)
           m == Cardinality(due)
           l == Len(feedback)
<1>1. PICK order \in Orders(due), bad \in SUBSET due :
        /\ corrupted + Cardinality(bad) <= MaxCorrupted
        /\ corrupted' = corrupted + Cardinality(bad)
        /\ feedback' = feedback \o [i \in DOMAIN order |->
                          [h |-> order[i].h, ok |-> order[i] \notin bad]]
        /\ bsrs' = bsrs \cup {[size |-> b.bsr, left |-> DecodeDelay] : b \in due \ bad}
  BY DEF ReceiveBlocks
<1>2. /\ phase = "air" /\ phase' = "schedule" /\ blocks' = Later(blocks)
      /\ UNCHANGED <<pos, queue, srState, packet, sr, dcis, ulCe, srList, lcg, process,
                     toRetransmit, reported>>
  BY DEF ReceiveBlocks, ueVars, gnbVars
<1>3. DcisDone = 1 /\ DcisDone' = 1 /\ BlocksDone = 0 /\ BlocksDone' = 1
  BY <1>2 DEF DcisDone, BlocksDone
<1>4. blocks \subseteq Block /\ due \subseteq blocks /\ process \in [HarqIds -> Process]
  BY DEF TypeOK, DueNow
<1>5. IsFiniteSet(due) /\ IsFiniteSet(bad)
  BY <1>4, BlocksFinite, FS_Subset
<1>6. /\ m \in Nat /\ order \in [1 .. m -> due]
      /\ \A i, j \in 1 .. m : order[i] = order[j] => i = j
  BY <1>5, OrderFacts
<1>7. Cardinality(bad) \in Nat
  BY <1>5, FS_CardinalityType
<1>8. /\ feedback \in Seq(Feedback) /\ l \in Nat /\ DOMAIN feedback = 1 .. l
      /\ corrupted \in 0 .. MaxCorrupted
  BY DEF TypeOK
<1> DEFINE new == [i \in DOMAIN order |-> [h |-> order[i].h, ok |-> order[i] \notin bad]]
<1> HIDE DEF m, due
<1>9. \A i \in 1 .. m : order[i] \in due /\ order[i] \in blocks /\ order[i].h \in HarqIds
  BY <1>4, <1>6 DEF Block
<1>10. /\ new \in Seq(Feedback) /\ Len(new) = m
       /\ \A i \in 1 .. m : new[i].h = order[i].h
  <2>1. \A i \in 1 .. m : [h |-> order[i].h, ok |-> order[i] \notin bad] \in Feedback
    BY <1>9 DEF Feedback
  <2>2. new \in [1 .. m -> Feedback]
    BY <1>6, <2>1
  <2>3. \A i \in 1 .. m : new[i].h = order[i].h
    BY <1>6
  <2> HIDE DEF new
  <2> QED BY <2>2, <2>3, <1>6
<1>11. feedback' = feedback \o new
  BY <1>1
<1> HIDE DEF new
<1>12. /\ feedback' \in Seq(Feedback) /\ DOMAIN feedback' = 1 .. l + m
       /\ \A i \in 1 .. l : feedback'[i] = feedback[i]
       /\ \A i \in l + 1 .. l + m : i - l \in 1 .. m /\ feedback'[i].h = order[i - l].h
       /\ \A i \in 1 .. l + m : i \in 1 .. l \/ i \in l + 1 .. l + m
  <2>1. DOMAIN new = 1 .. m
    BY <1>6, <1>10
  <2>2. /\ feedback' \in Seq(Feedback) /\ DOMAIN feedback' = 1 .. l + m
        /\ \A i \in 1 .. l : feedback'[i] = feedback[i]
    BY <1>6, <1>8, <1>10, <1>11
  <2>3. ASSUME NEW i \in l + 1 .. l + m
        PROVE  i - l \in 1 .. m /\ feedback'[i].h = order[i - l].h
    <3>1. i - l \in 1 .. m
      BY <1>6, <1>8
    <3>2. feedback'[i] = new[i - l]
      BY <1>6, <1>8, <1>10, <1>11, <2>1, <3>1
    <3> QED BY <3>1, <3>2, <1>10
  <2>4. \A i \in 1 .. l + m : i \in 1 .. l \/ i \in l + 1 .. l + m
    BY <1>6, <1>8
  <2> QED BY <2>2, <2>3, <2>4
<1>13. \A e \in blocks' : e \in Block /\ \E b \in blocks :
          /\ b.left > 0 /\ e.left = b.left - 1
          /\ e.h = b.h /\ e.rv = b.rv /\ e.data = b.data
          /\ e = [b EXCEPT !.left = @ - 1]
  BY <1>2, <1>4, LaterBlocks
\* An entry of the new list is old, or answers a block that was due.
<1>14. ASSUME NEW i \in DOMAIN feedback'
       PROVE  \/ i \in DOMAIN feedback /\ feedback'[i] = feedback[i]
              \/ \E b \in blocks : b.left = 0 /\ feedback'[i].h = b.h
  <2>1. CASE i \in 1 .. l
    BY <2>1, <1>8, <1>12
  <2>2. CASE i \in l + 1 .. l + m
    <3>1. i - l \in 1 .. m /\ feedback'[i].h = order[i - l].h
      BY <2>2, <1>12
    <3>2. order[i - l] \in blocks /\ order[i - l].left = 0
      BY <3>1, <1>9 DEF due, DueNow
    <3> QED BY <3>1, <3>2
  <2> QED BY <2>1, <2>2, <1>12
<1>15. TypeOK'
  <2>1. corrupted' \in 0 .. MaxCorrupted
    BY <1>1, <1>7, <1>8, UplinkAssumption
  <2>2. bsrs' \subseteq Bsr
    <3>1. ASSUME NEW b \in due \ bad
          PROVE  [size |-> b.bsr, left |-> DecodeDelay] \in Bsr
      <4>1. b.bsr \in Nat
        BY <1>4 DEF due, Block
      <4>2. DecodeDelay \in 0 .. DecodeDelay
        BY UplinkAssumption
      <4> QED BY <4>1, <4>2 DEF Bsr
    <3> QED BY <1>1, <3>1 DEF TypeOK
  <2>3. blocks' \subseteq Block
    BY <1>13
  <2> QED BY <1>2, <1>12, <2>1, <2>2, <2>3 DEF TypeOK, Phases
<1>16. OneThing'
  <2>1. ASSUME NEW x \in blocks', NEW y \in blocks', x.h = y.h
        PROVE  x = y
    BY <2>1, <1>13 DEF OneThing
  <2>2. ASSUME NEW x \in dcis', NEW y \in blocks'
        PROVE  x.h # y.h
    BY <1>2, <1>13 DEF OneThing
  <2>3. ASSUME NEW i \in DOMAIN feedback', NEW j \in DOMAIN feedback',
               feedback'[i].h = feedback'[j].h
        PROVE  i = j
    <3>1. CASE i \in 1 .. l /\ j \in 1 .. l
      BY <3>1, <2>3, <1>8, <1>12 DEF OneThing
    <3>2. CASE i \in l + 1 .. l + m /\ j \in l + 1 .. l + m
      <4>1. /\ i - l \in 1 .. m /\ j - l \in 1 .. m
            /\ order[i - l].h = order[j - l].h
        BY <3>2, <2>3, <1>12
      <4>2. order[i - l] = order[j - l]
        BY <4>1, <1>9 DEF OneThing
      <4>3. i - l = j - l
        BY <4>1, <4>2, <1>6
      <4> QED BY <4>3, <3>2, <1>6, <1>8
    <3>3. CASE i \in 1 .. l /\ j \in l + 1 .. l + m
      <4>1. j - l \in 1 .. m /\ feedback[i].h = order[j - l].h /\ i \in DOMAIN feedback
        BY <3>3, <2>3, <1>8, <1>12
      <4> QED BY <4>1, <1>9 DEF OneThing, InFlight
    <3>4. CASE j \in 1 .. l /\ i \in l + 1 .. l + m
      <4>1. i - l \in 1 .. m /\ feedback[j].h = order[i - l].h /\ j \in DOMAIN feedback
        BY <3>4, <2>3, <1>8, <1>12
      <4> QED BY <4>1, <1>9 DEF OneThing, InFlight
    <3> QED BY <3>1, <3>2, <3>3, <3>4, <1>12
  <2>4. ASSUME NEW i \in DOMAIN feedback', NEW j \in DOMAIN toRetransmit'
        PROVE  feedback'[i].h # toRetransmit'[j]
    BY <1>2, <1>14 DEF OneThing, InFlight
  <2>5. ASSUME NEW x \in InFlight', NEW i \in DOMAIN feedback'
        PROVE  feedback'[i].h # x.h
    <3>1. CASE x \in dcis
      BY <3>1, <1>14 DEF OneThing, InFlight
    <3>2. CASE x \in blocks'
      BY <3>2, <1>13, <1>14 DEF OneThing, InFlight
    <3> QED BY <3>1, <3>2, <1>2 DEF InFlight
  <2>6. ASSUME NEW x \in InFlight', NEW i \in DOMAIN toRetransmit'
        PROVE  toRetransmit'[i] # x.h
    BY <1>2, <1>13 DEF OneThing, InFlight
  <2> QED BY <1>2, <2>1, <2>2, <2>3, <2>4, <2>5, <2>6 DEF OneThing
<1>17. InTime'
  <2>1. ASSUME NEW e \in blocks'
        PROVE  process'[e.h].timer + e.left + 1 < NumHarqProcess
    <3>1. PICK b \in blocks : b.left > 0 /\ e.left = b.left - 1 /\ e.h = b.h
      BY <1>13
    <3>2. process[b.h].timer + b.left + 0 < NumHarqProcess
      BY <1>3 DEF InTime
    <3>3. b.left \in Nat /\ process[b.h].timer \in Nat
      BY <1>4, ProcessFacts DEF Block
    <3> QED BY <3>1, <3>2, <3>3, <1>2, NumFacts
  <2>2. ASSUME NEW i \in DOMAIN feedback'
        PROVE  process'[feedback'[i].h].timer < NumHarqProcess
    <3>1. CASE i \in DOMAIN feedback /\ feedback'[i] = feedback[i]
      BY <3>1, <1>2 DEF InTime
    <3>2. CASE \E b \in blocks : b.left = 0 /\ feedback'[i].h = b.h
      <4>1. PICK b \in blocks : b.left = 0 /\ feedback'[i].h = b.h
        BY <3>2
      <4>2. process[b.h].timer + b.left + 0 < NumHarqProcess
        BY <1>3 DEF InTime
      <4>3. process[b.h].timer \in Nat
        BY <1>4, ProcessFacts DEF Block
      <4> QED BY <4>1, <4>2, <4>3, <1>2
    <3> QED BY <3>1, <3>2, <1>14
  <2>3. \A d \in dcis' : process'[d.h].timer + d.left + d.k2 + 1 < NumHarqProcess
    BY <1>2, <1>3 DEF InTime
  <2> QED BY <1>3, <2>1, <2>2, <2>3 DEF InTime
<1>18. Current'
  <2>1. ASSUME NEW x \in InFlight'
        PROVE  process'[x.h].status = "WAITING_FEEDBACK" /\ process'[x.h].rv = x.rv
    BY <1>2, <1>13, <2>1 DEF Current, InFlight
  <2>2. ASSUME NEW e \in blocks'
        PROVE  e.data = packet'[e.h]
    BY <1>2, <1>13 DEF Current
  <2>3. ASSUME NEW i \in DOMAIN feedback'
        PROVE  IsActive(process'[feedback'[i].h])
    BY <1>2, <1>14 DEF Current, InFlight, IsActive
  <2>4. \A i \in DOMAIN toRetransmit' : IsActive(process'[toRetransmit'[i]])
    BY <1>2 DEF Current
  <2> QED BY <2>1, <2>2, <2>3, <2>4 DEF Current
<1> QED BY <1>15, <1>16, <1>17, <1>18

LEMMA NoUplinkStep ==
  ASSUME UplinkInv, NoUplink
  PROVE  UplinkInv'
<1> USE DEF UplinkInv
<1>1. /\ phase = "schedule"
      /\ UNCHANGED <<queue, srState, packet, dcis, blocks, feedback, lcg, process,
                     toRetransmit, reported, corrupted>>
      /\ ulCe' = LastCe /\ srList' = Requested
  BY DEF NoUplink, ueVars
<1>2. /\ sr' \subseteq 0 .. SrDelay /\ bsrs' \subseteq Bsr
      /\ phase' = "slot" /\ pos' \in Pattern
  BY EndSlotFacts DEF NoUplink
<1>3. ulCe' \in Seq(Nat) /\ Len(ulCe') <= 1 /\ srList' \in BOOLEAN
  <2>1. LastCe \in Seq(Nat) /\ Len(LastCe) <= 1
    BY LastCeFacts
  <2>2. Requested \in BOOLEAN
    BY DEF Requested, TypeOK
  <2> QED BY <1>1, <2>1, <2>2
<1>4. TypeOK'
  BY <1>1, <1>2, <1>3 DEF TypeOK, Phases
<1>5. DcisDone = 1 /\ DcisDone' = 0 /\ BlocksDone = 1 /\ BlocksDone' = 0
  BY <1>1, <1>2 DEF DcisDone, BlocksDone
<1>6. dcis \subseteq Dci /\ blocks \subseteq Block /\ process \in [HarqIds -> Process]
  BY DEF TypeOK
<1>7. InTime'
  <2>1. ASSUME NEW d \in dcis
        PROVE  process[d.h].timer + d.left + d.k2 + 0 < NumHarqProcess
    <3>1. d.left \in Nat /\ d.k2 \in Nat /\ process[d.h].timer \in Nat
      BY <1>6, ProcessFacts, UplinkAssumption DEF Dci
    <3>2. process[d.h].timer + d.left + d.k2 + 1 < NumHarqProcess
      BY <1>5 DEF InTime
    <3> QED BY <3>1, <3>2, NumFacts
  <2>2. ASSUME NEW b \in blocks
        PROVE  process[b.h].timer + b.left + 0 < NumHarqProcess
    <3>1. b.left \in Nat /\ process[b.h].timer \in Nat
      BY <1>6, ProcessFacts DEF Block
    <3>2. process[b.h].timer + b.left + 1 < NumHarqProcess
      BY <1>5 DEF InTime
    <3> QED BY <3>1, <3>2, NumFacts
  <2> QED BY <1>1, <1>5, <2>1, <2>2 DEF InTime
<1>8. OneThing' /\ Current'
  BY <1>1 DEF OneThing, Current, InFlight
<1> QED BY <1>4, <1>7, <1>8

-----------------------------------------------------------------------------
\* The step of the scheduler.

\* The processes without the expired ones, the feedback and the NACKs.
Unexpired == [h \in HarqIds |-> ResetExpired(process[h])]
CallFeedback == Merged(Unexpired)
CallNacks == Nacked(Unexpired, CallFeedback)
CallProcs == AfterHarq(Unexpired, CallFeedback)
CallRetx == Retransmitted(Unexpired, CallNacks)

LEMMA UnexpiredFacts ==
  ASSUME TypeOK
  PROVE  /\ Unexpired \in [HarqIds -> Process]
         /\ \A h \in HarqIds : IsActive(process[h]) /\ process[h].timer < NumHarqProcess =>
              /\ IsActive(Unexpired[h])
              /\ Unexpired[h].timer = process[h].timer + 1
              /\ Unexpired[h].status = process[h].status /\ Unexpired[h].rv = process[h].rv
         /\ \A h \in HarqIds : IsActive(Unexpired[h]) =>
              IsActive(process[h]) /\ process[h].timer < NumHarqProcess
<1>1. \A h \in HarqIds : process[h] \in Process
  BY DEF TypeOK
<1> QED BY <1>1, ExpiredFacts DEF Unexpired

\* What the call does, seen from one process: nothing to one that waits for
\* something in flight; a NACKed one stays active; one not active has nothing.
LEMMA CallFacts ==
  ASSUME UplinkInv
  PROVE  /\ CallNacks \in Seq(HarqIds) /\ Distinct(CallNacks)
         /\ CallProcs \in [HarqIds -> Process]
         /\ \A x \in InFlight :
              /\ CallProcs[x.h] = Unexpired[x.h] /\ IsActive(Unexpired[x.h])
              /\ \A i \in DOMAIN CallNacks : CallNacks[i] # x.h
         /\ \A i \in DOMAIN CallNacks : IsActive(CallProcs[CallNacks[i]])
         /\ \A h \in CallRetx :
              /\ CallProcs[h].status = "WAITING_FEEDBACK" /\ CallProcs[h].timer = 0
              /\ CallProcs[h].rv = Unexpired[h].rv + 1
              /\ h \in HarqIds /\ \E i \in DOMAIN CallNacks : CallNacks[i] = h
<1> USE DEF UplinkInv
<1> DEFINE fb == CallFeedback
           n == CallNacks
           procs == CallProcs
<1>1. /\ fb \in Seq(Feedback) /\ OncePerProcess(fb) /\ IsMerged(fb, Unexpired)
  BY MergedFacts DEF CallFeedback
<1>2. Unexpired \in [HarqIds -> Process]
  BY UnexpiredFacts
<1>3. n \in Seq(HarqIds) /\ Distinct(n) /\ IsNacked(n, Unexpired, fb)
  BY <1>1, NackedFacts DEF CallNacks
<1>4. \A k \in DOMAIN fb : IsActive(Unexpired[fb[k].h])
  BY <1>1 DEF IsMerged
<1>5. /\ procs \in [HarqIds -> Process]
      /\ \A h \in HarqIds : (\A k \in DOMAIN fb : fb[k].h # h) => procs[h] = Unexpired[h]
      /\ \A h \in CallRetx :
           /\ procs[h].status = "WAITING_FEEDBACK" /\ procs[h].timer = 0
           /\ procs[h].rv = Unexpired[h].rv + 1
      /\ \A i \in DOMAIN n : IsActive(procs[n[i]])
  BY <1>1, <1>2, <1>4, AfterHarqFacts DEF CallProcs, CallNacks, CallRetx
<1>6. ASSUME NEW x \in InFlight
      PROVE  /\ x.h \in HarqIds
             /\ \A k \in DOMAIN fb : fb[k].h # x.h
             /\ IsActive(Unexpired[x.h])
  <2>1. x.h \in HarqIds
    BY DEF InFlight, TypeOK, Dci, Block
  <2>2. \A k \in DOMAIN fb : fb[k].h # x.h
    BY <1>1 DEF IsMerged, OneThing
  <2>3. process[x.h].timer < NumHarqProcess
    <3>1. process[x.h] \in Process
      BY <2>1 DEF TypeOK
    <3>2. process[x.h].timer \in Nat
      BY <3>1, ProcessFacts
    <3>3. DcisDone \in Nat /\ BlocksDone \in Nat
      BY DEF DcisDone, BlocksDone
    <3>4. CASE x \in dcis
      <4>1. x.left \in Nat /\ x.k2 \in Nat
        BY <3>4, UplinkAssumption DEF TypeOK, Dci
      <4>2. process[x.h].timer + x.left + x.k2 + DcisDone < NumHarqProcess
        BY <3>4 DEF InTime
      <4> QED BY <4>1, <4>2, <3>2, <3>3, NumFacts
    <3>5. CASE x \in blocks
      <4>1. x.left \in Nat
        BY <3>5 DEF TypeOK, Block
      <4>2. process[x.h].timer + x.left + BlocksDone < NumHarqProcess
        BY <3>5 DEF InTime
      <4> QED BY <4>1, <4>2, <3>2, <3>3, NumFacts
    <3> QED BY <3>4, <3>5 DEF InFlight
  <2>4. IsActive(process[x.h])
    BY DEF Current, IsActive
  <2> QED BY <2>1, <2>2, <2>3, <2>4, UnexpiredFacts
<1>7. \A x \in InFlight : \A i \in DOMAIN n : n[i] # x.h
  BY <1>3, <1>6 DEF IsNacked
<1>8. \A h \in CallRetx : h \in HarqIds /\ \E i \in DOMAIN n : n[i] = h
  BY <1>3, RetransmittedFacts DEF CallRetx
<1> QED BY <1>3, <1>5, <1>6, <1>7, <1>8

\* The DCIs of a call: each for a process that now waits for it and for
\* nothing else; the other processes are those the feedback leaves.
Granted(D) ==
  /\ dcis' = dcis \cup D /\ D \subseteq Dci
  /\ \A d, e \in D : d.h = e.h \/ d.rv = 0 => d = e
  /\ \A h \in CallRetx : \E d \in D : d.h = h
  /\ \A d \in D : /\ d.left = DciDelay - 1 /\ d.k2 = K2[pos]
                  /\ process'[d.h].status = "WAITING_FEEDBACK"
                  /\ process'[d.h].timer = 0 /\ process'[d.h].rv = d.rv
                  /\ \A x \in InFlight : x.h # d.h
                  /\ \A i \in DOMAIN toRetransmit' : toRetransmit'[i] # d.h
  /\ \A d \in D : \/ d.rv = 0 /\ ~IsActive(CallProcs[d.h])
                  \/ d.h \in CallRetx /\ d.rv = Unexpired[d.h].rv + 1
  /\ \A h \in HarqIds : (\A d \in D : d.h # h) => process'[h] = CallProcs[h]

LEMMA BufferedStep ==
  ASSUME UplinkInv, ScheduleUl
  PROVE  /\ toRetransmit' \in Seq(HarqIds) /\ Distinct(toRetransmit')
         /\ \A i \in DOMAIN toRetransmit' :
              /\ toRetransmit'[i] \in Visited(Unexpired, CallNacks) \ CallRetx
              /\ \E j \in DOMAIN CallNacks : CallNacks[j] = toRetransmit'[i]
<1> DEFINE V == Visited(Unexpired, CallNacks) \ CallRetx
<1>1. toRetransmit' = Buffered(Unexpired, CallNacks)
  BY DEF ScheduleUl, Unexpired, CallNacks, CallFeedback
<1>2. CallNacks \in Seq(HarqIds) /\ Distinct(CallNacks)
  BY CallFacts
<1>3. /\ toRetransmit' \in Seq(HarqIds) /\ Distinct(toRetransmit')
      /\ Keeps(toRetransmit', CallNacks, V)
  BY <1>1, <1>2, BufferedFacts DEF CallRetx
<1> HIDE DEF V
<1>4. \A i \in DOMAIN toRetransmit' :
        toRetransmit'[i] \in V /\ \E j \in DOMAIN CallNacks : CallNacks[j] = toRetransmit'[i]
  BY <1>3 DEF Keeps
<1> QED BY <1>3, <1>4 DEF V

LEMMA GrantedKeeps ==
  ASSUME UplinkInv, ScheduleUl, TypeOK', NEW D, Granted(D)
  PROVE  UplinkInv'
<1> USE DEF UplinkInv
<1>1. /\ phase = "schedule" /\ phase' = "slot" /\ feedback' = <<>>
      /\ UNCHANGED <<packet, blocks>>
  BY DEF ScheduleUl, EndSlot, ueVars
<1>2. DcisDone = 1 /\ DcisDone' = 0 /\ BlocksDone = 1 /\ BlocksDone' = 0
  BY <1>1 DEF DcisDone, BlocksDone
<1>3. dcis' = dcis \cup D /\ DOMAIN feedback' = {}
  BY <1>1 DEF Granted
\* What was in flight is untouched, but for the timer.
<1>4. ASSUME NEW x \in InFlight
      PROVE  /\ process'[x.h].status = process[x.h].status
             /\ process'[x.h].rv = process[x.h].rv
             /\ process'[x.h].timer = process[x.h].timer + 1
             /\ \A i \in DOMAIN toRetransmit' : toRetransmit'[i] # x.h
  <2>1. x.h \in HarqIds
    BY DEF InFlight, TypeOK, Dci, Block
  <2>2. process'[x.h] = CallProcs[x.h]
    BY <2>1 DEF Granted
  <2>3. CallProcs[x.h] = Unexpired[x.h] /\ IsActive(Unexpired[x.h])
    BY CallFacts
  <2>4. \A i \in DOMAIN toRetransmit' : toRetransmit'[i] # x.h
    BY BufferedStep, CallFacts
  <2> QED BY <2>1, <2>2, <2>3, <2>4, UnexpiredFacts
<1>5. OneThing'
  <2>1. ASSUME NEW x \in dcis', NEW y \in dcis', x.h = y.h
        PROVE  x = y
    BY <2>1, <1>3 DEF Granted, OneThing, InFlight
  <2>2. ASSUME NEW x \in dcis', NEW y \in blocks'
        PROVE  x.h # y.h
    BY <1>1, <1>3 DEF Granted, OneThing, InFlight
  <2>3. ASSUME NEW x \in InFlight'
        PROVE  /\ \A i \in DOMAIN feedback' : feedback'[i].h # x.h
               /\ \A i \in DOMAIN toRetransmit' : toRetransmit'[i] # x.h
    <3>1. CASE x \in D
      BY <3>1, <1>3 DEF Granted
    <3>2. CASE x \in InFlight
      BY <3>2, <1>3, <1>4
    <3> QED BY <3>1, <3>2, <1>1, <1>3 DEF InFlight
  <2>4. \A i, j \in DOMAIN toRetransmit' : toRetransmit'[i] = toRetransmit'[j] => i = j
    BY BufferedStep DEF Distinct
  <2>5. \A x, y \in blocks' : x.h = y.h => x = y
    BY <1>1 DEF OneThing
  <2> QED BY <1>3, <2>1, <2>2, <2>3, <2>4, <2>5 DEF OneThing
<1>6. InTime'
  <2>1. ASSUME NEW d \in D
        PROVE  process'[d.h].timer + d.left + d.k2 + 0 < NumHarqProcess
    <3>1. process'[d.h].timer = 0 /\ d.left = DciDelay - 1 /\ d.k2 = K2[pos]
      BY DEF Granted
    <3>2. K2[pos] \in Nat /\ DciDelay \in Nat /\ DciDelay + K2[pos] <= NumHarqProcess
      BY UplinkAssumption, TimerAssumption DEF TypeOK
    <3> QED BY <3>1, <3>2, NumFacts
  <2>2. ASSUME NEW d \in dcis
        PROVE  process'[d.h].timer + d.left + d.k2 + 0 < NumHarqProcess
    <3>1. d.left \in Nat /\ d.k2 \in Nat /\ d.h \in HarqIds
      <4>1. d \in Dci
        BY DEF TypeOK
      <4> QED BY <4>1, UplinkAssumption DEF Dci
    <3>2. process[d.h] \in Process
      BY <3>1 DEF TypeOK
    <3>3. process[d.h].timer \in Nat
      BY <3>2, ProcessFacts
    <3>4. process[d.h].timer + d.left + d.k2 + 1 < NumHarqProcess
      BY <1>2 DEF InTime
    <3>5. process'[d.h].timer = process[d.h].timer + 1
      BY <1>4 DEF InFlight
    <3> QED BY <3>1, <3>3, <3>4, <3>5, NumFacts
  <2>3. ASSUME NEW b \in blocks
        PROVE  process'[b.h].timer + b.left + 0 < NumHarqProcess
    <3>1. b.left \in Nat /\ b.h \in HarqIds
      BY DEF TypeOK, Block
    <3>2. process[b.h] \in Process
      BY <3>1 DEF TypeOK
    <3>3. process[b.h].timer \in Nat
      BY <3>2, ProcessFacts
    <3>4. process[b.h].timer + b.left + 1 < NumHarqProcess
      BY <1>2 DEF InTime
    <3>5. process'[b.h].timer = process[b.h].timer + 1
      BY <1>4 DEF InFlight
    <3> QED BY <3>1, <3>3, <3>4, <3>5, NumFacts
  <2> QED BY <1>1, <1>2, <1>3, <2>1, <2>2, <2>3 DEF InTime
<1>7. Current'
  <2>1. ASSUME NEW x \in InFlight'
        PROVE  process'[x.h].status = "WAITING_FEEDBACK" /\ process'[x.h].rv = x.rv
    <3>1. CASE x \in D
      BY <3>1 DEF Granted
    <3>2. CASE x \in InFlight
      BY <3>2, <1>4 DEF Current
    <3> QED BY <3>1, <3>2, <1>1, <1>3 DEF InFlight
  <2>2. ASSUME NEW i \in DOMAIN toRetransmit'
        PROVE  IsActive(process'[toRetransmit'[i]])
    <3>1. toRetransmit'[i] \in HarqIds
      BY BufferedStep
    <3>2. process'[toRetransmit'[i]] = CallProcs[toRetransmit'[i]]
      BY <3>1 DEF Granted
    <3>3. IsActive(CallProcs[toRetransmit'[i]])
      BY BufferedStep, CallFacts
    <3> QED BY <3>2, <3>3
  <2>3. \A b \in blocks' : b.data = packet'[b.h]
    BY <1>1 DEF Current
  <2> QED BY <1>3, <2>1, <2>2, <2>3 DEF Current
<1> QED BY <1>5, <1>6, <1>7

LEMMA ScheduleUlGrants ==
  ASSUME UplinkInv, ScheduleUl
  PROVE  TypeOK' /\ \E D : Granted(D)
<1> USE DEF UplinkInv
<1> DEFINE n == CallNacks
           procs == CallProcs
           symbols == SymbolsLeft(Unexpired, n)[Len(n)]
           size == AfterSr(Requested /\ symbols > 0)
           dci(h) == [h |-> h, rv |-> procs[h].rv, units |-> 0, k2 |-> K2[pos],
                      left |-> DciDelay - 1]
           D == {dci(h) : h \in CallRetx}
<1>1. /\ phase = "schedule" /\ EndSlot /\ feedback' = <<>> /\ ulCe' = <<>>
      /\ UNCHANGED <<queue, srState, packet, blocks, reported, corrupted>>
      /\ srList' = (Requested /\ symbols = 0)
  BY DEF ScheduleUl, ueVars, CallNacks, CallFeedback, Unexpired
<1>2. \/ /\ CanSchedule(procs, CallRetx, symbols, size)
         /\ Schedule(procs, symbols, size)
      \/ process' = procs /\ lcg' = size /\ dcis' = dcis \cup D
  BY DEF ScheduleUl, CallRetx, CallProcs, CallNacks, CallFeedback, Unexpired
<1>3. /\ n \in Seq(HarqIds) /\ procs \in [HarqIds -> Process]
      /\ \A x \in InFlight :
           /\ procs[x.h] = Unexpired[x.h] /\ IsActive(Unexpired[x.h])
           /\ \A i \in DOMAIN n : n[i] # x.h
      /\ \A i \in DOMAIN n : IsActive(procs[n[i]])
      /\ \A h \in CallRetx :
           /\ procs[h].status = "WAITING_FEEDBACK" /\ procs[h].timer = 0
           /\ procs[h].rv = Unexpired[h].rv + 1
           /\ h \in HarqIds /\ \E i \in DOMAIN n : n[i] = h
  BY CallFacts
<1>4. /\ toRetransmit' \in Seq(HarqIds)
      /\ \A i \in DOMAIN toRetransmit' :
           /\ toRetransmit'[i] \notin CallRetx
           /\ \E j \in DOMAIN n : n[j] = toRetransmit'[i]
  BY BufferedStep
<1> HIDE DEF n, procs, symbols
<1>5. size \in Nat
  <2>1. AfterBsr \in Nat
    BY LastCeFacts
  <2> QED BY <2>1 DEF AfterSr, SrUnits
<1> HIDE DEF size
<1>6. /\ pos \in Pattern /\ K2[pos] \in Nat /\ DciDelay - 1 \in 0 .. DciDelay
  BY UplinkAssumption DEF TypeOK
<1>7. ASSUME process' \in [HarqIds -> Process], lcg' \in Nat, dcis' \subseteq Dci
      PROVE  TypeOK'
  <2>1. /\ sr' \subseteq 0 .. SrDelay /\ bsrs' \subseteq Bsr
        /\ phase' = "slot" /\ pos' \in Pattern
    BY <1>1, EndSlotFacts
  <2>2. ulCe' \in Seq(Nat) /\ Len(ulCe') <= 1 /\ feedback' \in Seq(Feedback)
    BY <1>1
  <2>3. srList' \in BOOLEAN
    BY <1>1 DEF Requested, TypeOK
  <2> QED BY <1>1, <1>4, <1>7, <2>1, <2>2, <2>3 DEF TypeOK, Phases
<1>8. CASE process' = procs /\ lcg' = size /\ dcis' = dcis \cup D
  <2>1. ASSUME NEW h \in CallRetx
        PROVE  dci(h) \in Dci
    <3>1. procs[h].rv \in 0 .. MaxRv /\ h \in HarqIds
      BY <1>3, ProcessFacts
    <3> QED BY <3>1, <1>6 DEF Dci
  <2>2. \A h \in CallRetx : /\ dci(h).h = h /\ dci(h).rv = procs[h].rv
                            /\ dci(h).left = DciDelay - 1 /\ dci(h).k2 = K2[pos]
    OBVIOUS
  <2> HIDE DEF dci
  <2>3. D \subseteq Dci
    BY <2>1
  <2>4. \A d \in D : d.h \in CallRetx /\ d = dci(d.h)
    BY <2>2
  <2>5. TypeOK'
    BY <1>3, <1>5, <1>7, <1>8, <2>3 DEF TypeOK
  <2>6. \A d \in D : /\ \A x \in InFlight : x.h # d.h
                     /\ \A i \in DOMAIN toRetransmit' : toRetransmit'[i] # d.h
    BY <1>3, <1>4, <2>4
  <2>7. \A d \in D : d.rv # 0
    <3>1. ASSUME NEW h \in CallRetx
          PROVE  procs[h].rv # 0
      <4>1. Unexpired[h] \in Process /\ procs[h].rv = Unexpired[h].rv + 1
        BY <1>3, UnexpiredFacts
      <4>2. Unexpired[h].rv \in Nat
        BY <4>1, ProcessFacts
      <4> QED BY <4>1, <4>2
    <3> QED BY <3>1, <2>2, <2>4
  <2>8. \A h \in CallRetx : \E d \in D : d.h = h
    BY <2>2
  <2>9. \A d \in D : d.h \in CallRetx /\ d.rv = Unexpired[d.h].rv + 1
    BY <1>3, <2>2, <2>4
  <2>10. Granted(D)
    BY <1>3, <1>8, <2>2, <2>3, <2>4, <2>6, <2>7, <2>8, <2>9 DEF Granted, procs
  <2> QED BY <2>5, <2>10
<1>9. CASE CanSchedule(procs, CallRetx, symbols, size) /\ Schedule(procs, symbols, size)
  <2>1. PICK h \in {g \in HarqIds : ~IsActive(procs[g])},
             s \in {t \in TbSymbols : t <= symbols}, units \in TbUnits :
          /\ process' = [procs EXCEPT ![h] = [status |-> "WAITING_FEEDBACK",
                                              timer |-> 0, rv |-> 0, sym |-> s]]
          /\ dcis' = dcis \cup {[h |-> h, rv |-> 0, units |-> units,
                                 k2 |-> K2[pos], left |-> DciDelay - 1]}
          /\ lcg' = size - AtMost(units, size)
    BY <1>9 DEF Schedule
  <2> DEFINE d == [h |-> h, rv |-> 0, units |-> units, k2 |-> K2[pos],
                   left |-> DciDelay - 1]
             p == [status |-> "WAITING_FEEDBACK", timer |-> 0, rv |-> 0, sym |-> s]
  <2>2. h \in HarqIds /\ ~IsActive(procs[h]) /\ s \in TbSymbols /\ units \in Nat
    BY UplinkAssumption
  <2>3. 0 \in 0 .. MaxRv /\ 0 \in 0 .. NumHarqProcess
    BY UplinkAssumption, NumFacts
  <2>4. d \in Dci
    BY <1>6, <2>2, <2>3 DEF Dci
  <2>5. p \in Process
    BY <2>2, <2>3 DEF Process
  <2>6. d.h = h /\ d.rv = 0 /\ d.left = DciDelay - 1 /\ d.k2 = K2[pos]
    OBVIOUS
  <2>7. p.status = "WAITING_FEEDBACK" /\ p.timer = 0 /\ p.rv = 0
    OBVIOUS
  <2>8. process' = [procs EXCEPT ![h] = p] /\ dcis' = dcis \cup {d}
    BY <2>1
  <2> HIDE DEF d, p
  <2>9. /\ process' \in [HarqIds -> Process] /\ process'[h] = p
        /\ \A g \in HarqIds \ {h} : process'[g] = procs[g]
    BY <1>3, <2>2, <2>5, <2>8
  <2>10. lcg' \in Nat
    <3>1. AtMost(units, size) \in Nat /\ AtMost(units, size) <= size
      BY <1>5, <2>2, AtMostFacts
    <3> QED BY <1>5, <2>1, <3>1
  <2>11. TypeOK'
    BY <1>7, <2>4, <2>8, <2>9, <2>10 DEF TypeOK
  <2>12. /\ \A x \in InFlight : x.h # h
         /\ \A i \in DOMAIN toRetransmit' : toRetransmit'[i] # h
    BY <1>3, <1>4, <2>2
  <2>13. CallRetx = {}
    BY <1>9 DEF CanSchedule
  <2>14. Granted({d})
    BY <2>2, <2>13, <2>4, <2>6, <2>7, <2>8, <2>9, <2>12 DEF Granted, procs
  <2> QED BY <2>11, <2>14
<1> QED BY <1>2, <1>8, <1>9

LEMMA ScheduleUlStep ==
  ASSUME UplinkInv, ScheduleUl
  PROVE  UplinkInv'
<1>1. TypeOK' /\ \E D : Granted(D)
  BY ScheduleUlGrants
<1>2. PICK D : Granted(D)
  BY <1>1
<1> QED BY <1>1, <1>2, GrantedKeeps

LEMMA UplinkNext == UplinkInv /\ [Next]_vars => UplinkInv'
<1> SUFFICES ASSUME UplinkInv, [Next]_vars
             PROVE  UplinkInv'
  OBVIOUS
<1>1. CASE ReportBufferStatus
  BY <1>1, ReportStep
<1>2. CASE SlotIndication
  BY <1>2, SlotIndicationStep
<1>3. CASE ProcessUlDci
  BY <1>3, ProcessUlDciStep
<1>4. CASE ReceiveBlocks
  BY <1>4, ReceiveBlocksStep
<1>5. CASE ScheduleUl
  BY <1>5, ScheduleUlStep
<1>6. CASE NoUplink
  BY <1>6, NoUplinkStep
<1>7. CASE UNCHANGED vars
  BY <1>7 DEF vars, ueVars, gnbVars, UplinkInv, TypeOK, OneThing, InTime, Current,
              InFlight, DcisDone, BlocksDone
<1> QED BY <1>1, <1>2, <1>3, <1>4, <1>5, <1>6, <1>7 DEF Next, Slot

LEMMA UplinkInvariant == Spec => []UplinkInv
BY UplinkInit, UplinkNext, PTL DEF Spec

\* The variables keep their types: in particular no timer passes the number of
\* HARQ processes and no redundancy version passes the last (ProcessHARQFeedbacks).
THEOREM UplinkTypeOK == Spec => []TypeOK
<1>1. UplinkInv => TypeOK
  BY DEF UplinkInv
<1> QED BY <1>1, UplinkInvariant, PTL

\* Whatever is under way for a HARQ process is its current transmission, and
\* one only: no timer of the gNB expires before the feedback is there
\* (ResetExpiredHARQ), and no feedback answers for another block.
THEOREM UplinkInFlightIsCurrent == Spec => []InFlightIsCurrent
<1>1. UplinkInv => InFlightIsCurrent
  BY DEF UplinkInv, OneThing, Current, InFlightIsCurrent, InFlight
<1> QED BY <1>1, UplinkInvariant, PTL

-----------------------------------------------------------------------------
\* No NACK is lost.

\* What the hypothesis of the theorem says of an instance: whatever mix of
\* block sizes is retransmitted in an uplink slot, some symbol is left.  The
\* amounts that can be left are members of A.
NeverFilled ==
  \A p \in Pattern : UlSymbols[p] > 0 =>
    \E A \in SUBSET (1 .. UlSymbols[p]) :
      /\ UlSymbols[p] \in A
      /\ \A a \in A, s \in TbSymbols : s <= a => a - s \in A

\* Something is under way for the process, or its feedback is kept.
HasOne(h) ==
  \/ \E x \in InFlight : x.h = h
  \/ \E i \in DOMAIN feedback : feedback[i].h = h
  \/ \E i \in DOMAIN toRetransmit : toRetransmit[i] = h
Kept == \A h \in HarqIds : IsActive(process[h]) => HasOne(h)

\* A DCI for a new block is due in a slot of its own: the UE deals with it
\* alone.
DueAlone ==
  /\ \A d \in dcis : d.left + DcisDone < DciDelay
  /\ \A d, e \in dcis : d.left = e.left /\ d.rv = 0 => d = e

LEMMA SymbolsAreLeft ==
  ASSUME NeverFilled, TypeOK, UlSymbols[pos] > 0,
         NEW procs \in [HarqIds -> Process], NEW n \in Seq(HarqIds)
  PROVE  \A j \in 1 .. Len(n) : n[j] \in Visited(procs, n)
<1> DEFINE N == Len(n)
           left == SymbolsLeft(procs, n)
<1>1. N \in Nat /\ UlSymbols[pos] \in Nat
  BY UplinkAssumption DEF TypeOK
<1>2. left \in [0 .. N -> Nat] /\ Leaves(left, procs, n)
  BY SymbolsFacts
<1>3. PICK A \in SUBSET (1 .. UlSymbols[pos]) :
        /\ UlSymbols[pos] \in A
        /\ \A a \in A, s \in TbSymbols : s <= a => a - s \in A
  BY DEF NeverFilled, TypeOK
<1> HIDE DEF left
<1> DEFINE G == {i \in 0 .. N : left[i] \in A}
<1>4. 0 \in G
  BY <1>1, <1>2, <1>3 DEF Leaves
<1>5. ASSUME NEW i \in 0 .. N - 1, i \in G
      PROVE  i + 1 \in G
  <2>1. i + 1 \in 1 .. N /\ (i + 1) - 1 = i /\ left[i] \in A /\ left[i] \in Nat
    BY <1>1, <1>2, <1>5
  <2>2. left[i + 1] = IF Fits(procs[n[i + 1]], left[i])
                      THEN left[i] - procs[n[i + 1]].sym ELSE left[i]
    BY <1>2, <2>1 DEF Leaves
  <2>3. procs[n[i + 1]] \in Process
    <3>1. n[i + 1] \in HarqIds
      BY <2>1
    <3> QED BY <3>1
  <2>4. procs[n[i + 1]].sym \in TbSymbols \cup {0} /\ procs[n[i + 1]].sym \in Nat
    BY <2>3, ProcessFacts
  <2>5. ASSUME Fits(procs[n[i + 1]], left[i])
        PROVE  left[i] - procs[n[i + 1]].sym \in A
    <3>1. CASE procs[n[i + 1]].sym = 0
      BY <3>1, <2>1
    <3>2. CASE procs[n[i + 1]].sym \in TbSymbols
      <4>1. procs[n[i + 1]].sym <= left[i]
        BY <2>5, <2>1, <2>4 DEF Fits
      <4> QED BY <4>1, <3>2, <2>1, <1>3
    <3> QED BY <3>1, <3>2, <2>4
  <2>6. left[i + 1] \in A
    BY <2>1, <2>2, <2>5
  <2> QED BY <2>1, <2>6, <1>1
<1> HIDE DEF G
<1>6. \A i \in 0 .. N : i \in G
  BY <1>1, <1>4, <1>5, InductionUpTo
<1>7. ASSUME NEW j \in 1 .. N
      PROVE  n[j] \in Visited(procs, n)
  <2>1. j - 1 \in 0 .. N
    BY <1>1
  <2>2. left[j - 1] \in 1 .. UlSymbols[pos]
    BY <2>1, <1>6 DEF G
  <2>3. left[j - 1] > 0
    BY <2>2, <1>1
  <2> QED BY <2>3 DEF Visited, left
<1> QED BY <1>7

LEMMA CallKeeps ==
  ASSUME UplinkInv, Kept, NEW h \in HarqIds, IsActive(CallProcs[h])
  PROVE  \/ \E x \in InFlight : x.h = h
         \/ \E i \in DOMAIN CallNacks : CallNacks[i] = h
<1> USE DEF UplinkInv
<1> DEFINE fb == CallFeedback
<1>1. /\ fb \in Seq(Feedback) /\ OncePerProcess(fb) /\ IsMerged(fb, Unexpired)
  BY MergedFacts DEF CallFeedback
<1>2. Unexpired \in [HarqIds -> Process]
  BY UnexpiredFacts
<1>3. \A k \in DOMAIN fb : IsActive(Unexpired[fb[k].h])
  BY <1>1 DEF IsMerged
<1>4. /\ (\A k \in DOMAIN fb : fb[k].h # h) => CallProcs[h] = Unexpired[h]
      /\ \A k \in DOMAIN fb : IsActive(CallProcs[fb[k].h]) =>
           \E i \in DOMAIN CallNacks : CallNacks[i] = fb[k].h
  BY <1>1, <1>2, <1>3, AfterHarqFacts DEF CallProcs, CallNacks
<1>5. CASE \E k \in DOMAIN fb : fb[k].h = h
  BY <1>4, <1>5
<1>6. CASE \A k \in DOMAIN fb : fb[k].h # h
  <2>1. IsActive(Unexpired[h])
    BY <1>4, <1>6
  <2>2. HasOne(h)
    BY <2>1, UnexpiredFacts DEF Kept
  <2>3. /\ \A i \in DOMAIN feedback : feedback[i].h # h
        /\ \A i \in DOMAIN toRetransmit : toRetransmit[i] # h
    BY <1>1, <1>6, <2>1 DEF IsMerged
  <2> QED BY <2>2, <2>3 DEF HasOne
<1> QED BY <1>5, <1>6

LEMMA ScheduleUlKept ==
  ASSUME NeverFilled, UplinkInv, Kept, DueAlone, ScheduleUl
  PROVE  Kept' /\ DueAlone'
<1> USE DEF UplinkInv
<1>1. PICK D : Granted(D)
  BY ScheduleUlGrants
<1>2. /\ phase = "schedule" /\ phase' = "slot" /\ UNCHANGED blocks
      /\ UlSymbols[pos] > 0 /\ dcis' = dcis \cup D
      /\ toRetransmit' = Buffered(Unexpired, CallNacks)
  BY <1>1 DEF ScheduleUl, EndSlot, Granted, Unexpired, CallNacks, CallFeedback
<1>3. DcisDone = 1 /\ DcisDone' = 0
  BY <1>2 DEF DcisDone
<1>4. CallNacks \in Seq(HarqIds) /\ Distinct(CallNacks)
  BY CallFacts
<1>5. ASSUME NEW h \in HarqIds, IsActive(process'[h])
      PROVE  HasOne(h)'
  <2>1. CASE \E d \in D : d.h = h
    BY <2>1, <1>2 DEF HasOne, InFlight
  <2>2. CASE \A d \in D : d.h # h
    <3>1. IsActive(CallProcs[h]) /\ h \notin CallRetx
      BY <2>2, <1>1, <1>5 DEF Granted
    <3>2. CASE \E x \in InFlight : x.h = h
      BY <3>2, <1>2 DEF HasOne, InFlight
    <3>3. CASE \E i \in DOMAIN CallNacks : CallNacks[i] = h
      <4>1. PICK i \in DOMAIN CallNacks : CallNacks[i] = h
        BY <3>3
      <4>2. h \in Visited(Unexpired, CallNacks)
        <5>1. \A j \in 1 .. Len(CallNacks) :
                CallNacks[j] \in Visited(Unexpired, CallNacks)
          BY <1>2, <1>4, UnexpiredFacts, SymbolsAreLeft
        <5> QED BY <5>1, <4>1, <1>4
      <4>3. Keeps(toRetransmit', CallNacks,
                  Visited(Unexpired, CallNacks) \ CallRetx)
        BY <1>2, <1>4, BufferedFacts DEF CallRetx
      <4>4. \E j \in DOMAIN toRetransmit' : toRetransmit'[j] = h
        BY <3>1, <4>1, <4>2, <4>3 DEF Keeps
      <4> QED BY <4>4 DEF HasOne
    <3> QED BY <3>1, <3>2, <3>3, CallKeeps
  <2> QED BY <2>1, <2>2
<1>6. Kept'
  BY <1>5 DEF Kept, IsActive
<1>7. DciDelay \in Nat /\ dcis \subseteq Dci
  BY UplinkAssumption DEF TypeOK
<1>8. \A d \in dcis : d.left \in Nat /\ d.left + 1 < DciDelay
  <2>1. ASSUME NEW d \in dcis
        PROVE  d.left \in Nat
    <3>1. d \in Dci
      BY <1>7
    <3> QED BY <3>1, <1>7 DEF Dci
  <2> QED BY <2>1, <1>3 DEF DueAlone
<1>9. \A d \in D : d.left = DciDelay - 1
  BY <1>1 DEF Granted
<1>10. ASSUME NEW d \in dcis'
       PROVE  d.left + 0 < DciDelay
  BY <1>2, <1>7, <1>8, <1>9
<1>11. ASSUME NEW d \in dcis', NEW e \in dcis', d.left = e.left, d.rv = 0
       PROVE  d = e
  <2>1. (d \in dcis /\ e \in dcis) \/ (d \in D /\ e \in D)
    BY <1>2, <1>7, <1>8, <1>9, <1>11
  <2> QED BY <2>1, <1>1, <1>11 DEF Granted, DueAlone
<1>12. DueAlone'
  BY <1>3, <1>10, <1>11 DEF DueAlone
<1> QED BY <1>6, <1>12

\* Every DCI that is due is answered by a block; the others stay.
LEMMA AnsweredDcis ==
  ASSUME UplinkInv, DueAlone, ProcessUlDci
  PROVE  \A x \in InFlight : \E y \in InFlight' : y.h = x.h
<1> USE DEF UplinkInv
<1>1. dcis' = Later(dcis) /\ dcis \subseteq Dci
  BY DEF ProcessUlDci, TypeOK
<1>2. blocks \subseteq blocks' /\ \A d \in DueNow(dcis) : \E b \in blocks' : b.h = d.h
  <2>1. ASSUME NEW d \in DueNow(dcis), d.rv = 0, SendNewData(d)
        PROVE  blocks \subseteq blocks'
               /\ \A e \in DueNow(dcis) : \E b \in blocks' : b.h = e.h
    <3> DEFINE b == [h |-> d.h, rv |-> d.rv, data |-> AtMost(d.units, queue),
                     bsr |-> queue', left |-> d.k2]
    <3>1. blocks' = blocks \cup {b}
      BY <2>1 DEF SendNewData
    <3>2. b.h = d.h
      OBVIOUS
    <3> HIDE DEF b
    <3>3. \A e \in DueNow(dcis) : e = d
      BY <2>1 DEF DueNow, DueAlone
    <3> QED BY <3>1, <3>2, <3>3
  <2>2. ASSUME TransmitRetx(DueNow(dcis))
        PROVE  blocks \subseteq blocks'
               /\ \A e \in DueNow(dcis) : \E b \in blocks' : b.h = e.h
    <3> DEFINE b(d) == [h |-> d.h, rv |-> d.rv, data |-> packet[d.h], bsr |-> queue,
                        left |-> d.k2]
    <3>1. blocks' = blocks \cup {b(d) : d \in DueNow(dcis)}
      BY <2>2 DEF TransmitRetx
    <3>2. \A d \in DueNow(dcis) : b(d).h = d.h
      OBVIOUS
    <3> HIDE DEF b
    <3> QED BY <3>1, <3>2
  <2> QED BY <2>1, <2>2 DEF ProcessUlDci
<1>3. \A d \in dcis : d \in DueNow(dcis) \/ \E e \in dcis' : e.h = d.h
  <2>1. ASSUME NEW d \in dcis, d \notin DueNow(dcis)
        PROVE  \E e \in dcis' : e.h = d.h
    <3> DEFINE e == [d EXCEPT !.left = @ - 1]
    <3>1. e \in dcis'
      BY <1>1, <2>1 DEF Later
    <3>2. e.h = d.h
      BY <1>1 DEF Dci
    <3> QED BY <3>1, <3>2
  <2> QED BY <2>1
<1> QED BY <1>2, <1>3 DEF InFlight

LEMMA ProcessUlDciKept ==
  ASSUME UplinkInv, Kept, DueAlone, ProcessUlDci
  PROVE  Kept' /\ DueAlone'
<1> USE DEF UplinkInv
<1>1. /\ phase = "dci" /\ phase' = "air" /\ dcis' = Later(dcis)
      /\ UNCHANGED <<feedback, toRetransmit, process>>
  BY DEF ProcessUlDci, gnbVars
<1>2. DcisDone = 0 /\ DcisDone' = 1
  BY <1>1 DEF DcisDone
<1>3. dcis \subseteq Dci /\ DciDelay \in Nat
  BY UplinkAssumption DEF TypeOK
<1>4. ASSUME NEW h \in HarqIds, HasOne(h)
      PROVE  HasOne(h)'
  BY <1>1, <1>4, AnsweredDcis DEF HasOne
<1>5. Kept'
  BY <1>1, <1>4 DEF Kept
<1>6. \A e \in dcis' : \E d \in dcis :
        /\ d.left \in Nat /\ e.left = d.left - 1 /\ e.rv = d.rv
        /\ e = [d EXCEPT !.left = @ - 1]
  <2>1. ASSUME NEW e \in dcis'
        PROVE  \E d \in dcis :
                 /\ d.left > 0 /\ e.left = d.left - 1
                 /\ e.rv = d.rv /\ e = [d EXCEPT !.left = @ - 1]
    BY <1>1, <1>3, <2>1, LaterDcis
  <2>2. \A d \in dcis : d.left \in Nat
    BY <1>3 DEF Dci
  <2> QED BY <2>1, <2>2
<1>7. ASSUME NEW e \in dcis'
      PROVE  e.left + 1 < DciDelay
  <2>1. PICK d \in dcis : d.left \in Nat /\ e.left = d.left - 1
    BY <1>6
  <2>2. d.left + 0 < DciDelay
    BY <1>2 DEF DueAlone
  <2> QED BY <2>1, <2>2, <1>3
<1>8. ASSUME NEW x \in dcis', NEW y \in dcis', x.left = y.left, x.rv = 0
       PROVE  x = y
  <2>1. PICK d \in dcis : /\ d.left \in Nat /\ x.left = d.left - 1 /\ x.rv = d.rv
                          /\ x = [d EXCEPT !.left = @ - 1]
    BY <1>6
  <2>2. PICK e \in dcis : /\ e.left \in Nat /\ y.left = e.left - 1
                          /\ y = [e EXCEPT !.left = @ - 1]
    BY <1>6
  <2>3. d.left = e.left
    BY <2>1, <2>2, <1>8
  <2>4. d = e
    BY <2>1, <2>3, <1>8 DEF DueAlone
  <2> QED BY <2>1, <2>2, <2>4
<1>9. DueAlone'
  BY <1>2, <1>7, <1>8 DEF DueAlone
<1> QED BY <1>5, <1>9

\* The feedback received is kept, and that of the blocks due is added.
LEMMA ReceivedFacts ==
  ASSUME UplinkInv, ReceiveBlocks
  PROVE  /\ \A i \in DOMAIN feedback : \E j \in DOMAIN feedback' : feedback'[j] = feedback[i]
         /\ \A j \in DOMAIN feedback' :
              \/ \E i \in DOMAIN feedback : feedback'[j] = feedback[i]
              \/ \E b \in DueNow(blocks) : feedback'[j].h = b.h
         /\ \A b \in DueNow(blocks) : \E j \in DOMAIN feedback' : feedback'[j].h = b.h
<1> USE DEF UplinkInv
<1> DEFINE due == DueNow(blocks)
           l == Len(feedback)
<1>1. PICK order \in Orders(due), bad \in SUBSET due :
        feedback' = feedback \o [i \in DOMAIN order |->
                      [h |-> order[i].h, ok |-> order[i] \notin bad]]
  BY DEF ReceiveBlocks
<1>2. blocks \subseteq Block /\ due \subseteq blocks
  BY DEF TypeOK, DueNow
<1>3. IsFiniteSet(due)
  BY <1>2, BlocksFinite, FS_Subset
<1> DEFINE m == Cardinality(due)
<1>4. m \in Nat /\ order \in [1 .. m -> due] /\ \A x \in due : \E i \in 1 .. m : order[i] = x
  <2>1. m \in Nat /\ order \in [1 .. m -> due]
    BY <1>3, OrderFacts
  <2>2. DOMAIN order = 1 .. m
    BY <2>1
  <2>3. \A x \in due : \E i \in DOMAIN order : order[i] = x
    BY DEF Orders
  <2> QED BY <2>1, <2>2, <2>3
<1>5. feedback \in Seq(Feedback) /\ l \in Nat /\ DOMAIN feedback = 1 .. l
  BY DEF TypeOK
<1> DEFINE new == [i \in DOMAIN order |-> [h |-> order[i].h, ok |-> order[i] \notin bad]]
<1> HIDE DEF m, due
<1>6. new \in Seq(Feedback) /\ Len(new) = m /\ \A i \in 1 .. m : new[i].h = order[i].h
  <2>1. ASSUME NEW i \in 1 .. m
        PROVE  [h |-> order[i].h, ok |-> order[i] \notin bad] \in Feedback
    <3>1. order[i] \in Block
      BY <1>2, <1>4
    <3> QED BY <3>1 DEF Block, Feedback
  <2>2. new \in [1 .. m -> Feedback]
    BY <1>4, <2>1
  <2>3. \A i \in 1 .. m : new[i].h = order[i].h
    BY <1>4
  <2> HIDE DEF new
  <2> QED BY <2>2, <2>3, <1>4
<1>7. feedback' = feedback \o new
  BY <1>1
<1> HIDE DEF new
<1>8. /\ \A i \in 1 .. l : i \in DOMAIN feedback' /\ feedback'[i] = feedback[i]
      /\ \A i \in 1 .. m : l + i \in DOMAIN feedback' /\ feedback'[l + i] = new[i]
  BY <1>4, <1>5, <1>6, <1>7
<1>9. ASSUME NEW j \in DOMAIN feedback'
      PROVE  \/ j \in 1 .. l
             \/ j - l \in 1 .. m /\ feedback'[j] = new[j - l]
  BY <1>4, <1>5, <1>6, <1>7
<1>10. ASSUME NEW j \in DOMAIN feedback', j - l \in 1 .. m, feedback'[j] = new[j - l]
       PROVE  \E b \in due : feedback'[j].h = b.h
  BY <1>4, <1>6, <1>10
<1>11. ASSUME NEW b \in due
       PROVE  \E j \in DOMAIN feedback' : feedback'[j].h = b.h
  <2>1. PICK i \in 1 .. m : order[i] = b
    BY <1>4
  <2> QED BY <2>1, <1>6, <1>8
<1> QED BY <1>5, <1>8, <1>9, <1>10, <1>11 DEF due

LEMMA ReceiveBlocksKept ==
  ASSUME UplinkInv, Kept, DueAlone, ReceiveBlocks
  PROVE  Kept' /\ DueAlone'
<1> USE DEF UplinkInv
<1>1. /\ phase = "air" /\ phase' = "schedule" /\ blocks' = Later(blocks)
      /\ UNCHANGED <<dcis, toRetransmit, process>>
  BY DEF ReceiveBlocks, gnbVars
<1>2. DcisDone' = DcisDone
  BY <1>1 DEF DcisDone
<1>3. ASSUME NEW b \in blocks
      PROVE  \/ \E e \in blocks' : e.h = b.h
             \/ \E i \in DOMAIN feedback' : feedback'[i].h = b.h
  <2>1. CASE b \in DueNow(blocks)
    BY <2>1, ReceivedFacts
  <2>2. CASE b \notin DueNow(blocks)
    <3> DEFINE e == [b EXCEPT !.left = @ - 1]
    <3>1. e \in blocks'
      BY <1>1, <2>2 DEF Later
    <3>2. e.h = b.h
      BY DEF Block, TypeOK
    <3> QED BY <3>1, <3>2
  <2> QED BY <2>1, <2>2
<1>4. ASSUME NEW h \in HarqIds, HasOne(h)
      PROVE  HasOne(h)'
  <2>1. CASE \E b \in blocks : b.h = h
    BY <2>1, <1>3 DEF HasOne, InFlight
  <2>2. CASE \E d \in dcis : d.h = h
    BY <2>2, <1>1 DEF HasOne, InFlight
  <2>3. CASE \E i \in DOMAIN feedback : feedback[i].h = h
    BY <2>3, ReceivedFacts DEF HasOne
  <2>4. CASE \E i \in DOMAIN toRetransmit : toRetransmit[i] = h
    BY <2>4, <1>1 DEF HasOne
  <2> QED BY <2>1, <2>2, <2>3, <2>4, <1>4 DEF HasOne, InFlight
<1>5. Kept'
  BY <1>1, <1>4 DEF Kept
<1>6. DueAlone'
  BY <1>1, <1>2 DEF DueAlone
<1> QED BY <1>5, <1>6

LEMMA KeptNext ==
  ASSUME NeverFilled, UplinkInv, Kept, DueAlone, [Next]_vars
  PROVE  Kept' /\ DueAlone'
<1>1. CASE ReportBufferStatus
  BY <1>1 DEF ReportBufferStatus, gnbVars, Kept, HasOne, InFlight, DueAlone, DcisDone
<1>2. CASE SlotIndication
  <2>1. DcisDone' = DcisDone
    BY <1>2 DEF SlotIndication, DcisDone
  <2> QED BY <1>2, <2>1 DEF SlotIndication, gnbVars, Kept, HasOne, InFlight, DueAlone
<1>3. CASE ProcessUlDci
  BY <1>3, ProcessUlDciKept
<1>4. CASE ReceiveBlocks
  BY <1>4, ReceiveBlocksKept
<1>5. CASE ScheduleUl
  BY <1>5, ScheduleUlKept
<1>6. CASE NoUplink
  <2>1. UNCHANGED <<dcis, blocks, feedback, toRetransmit, process>>
    BY <1>6 DEF NoUplink
  <2>2. DcisDone = 1 /\ DcisDone' = 0
    BY <1>6 DEF NoUplink, EndSlot, DcisDone
  <2>3. Kept'
    BY <2>1 DEF Kept, HasOne, InFlight
  <2>4. ASSUME NEW d \in dcis
        PROVE  d.left + 0 < DciDelay
    <3>1. d \in Dci
      BY DEF UplinkInv, TypeOK
    <3>2. d.left \in Nat /\ DciDelay \in Nat
      BY <3>1, UplinkAssumption DEF Dci
    <3>3. d.left + 1 < DciDelay
      BY <2>2 DEF DueAlone
    <3> QED BY <3>2, <3>3
  <2>5. DueAlone'
    BY <2>1, <2>2, <2>4 DEF DueAlone
  <2> QED BY <2>3, <2>5
<1>7. CASE UNCHANGED vars
  BY <1>7 DEF vars, gnbVars, Kept, HasOne, InFlight, DueAlone, DcisDone
<1> QED BY <1>1, <1>2, <1>3, <1>4, <1>5, <1>6, <1>7 DEF Next, Slot

LEMMA KeptInit == Init => Kept /\ DueAlone
<1> SUFFICES ASSUME Init PROVE Kept /\ DueAlone
  OBVIOUS
<1>1. dcis = {} /\ process = [h \in HarqIds |-> Idle]
  BY DEF Init
<1>2. \A h \in HarqIds : ~IsActive(process[h])
  BY <1>1, IdleFacts
<1> QED BY <1>1, <1>2 DEF Kept, DueAlone

\* Unless retransmissions can fill an uplink slot exactly, which is when
\* ScheduleUlHarq loses feedback, every NACKed process that has versions left
\* has been granted a retransmission or waits in m_ulHarqToRetransmit.
THEOREM UplinkNackIsKept == ASSUME NeverFilled PROVE Spec => []NackIsKept
<1>1. Init => UplinkInv /\ Kept /\ DueAlone
  BY UplinkInit, KeptInit
<1>2. UplinkInv /\ Kept /\ DueAlone /\ [Next]_vars => (UplinkInv /\ Kept /\ DueAlone)'
  BY UplinkNext, KeptNext
<1>3. UplinkInv /\ Kept /\ DueAlone => NackIsKept
  BY DEF Kept, HasOne, NackIsKept
<1> QED BY <1>1, <1>2, <1>3, PTL DEF Spec

-----------------------------------------------------------------------------
\* The processes are those of StopAndWait.

\* The timer of a process that waits in m_ulHarqToRetransmit starts anew in
\* each uplink slot; a process that is free is as new.
Fresh ==
  /\ \A h \in HarqIds : IsActive(process[h]) \/ process[h] = Idle
  /\ \A i \in DOMAIN toRetransmit : process[toRetransmit[i]].timer = 0

IsInFlight(h) == \E x \in InFlight : x.h = h
FeedbackFor(h) == {i \in DOMAIN feedback : feedback[i].h = h}

\* Why ScheduleUlHarq leaves a process inactive, and what it keeps of one that
\* it does not serve.
LEMMA AfterHarqOutcome ==
  ASSUME NEW procs \in [HarqIds -> Process], NEW fb \in Seq(Feedback),
         OncePerProcess(fb), \A k \in DOMAIN fb : IsActive(procs[fb[k].h]),
         \A h \in HarqIds : IsActive(procs[h]) \/ procs[h] = Idle
  PROVE  LET n == Nacked(procs, fb)
             q == AfterHarq(procs, fb)
         IN  /\ \A h \in HarqIds : IsActive(q[h]) \/
                  /\ q[h] = Idle
                  /\ \/ procs[h] = Idle
                     \/ \E k \in DOMAIN fb :
                          fb[k].h = h /\ (fb[k].ok \/ LastVersion(procs[h]))
             /\ \A i \in DOMAIN n : n[i] \notin Retransmitted(procs, n) =>
                  q[n[i]].rv = procs[n[i]].rv
             /\ \A h \in Visited(procs, n) \ Retransmitted(procs, n) : q[h].timer = 0
<1> DEFINE n == Nacked(procs, fb)
           q == AfterHarq(procs, fb)
           E == Erased(procs, fb)
           R == Retransmitted(procs, n)
           V == Visited(procs, n)
           N == {n[i] : i \in DOMAIN n}
<1>1. n \in Seq(HarqIds) /\ IsNacked(n, procs, fb)
  BY NackedFacts
<1>2. \A i \in DOMAIN n : IsActive(q[n[i]])
  BY AfterHarqFacts
<1> HIDE DEF n
<1>3. R \subseteq V /\ V \subseteq N
  BY <1>1, RetransmittedFacts
<1>4. ASSUME NEW i \in DOMAIN n
      PROVE  n[i] \notin E
  <2>1. PICK k \in DOMAIN fb : fb[k].h = n[i] /\ HasVersion(fb[k], procs)
    BY <1>1 DEF IsNacked
  <2>2. \A j \in DOMAIN fb : fb[j].h = n[i] => j = k
    BY <2>1 DEF OncePerProcess
  <2> QED BY <2>1, <2>2 DEF Erased, HasVersion
<1>5. q = [h \in HarqIds |->
             IF h \in E THEN Idle
             ELSE IF h \in R THEN Again(procs[h])
             ELSE IF h \in V
             THEN [procs[h] EXCEPT !.status = "WAITING_FEEDBACK", !.timer = 0]
             ELSE IF h \in N
             THEN [procs[h] EXCEPT !.status = "RECEIVED_FEEDBACK"]
             ELSE procs[h]]
  BY DEF AfterHarq, n
<1> HIDE DEF q, E, R, V
<1>6. N \subseteq HarqIds /\ \A h \in N : h \notin E /\ IsActive(q[h])
  BY <1>1, <1>2, <1>4
<1> HIDE DEF N
<1>7. ASSUME NEW h \in HarqIds
      PROVE  /\ h \in E => q[h] = Idle
             /\ h \in V \ R =>
                  q[h] = [procs[h] EXCEPT !.status = "WAITING_FEEDBACK", !.timer = 0]
             /\ h \in N \ V => q[h] = [procs[h] EXCEPT !.status = "RECEIVED_FEEDBACK"]
             /\ h \notin E /\ h \notin N => q[h] = procs[h]
  BY <1>3, <1>5, <1>6
<1>8. \A h \in E : \E k \in DOMAIN fb :
        fb[k].h = h /\ (fb[k].ok \/ LastVersion(procs[h]))
  BY DEF E, Erased
<1>9. ASSUME NEW h \in HarqIds, ~IsActive(q[h])
      PROVE  /\ q[h] = Idle
             /\ \/ procs[h] = Idle
                \/ \E k \in DOMAIN fb :
                     fb[k].h = h /\ (fb[k].ok \/ LastVersion(procs[h]))
  BY <1>6, <1>7, <1>8, <1>9
<1>10. ASSUME NEW h \in N \ R
       PROVE  q[h].rv = procs[h].rv
  <2>1. h \in HarqIds /\ procs[h] \in Process
    BY <1>6
  <2>2. CASE h \in V
    <3>1. q[h] = [procs[h] EXCEPT !.status = "WAITING_FEEDBACK", !.timer = 0]
      BY <1>7, <2>1, <2>2
    <3> QED BY <2>1, <3>1 DEF Process
  <2>3. CASE h \notin V
    <3>1. q[h] = [procs[h] EXCEPT !.status = "RECEIVED_FEEDBACK"]
      BY <1>7, <2>1, <2>3
    <3> QED BY <2>1, <3>1 DEF Process
  <2> QED BY <2>2, <2>3
<1>11. ASSUME NEW h \in V \ R
       PROVE  q[h].timer = 0
  <2>1. h \in HarqIds /\ procs[h] \in Process
    BY <1>3, <1>6
  <2>2. q[h] = [procs[h] EXCEPT !.status = "WAITING_FEEDBACK", !.timer = 0]
    BY <1>7, <2>1
  <2> QED BY <2>1, <2>2 DEF Process
<1>12. \A i \in DOMAIN n : n[i] \in N
  BY DEF N
<1> QED BY <1>9, <1>10, <1>11, <1>12 DEF n, q, R, V

\* No timer expires: what an active process waits for is in time.
LEMMA NoneExpires ==
  ASSUME UplinkInv, Kept, Fresh, NEW h \in HarqIds
  PROVE  /\ IsActive(process[h]) <=> IsActive(Unexpired[h])
         /\ IsActive(process[h]) => Unexpired[h].rv = process[h].rv
         /\ IsActive(Unexpired[h]) \/ Unexpired[h] = Idle
<1> USE DEF UplinkInv
<1>1. CASE ~IsActive(process[h])
  BY <1>1 DEF Fresh, Unexpired, ResetExpired
<1>2. CASE IsActive(process[h])
  <2>1. CASE IsInFlight(h)
    <3>1. IsActive(Unexpired[h])
      BY <2>1, CallFacts DEF IsInFlight
    <3> QED BY <3>1, <1>2, UnexpiredFacts
  <2>2. CASE \E i \in DOMAIN feedback : feedback[i].h = h
    <3>1. process[h].timer < NumHarqProcess
      BY <2>2 DEF InTime
    <3> QED BY <3>1, <1>2, UnexpiredFacts
  <2>3. CASE \E i \in DOMAIN toRetransmit : toRetransmit[i] = h
    <3>1. process[h].timer < NumHarqProcess
      BY <2>3, NumFacts DEF Fresh
    <3> QED BY <3>1, <1>2, UnexpiredFacts
  <2> QED BY <1>2, <2>1, <2>2, <2>3 DEF Kept, HasOne, IsInFlight
<1> QED BY <1>1, <1>2

\* What a call finds a process in, from what it does to it.
LEMMA CallOutcome ==
  ASSUME UplinkInv, Kept, Fresh, NEW h \in HarqIds
  PROVE  /\ IsInFlight(h) => ~Acked(h)
         /\ ~IsActive(CallProcs[h]) =>
              /\ CallProcs[h] = Idle /\ ~IsInFlight(h)
              /\ \/ process[h] = Idle
                 \/ Acked(h) /\ IsActive(process[h])
                 \/ process[h].rv = MaxRv /\ IsActive(process[h])
         /\ \A i \in DOMAIN CallNacks : CallNacks[i] = h =>
              /\ IsActive(process[h]) /\ ~IsInFlight(h) /\ ~Acked(h)
              /\ process[h].rv # MaxRv
              /\ h \notin CallRetx => CallProcs[h].rv = process[h].rv
         /\ h \in Visited(Unexpired, CallNacks) \ CallRetx => CallProcs[h].timer = 0
<1> USE DEF UplinkInv
<1> DEFINE fb == CallFeedback
<1>1. /\ fb \in Seq(Feedback) /\ OncePerProcess(fb) /\ IsMerged(fb, Unexpired)
  BY MergedFacts DEF CallFeedback
<1>2. Unexpired \in [HarqIds -> Process]
  BY UnexpiredFacts
<1>3. \A k \in DOMAIN fb : IsActive(Unexpired[fb[k].h])
  BY <1>1 DEF IsMerged
<1>4. IsNacked(CallNacks, Unexpired, fb)
  BY <1>1, NackedFacts DEF CallNacks
<1>5. \A g \in HarqIds : IsActive(Unexpired[g]) \/ Unexpired[g] = Idle
  BY NoneExpires
<1>6. /\ IsActive(CallProcs[h]) \/
           /\ CallProcs[h] = Idle
           /\ \/ Unexpired[h] = Idle
              \/ \E k \in DOMAIN fb :
                   fb[k].h = h /\ (fb[k].ok \/ LastVersion(Unexpired[h]))
      /\ \A i \in DOMAIN CallNacks : CallNacks[i] \notin CallRetx =>
           CallProcs[CallNacks[i]].rv = Unexpired[CallNacks[i]].rv
      /\ h \in Visited(Unexpired, CallNacks) \ CallRetx => CallProcs[h].timer = 0
  BY <1>1, <1>2, <1>3, <1>5, AfterHarqOutcome DEF CallProcs, CallNacks, CallRetx
<1>7. IsInFlight(h) => /\ ~Acked(h) /\ \A k \in DOMAIN fb : fb[k].h # h
                       /\ IsActive(CallProcs[h])
  <2>1. ASSUME IsInFlight(h)
        PROVE  /\ \A i \in DOMAIN feedback : feedback[i].h # h
               /\ \A i \in DOMAIN toRetransmit : toRetransmit[i] # h
    BY <2>1 DEF IsInFlight, OneThing
  <2>2. ASSUME IsInFlight(h)
        PROVE  ~Acked(h)
    BY <2>1, <2>2 DEF Acked
  <2>3. ASSUME IsInFlight(h)
        PROVE  \A k \in DOMAIN fb : fb[k].h # h
    BY <2>1, <2>3, <1>1 DEF IsMerged
  <2>4. ASSUME IsInFlight(h)
        PROVE  IsActive(CallProcs[h])
    BY <2>4, CallFacts DEF IsInFlight
  <2> QED BY <2>2, <2>3, <2>4
<1>8. ASSUME NEW k \in DOMAIN fb, fb[k].h = h
      PROVE  fb[k].ok <=> Acked(h)
  <2>1. fb[k] \in Feedback
    BY <1>1
  <2>2. fb[k] = [h |-> h, ok |-> fb[k].ok] /\ fb[k].ok \in BOOLEAN
    BY <1>8, <2>1 DEF Feedback
  <2>3. CASE fb[k].ok
    <3>1. PICK i \in DOMAIN feedback : feedback[i] = fb[k]
      BY <1>1, <2>3 DEF IsMerged
    <3> QED BY <2>2, <2>3, <3>1 DEF Acked
  <2>4. CASE ~fb[k].ok
    <3>1. SUFFICES ASSUME NEW i \in DOMAIN feedback, feedback[i] = [h |-> h, ok |-> TRUE]
                   PROVE  FALSE
      BY <2>4 DEF Acked
    <3>2. feedback[i].h = h /\ feedback[i].ok
      BY <3>1
    <3>3. CASE \E j \in DOMAIN feedback : feedback[j] = fb[k]
      BY <3>2, <3>3, <2>4, <1>8 DEF OneThing
    <3>4. CASE \E j \in DOMAIN toRetransmit : toRetransmit[j] = fb[k].h
      BY <3>2, <3>4, <1>8 DEF OneThing
    <3> QED BY <3>3, <3>4, <1>1 DEF IsMerged
  <2> QED BY <2>3, <2>4
<1>9. ASSUME ~IsActive(CallProcs[h])
      PROVE  /\ CallProcs[h] = Idle /\ ~IsInFlight(h)
             /\ \/ process[h] = Idle
                \/ Acked(h) /\ IsActive(process[h])
                \/ process[h].rv = MaxRv /\ IsActive(process[h])
  <2>1. CASE Unexpired[h] = Idle
    <3>1. ~IsActive(process[h])
      BY <2>1, NoneExpires, IdleFacts
    <3> QED BY <3>1, <1>6, <1>7, <1>9 DEF Fresh
  <2>2. CASE \E k \in DOMAIN fb :
               fb[k].h = h /\ (fb[k].ok \/ LastVersion(Unexpired[h]))
    <3>1. PICK k \in DOMAIN fb :
            fb[k].h = h /\ (fb[k].ok \/ LastVersion(Unexpired[h]))
      BY <2>2
    <3>2. IsActive(process[h]) /\ Unexpired[h].rv = process[h].rv
      BY <3>1, <1>3, NoneExpires
    <3> QED BY <3>1, <3>2, <1>6, <1>7, <1>8, <1>9 DEF LastVersion
  <2> QED BY <2>1, <2>2, <1>6, <1>9
<1>10. ASSUME NEW i \in DOMAIN CallNacks, CallNacks[i] = h
       PROVE  /\ IsActive(process[h]) /\ ~IsInFlight(h) /\ ~Acked(h)
              /\ process[h].rv # MaxRv
              /\ h \notin CallRetx => CallProcs[h].rv = process[h].rv
  <2>1. PICK k \in DOMAIN fb : fb[k].h = h /\ HasVersion(fb[k], Unexpired)
    BY <1>4, <1>10 DEF IsNacked
  <2>2. IsActive(process[h]) /\ Unexpired[h].rv = process[h].rv
    BY <2>1, <1>3, NoneExpires
  <2> QED BY <2>1, <2>2, <1>6, <1>7, <1>8, <1>10 DEF HasVersion, LastVersion
<1> QED BY <1>6, <1>7, <1>9, <1>10

\* A process seen from StopAndWait, from its block and what is under way.
LEMMA StateFacts ==
  ASSUME NEW h \in HarqIds
  PROVE  /\ ~IsActive(process[h]) =>
              StateOf(h) = [at |-> "free", parts |-> {}, rv |-> process[h].rv]
         /\ IsActive(process[h]) /\ IsInFlight(h) /\ ~Acked(h) =>
              StateOf(h) = Harq!Sent({"block"}, process[h].rv)
         /\ IsActive(process[h]) /\ ~IsInFlight(h) /\ ~Acked(h) =>
              StateOf(h) = Harq!Answered({"block"}, process[h].rv)
         /\ IsActive(process[h]) /\ ~IsInFlight(h) /\ Acked(h) =>
              StateOf(h) = Harq!Answered({}, process[h].rv)
BY DEF StateOf, PlaceOf, IsInFlight, Harq!Sent, Harq!Answered

LEMMA StateType ==
  ASSUME TypeOK'
  PROVE  [h \in HarqIds |-> StateOf(h)]' \in [HarqIds -> Harq!State]
<1>1. ASSUME NEW h \in HarqIds
      PROVE  StateOf(h)' \in Harq!State
  <2>1. process'[h] \in Process
    BY DEF TypeOK
  <2>2. process'[h].rv \in 0 .. MaxRv
    BY <2>1, ProcessFacts
  <2>3. PlaceOf(h)' \in {"free", "sent", "answered"}
    BY DEF PlaceOf
  <2>4. (IF PlaceOf(h)' = "free" \/ Acked(h)' THEN {} ELSE {"block"}) \in SUBSET {"block"}
    OBVIOUS
  <2> QED BY <2>2, <2>3, <2>4 DEF StateOf, Harq!State
<1> QED BY <1>1

\* A step that leaves alone what is under way for a process, its feedback and
\* its block is none for StopAndWait.
LEMMA SameState ==
  ASSUME NEW h \in HarqIds,
         process'[h].rv = process[h].rv,
         IsActive(process[h])' <=> IsActive(process[h]),
         IsInFlight(h)' <=> IsInFlight(h), Acked(h)' <=> Acked(h)
  PROVE  StateOf(h)' = StateOf(h)
<1>1. PlaceOf(h)' = PlaceOf(h)
  BY DEF PlaceOf, IsInFlight
<1> QED BY <1>1 DEF StateOf

\* The UE answers a DCI with a block of the same process.
LEMMA ProcessUlDciState ==
  ASSUME UplinkInv, Kept, DueAlone, ProcessUlDci, NEW h \in HarqIds
  PROVE  StateOf(h)' = StateOf(h)
<1> USE DEF UplinkInv
<1>1. UNCHANGED <<feedback, process>> /\ dcis' = Later(dcis) /\ dcis \subseteq Dci
  BY DEF ProcessUlDci, gnbVars, TypeOK
<1>2. \A x \in InFlight' : \E y \in InFlight : y.h = x.h
  <2>1. ASSUME NEW x \in dcis'
        PROVE  \E y \in dcis : y.h = x.h
    BY <1>1, LaterDcis
  <2>2. ASSUME NEW d \in DueNow(dcis), SendNewData(d), NEW x \in blocks'
        PROVE  \E y \in InFlight : y.h = x.h
    <3> DEFINE b == [h |-> d.h, rv |-> d.rv, data |-> AtMost(d.units, queue),
                     bsr |-> queue', left |-> d.k2]
    <3>1. blocks' = blocks \cup {b}
      BY <2>2 DEF SendNewData
    <3>2. b.h = d.h
      OBVIOUS
    <3> HIDE DEF b
    <3> QED BY <3>1, <3>2 DEF InFlight, DueNow
  <2>3. ASSUME TransmitRetx(DueNow(dcis)), NEW x \in blocks'
        PROVE  \E y \in InFlight : y.h = x.h
    <3> DEFINE b(d) == [h |-> d.h, rv |-> d.rv, data |-> packet[d.h], bsr |-> queue,
                        left |-> d.k2]
    <3>1. blocks' = blocks \cup {b(d) : d \in DueNow(dcis)}
      BY <2>3 DEF TransmitRetx
    <3>2. \A d \in DueNow(dcis) : b(d).h = d.h
      OBVIOUS
    <3> HIDE DEF b
    <3> QED BY <3>1, <3>2 DEF InFlight, DueNow
  <2>4. ASSUME NEW x \in blocks'
        PROVE  \E y \in InFlight : y.h = x.h
    BY <2>2, <2>3 DEF ProcessUlDci
  <2> QED BY <2>1, <2>4 DEF InFlight
<1>3. IsInFlight(h) => IsInFlight(h)'
  BY AnsweredDcis DEF IsInFlight
<1>4. IsInFlight(h)' => IsInFlight(h)
  BY <1>2 DEF IsInFlight
<1>5. Acked(h)' <=> Acked(h)
  BY <1>1 DEF Acked
<1> QED BY <1>1, <1>3, <1>4, <1>5, SameState DEF IsActive

\* The gNB hears of a block once, and it is no longer under way.
LEMMA ReceiveBlocksState ==
  ASSUME UplinkInv, Kept, ReceiveBlocks, NEW h \in HarqIds
  PROVE  Harq!Step(StateOf(h), StateOf(h)')
<1> USE DEF UplinkInv
<1>1. /\ blocks' = Later(blocks) /\ UNCHANGED <<dcis, process>>
      /\ blocks \subseteq Block
  BY DEF ReceiveBlocks, gnbVars, TypeOK
<1>2. \A e \in blocks' : \E b \in blocks : b \notin DueNow(blocks) /\ b.h = e.h
  <2>1. ASSUME NEW e \in blocks'
        PROVE  \E b \in blocks : b.left > 0 /\ e.h = b.h
    BY <1>1, LaterBlocks
  <2> QED BY <2>1 DEF DueNow
<1>3. CASE \E b \in DueNow(blocks) : b.h = h
  <2>1. PICK b \in DueNow(blocks) : b.h = h
    BY <1>3
  <2>2. b \in blocks /\ IsInFlight(h) /\ IsActive(process[h])
    BY <2>1 DEF DueNow, IsInFlight, InFlight, Current, IsActive
  <2>3. ~Acked(h)
    BY <2>1, <2>2 DEF Acked, OneThing, InFlight
  <2>4. ~IsInFlight(h)'
    BY <1>1, <1>2, <2>1, <2>2 DEF IsInFlight, InFlight, OneThing
  <2>5. StateOf(h) = Harq!Sent({"block"}, process[h].rv)
    BY <2>2, <2>3, StateFacts
  <2>6. \/ StateOf(h)' = Harq!Answered({"block"}, process[h].rv)
        \/ StateOf(h)' = Harq!Answered({}, process[h].rv)
    <3>1. IsActive(process'[h])
      BY <1>1, <2>2
    <3>2. PlaceOf(h)' = "answered" /\ process'[h].rv = process[h].rv
      BY <1>1, <2>4, <3>1 DEF PlaceOf, IsInFlight
    <3> QED BY <3>2 DEF StateOf, Harq!Answered
  <2>7. Harq!Answer(StateOf(h), StateOf(h)')
    BY <2>5, <2>6 DEF Harq!Answer, Harq!Sent
  <2> QED BY <2>7 DEF Harq!Step
<1>4. CASE \A b \in DueNow(blocks) : b.h # h
  <2>1. IsInFlight(h)' => IsInFlight(h)
    BY <1>1, <1>2 DEF IsInFlight, InFlight
  <2>2. ASSUME NEW b \in blocks, b.h = h
        PROVE  \E e \in blocks' : e.h = h
    <3> DEFINE e == [b EXCEPT !.left = @ - 1]
    <3>1. e \in blocks'
      BY <1>1, <1>4, <2>2 DEF Later
    <3>2. e.h = h
      BY <1>1, <2>2 DEF Block
    <3> QED BY <3>1, <3>2
  <2>3. IsInFlight(h) => IsInFlight(h)'
    BY <1>1, <2>2 DEF IsInFlight, InFlight
  <2>4. Acked(h) => Acked(h)'
    BY ReceivedFacts DEF Acked
  <2>5. Acked(h)' => Acked(h)
    <3>1. \A j \in DOMAIN feedback' : feedback'[j].h = h =>
            \E i \in DOMAIN feedback : feedback'[j] = feedback[i]
      BY <1>4, ReceivedFacts
    <3> QED BY <3>1 DEF Acked
  <2>6. StateOf(h)' = StateOf(h)
    BY <1>1, <2>1, <2>3, <2>4, <2>5, SameState DEF IsActive
  <2> QED BY <2>6 DEF Harq!Step
<1> QED BY <1>3, <1>4

\* The call of the scheduler.
LEMMA ScheduleUlState ==
  ASSUME UplinkInv, Kept, Fresh, ScheduleUl, NEW h \in HarqIds
  PROVE  Harq!Step(StateOf(h), StateOf(h)')
<1> USE DEF UplinkInv
<1>1. PICK D : Granted(D)
  BY ScheduleUlGrants
<1>2. UNCHANGED blocks /\ feedback' = <<>> /\ dcis' = dcis \cup D
  BY <1>1 DEF ScheduleUl, Granted
<1>3. ~Acked(h)'
  BY <1>2 DEF Acked
<1>4. IsInFlight(h)' <=> IsInFlight(h) \/ \E d \in D : d.h = h
  BY <1>2 DEF IsInFlight, InFlight
<1>5. process[h] \in Process /\ process[h].rv \in 0 .. MaxRv /\ MaxRv \in Nat
  <2>1. process[h] \in Process
    BY DEF TypeOK
  <2> QED BY <2>1, ProcessFacts, UplinkAssumption
<1>6. ASSUME ~IsActive(CallProcs[h])
      PROVE  StateOf(h) = Harq!Free \/ Harq!Finished(StateOf(h))
  <2>1. CASE process[h] = Idle
    BY <2>1, IdleFacts, StateFacts DEF Idle, Harq!Free
  <2>2. CASE Acked(h) /\ IsActive(process[h])
    <3>1. StateOf(h) = Harq!Answered({}, process[h].rv)
      BY <2>2, <1>6, CallOutcome, StateFacts
    <3> QED BY <3>1 DEF Harq!Finished, Harq!Answered
  <2>3. CASE process[h].rv = MaxRv /\ IsActive(process[h])
    <3>1. \/ StateOf(h) = Harq!Answered({}, MaxRv)
          \/ StateOf(h) = Harq!Answered({"block"}, MaxRv)
      BY <2>3, <1>6, CallOutcome, StateFacts
    <3> QED BY <3>1 DEF Harq!Finished, Harq!Answered
  <2> QED BY <2>1, <2>2, <2>3, <1>6, CallOutcome
<1>7. ASSUME \E i \in DOMAIN CallNacks : CallNacks[i] = h
      PROVE  StateOf(h) = Harq!Answered({"block"}, process[h].rv) /\ process[h].rv < MaxRv
  BY <1>5, <1>7, CallOutcome, StateFacts
<1>8. CASE \E d \in D : d.h = h
  <2>1. PICK d \in D : d.h = h
    BY <1>8
  <2>2. /\ process'[h].status = "WAITING_FEEDBACK" /\ process'[h].rv = d.rv
        /\ \/ d.rv = 0 /\ ~IsActive(CallProcs[h])
           \/ h \in CallRetx /\ d.rv = Unexpired[h].rv + 1
    BY <1>1, <2>1 DEF Granted
  <2>3. StateOf(h)' = Harq!Sent({"block"}, d.rv)
    <3>1. PlaceOf(h)' = "sent"
      BY <1>4, <1>8, <2>2 DEF PlaceOf, IsInFlight, IsActive
    <3> QED BY <3>1, <2>2, <1>3 DEF StateOf, Harq!Sent
  <2>4. CASE d.rv = 0 /\ ~IsActive(CallProcs[h])
    <3>1. {"block"} \in (SUBSET {"block"}) \ {{}}
      OBVIOUS
    <3> QED BY <3>1, <2>3, <2>4, <1>6 DEF Harq!Step, Harq!SendNew
  <2>5. CASE h \in CallRetx /\ d.rv = Unexpired[h].rv + 1
    <3>1. \E i \in DOMAIN CallNacks : CallNacks[i] = h
      BY <2>5, CallFacts
    <3>2. d.rv = process[h].rv + 1
      BY <3>1, <2>5, CallOutcome, NoneExpires
    <3>3. Harq!SendAgain(StateOf(h), StateOf(h)')
      BY <3>1, <3>2, <2>3, <1>7 DEF Harq!SendAgain, Harq!Answered
    <3> QED BY <3>3 DEF Harq!Step
  <2> QED BY <2>2, <2>4, <2>5
<1>9. CASE \A d \in D : d.h # h
  <2>1. process'[h] = CallProcs[h]
    BY <1>1, <1>9 DEF Granted
  <2>2. CASE ~IsActive(CallProcs[h])
    <3>1. CallProcs[h] = Idle
      BY <2>2, CallOutcome
    <3>2. PlaceOf(h)' = "free" /\ process'[h].rv = 0
      BY <2>1, <2>2, <3>1 DEF PlaceOf, Idle
    <3>3. StateOf(h)' = Harq!Free
      BY <3>2 DEF StateOf, Harq!Free
    <3> QED BY <3>3, <2>2, <1>6 DEF Harq!Step, Harq!Finish
  <2>3. CASE IsInFlight(h)
    <3>1. CallProcs[h] = Unexpired[h] /\ IsActive(Unexpired[h])
      BY <2>3, CallFacts DEF IsInFlight
    <3>2. /\ IsActive(process[h]) /\ process'[h].rv = process[h].rv
          /\ IsActive(process'[h]) /\ ~Acked(h)
      BY <2>1, <2>3, <3>1, NoneExpires, CallOutcome
    <3>3. StateOf(h)' = StateOf(h)
      BY <1>3, <1>4, <2>3, <3>2, SameState
    <3> QED BY <3>3 DEF Harq!Step
  <2>4. CASE \E i \in DOMAIN CallNacks : CallNacks[i] = h
    <3>1. PICK i \in DOMAIN CallNacks : CallNacks[i] = h
      BY <2>4
    <3>2. h \notin CallRetx
      BY <1>1, <1>9 DEF Granted
    <3>3. /\ IsActive(process[h]) /\ ~IsInFlight(h) /\ ~Acked(h)
          /\ CallProcs[h].rv = process[h].rv
      BY <3>1, <3>2, CallOutcome
    <3>4. IsActive(process'[h])
      BY <2>1, <3>1, CallFacts
    <3>5. StateOf(h)' = StateOf(h)
      BY <1>3, <1>4, <1>9, <2>1, <3>3, <3>4, SameState
    <3> QED BY <3>5 DEF Harq!Step
  <2> QED BY <2>2, <2>3, <2>4, CallKeeps DEF IsInFlight
<1> QED BY <1>8, <1>9

LEMMA FreshNext ==
  ASSUME UplinkInv, Kept, Fresh, [Next]_vars
  PROVE  Fresh'
<1> USE DEF UplinkInv
<1>1. CASE UNCHANGED <<process, toRetransmit>>
  BY <1>1 DEF Fresh, IsActive
<1>2. CASE ScheduleUl
  <2>1. PICK D : Granted(D)
    BY <1>2, ScheduleUlGrants
  <2>2. ASSUME NEW h \in HarqIds
        PROVE  IsActive(process'[h]) \/ process'[h] = Idle
    <3>1. CASE \E d \in D : d.h = h
      BY <2>1, <3>1 DEF Granted, IsActive
    <3>2. CASE \A d \in D : d.h # h
      BY <2>1, <3>2, CallOutcome DEF Granted
    <3> QED BY <3>1, <3>2
  <2>3. ASSUME NEW i \in DOMAIN toRetransmit'
        PROVE  process'[toRetransmit'[i]].timer = 0
    <3>1. /\ toRetransmit'[i] \in HarqIds
          /\ toRetransmit'[i] \in Visited(Unexpired, CallNacks) \ CallRetx
      BY <1>2, BufferedStep
    <3>2. process'[toRetransmit'[i]] = CallProcs[toRetransmit'[i]]
      BY <2>1, <3>1 DEF Granted
    <3> QED BY <3>1, <3>2, CallOutcome
  <2> QED BY <2>2, <2>3 DEF Fresh, IsActive
<1>3. CASE ReportBufferStatus \/ SlotIndication \/ ProcessUlDci \/ ReceiveBlocks
             \/ NoUplink \/ UNCHANGED vars
  BY <1>1, <1>3 DEF ReportBufferStatus, SlotIndication, ProcessUlDci, ReceiveBlocks,
                    NoUplink, vars, gnbVars
<1> QED BY <1>2, <1>3 DEF Next, Slot

LEMMA FreshInit == Init => Fresh
BY DEF Init, Fresh

\* Unless retransmissions can fill an uplink slot exactly, the HARQ processes of
\* the UE are stop-and-wait processes: a block that is NACKed is sent again in
\* its next version, whatever waits and whatever the timers are, and no process
\* is given a new block (ScheduleUlHarq, ProcessHARQFeedbacks) before its last
\* one was ACKed or its last version NACKed.
THEOREM UplinkImplementsStopAndWait ==
  ASSUME NeverFilled
  PROVE  Spec => ImplementsStopAndWait
<1> DEFINE Inv == UplinkInv /\ Kept /\ DueAlone /\ Fresh
           state == [h \in HarqIds |-> StateOf(h)]
<1>1. Init => Inv
  BY UplinkInit, KeptInit, FreshInit
<1>2. Inv /\ [Next]_vars => Inv'
  BY UplinkNext, KeptNext, FreshNext
<1>3. Init => Harq!Init
  <2> SUFFICES ASSUME Init, NEW h \in HarqIds
               PROVE  StateOf(h) = Harq!Free
    BY DEF Harq!Init
  <2>1. process[h] = Idle
    BY DEF Init
  <2>2. ~IsActive(process[h])
    BY <2>1, IdleFacts
  <2>3. StateOf(h) = [at |-> "free", parts |-> {}, rv |-> process[h].rv]
    BY <2>2, StateFacts
  <2> QED BY <2>1, <2>3 DEF Idle, Harq!Free
<1>4. Inv /\ [Next]_vars => [Harq!Next]_state
  <2> SUFFICES ASSUME Inv, [Next]_vars, Inv'
               PROVE  Harq!Next
    BY <1>2
  <2>1. state' \in [HarqIds -> Harq!State]
    BY StateType DEF UplinkInv
  <2>2. ASSUME NEW h \in HarqIds
        PROVE  Harq!Step(StateOf(h), StateOf(h)')
    <3>1. CASE UNCHANGED <<dcis, blocks, feedback, process>>
      <4>1. StateOf(h)' = StateOf(h)
        BY <3>1 DEF StateOf, PlaceOf, Acked, InFlight, IsActive
      <4> QED BY <4>1 DEF Harq!Step
    <3>2. CASE ProcessUlDci
      BY <3>2, ProcessUlDciState DEF Harq!Step
    <3>3. CASE ReceiveBlocks
      BY <3>3, ReceiveBlocksState
    <3>4. CASE ScheduleUl
      BY <3>4, ScheduleUlState
    <3>5. CASE ReportBufferStatus \/ SlotIndication \/ NoUplink \/ UNCHANGED vars
      BY <3>1, <3>5 DEF ReportBufferStatus, SlotIndication, NoUplink, vars, gnbVars
    <3> QED BY <3>2, <3>3, <3>4, <3>5 DEF Next, Slot
  <2> QED BY <2>1, <2>2 DEF Harq!Next
<1> QED BY <1>1, <1>2, <1>3, <1>4, PTL DEF Spec, ImplementsStopAndWait, Harq!Spec
=============================================================================
