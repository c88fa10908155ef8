------------------------------ MODULE NrSlUeMacLcp ------------------------------
(***************************************************************************)
(* Logical channel prioritization of the sidelink scheduler                *)
(* (src/model/nr-sl-ue-mac-scheduler-default.cc,                           *)
(* NrSlUeMacSchedulerDefault::LogicalChannelPrioritization): which logical *)
(* channels of the selected destination share the next grant.              *)
(*                                                                         *)
(* A logical channel is its id, a positive number.  prio[c] is its         *)
(* priority and rri[c] its resource reservation interval in slots, 0 for a *)
(* channel that is scheduled dynamically.  The operators take both as      *)
(* arguments, so that a model can fix them or enumerate them.              *)
(***************************************************************************)
EXTENDS Naturals, FiniteSetsExt

CONSTANT PrioToSps  \* attribute PriorityToSps: SPS wins a priority tie

ASSUME LcpAssumption == PrioToSps \in BOOLEAN

\* The map lcIdsbyPrio: its keys, its entry at p, and its last entry.
Levels(S, prio) == {prio[c] : c \in S}
AtLevel(S, prio, p) == {c \in S : prio[c] = p}
Top(S, prio) == AtLevel(S, prio, Max(Levels(S, prio)))

\* Mutant: A dynamic channel wins every tie.
IsDynamicGrantDespiteSps(S, prio, rri) ==
  {c \in Top(S, prio) : rri[c] # 0} # Top(S, prio)

\* Does the grant become dynamic, judging by the highest-priority channels?
IsDynamicGrant(S, prio, rri) ==
  LET sps == {c \in Top(S, prio) : rri[c] # 0}
  IN  IF PrioToSps THEN sps = {} ELSE sps # Top(S, prio)

\* lcIdOfRef: the lowest id of the highest priority and the selected type.
LcIdOfRef(S, prio, rri) ==
  Min({c \in Top(S, prio) : (rri[c] = 0) = IsDynamicGrant(S, prio, rri)})

\* The channels of S whose scheduling type is the selected one.
OfType(S, rri, dynamic) == {c \in S : (rri[c] = 0) = dynamic}

(***************************************************************************)
(* The loop that removes the channels of the other scheduling type walks   *)
(* the priorities downwards.  Erasing an emptied priority already moves    *)
(* the reverse iterator to the next one and the loop header moves it once  *)
(* more, so the priority below an emptied one is not visited.              *)
(***************************************************************************)
VisitedDown(S, prio, rri, dynamic) ==
  LET L == Levels(S, prio)
      visited[p \in L] ==
        LET above == {q \in L : q > p}
        IN  \/ above = {}
            \/ LET q == Min(above)
               IN  \/ ~visited[q]
                   \/ OfType(AtLevel(S, prio, q), rri, dynamic) # {}
  IN  {p \in L : visited[p]}

TypeFilter(S, prio, rri, dynamic) ==
  LET visited == VisitedDown(S, prio, rri, dynamic)
  IN  {c \in S : prio[c] \in visited => c \in OfType(S, rri, dynamic)}

\* The lowest priority is visited and emptied: the iterator passes rend ().
RunsPastEnd(S, prio, rri, dynamic) ==
  LET p == Min(Levels(S, prio))
  IN  /\ p \in VisitedDown(S, prio, rri, dynamic)
      /\ OfType(AtLevel(S, prio, p), rri, dynamic) = {}

\* Past rend () the loop ends or, in the red-black tree of the standard
\* library, starts again at the highest priority.
TypeFilterOutcomes(S, prio, rri, dynamic) ==
  LET outcomes[T \in SUBSET S] ==
        LET kept == TypeFilter(T, prio, rri, dynamic)
        IN  {kept} \cup (IF RunsPastEnd(T, prio, rri, dynamic)
                         THEN outcomes[kept] ELSE {})
  IN  outcomes[S]

(***************************************************************************)
(* For SPS, the loop that removes the channels of another interval walks   *)
(* the priorities upwards and skips the priority above an emptied one.     *)
(***************************************************************************)
VisitedUp(S, prio, rri, ref) ==
  LET L == Levels(S, prio)
      visited[p \in L] ==
        LET below == {q \in L : q < p}
        IN  \/ below = {}
            \/ LET q == Max(below)
               IN  \/ ~visited[q]
                   \/ \E c \in AtLevel(S, prio, q) : rri[c] = rri[ref]
  IN  {p \in L : visited[p]}

RriFilter(S, prio, rri, ref) ==
  LET visited == VisitedUp(S, prio, rri, ref)
  IN  {c \in S : prio[c] \in visited => rri[c] = rri[ref]}

\* The sets of channels the prioritization may select among S.
Selections(S, prio, rri) ==
  LET dynamic == IsDynamicGrant(S, prio, rri)
      ref == LcIdOfRef(S, prio, rri)
  IN  {T \in SUBSET S :
         \E typed \in TypeFilterOutcomes(S, prio, rri, dynamic) :
           T = IF dynamic THEN typed ELSE RriFilter(typed, prio, rri, ref)}

\* A transport block is filled from the highest priority downwards, as far
\* as the resources that were found carry it.
Allocations(S, prio) == {{c \in S : prio[c] >= p} : p \in Levels(S, prio)}

(***************************************************************************)
(* What the comments of the code promise: the channels of one scheduling   *)
(* type and one interval, those of the reference channel.  At a tie of the *)
(* highest priority the attribute decides between the types, and the       *)
(* lowest id among the channels of that type.                              *)
(***************************************************************************)
Preferred(S, prio, rri) ==
  {c \in S : /\ \A d \in S : prio[d] <= prio[c]
             /\ (rri[c] # 0) = PrioToSps}
Reference(S, prio, rri) ==
  IF Preferred(S, prio, rri) # {} THEN Min(Preferred(S, prio, rri))
  ELSE Min({c \in S : \A d \in S : prio[d] <= prio[c]})
SameAttributes(S, prio, rri) ==
  {c \in S : rri[c] = rri[Reference(S, prio, rri)]}

\* The prioritization returns these channels, and all of them, if they leave
\* no priority empty: then no entry of the map is erased under the iterators.
\* (Where one is, the priority after it is skipped.)
SelectsSameAttributes(S, prio, rri) ==
  LET same == SameAttributes(S, prio, rri)
  IN  (\A p \in Levels(S, prio) : AtLevel(same, prio, p) # {})
        => Selections(S, prio, rri) = {same}
=============================================================================
