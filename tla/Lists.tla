--------------------------------- MODULE Lists ---------------------------------
(***************************************************************************)
(* Loops that walk through a list: one that keeps some of its elements, in *)
(* their order (the elements to keep are given as a set), and one that     *)
(* advances a position by the size of each element.                        *)
(***************************************************************************)
EXTENDS Naturals, Sequences

Filter(s, A) ==
  LET kept[i \in 0 .. Len(s)] ==
        IF i = 0 THEN <<>>
        ELSE IF s[i] \in A THEN Append(kept[i - 1], s[i])
        ELSE kept[i - 1]
  IN  kept[Len(s)]

\* PartialSums(s)[i] is the sum of the first i numbers of s.
PartialSums(s) ==
  LET sum[i \in 0 .. Len(s)] == IF i = 0 THEN 0 ELSE sum[i - 1] + s[i]
  IN  sum

Total(s) == PartialSums(s)[Len(s)]

\* The place of x in a list that has it.
Place(s, x) == CHOOSE i \in DOMAIN s : s[i] = x
=============================================================================
