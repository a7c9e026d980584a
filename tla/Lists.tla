-------------------------------- MODULE Lists --------------------------------
(***************************************************************************)
(* Filtering and sorting a list.  SelectSeq and SortSeq say the same, but  *)
(* nothing can be proved about them: TLC knows them by their Java code and *)
(* the proof system by name alone.                                         *)
(***************************************************************************)
EXTENDS Integers, Sequences, FiniteSets, SequencesExt

\* The elements of a finite set in a row, each after those that are before it:
\* before[x] is the set of them.
Arranged(S, before) ==
  LET places == {<<Cardinality(before[x]) + 1, x>> : x \in S}
  IN [k \in 1..Cardinality(S) |-> (CHOOSE p \in places : p[1] = k)[2]]

\* The elements of a list at some of its positions, arranged.
PickedBy(s, I, before) ==
  LET at == Arranged(I, before) IN [k \in DOMAIN at |-> s[at[k]]]

Picked(s, I) == PickedBy(s, I, [i \in I |-> {j \in I : j < i}])

\* Those that pass a test, in the list's order.
Kept(s, Test(_)) == Picked(s, {i \in DOMAIN s : Test(s[i])})

\* A stable sort: elements that compare equal stay in the list's order.
Sorted(s, Less(_, _)) ==
  LET Earlier(j, i) == Less(s[j], s[i]) \/ (~Less(s[i], s[j]) /\ j < i)
  IN PickedBy(s, DOMAIN s, [i \in DOMAIN s |-> {j \in DOMAIN s : Earlier(j, i)}])
=============================================================================
