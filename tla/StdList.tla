------------------------------ MODULE StdList ------------------------------
(***************************************************************************)
(* What the program does to its std::lists, on sequences.  push_back and   *)
(* pop_front are Append and Tail, insert and erase at an iterator are      *)
(* InsertAt and RemoveAt of the community modules.                         *)
(***************************************************************************)
EXTENDS Naturals, Sequences, FiniteSets, SequencesExt

\* Where a loop over the list that breaks at the first match stops.
FirstIndex(s, Test(_)) ==
  CHOOSE i \in DOMAIN s : Test(s[i]) /\ \A j \in 1..i-1 : ~Test(s[j])

\* erase at the first position of an element that is in the list.
EraseFirst(s, e) ==
  LET Is(x) == x = e
  IN  IF e \in ToSet(s) THEN RemoveAt(s, FirstIndex(s, Is)) ELSE s

\* Mutant: std::remove without the erase that follows it.
RemoveOnly(s, e) == s

\* std::remove followed by erase: all that is not e stays, in its order.
Without(s, e) ==
  LET kept    == {i \in DOMAIN s : s[i] # e}
      Rank(i) == Cardinality({k \in kept : k < i})
  IN  [j \in 1..Cardinality(kept) |-> s[CHOOSE i \in kept : Rank(i) = j - 1]]

\* A loop over the list: what step[acc][e] makes of acc, for one element after
\* the other.
FoldBy(step, start, s) ==
  LET acc[i \in 0..Len(s)] == IF i = 0 THEN start ELSE step[acc[i-1]][s[i]]
  IN  acc[Len(s)]
=============================================================================
