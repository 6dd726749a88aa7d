-------------------------------- MODULE Ranking --------------------------------
(***************************************************************************)
(* Sets sorted and sequences filtered, by the ranks of their members: what  *)
(* SetToSortSeq and SelectSeq compute, in a form provers can reason about.  *)
(* An order is the set of the pairs <<i, j>> of which i comes before j.     *)
(***************************************************************************)
EXTENDS Naturals, Sequences, FiniteSets

\* A strict total order on S.
Orders(before, S) ==
  /\ \A i \in S : <<i, i>> \notin before
  /\ \A i, j \in S : i # j => <<i, j>> \in before \/ <<j, i>> \in before
  /\ \A i, j, k \in S : <<i, j>> \in before /\ <<j, k>> \in before => <<i, k>> \in before

\* How many of S come before i.
Rank(S, before, i) == Cardinality({j \in S : <<j, i>> \in before})

\* The members of S in the order before.
Ranked(S, before) ==
  [k \in 1 .. Cardinality(S) |-> CHOOSE i \in S : Rank(S, before, i) = k - 1]

\* Numbers by size.
Ascending(S) == Ranked(S, {pair \in S \X S : pair[1] < pair[2]})

\* The elements of seq that are in T, in the order of seq.
Filter(seq, T) ==
  LET places == Ascending({p \in DOMAIN seq : seq[p] \in T})
  IN  [k \in DOMAIN places |-> seq[places[k]]]

\* The first n elements of seq, or all of them.
Cut(seq, n) == SubSeq(seq, 1, IF Len(seq) < n THEN Len(seq) ELSE n)
=============================================================================
