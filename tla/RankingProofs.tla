----------------------------- MODULE RankingProofs -----------------------------
(***************************************************************************)
(* What the operators of Ranking compute, for every set, order and sequence;*)
(* and two forms of induction over natural numbers and finite sets, with the*)
(* folds they give a meaning to, that the proofs about them need.           *)
(***************************************************************************)
EXTENDS Ranking, FiniteSetTheorems, WellFoundedInduction, TLAPS

\* What comes earlier has the lower rank.
LEMMA RankGrows ==
  ASSUME NEW S, IsFiniteSet(S), NEW before, Orders(before, S)
  PROVE  /\ \A i \in S : Rank(S, before, i) \in 0 .. Cardinality(S) - 1
         /\ \A i, j \in S : <<i, j>> \in before =>
              Rank(S, before, i) < Rank(S, before, j)
  <1> DEFINE Earlier(i) == {j \in S : <<j, i>> \in before}
  <1>1. ASSUME NEW i \in S
        PROVE  /\ IsFiniteSet(Earlier(i)) /\ Cardinality(Earlier(i)) \in Nat
               /\ Cardinality(Earlier(i)) < Cardinality(S)
               /\ Cardinality(S) \in Nat
    <2>1. Earlier(i) \in SUBSET S /\ i \notin Earlier(i)
      BY DEF Orders
    <2> HIDE DEF Earlier
    <2>2. Earlier(i) # S
      BY <2>1
    <2> QED  BY <2>1, <2>2, FS_Subset, FS_CardinalityType
  <1>2. ASSUME NEW i \in S, NEW j \in S, <<i, j>> \in before
        PROVE  Cardinality(Earlier(i)) < Cardinality(Earlier(j))
    <2>1. Earlier(i) \in SUBSET Earlier(j)
      BY <1>2 DEF Orders
    <2>2. i \in Earlier(j) /\ i \notin Earlier(i)
      BY <1>2 DEF Orders
    <2>3. IsFiniteSet(Earlier(j)) /\ Cardinality(Earlier(j)) \in Nat
          /\ Cardinality(Earlier(i)) \in Nat
      BY <1>1
    <2> HIDE DEF Earlier
    <2>4. Earlier(i) # Earlier(j)
      BY <2>2
    <2> QED  BY <2>1, <2>3, <2>4, FS_Subset
  <1> QED  BY <1>1, <1>2 DEF Rank

\* Every rank below the number of members is that of one of them.
LEMMA RanksAreTaken ==
  ASSUME NEW S, IsFiniteSet(S), NEW before, Orders(before, S)
  PROVE  \A n \in 0 .. Cardinality(S) - 1 : \E i \in S : Rank(S, before, i) = n
  <1> DEFINE f == [i \in S |-> Rank(S, before, i)]
             T == 0 .. Cardinality(S) - 1
  <1>1. Cardinality(S) \in Nat
    BY FS_CardinalityType
  <1>2. IsFiniteSet(T) /\ Cardinality(T) = Cardinality(S)
    BY <1>1, FS_Interval
  <1>3. f \in [S -> T]
    BY RankGrows
  <1>4. \A i, j \in S : f[i] = f[j] => i = j
    <2> SUFFICES ASSUME NEW i \in S, NEW j \in S, i # j PROVE f[i] # f[j]
      OBVIOUS
    <2>1. f[i] \in T /\ f[j] \in T /\ f[i] = Rank(S, before, i) /\ f[j] = Rank(S, before, j)
      BY <1>3
    <2>2. <<i, j>> \in before \/ <<j, i>> \in before
      BY DEF Orders
    <2> QED  BY <2>1, <2>2, RankGrows
  <1>5. f \in Injection(S, T)
    <2> HIDE DEF f, T
    <2> QED  BY <1>3, <1>4 DEF Injection, IsInjective
  <1>6. f \in Surjection(S, T)
    <2> HIDE DEF f, T
    <2> QED  BY <1>2, <1>5, FS_Injection
  <1>7. \A n \in T : \E i \in S : f[i] = n
    <2> HIDE DEF f, T
    <2> QED  BY <1>6 DEF Surjection
  <1> QED  BY <1>7

\* Ranked holds every member of S once, in the order.
LEMMA RankedSorts ==
  ASSUME NEW S, IsFiniteSet(S), NEW before, Orders(before, S)
  PROVE  /\ Cardinality(S) \in Nat
         /\ Ranked(S, before) \in [1 .. Cardinality(S) -> S]
         /\ \A i \in S : \E k \in 1 .. Cardinality(S) : Ranked(S, before)[k] = i
         /\ \A k, l \in 1 .. Cardinality(S) :
              k < l <=> <<Ranked(S, before)[k], Ranked(S, before)[l]>> \in before
  <1> DEFINE n == Cardinality(S)
             r == Ranked(S, before)
  <1>1. n \in Nat
    BY FS_CardinalityType
  <1>2. ASSUME NEW k \in 1 .. n
        PROVE  r[k] \in S /\ Rank(S, before, r[k]) = k - 1
    <2>1. k - 1 \in 0 .. n - 1
      BY <1>1
    <2>2. \E i \in S : Rank(S, before, i) = k - 1
      BY <2>1, RanksAreTaken
    <2>3. r[k] = CHOOSE i \in S : Rank(S, before, i) = k - 1
      BY DEF Ranked
    <2> QED  BY <2>2, <2>3
  <1>3. r \in [1 .. n -> S]
    <2>1. r = [k \in 1 .. n |-> r[k]]
      BY DEF Ranked
    <2> HIDE DEF r
    <2> QED  BY <2>1, <1>2
  <1>4. ASSUME NEW i \in S
        PROVE  \E k \in 1 .. n : r[k] = i
    <2>1. Rank(S, before, i) \in 0 .. n - 1
      BY RankGrows
    <2>2. PICK k \in 1 .. n : k = Rank(S, before, i) + 1
      BY <2>1, <1>1
    <2>3. r[k] \in S /\ Rank(S, before, r[k]) = Rank(S, before, i)
      BY <2>1, <2>2, <1>2
    <2> HIDE DEF r
    <2>4. ASSUME r[k] # i PROVE FALSE
      <3>1. <<i, r[k]>> \in before \/ <<r[k], i>> \in before
        BY <2>3, <2>4 DEF Orders
      <3>2. Rank(S, before, i) < Rank(S, before, r[k]) \/ Rank(S, before, r[k]) < Rank(S, before, i)
        BY <3>1, <2>3, RankGrows
      <3> QED  BY <3>2, <2>1, <2>3
    <2> QED  BY <2>4
  <1>5. ASSUME NEW k \in 1 .. n, NEW l \in 1 .. n
        PROVE  k < l <=> <<r[k], r[l]>> \in before
    <2>1. /\ r[k] \in S /\ Rank(S, before, r[k]) = k - 1
          /\ r[l] \in S /\ Rank(S, before, r[l]) = l - 1
      BY <1>2
    <2> HIDE DEF r
    <2>2. ASSUME <<r[k], r[l]>> \in before PROVE k < l
      <3>1. Rank(S, before, r[k]) < Rank(S, before, r[l])
        BY <2>1, <2>2, RankGrows
      <3> QED  BY <3>1, <2>1, <1>1
    <2>3. ASSUME k < l PROVE <<r[k], r[l]>> \in before
      <3>1. r[k] # r[l]
        BY <2>1, <2>3, <1>1
      <3>2. <<r[k], r[l]>> \in before \/ <<r[l], r[k]>> \in before
        BY <3>1, <2>1 DEF Orders
      <3>3. ASSUME <<r[l], r[k]>> \in before PROVE FALSE
        <4>1. Rank(S, before, r[l]) < Rank(S, before, r[k])
          BY <2>1, <3>3, RankGrows
        <4> QED  BY <4>1, <2>1, <2>3, <1>1
      <3> QED  BY <3>2, <3>3
    <2> QED  BY <2>2, <2>3
  <1> QED  BY <1>1, <1>3, <1>4, <1>5

\* The numbers of a set by their size.
LEMMA AscendingSorts ==
  ASSUME NEW S \in SUBSET Nat, IsFiniteSet(S)
  PROVE  /\ Cardinality(S) \in Nat
         /\ Ascending(S) \in [1 .. Cardinality(S) -> S]
         /\ \A i \in S : \E k \in 1 .. Cardinality(S) : Ascending(S)[k] = i
         /\ \A k, l \in 1 .. Cardinality(S) :
              k < l <=> Ascending(S)[k] < Ascending(S)[l]
  <1> DEFINE before == {pair \in S \X S : pair[1] < pair[2]}
  <1>1. \A i, j \in S : <<i, j>> \in before <=> i < j
    OBVIOUS
  <1>2. Ascending(S) = Ranked(S, before)
    BY DEF Ascending
  <1> HIDE DEF before
  <1>3. Orders(before, S)
    BY <1>1 DEF Orders
  <1>4. /\ Cardinality(S) \in Nat
        /\ Ascending(S) \in [1 .. Cardinality(S) -> S]
        /\ \A i \in S : \E k \in 1 .. Cardinality(S) : Ascending(S)[k] = i
        /\ \A k, l \in 1 .. Cardinality(S) :
             k < l <=> <<Ascending(S)[k], Ascending(S)[l]>> \in before
    BY <1>2, <1>3, RankedSorts
  <1>5. \A k \in 1 .. Cardinality(S) : Ascending(S)[k] \in S
    BY <1>4
  <1> QED  BY <1>1, <1>4, <1>5

\* a is in seq before b.
Precedes(seq, a, b) == \E p, q \in 1 .. Len(seq) : p < q /\ a = seq[p] /\ b = seq[q]

\* A filtered sequence has the elements of the sequence that are in the set, in
\* their order.
LEMMA FilterKeeps ==
  ASSUME NEW A, NEW seq \in Seq(A), NEW T
  PROVE  /\ Filter(seq, T) \in Seq(A)
         /\ \A k \in 1 .. Len(Filter(seq, T)) :
              /\ Filter(seq, T)[k] \in T
              /\ \E p \in 1 .. Len(seq) : seq[p] = Filter(seq, T)[k]
         /\ \A p \in 1 .. Len(seq) : seq[p] \in T =>
              \E k \in 1 .. Len(Filter(seq, T)) : Filter(seq, T)[k] = seq[p]
         /\ \A k, l \in 1 .. Len(Filter(seq, T)) :
              k < l => Precedes(seq, Filter(seq, T)[k], Filter(seq, T)[l])
  <1> DEFINE S == {p \in DOMAIN seq : seq[p] \in T}
             places == Ascending(S)
             n == Cardinality(S)
             f == Filter(seq, T)
  <1>1. DOMAIN seq = 1 .. Len(seq) /\ Len(seq) \in Nat
    OBVIOUS
  <1>2. S \in SUBSET Nat /\ IsFiniteSet(S)
    <2>1. IsFiniteSet(1 .. Len(seq)) /\ S \in SUBSET (1 .. Len(seq))
      BY <1>1, FS_Interval
    <2>2. 1 .. Len(seq) \subseteq Nat
      BY <1>1
    <2> HIDE DEF S
    <2> QED  BY <2>1, <2>2, FS_Subset
  <1>3. /\ n \in Nat
        /\ places \in [1 .. n -> S]
        /\ \A i \in S : \E k \in 1 .. n : places[k] = i
        /\ \A k, l \in 1 .. n : k < l <=> places[k] < places[l]
    <2> HIDE DEF S
    <2> QED  BY <1>2, AscendingSorts
  <1>4. f = [k \in 1 .. n |-> seq[places[k]]]
    <2>1. f = [k \in DOMAIN places |-> seq[places[k]]]
      BY DEF Filter
    <2>2. DOMAIN places = 1 .. n
      BY <1>3
    <2> QED  BY <2>1, <2>2
  <1>5. \A k \in 1 .. n : /\ places[k] \in 1 .. Len(seq)
                          /\ seq[places[k]] \in T /\ seq[places[k]] \in A
    <2>1. \A k \in 1 .. n : places[k] \in S
      BY <1>3
    <2> QED  BY <2>1, <1>1
  <1>6. \A p \in 1 .. Len(seq) : seq[p] \in T => p \in S
    BY <1>1
  <1> HIDE DEF S, places, n, f
  <1>7. f \in [1 .. n -> A]
    BY <1>4, <1>5
  <1>8. f \in Seq(A) /\ Len(f) = n
    BY <1>3, <1>7
  <1>9. \A k \in 1 .. n : f[k] = seq[places[k]]
    BY <1>4
  <1>10. \A k, l \in 1 .. n : k < l =>
           Precedes(seq, f[k], f[l])
    <2> SUFFICES ASSUME NEW k \in 1 .. n, NEW l \in 1 .. n, k < l
                 PROVE  \E p, q \in 1 .. Len(seq) :
                          p < q /\ f[k] = seq[p] /\ f[l] = seq[q]
      BY DEF Precedes
    <2>1. places[k] < places[l]
      BY <1>3
    <2> QED  BY <2>1, <1>5, <1>9
  <1>11. f \in Seq(A) /\ \A k \in 1 .. Len(f) : f[k] \in T /\ \E p \in 1 .. Len(seq) : seq[p] = f[k]
    BY <1>5, <1>8, <1>9
  <1>12. \A p \in 1 .. Len(seq) : seq[p] \in T => \E k \in 1 .. Len(f) : f[k] = seq[p]
    BY <1>3, <1>6, <1>8, <1>9
  <1>13. \A k, l \in 1 .. Len(f) : k < l => Precedes(seq, f[k], f[l])
    BY <1>8, <1>10
  <1> QED  BY <1>11, <1>12, <1>13 DEF f

\* The beginning of a sequence.
LEMMA CutKeeps ==
  ASSUME NEW A, NEW seq \in Seq(A), NEW n \in Nat
  PROVE  /\ Cut(seq, n) \in Seq(A)
         /\ Len(Cut(seq, n)) = IF Len(seq) < n THEN Len(seq) ELSE n
         /\ \A k \in 1 .. Len(Cut(seq, n)) :
              k \in 1 .. Len(seq) /\ Cut(seq, n)[k] = seq[k]
  BY DEF Cut

\* Induction, as the least number principle.
LEMMA LeastNumber ==
  ASSUME NEW T \in SUBSET Nat, T # {}
  PROVE  \E n \in T : \A m \in T : n <= m
  <1> DEFINE R == {pair \in Nat \X Nat : pair[1] < pair[2]}
  <1>1. IsWellFoundedOn(R, Nat)
    BY NatLessThanWellFounded DEF OpToRel
  <1>2. \E n \in T : \A m \in T : <<m, n>> \notin R
    <2> HIDE DEF R
    <2> QED  BY <1>1, WFMin
  <1>3. PICK n \in T : \A m \in T : <<m, n>> \notin R
    BY <1>2
  <1>4. ASSUME NEW m \in T PROVE n <= m
    <2>1. <<m, n>> \notin R /\ m \in Nat /\ n \in Nat
      BY <1>3
    <2>2. ~(m < n)
      BY <2>1
    <2> QED  BY <2>1, <2>2
  <1> QED  BY <1>4

\* What holds of 0, and of every number after one it holds of, holds up to n.
LEMMA CountingUp ==
  ASSUME NEW n \in Nat, NEW Good, 0 \in Good,
         \A k \in 0 .. n - 1 : k \in Good => k + 1 \in Good
  PROVE  \A k \in 0 .. n : k \in Good
  <1> DEFINE Bad == {k \in 0 .. n : k \notin Good}
  <1> SUFFICES ASSUME Bad # {} PROVE FALSE
    OBVIOUS
  <1>1. Bad \in SUBSET Nat
    OBVIOUS
  <1>2. PICK k \in Bad : \A m \in Bad : k <= m
    BY <1>1, LeastNumber
  <1>3. k # 0 /\ k - 1 \in 0 .. n - 1 /\ k - 1 \notin Bad
    BY <1>2
  <1>4. k - 1 \in Good
    BY <1>3
  <1>5. (k - 1) + 1 \in Good
    BY <1>3, <1>4
  <1> QED  BY <1>2, <1>5

\* What holds of the empty set, and of every set that it holds of less any of its
\* members, holds of every subset of a finite set.
LEMMA AddingMembers ==
  ASSUME NEW S, IsFiniteSet(S), NEW Good, {} \in Good,
         \A s \in SUBSET S : s # {} /\ (\A x \in s : s \ {x} \in Good) => s \in Good
  PROVE  \A s \in SUBSET S : s \in Good
  <1> DEFINE Bad == {n \in Nat : \E s \in SUBSET S : Cardinality(s) = n /\ s \notin Good}
  <1>1. \A s \in SUBSET S : IsFiniteSet(s) /\ Cardinality(s) \in Nat
    BY FS_Subset, FS_CardinalityType
  <1>2. SUFFICES ASSUME Bad # {} PROVE FALSE
    BY <1>1
  <1>3. PICK n \in Bad : \A m \in Bad : n <= m
    <2>1. Bad \in SUBSET Nat
      OBVIOUS
    <2> HIDE DEF Bad
    <2> QED  BY <1>2, <2>1, LeastNumber
  <1>4. PICK s \in SUBSET S : Cardinality(s) = n /\ s \notin Good
    BY <1>3
  <1>5. ASSUME NEW x \in s PROVE s \ {x} \in Good
    <2>1. s \ {x} \in SUBSET S /\ Cardinality(s \ {x}) = n - 1 /\ Cardinality(s \ {x}) \in Nat
      BY <1>1, <1>4, FS_RemoveElement
    <2>2. n - 1 \notin Bad
      BY <1>3
    <2> QED  BY <2>1, <2>2
  <1> QED  BY <1>4, <1>5

-----------------------------------------------------------------------------
(* Folds.                                                                  *)

\* What a fold computes of every subset of S: pick takes the next member, step
\* adds it to what has been computed of the others.
Folding(S, A, base, pick, step) ==
  {g \in [SUBSET S -> A] : \A s \in SUBSET S :
     g[s] = IF s = {} THEN base ELSE step[<<pick[s], g[s \ {pick[s]}]>>]}

\* Its recursion has a solution, of the type of its base.
LEMMA FoldExists ==
  ASSUME NEW S, IsFiniteSet(S), NEW A, NEW base \in A,
         NEW pick, \A s \in SUBSET S : s # {} => pick[s] \in s,
         NEW step \in [S \X A -> A]
  PROVE  Folding(S, A, base, pick, step) # {}
  <1> DEFINE Small(n) == {s \in SUBSET S : Cardinality(s) <= n}
             Solves(g, n) ==
               /\ g \in [Small(n) -> A]
               /\ \A s \in Small(n) :
                    g[s] = IF s = {} THEN base ELSE step[<<pick[s], g[s \ {pick[s]}]>>]
             Open == {n \in Nat : ~\E g : Solves(g, n)}
  <1>1. \A s \in SUBSET S : IsFiniteSet(s) /\ Cardinality(s) \in Nat
                              /\ (Cardinality(s) = 0 <=> s = {})
    BY FS_Subset, FS_CardinalityType, FS_EmptySet
  <1>2. ASSUME NEW s \in SUBSET S, s # {}
        PROVE  /\ pick[s] \in S /\ s \ {pick[s]} \in SUBSET S
               /\ Cardinality(s \ {pick[s]}) = Cardinality(s) - 1
    BY <1>1, <1>2, FS_RemoveElement
  <1>3. \E g : Solves(g, 0)
    <2>1. \A s \in Small(0) : s = {}
      BY <1>1
    <2>2. PICK g : g = [s \in Small(0) |-> base]
      OBVIOUS
    <2>3. g \in [Small(0) -> A]
      BY <2>2
    <2>4. \A s \in Small(0) : s = {} /\ g[s] = base
      BY <2>1, <2>2
    <2> QED  BY <2>3, <2>4
  <1>4. ASSUME NEW n \in Nat, NEW g, Solves(g, n)
        PROVE  \E h : Solves(h, n + 1)
    <2> DEFINE h == [s \in Small(n + 1) |->
                       IF s \in Small(n) THEN g[s]
                       ELSE step[<<pick[s], g[s \ {pick[s]}]>>]]
    <2>1. ASSUME NEW s \in Small(n + 1), s \notin Small(n)
          PROVE  s # {} /\ pick[s] \in S /\ s \ {pick[s]} \in Small(n)
      <3>1. s \in SUBSET S /\ Cardinality(s) \in Nat /\ Cardinality(s) <= n + 1
            /\ ~(Cardinality(s) <= n)
        BY <1>1, <2>1
      <3>2. s # {}
        BY <1>1, <3>1
      <3> QED  BY <1>2, <3>1, <3>2
    <2>2. \A s \in Small(n) : g[s] \in A /\ s \in Small(n + 1)
      BY <1>1, <1>4
    <2>3. h \in [Small(n + 1) -> A]
      <3>1. ASSUME NEW s \in Small(n + 1)
            PROVE  (IF s \in Small(n) THEN g[s]
                    ELSE step[<<pick[s], g[s \ {pick[s]}]>>]) \in A
        <4>1. CASE s \in Small(n)
          BY <4>1, <2>2
        <4>2. CASE s \notin Small(n)
          <5>1. pick[s] \in S /\ g[s \ {pick[s]}] \in A
            BY <4>2, <2>1, <2>2
          <5> HIDE DEF Small
          <5> QED  BY <4>2, <5>1
        <4> QED  BY <4>1, <4>2
      <3> HIDE DEF Small
      <3> QED  BY <3>1
    <2>4. ASSUME NEW s \in Small(n + 1)
          PROVE  h[s] = IF s = {} THEN base ELSE step[<<pick[s], h[s \ {pick[s]}]>>]
      <3>1. CASE s \in Small(n)
        <4>1. s # {} => s \ {pick[s]} \in Small(n)
          BY <1>1, <1>2, <3>1
        <4>2. g[s] = IF s = {} THEN base ELSE step[<<pick[s], g[s \ {pick[s]}]>>]
          BY <1>4, <3>1
        <4>3. h[s] = g[s] /\ (s # {} => h[s \ {pick[s]}] = g[s \ {pick[s]}])
          BY <3>1, <4>1, <2>2
        <4> HIDE DEF h
        <4> QED  BY <4>2, <4>3
      <3>2. CASE s \notin Small(n)
        <4>1. s # {} /\ s \ {pick[s]} \in Small(n)
          BY <2>1, <3>2
        <4>2. h[s \ {pick[s]}] = g[s \ {pick[s]}]
          BY <4>1, <2>2
        <4>3. h[s] = step[<<pick[s], g[s \ {pick[s]}]>>]
          BY <3>2
        <4> HIDE DEF h
        <4> QED  BY <4>1, <4>2, <4>3
      <3> QED  BY <3>1, <3>2
    <2> HIDE DEF h, Small
    <2> QED  BY <2>3, <2>4
  <1> HIDE DEF Solves
  <1>5. Open = {}
    <2> SUFFICES ASSUME Open # {} PROVE FALSE
      OBVIOUS
    <2>1. PICK n \in Open : \A m \in Open : n <= m
      BY LeastNumber
    <2>2. n # 0
      BY <1>3
    <2>3. n - 1 \in Nat /\ n - 1 \notin Open
      BY <2>1, <2>2
    <2>4. PICK g : Solves(g, n - 1)
      BY <2>3
    <2>5. \E h : Solves(h, (n - 1) + 1)
      BY <1>4, <2>3, <2>4
    <2> QED  BY <2>1, <2>5
  <1>6. Cardinality(S) \in Nat
    BY FS_CardinalityType
  <1>7. PICK g : Solves(g, Cardinality(S))
    BY <1>5, <1>6
  <1>8. Small(Cardinality(S)) = SUBSET S
    BY FS_Subset
  <1>9. g \in Folding(S, A, base, pick, step)
    BY <1>7, <1>8 DEF Solves, Folding
  <1> QED  BY <1>9
=============================================================================
