--------------------------- MODULE ContextEngineProofs ---------------------------
(***************************************************************************)
(* The context engine: that a plan fits into its budget and takes first what*)
(* comes first, for every question, budget and search; and that the memory  *)
(* of the conversations is searched for what may be read, for every user,   *)
(* memory and number of requests.                                          *)
(***************************************************************************)
EXTENDS ContextPlan, ContextMemory, RankingProofs

-----------------------------------------------------------------------------
(* The tokens of a set of blocks.                                          *)

\* The tokens of the subsets of a set are those of a member and of the rest.
LEMMA TokensUnfold ==
  ASSUME NEW S, IsFiniteSet(S), \A b \in S : b.tokens \in Nat
  PROVE  \E h \in [SUBSET S -> Nat] :
           /\ \A s \in SUBSET S : Tokens(s) = h[s]
           /\ \A s \in SUBSET S :
                h[s] = IF s = {} THEN 0
                       ELSE (CHOOSE b \in s : TRUE).tokens + h[s \ {CHOOSE b \in s : TRUE}]
  <1> DEFINE one(s) == CHOOSE b \in s : TRUE
             Solves(h, T) ==
               h = [s \in SUBSET T |-> IF s = {} THEN 0
                                       ELSE one(s).tokens + h[s \ {one(s)}]]
             pick == [s \in SUBSET S |-> one(s)]
             step == [x \in S \X Nat |-> x[1].tokens + x[2]]
  <1>1. \A s \in SUBSET S : s # {} => pick[s] \in s /\ pick[s] = one(s)
    OBVIOUS
  <1>2. step \in [S \X Nat -> Nat] /\ 0 \in Nat
    OBVIOUS
  <1>3. \E h \in [SUBSET S -> Nat] : \A s \in SUBSET S :
          h[s] = IF s = {} THEN 0 ELSE step[<<pick[s], h[s \ {pick[s]}]>>]
    <2>1. \A s \in SUBSET S : s # {} => pick[s] \in s
      BY <1>1
    <2> HIDE DEF pick, step
    <2>2. Folding(S, Nat, 0, pick, step) # {}
      BY <1>2, <2>1, FoldExists
    <2> QED  BY <2>2 DEF Folding
  <1>4. PICK h \in [SUBSET S -> Nat] : \A s \in SUBSET S :
          h[s] = IF s = {} THEN 0 ELSE step[<<pick[s], h[s \ {pick[s]}]>>]
    BY <1>3
  <1>5. \A s \in SUBSET S : h[s] = IF s = {} THEN 0 ELSE one(s).tokens + h[s \ {one(s)}]
    <2> SUFFICES ASSUME NEW s \in SUBSET S, s # {}
                 PROVE  h[s] = one(s).tokens + h[s \ {one(s)}]
      BY <1>4
    <2>1. one(s) \in S /\ s \ {one(s)} \in SUBSET S
      OBVIOUS
    <2>2. h[s \ {one(s)}] \in Nat
      BY <2>1, <1>4
    <2> HIDE DEF one
    <2>3. step[<<one(s), h[s \ {one(s)}]>>] = one(s).tokens + h[s \ {one(s)}]
      BY <2>1, <2>2
    <2>4. pick[s] = one(s)
      OBVIOUS
    <2> HIDE DEF step, pick
    <2> QED  BY <1>4, <2>3, <2>4
  <1>6. ASSUME NEW T \in SUBSET S PROVE Tokens(T) = h[T]
    <2> DEFINE c == CHOOSE g : Solves(g, T)
               k == [s \in SUBSET T |-> h[s]]
    <2>1. Solves(k, T)
      <3>1. \A s \in SUBSET T : s # {} => s \ {one(s)} \in SUBSET T
        OBVIOUS
      <3> HIDE DEF one
      <3> QED  BY <3>1, <1>5
    <2>2. Solves(c, T)
      <3> HIDE DEF Solves
      <3> QED  BY <2>1
    <2>3. Tokens(T) = c[T]
      BY DEF Tokens, MapThenSumSet, MapThenFoldSet
    <2> DEFINE Good == {s \in SUBSET T : c[s] = h[s]}
    <2>4. \A s \in SUBSET T : c[s] = IF s = {} THEN 0 ELSE one(s).tokens + c[s \ {one(s)}]
      <3> HIDE DEF one, c
      <3> QED  BY <2>2
    <2>5. {} \in Good
      BY <1>5, <2>4
    <2>6. ASSUME NEW s \in SUBSET T, s # {}, \A x \in s : s \ {x} \in Good
          PROVE  s \in Good
      <3>1. one(s) \in s
        BY <2>6
      <3> HIDE DEF one, c
      <3> QED  BY <3>1, <2>4, <2>6, <1>5
    <2>7. IsFiniteSet(T)
      BY FS_Subset
    <2> HIDE DEF Good, c
    <2>8. T \in Good
      BY <2>5, <2>6, <2>7, AddingMembers
    <2> QED  BY <2>3, <2>8 DEF Good
  <1> QED  BY <1>5, <1>6

\* Whichever member is taken: tokens add up.
LEMMA TokensAdd ==
  ASSUME NEW S, IsFiniteSet(S), \A b \in S : b.tokens \in Nat
  PROVE  /\ Tokens(S) \in Nat
         /\ Tokens({}) = 0
         /\ \A b \in S : Tokens(S) = Tokens(S \ {b}) + b.tokens
  <1>1. PICK h \in [SUBSET S -> Nat] :
           /\ \A s \in SUBSET S : Tokens(s) = h[s]
           /\ \A s \in SUBSET S :
                h[s] = IF s = {} THEN 0
                       ELSE (CHOOSE b \in s : TRUE).tokens + h[s \ {CHOOSE b \in s : TRUE}]
    BY TokensUnfold
  <1> DEFINE one(s) == CHOOSE b \in s : TRUE
             Good == {s \in SUBSET S : \A b \in s : h[s] = h[s \ {b}] + b.tokens}
  <1>2. {} \in Good
    OBVIOUS
  <1>3. ASSUME NEW s \in SUBSET S, s # {}, \A x \in s : s \ {x} \in Good
        PROVE  s \in Good
    <2> SUFFICES ASSUME NEW b \in s PROVE h[s] = h[s \ {b}] + b.tokens
      OBVIOUS
    <2>1. PICK a \in s : a = one(s)
      BY <1>3
    <2>2. h[s] = a.tokens + h[s \ {a}]
      BY <1>1, <1>3, <2>1
    <2>3. a.tokens \in Nat /\ b.tokens \in Nat
      OBVIOUS
    <2>4. h[s \ {a}] \in Nat /\ h[s \ {b}] \in Nat /\ h[(s \ {a}) \ {b}] \in Nat
      BY <1>1
    <2>5. CASE a = b
      BY <2>2, <2>3, <2>4, <2>5
    <2>6. CASE a # b
      <3>1. h[s \ {a}] = h[(s \ {a}) \ {b}] + b.tokens
        BY <1>3, <2>6
      <3>2. h[s \ {b}] = h[(s \ {b}) \ {a}] + a.tokens
        BY <1>3, <2>6
      <3>3. (s \ {b}) \ {a} = (s \ {a}) \ {b}
        OBVIOUS
      <3>4. PICK v \in Nat : v = h[(s \ {a}) \ {b}]
        BY <2>4
      <3>5. h[s \ {a}] = v + b.tokens /\ h[s \ {b}] = v + a.tokens
        BY <3>1, <3>2, <3>3, <3>4
      <3>6. PICK x \in Nat, y \in Nat : x = a.tokens /\ y = b.tokens
        BY <2>3
      <3>7. h[s] = x + (v + y) /\ h[s \ {b}] = v + x
        BY <2>2, <3>5, <3>6
      <3>8. x + (v + y) = (v + x) + y
        OBVIOUS
      <3> QED  BY <3>6, <3>7, <3>8
    <2> QED  BY <2>5, <2>6
  <1>4. S \in Good
    <2> HIDE DEF Good
    <2> QED  BY <1>2, <1>3, AddingMembers
  <1>5. ASSUME NEW b \in S PROVE Tokens(S) = Tokens(S \ {b}) + b.tokens
    <2>1. S \ {b} \in SUBSET S /\ S \in SUBSET S
      OBVIOUS
    <2>2. h[S] = h[S \ {b}] + b.tokens
      BY <1>4
    <2> QED  BY <1>1, <2>1, <2>2
  <1>6. Tokens(S) \in Nat /\ Tokens({}) = 0
    <2>1. S \in SUBSET S /\ {} \in SUBSET S
      OBVIOUS
    <2>2. Tokens(S) = h[S] /\ Tokens({}) = h[{}] /\ h[{}] = 0
      BY <1>1, <2>1
    <2> QED  BY <2>1, <2>2
  <1> QED  BY <1>5, <1>6

-----------------------------------------------------------------------------
(* The blocks of a category, considered in order.                          *)

\* What the choosing carries along, of these blocks.
Accumulated(blocks) == [selected : SUBSET blocks, used : Nat, category : Nat]

\* A share of what is released is a natural number, and so are the caps.
LEMMA CapInNat ==
  ASSUME NEW empty, NEW c \in Flexible
  PROVE  /\ BaseCap(c) \in Nat
         /\ Freed(empty, c) \in Nat
         /\ Freed(empty, c) <= BaseCap(c)
  <1>1. Ratio[c] \in Nat
    BY DEF Ratio, Flexible
  <1>2. BaseCap(c) \in Nat
    <2> DEFINE w == Available * Ratio[c]
    <2>1. w \in Nat
      BY <1>1, AvailableAssumption
    <2> HIDE DEF w
    <2>2. w \div 100 \in Nat
      BY <2>1
    <2> QED  BY <2>2 DEF BaseCap, w
  <1> QED  BY <1>2 DEF Freed

LEMMA CapsAreNat ==
  ASSUME NEW empty, NEW c \in Flexible
  PROVE  Cap(empty, c) \in Nat
  <1> DEFINE w == Released(empty) * Share(c)
  <1>1. \A d \in Flexible : Freed(empty, d) \in Nat
    BY CapInNat
  <1>2. Released(empty) \in Nat
    BY <1>1 DEF Released, Flexible
  <1>3. Share(c) \in Nat
    BY DEF Share
  <1>4. w \in Nat
    BY <1>2, <1>3
  <1> HIDE DEF w
  <1>5. w \div 12 \in Nat
    BY <1>4
  <1>6. (IF c \in empty THEN 0 ELSE BaseCap(c)) \in Nat
    BY CapInNat
  <1> QED  BY <1>5, <1>6 DEF Cap, w

\* One block considered: what is carried along stays of its type.
LEMMA ConsiderTypes ==
  ASSUME NEW blocks \in SUBSET Block, NEW acc \in Accumulated(blocks), NEW b \in blocks,
         NEW cap
  PROVE  Consider(acc, b, cap) \in Accumulated(blocks)
  <1>1. b.tokens \in Nat
    BY DEF Block
  <1> QED  BY <1>1 DEF Consider, Accumulated

\* The greatest of some of the first n numbers.
LEMMA MaxOfNumbers ==
  ASSUME NEW n \in Nat
  PROVE  /\ \A s \in SUBSET (1 .. n) : s # {} => Max(s) \in s
         /\ \A k \in 1 .. n :
              /\ Max(1 .. k) = k /\ (1 .. k) \ {k} = 1 .. (k - 1)
              /\ 1 .. k # {} /\ 1 .. k \in SUBSET (1 .. n)
  <1>1. ASSUME NEW s \in SUBSET (1 .. n), s # {} PROVE Max(s) \in s
    <2>1. \E m \in s : \A k \in s : m >= k
      <3> DEFINE below == {k \in Nat : n - k \in s}
      <3>1. below \in SUBSET Nat
        OBVIOUS
      <3>2. PICK k \in s : TRUE
        BY <1>1
      <3>3. n - k \in Nat /\ n - (n - k) = k
        OBVIOUS
      <3>4. n - k \in below
        BY <3>2, <3>3
      <3> HIDE DEF below
      <3>5. PICK m \in below : \A l \in below : m <= l
        BY <3>1, <3>4, LeastNumber
      <3>6. m \in Nat /\ n - m \in s
        BY <3>5 DEF below
      <3>7. ASSUME NEW l \in s PROVE n - m >= l
        <4>1. n - l \in Nat /\ n - (n - l) = l
          OBVIOUS
        <4>2. n - l \in below
          BY <4>1 DEF below
        <4>3. m <= n - l
          BY <3>5, <4>2
        <4> QED  BY <3>6, <4>1, <4>3
      <3> QED  BY <3>6, <3>7
    <2> QED  BY <2>1 DEF Max
  <1>2. ASSUME NEW k \in 1 .. n
        PROVE  /\ Max(1 .. k) = k /\ (1 .. k) \ {k} = 1 .. (k - 1)
               /\ 1 .. k # {} /\ 1 .. k \in SUBSET (1 .. n)
    <2>1. Max(1 .. k) = k
      BY DEF Max
    <2>2. (1 .. k) \ {k} = 1 .. (k - 1)
      OBVIOUS
    <2>3. k \in 1 .. k
      OBVIOUS
    <2>4. \A i \in 1 .. k : i \in 1 .. n
      OBVIOUS
    <2> QED  BY <2>1, <2>2, <2>3, <2>4
  <1> QED  BY <1>1, <1>2

\* What is carried along while the blocks of a category are considered, one after
\* another, from what acc had of the others.
Runs(acc, blocks, p, c, n) ==
  {after \in [0 .. n -> Accumulated(blocks)] :
     /\ after[0] = [acc EXCEPT !.category = 0]
     /\ \A k \in 1 .. n :
          after[k] = Consider(after[k - 1], Sorted(blocks, p, c)[k],
                              Cap(EmptyOf(blocks), c))
     /\ Choose(acc, blocks, p, c) = after[n]}

LEMMA ChooseRuns ==
  ASSUME NEW blocks \in SUBSET Block, NEW p, NEW c, NEW n \in Nat,
         Sorted(blocks, p, c) \in [1 .. n -> blocks], NEW acc \in Accumulated(blocks)
  PROVE  Runs(acc, blocks, p, c, n) # {}
  <1> DEFINE A == Accumulated(blocks)
             order == Sorted(blocks, p, c)
             cap == Cap(EmptyOf(blocks), c)
             base == [acc EXCEPT !.category = 0]
             pick == [s \in SUBSET (1 .. n) |-> Max(s)]
             step == [x \in (1 .. n) \X A |-> Consider(x[2], order[x[1]], cap)]
             Solves(h) ==
               h = [s \in SUBSET DOMAIN order |->
                      IF s = {} THEN base
                      ELSE Consider(h[s \ {Max(s)}], order[Max(s)], cap)]
             fold == CHOOSE h : Solves(h)
  <1>1. base \in A
    BY DEF Accumulated
  <1>2. \A k \in 1 .. n : order[k] \in blocks /\ DOMAIN order = 1 .. n
    OBVIOUS
  <1>3. step \in [(1 .. n) \X A -> A]
    <2> HIDE DEF order, cap, A
    <2>1. \A k \in 1 .. n, a \in A : Consider(a, order[k], cap) \in A
      BY <1>2, ConsiderTypes DEF A
    <2> QED  BY <2>1
  <1>4. \A s \in SUBSET (1 .. n) : s # {} => pick[s] \in s /\ pick[s] = Max(s)
    BY MaxOfNumbers
  <1>5. IsFiniteSet(1 .. n)
    BY FS_Interval
  <1>6. Folding(1 .. n, A, base, pick, step) # {}
    <2>1. \A s \in SUBSET (1 .. n) : s # {} => pick[s] \in s
      BY <1>4
    <2> HIDE DEF A, base, pick, step
    <2> QED  BY <1>1, <1>3, <1>5, <2>1, FoldExists
  <1>7. PICK g \in Folding(1 .. n, A, base, pick, step) : TRUE
    BY <1>6
  <1>8. Solves(g)
    <2>1. g \in [SUBSET (1 .. n) -> A]
      BY <1>7 DEF Folding
    <2>2. ASSUME NEW s \in SUBSET (1 .. n)
          PROVE  g[s] = IF s = {} THEN base
                        ELSE Consider(g[s \ {Max(s)}], order[Max(s)], cap)
      <3>1. g[s] = IF s = {} THEN base ELSE step[<<pick[s], g[s \ {pick[s]}]>>]
        BY <1>7 DEF Folding
      <3>2. CASE s # {}
        <4>1. pick[s] = Max(s) /\ Max(s) \in 1 .. n /\ g[s \ {Max(s)}] \in A
          BY <1>4, <2>1, <3>2
        <4> HIDE DEF base, pick, A, order, cap
        <4> QED  BY <3>1, <3>2, <4>1
      <3>3. CASE s = {}
        BY <3>1, <3>3
      <3> QED  BY <3>2, <3>3
    <2> HIDE DEF base, A, order, cap
    <2> QED  BY <2>1, <2>2, <1>2 DEF order
  <1> HIDE DEF Solves
  <1>9. Solves(fold)
    BY <1>8
  <1>10. Choose(acc, blocks, p, c) = fold[1 .. n]
    BY DEF Choose, FoldLeft, MapThenFoldSet, Solves
  <1> DEFINE after == [k \in 0 .. n |-> fold[1 .. k]]
  <1> HIDE DEF fold
  <1>11. \A s \in SUBSET (1 .. n) :
           fold[s] = IF s = {} THEN base
                     ELSE Consider(fold[s \ {Max(s)}], order[Max(s)], cap)
    BY <1>9 DEF Solves
  <1> HIDE DEF base, cap, order, A
  <1>12. after[0] = base
    <2>1. 1 .. 0 = {} /\ {} \in SUBSET (1 .. n) /\ 0 \in 0 .. n
      OBVIOUS
    <2>2. fold[{}] = base
      BY <1>11, <2>1
    <2> QED  BY <2>1, <2>2
  <1>13. ASSUME NEW k \in 1 .. n
         PROVE  after[k] = Consider(after[k - 1], order[k], cap)
    <2>4. fold[1 .. k] = Consider(fold[1 .. (k - 1)], order[k], cap)
      BY <1>11, MaxOfNumbers
    <2>5. k \in 0 .. n /\ k - 1 \in 0 .. n
      OBVIOUS
    <2> QED  BY <2>4, <2>5
  <1>14. \A k \in 0 .. n : after[k] \in A
    <2> DEFINE Good == {k \in 0 .. n : after[k] \in A}
    <2>1. 0 \in Good
      BY <1>1, <1>12
    <2>2. ASSUME NEW k \in 0 .. n - 1, k \in Good PROVE k + 1 \in Good
      <3>1. k + 1 \in 1 .. n /\ (k + 1) - 1 = k
        OBVIOUS
      <3>2. Consider(after[k], order[k + 1], cap) \in A
        BY <2>2, <3>1, <1>2, ConsiderTypes DEF A
      <3>3. after[k + 1] = Consider(after[(k + 1) - 1], order[k + 1], cap)
        BY <1>13, <3>1
      <3>4. k + 1 \in 0 .. n
        OBVIOUS
      <3> HIDE DEF after
      <3> QED  BY <3>1, <3>2, <3>3, <3>4
    <2> HIDE DEF Good
    <2>3. \A k \in 0 .. n : k \in Good
      BY <2>1, <2>2, CountingUp
    <2> QED  BY <2>3 DEF Good
  <1>15. after \in [0 .. n -> A] /\ Choose(acc, blocks, p, c) = after[n]
    BY <1>10, <1>14
  <1> HIDE DEF after
  <1>16. after \in Runs(acc, blocks, p, c, n)
    BY <1>12, <1>13, <1>15 DEF A, order, cap, base, Runs
  <1> QED  BY <1>16

-----------------------------------------------------------------------------
(* The caps.                                                               *)

\* buildCategoryCaps: whichever categories are empty, the caps of the others and
\* what is released to messages and chunks do not exceed the budget together.
THEOREM CapsFit ==
  ASSUME NEW empty
  PROVE  Cap(empty, "summary") + Cap(empty, "message") + Cap(empty, "rag")
           + Cap(empty, "tool") + Cap(empty, "memory") <= Available
  <1> DEFINE s == BaseCap("summary")
             m == BaseCap("message")
             r == BaseCap("rag")
             t == BaseCap("tool")
             y == BaseCap("memory")
             R == Released(empty)
             Own(c) == IF c \in empty THEN 0 ELSE BaseCap(c)
  <1>1. /\ s \in Nat /\ m \in Nat /\ r \in Nat /\ t \in Nat /\ y \in Nat
    BY CapInNat DEF Flexible
  <1>2. s + m + r + t + y <= Available
    BY AvailableAssumption DEF BaseCap, Ratio
  <1>3. R = Freed(empty, "summary") + Freed(empty, "message")
              + Freed(empty, "rag") + Freed(empty, "tool") + Freed(empty, "memory")
    BY DEF Released
  <1>4. /\ Own("summary") + Freed(empty, "summary") = s
        /\ Own("message") + Freed(empty, "message") = m
        /\ Own("rag") + Freed(empty, "rag") = r
        /\ Own("tool") + Freed(empty, "tool") = t
        /\ Own("memory") + Freed(empty, "memory") = y
    BY <1>1 DEF Freed
  <1>5. \A c \in Flexible : Own(c) \in Nat /\ Freed(empty, c) \in Nat
    BY CapInNat
  <1>6. R \in Nat
    BY <1>3, <1>5 DEF Flexible
  <1>7. /\ Cap(empty, "summary") = Own("summary") + (R * 0) \div 12
        /\ Cap(empty, "message") = Own("message") + (R * 7) \div 12
        /\ Cap(empty, "rag") = Own("rag") + (R * 5) \div 12
        /\ Cap(empty, "tool") = Own("tool") + (R * 0) \div 12
        /\ Cap(empty, "memory") = Own("memory") + (R * 0) \div 12
    BY DEF Cap, Share
  <1>8. /\ Own("summary") \in Nat /\ Own("message") \in Nat /\ Own("rag") \in Nat
        /\ Own("tool") \in Nat /\ Own("memory") \in Nat
    BY <1>5 DEF Flexible
  <1>9. /\ Freed(empty, "summary") \in Nat /\ Freed(empty, "message") \in Nat
        /\ Freed(empty, "rag") \in Nat /\ Freed(empty, "tool") \in Nat
        /\ Freed(empty, "memory") \in Nat
    BY <1>5 DEF Flexible
  <1> HIDE DEF s, m, r, t, y, R, Own
  <1>10. (R * 0) \div 12 = 0
    BY <1>6
  <1>11. (R * 7) \div 12 + (R * 5) \div 12 <= R
    BY <1>6
  <1>12. (R * 7) \div 12 \in Nat /\ (R * 5) \div 12 \in Nat
    BY <1>6
  <1> QED
    BY <1>1, <1>2, <1>3, <1>4, <1>6, <1>7, <1>8, <1>9, <1>10, <1>11, <1>12,
       AvailableAssumption

-----------------------------------------------------------------------------
(* What has been chosen of the blocks considered.                          *)

\* Blocks that may be left out are known by their type and their n.
Distinct(blocks) ==
  \A a, b \in blocks :
    ~Pinned(a) /\ ~Pinned(b) /\ a.type = b.type /\ a.n = b.n => a = b

\* The candidates of a category are considered once each, in the order of their
\* priorities.
LEMMA SortedIs ==
  ASSUME NEW blocks \in SUBSET Block, IsFiniteSet(blocks), Distinct(blocks),
         NEW all, blocks \subseteq all, NEW p \in [all -> Nat], NEW c
  PROVE  /\ Cardinality(Candidates(blocks, c)) \in Nat
         /\ Sorted(blocks, p, c) \in [1 .. Cardinality(Candidates(blocks, c)) -> Candidates(blocks, c)]
         /\ \A b \in Candidates(blocks, c) :
              \E k \in 1 .. Cardinality(Candidates(blocks, c)) : Sorted(blocks, p, c)[k] = b
         /\ \A k, l \in 1 .. Cardinality(Candidates(blocks, c)) :
              k < l <=> Before(p, Sorted(blocks, p, c)[k], Sorted(blocks, p, c)[l])
  <1> DEFINE S == Candidates(blocks, c)
             order == {pair \in S \X S : Before(p, pair[1], pair[2])}
  <1>1. S \subseteq blocks /\ IsFiniteSet(S)
    BY FS_Subset DEF Candidates
  <1>2. \A b \in S : p[b] \in Nat /\ b.n \in Nat
    BY <1>1 DEF Block
  <1>3. \A a, b \in S : <<a, b>> \in order <=> Before(p, a, b)
    OBVIOUS
  <1>4. \A a, b \in S : a # b => a.n # b.n
    BY DEF Candidates, Distinct
  <1>5. Orders(order, S)
    <2> HIDE DEF order, S
    <2>1. \A a \in S : ~Before(p, a, a)
      BY <1>2 DEF Before
    <2>2. \A a, b \in S : a # b => Before(p, a, b) \/ Before(p, b, a)
      BY <1>2, <1>4 DEF Before
    <2>3. \A a, b, d \in S : Before(p, a, b) /\ Before(p, b, d) => Before(p, a, d)
      BY <1>2 DEF Before
    <2> QED  BY <1>3, <2>1, <2>2, <2>3 DEF Orders
  <1>6. Sorted(blocks, p, c) = Ranked(S, order)
    BY DEF Sorted
  <1> HIDE DEF order, S
  <1>7. /\ Cardinality(S) \in Nat
        /\ Ranked(S, order) \in [1 .. Cardinality(S) -> S]
        /\ \A i \in S : \E k \in 1 .. Cardinality(S) : Ranked(S, order)[k] = i
        /\ \A k, l \in 1 .. Cardinality(S) :
             k < l <=> <<Ranked(S, order)[k], Ranked(S, order)[l]>> \in order
    BY <1>1, <1>5, RankedSorts
  <1>8. \A k \in 1 .. Cardinality(S) : Ranked(S, order)[k] \in S
    BY <1>7
  <1>9. \A k, l \in 1 .. Cardinality(S) :
          k < l <=> Before(p, Ranked(S, order)[k], Ranked(S, order)[l])
    BY <1>3, <1>7, <1>8
  <1> QED  BY <1>6, <1>7, <1>9 DEF S

\* What may be said of the blocks chosen when those of D have been considered:
\* they fit into the budget, and each category under its cap; none of the others
\* would fit beside them, and none that comes before a chosen one of its category
\* is shorter.
Filling(blocks, p, acc, D) ==
  /\ acc \in Accumulated(blocks)
  /\ D \subseteq {b \in blocks : ~Pinned(b)}
  /\ acc.selected \subseteq D
  /\ acc.used = Tokens({b \in blocks : Pinned(b)} \cup acc.selected)
  /\ acc.selected # {} => acc.used <= Available
  /\ \A c \in Flexible : Tokens(Candidates(acc.selected, c)) <= Cap(EmptyOf(blocks), c)
  /\ \A b \in D \ acc.selected :
       \/ Tokens(Candidates(acc.selected, b.type)) + b.tokens > Cap(EmptyOf(blocks), b.type)
       \/ acc.used + b.tokens > Available
  /\ \A a, b \in D :
       a.type = b.type /\ Before(p, a, b) /\ b \in acc.selected /\ a \notin acc.selected =>
         b.tokens < a.tokens

\* Tokens of blocks of a set of them, and of one more.
LEMMA TokensOf ==
  ASSUME NEW blocks \in SUBSET Block, IsFiniteSet(blocks)
  PROVE  /\ Tokens({}) = 0
         /\ \A s \in SUBSET blocks : Tokens(s) \in Nat
         /\ \A s \in SUBSET blocks : \A b \in blocks \ s :
              Tokens(s \cup {b}) = Tokens(s) + b.tokens
  <1>1. \A b \in blocks : b.tokens \in Nat
    BY DEF Block
  <1>2. ASSUME NEW s \in SUBSET blocks
        PROVE  Tokens(s) \in Nat /\ Tokens({}) = 0
    BY <1>1, FS_Subset, TokensAdd
  <1>3. ASSUME NEW s \in SUBSET blocks, NEW b \in blocks \ s
        PROVE  Tokens(s \cup {b}) = Tokens(s) + b.tokens
    <2>1. PICK t \in SUBSET blocks : t = s \cup {b}
      OBVIOUS
    <2>2. IsFiniteSet(t) /\ b \in t /\ t \ {b} = s /\ \A a \in t : a.tokens \in Nat
      BY <1>1, <2>1, FS_Subset
    <2>3. Tokens(t) = Tokens(t \ {b}) + b.tokens
      BY <2>2, TokensAdd
    <2> QED  BY <2>1, <2>2, <2>3
  <1> QED  BY <1>2, <1>3

\* One more block is considered, after those of its category that come before it.
LEMMA ConsiderFills ==
  ASSUME NEW blocks \in SUBSET Block, IsFiniteSet(blocks), NEW p,
         NEW acc, NEW D, Filling(blocks, p, acc, D),
         NEW c \in Flexible, NEW b \in Candidates(blocks, c), b \notin D,
         \A a \in Candidates(D, c) : ~Before(p, b, a),
         acc.category = Tokens(Candidates(acc.selected, c)),
         NEW next, next = Consider(acc, b, Cap(EmptyOf(blocks), c))
  PROVE  /\ Filling(blocks, p, next, D \cup {b})
         /\ next.category = Tokens(Candidates(next.selected, c))
  <1> DEFINE cap == Cap(EmptyOf(blocks), c)
             P == {a \in blocks : Pinned(a)}
  <1>1. /\ acc \in Accumulated(blocks) /\ acc.selected \in SUBSET blocks
        /\ acc.used \in Nat /\ acc.category \in Nat
        /\ acc.selected \subseteq D /\ D \subseteq blocks
    BY DEF Filling, Accumulated
  <1>2. b \in blocks /\ ~Pinned(b) /\ b.type = c /\ b.tokens \in Nat
    BY DEF Candidates, Block
  <1>3. \A d \in Flexible : Cap(EmptyOf(blocks), d) \in Nat
    BY CapsAreNat
  <1>4. \A a \in D : a.tokens \in Nat /\ a.type \in Flexible /\ ~Pinned(a)
    BY <1>1 DEF Filling, Block, Pinned
  <1>5. \A s \in SUBSET blocks : Tokens(s) \in Nat
    BY TokensOf
  <1>6. Available \in Nat
    BY AvailableAssumption
  <1>7. CASE acc.category + b.tokens <= cap /\ acc.used + b.tokens <= Available
    <2>1. PICK s \in SUBSET blocks : s = acc.selected \cup {b}
      BY <1>1, <1>2
    <2>2. next = [selected |-> s, used |-> acc.used + b.tokens,
                  category |-> acc.category + b.tokens]
      BY <1>7, <2>1 DEF Consider
    <2>3. /\ next.selected = s /\ next.used = acc.used + b.tokens
          /\ next.category = acc.category + b.tokens /\ next \in Accumulated(blocks)
      BY <1>1, <1>2, <2>1, <2>2 DEF Accumulated
    <2>4. Tokens(Candidates(s, c)) = acc.category + b.tokens
      <3>1. PICK t \in SUBSET blocks : t = Candidates(acc.selected, c)
        BY <1>1 DEF Candidates
      <3>2. Candidates(s, c) = t \cup {b} /\ b \notin t
        BY <1>1, <1>2, <2>1, <3>1 DEF Candidates
      <3> QED  BY <1>2, <3>1, <3>2, TokensOf
    <2>5. \A d \in Flexible : d # c => Candidates(s, d) = Candidates(acc.selected, d)
      BY <1>2, <2>1 DEF Candidates
    <2>6. next.used = Tokens(P \cup s)
      <3>1. PICK t \in SUBSET blocks : t = P \cup acc.selected
        BY <1>1
      <3>2. P \cup s = t \cup {b} /\ b \notin t
        BY <1>1, <1>2, <2>1, <3>1
      <3>3. acc.used = Tokens(t)
        BY <3>1 DEF Filling
      <3> QED  BY <1>2, <2>3, <3>1, <3>2, <3>3, TokensOf
    <2>7. \A d \in Flexible : Tokens(Candidates(s, d)) <= Cap(EmptyOf(blocks), d)
      BY <1>7, <2>4, <2>5 DEF Filling
    <2>8. \A d \in Flexible : /\ Tokens(Candidates(acc.selected, d)) \in Nat
                              /\ Tokens(Candidates(s, d)) \in Nat
                              /\ Tokens(Candidates(acc.selected, d)) <= Tokens(Candidates(s, d))
      <3>1. \A d \in Flexible : /\ Candidates(acc.selected, d) \in SUBSET blocks
                                /\ Candidates(s, d) \in SUBSET blocks
        BY <1>1, <2>1 DEF Candidates
      <3> QED  BY <1>1, <1>2, <1>5, <2>4, <2>5, <3>1
    <2>9. ASSUME NEW a \in (D \cup {b}) \ s
          PROVE  \/ Tokens(Candidates(s, a.type)) + a.tokens > Cap(EmptyOf(blocks), a.type)
                 \/ next.used + a.tokens > Available
      <3>1. a \in D \ acc.selected
        BY <2>1, <2>9
      <3>2. \/ Tokens(Candidates(acc.selected, a.type)) + a.tokens > Cap(EmptyOf(blocks), a.type)
            \/ acc.used + a.tokens > Available
        BY <3>1 DEF Filling
      <3>3. /\ a.tokens \in Nat /\ Cap(EmptyOf(blocks), a.type) \in Nat
            /\ Tokens(Candidates(acc.selected, a.type)) \in Nat
            /\ Tokens(Candidates(s, a.type)) \in Nat
            /\ Tokens(Candidates(acc.selected, a.type)) <= Tokens(Candidates(s, a.type))
        BY <1>3, <1>4, <2>8, <3>1
      <3> QED  BY <1>1, <1>2, <1>6, <2>3, <3>2, <3>3
    <2>10. ASSUME NEW a \in D \cup {b}, NEW d \in D \cup {b}, a.type = d.type,
                  Before(p, a, d), d \in s, a \notin s
           PROVE  d.tokens < a.tokens
      <3>1. a \in D \ acc.selected
        BY <2>1, <2>10
      <3>2. CASE d # b
        BY <2>1, <2>10, <3>1, <3>2 DEF Filling
      <3>3. CASE d = b
        <4>1. \/ acc.category + a.tokens > cap
              \/ acc.used + a.tokens > Available
          BY <1>2, <2>10, <3>1, <3>3 DEF Filling
        <4>2. a.tokens \in Nat /\ cap \in Nat
          BY <1>3, <1>4, <3>1
        <4> HIDE DEF cap
        <4> QED  BY <1>1, <1>2, <1>6, <1>7, <3>3, <4>1, <4>2
      <3> QED  BY <3>2, <3>3
    <2>11. D \cup {b} \subseteq {a \in blocks : ~Pinned(a)} /\ s \subseteq D \cup {b}
      BY <1>1, <1>2, <2>1 DEF Filling
    <2> HIDE DEF P
    <2>12. Filling(blocks, p, next, D \cup {b})
      BY <1>7, <2>3, <2>6, <2>7, <2>9, <2>10, <2>11 DEF Filling, P
    <2> QED  BY <2>3, <2>4, <2>12
  <1>8. CASE ~(acc.category + b.tokens <= cap /\ acc.used + b.tokens <= Available)
    <2>1. next = acc
      BY <1>8 DEF Consider
    <2>2. b \notin acc.selected
      BY <1>1
    <2>3. \/ Tokens(Candidates(acc.selected, b.type)) + b.tokens > Cap(EmptyOf(blocks), b.type)
          \/ acc.used + b.tokens > Available
      <3>1. cap \in Nat
        BY <1>3
      <3> QED  BY <1>1, <1>2, <1>3, <1>6, <1>8, <3>1
    <2>4. ASSUME NEW a \in D \cup {b}, NEW d \in D \cup {b}, a.type = d.type,
                 Before(p, a, d), d \in acc.selected, a \notin acc.selected
          PROVE  d.tokens < a.tokens
      <3>1. d \in D
        BY <1>1, <2>4
      <3>2. a # b
        BY <1>2, <1>4, <2>4, <3>1 DEF Candidates
      <3> QED  BY <2>4, <3>1, <3>2 DEF Filling
    <2>5. \A a \in (D \cup {b}) \ acc.selected :
            \/ Tokens(Candidates(acc.selected, a.type)) + a.tokens > Cap(EmptyOf(blocks), a.type)
            \/ acc.used + a.tokens > Available
      BY <2>3 DEF Filling
    <2>6. D \cup {b} \subseteq {a \in blocks : ~Pinned(a)}
      BY <1>2 DEF Filling
    <2>7. Filling(blocks, p, acc, D \cup {b})
      BY <1>1, <2>4, <2>5, <2>6 DEF Filling
    <2> QED  BY <2>1, <2>7
  <1> QED  BY <1>7, <1>8

\* A category is considered, of which nothing has been before.
LEMMA ChooseFills ==
  ASSUME NEW blocks \in SUBSET Block, IsFiniteSet(blocks), Distinct(blocks),
         NEW all, blocks \subseteq all, NEW p \in [all -> Nat],
         NEW acc, NEW D, Filling(blocks, p, acc, D),
         NEW c \in Flexible, Candidates(D, c) = {}
  PROVE  Filling(blocks, p, Choose(acc, blocks, p, c), D \cup Candidates(blocks, c))
  <1> DEFINE S == Candidates(blocks, c)
             n == Cardinality(S)
             order == Sorted(blocks, p, c)
             cap == Cap(EmptyOf(blocks), c)
             Seen(k) == D \cup {order[i] : i \in 1 .. k}
  <1>1. /\ n \in Nat /\ order \in [1 .. n -> S]
        /\ \A b \in S : \E k \in 1 .. n : order[k] = b
        /\ \A k, l \in 1 .. n : k < l <=> Before(p, order[k], order[l])
    BY SortedIs
  <1>2. acc \in Accumulated(blocks) /\ acc.selected \subseteq D /\ D \subseteq blocks
    BY DEF Filling
  <1>3. order \in [1 .. n -> blocks]
    BY <1>1 DEF Candidates
  <1>4. PICK after \in [0 .. n -> Accumulated(blocks)] :
           /\ after[0] = [acc EXCEPT !.category = 0]
           /\ \A k \in 1 .. n : after[k] = Consider(after[k - 1], order[k], cap)
           /\ Choose(acc, blocks, p, c) = after[n]
    <2>1. Runs(acc, blocks, p, c, n) # {}
      BY <1>1, <1>2, <1>3, ChooseRuns
    <2> HIDE DEF n
    <2> QED  BY <2>1 DEF Runs
  <1> DEFINE Good == {k \in 0 .. n : /\ Filling(blocks, p, after[k], Seen(k))
                                     /\ after[k].category = Tokens(Candidates(after[k].selected, c))}
  <1>5. 0 \in Good
    <2>1. Seen(0) = D
      OBVIOUS
    <2>2. 0 \in 0 .. n
      BY <1>1
    <2>3. PICK a \in Accumulated(blocks) : a = after[0]
      BY <2>2
    <2>4. a = [acc EXCEPT !.category = 0]
      BY <1>4, <2>3
    <2>5. a.selected = acc.selected /\ a.used = acc.used /\ a.category = 0
      BY <1>2, <2>4 DEF Accumulated
    <2>6. Filling(blocks, p, a, D)
      BY <2>5 DEF Filling
    <2>7. Candidates(a.selected, c) = {}
      BY <1>2, <2>5 DEF Candidates
    <2>8. Tokens({}) = 0
      BY TokensOf
    <2> QED  BY <2>1, <2>2, <2>3, <2>5, <2>6, <2>7, <2>8
  <1>6. ASSUME NEW k \in 0 .. n - 1, k \in Good PROVE k + 1 \in Good
    <2>1. k + 1 \in 1 .. n /\ k + 1 \in 0 .. n /\ k \in 0 .. n /\ (k + 1) - 1 = k
      BY <1>1
    <2>2. after[k + 1] = Consider(after[k], order[k + 1], cap)
      BY <1>4, <2>1
    <2>3. order[k + 1] \in S
      BY <1>1, <2>1
    <2>4. Seen(k + 1) = Seen(k) \cup {order[k + 1]}
      <3>1. 1 .. (k + 1) = (1 .. k) \cup {k + 1}
        BY <1>1
      <3> HIDE DEF order
      <3> QED  BY <3>1
    <2>5. ASSUME NEW i \in 1 .. k PROVE i \in 1 .. n /\ order[i] \in S
                                        /\ Before(p, order[i], order[k + 1])
      <3>1. i \in 1 .. n /\ i < k + 1
        BY <1>1, <2>1
      <3> QED  BY <1>1, <2>1, <3>1
    <2>6. order[k + 1] \notin Seen(k)
      <3>1. order[k + 1] \notin D
        BY <2>3 DEF Candidates
      <3>2. ASSUME NEW i \in 1 .. k PROVE order[i] # order[k + 1]
        <4>1. i \in 1 .. n /\ i < k + 1 /\ ~(k + 1 < k + 1)
          BY <1>1, <2>1
        <4> QED  BY <1>1, <2>1, <4>1
      <3> QED  BY <3>1, <3>2
    <2>7. ASSUME NEW a \in Candidates(Seen(k), c) PROVE ~Before(p, order[k + 1], a)
      <3>1. PICK i \in 1 .. k : a = order[i]
        BY <2>7 DEF Candidates
      <3>2. i \in 1 .. n /\ ~(k + 1 < i)
        BY <1>1, <2>1
      <3> QED  BY <1>1, <2>1, <3>1, <3>2
    <2>8. Filling(blocks, p, after[k], Seen(k))
          /\ after[k].category = Tokens(Candidates(after[k].selected, c))
      BY <1>6
    <2> HIDE DEF Seen, order, cap
    <2>9. PICK b \in S : b = order[k + 1]
      BY <2>3
    <2>10. PICK seen : seen = Seen(k)
      OBVIOUS
    <2>11. PICK a : a = after[k]
      OBVIOUS
    <2>12. PICK next : next = Consider(a, b, cap)
      OBVIOUS
    <2>13. /\ Filling(blocks, p, next, seen \cup {b})
           /\ next.category = Tokens(Candidates(next.selected, c))
      <3>1. Filling(blocks, p, a, seen) /\ b \notin seen
            /\ a.category = Tokens(Candidates(a.selected, c))
        BY <2>6, <2>8, <2>9, <2>10, <2>11
      <3>2. \A d \in Candidates(seen, c) : ~Before(p, b, d)
        BY <2>7, <2>9, <2>10
      <3> QED  BY <2>12, <3>1, <3>2, ConsiderFills DEF cap
    <2>14. next = after[k + 1] /\ seen \cup {b} = Seen(k + 1)
      BY <2>2, <2>4, <2>9, <2>10, <2>11, <2>12
    <2> QED  BY <2>1, <2>13, <2>14
  <1>7. n \in Good
    <2> HIDE DEF Good, n
    <2>1. \A k \in 0 .. n : k \in Good
      BY <1>1, <1>5, <1>6, CountingUp
    <2> QED  BY <1>1, <2>1
  <1>8. Seen(n) = D \cup S
    <2> HIDE DEF order, n, S
    <2> QED  BY <1>1
  <1> QED  BY <1>4, <1>7, <1>8

\* The blocks chosen when all categories have been considered.
LEMMA FilledFills ==
  ASSUME NEW blocks \in SUBSET Block, IsFiniteSet(blocks), Distinct(blocks),
         NEW all, blocks \subseteq all, NEW p \in [all -> Nat]
  PROVE  \E acc : /\ Filling(blocks, p, acc, {b \in blocks : ~Pinned(b)})
                  /\ acc.selected = Filled(blocks, p)
  <1> DEFINE A == Accumulated(blocks)
             start == [selected |-> {}, category |-> 0,
                       used |-> Tokens({b \in blocks : Pinned(b)})]
             pick == [s \in SUBSET (1 .. 5) |-> Max(s)]
             step == [x \in (1 .. 5) \X A |-> Choose(x[2], blocks, p, Categories[x[1]])]
             Solves(h) ==
               h = [s \in SUBSET DOMAIN Categories |->
                      IF s = {} THEN start
                      ELSE Choose(h[s \ {Max(s)}], blocks, p, Categories[Max(s)])]
             fold == CHOOSE h : Solves(h)
  <1>1. /\ DOMAIN Categories = 1 .. 5
        /\ \A i \in 1 .. 5 : Categories[i] \in Flexible
        /\ \A c \in Flexible : \E i \in 1 .. 5 : Categories[i] = c
    BY DEF Categories, Flexible
  <1>n. /\ \A i, j \in 1 .. 5 : i # j => Categories[i] # Categories[j]
        /\ \A s \in SUBSET (1 .. 5) : s # {} => Max(s) \in s
        /\ \A k \in 1 .. 5 :
             /\ Max(1 .. k) = k /\ (1 .. k) \ {k} = 1 .. (k - 1)
             /\ 1 .. k # {} /\ 1 .. k \in SUBSET (1 .. 5)
        /\ IsFiniteSet(1 .. 5)
    <2>1. PICK n \in Nat : n = 5
      OBVIOUS
    <2>2. IsFiniteSet(1 .. n)
      BY FS_Interval
    <2>3. /\ \A s \in SUBSET (1 .. n) : s # {} => Max(s) \in s
          /\ \A k \in 1 .. n :
               /\ Max(1 .. k) = k /\ (1 .. k) \ {k} = 1 .. (k - 1)
               /\ 1 .. k # {} /\ 1 .. k \in SUBSET (1 .. n)
      BY MaxOfNumbers
    <2>4. \A i, j \in 1 .. 5 : i # j => Categories[i] # Categories[j]
      BY DEF Categories
    <2> QED  BY <2>1, <2>2, <2>3, <2>4
  <1>2. start \in A
    <2>1. Tokens({b \in blocks : Pinned(b)}) \in Nat
      BY TokensOf
    <2> QED  BY <2>1 DEF Accumulated
  <1>3. \A a \in A, c \in Flexible : Choose(a, blocks, p, c) \in A
    <2> SUFFICES ASSUME NEW a \in A, NEW c \in Flexible PROVE Choose(a, blocks, p, c) \in A
      OBVIOUS
    <2>1. PICK n \in Nat : n = Cardinality(Candidates(blocks, c))
      BY SortedIs
    <2>2. Sorted(blocks, p, c) \in [1 .. n -> blocks]
      <3>1. Sorted(blocks, p, c) \in [1 .. n -> Candidates(blocks, c)]
        BY <2>1, SortedIs
      <3> QED  BY <3>1 DEF Candidates
    <2>3. Runs(a, blocks, p, c, n) # {}
      BY <2>2, ChooseRuns
    <2>4. PICK after \in [0 .. n -> Accumulated(blocks)] : Choose(a, blocks, p, c) = after[n]
      BY <2>3 DEF Runs
    <2> QED  BY <2>4
  <1>4. step \in [(1 .. 5) \X A -> A]
    <2> HIDE DEF A
    <2> QED  BY <1>1, <1>3
  <1>5. \A s \in SUBSET (1 .. 5) : s # {} => pick[s] \in s /\ pick[s] = Max(s)
    BY <1>n
  <1>6. Folding(1 .. 5, A, start, pick, step) # {}
    <2>1. \A s \in SUBSET (1 .. 5) : s # {} => pick[s] \in s
      BY <1>5
    <2> HIDE DEF A, start, pick, step
    <2> QED  BY <1>n, <1>2, <1>4, <2>1, FoldExists
  <1>7. PICK g \in Folding(1 .. 5, A, start, pick, step) : TRUE
    BY <1>6
  <1>8. Solves(g)
    <2>1. g \in [SUBSET (1 .. 5) -> A]
      BY <1>7 DEF Folding
    <2>2. ASSUME NEW s \in SUBSET (1 .. 5)
          PROVE  g[s] = IF s = {} THEN start
                        ELSE Choose(g[s \ {Max(s)}], blocks, p, Categories[Max(s)])
      <3>1. g[s] = IF s = {} THEN start ELSE step[<<pick[s], g[s \ {pick[s]}]>>]
        BY <1>7 DEF Folding
      <3>2. CASE s # {}
        <4>1. pick[s] = Max(s) /\ Max(s) \in 1 .. 5 /\ g[s \ {Max(s)}] \in A
          BY <1>5, <2>1, <3>2
        <4> HIDE DEF start, pick, A
        <4> QED  BY <3>1, <3>2, <4>1
      <3>3. CASE s = {}
        BY <3>1, <3>3
      <3> QED  BY <3>2, <3>3
    <2> HIDE DEF start, A
    <2> QED  BY <2>1, <2>2, <1>1
  <1> HIDE DEF Solves
  <1>9. Solves(fold)
    BY <1>8
  <1>10. Filled(blocks, p) = fold[DOMAIN Categories].selected
    BY DEF Filled, FoldLeft, MapThenFoldSet, Solves
  <1> HIDE DEF fold
  <1>11. \A s \in SUBSET (1 .. 5) :
           fold[s] = IF s = {} THEN start
                     ELSE Choose(fold[s \ {Max(s)}], blocks, p, Categories[Max(s)])
    BY <1>1, <1>9 DEF Solves
  <1> DEFINE Seen(k) == {b \in blocks : ~Pinned(b) /\ \E i \in 1 .. k : b.type = Categories[i]}
             Good == {k \in 0 .. 5 : Filling(blocks, p, fold[1 .. k], Seen(k))}
  <1>12. 0 \in Good
    <2>1. 1 .. 0 = {} /\ {} \in SUBSET (1 .. 5)
      OBVIOUS
    <2>2. fold[1 .. 0] = start
      BY <1>11, <2>1
    <2>3. Seen(0) = {}
      OBVIOUS
    <2>4. /\ start.selected = {} /\ start.used = Tokens({b \in blocks : Pinned(b)})
      OBVIOUS
    <2> HIDE DEF start
    <2>5. \A c \in Flexible : Tokens(Candidates({}, c)) = 0 /\ Cap(EmptyOf(blocks), c) \in Nat
      <3>1. \A c \in Flexible : Candidates({}, c) = {}
        BY DEF Candidates
      <3> QED  BY <3>1, TokensOf, CapsAreNat
    <2>6. {b \in blocks : Pinned(b)} \cup {} = {b \in blocks : Pinned(b)}
      OBVIOUS
    <2>7. Filling(blocks, p, start, {})
      BY <1>2, <2>4, <2>5, <2>6 DEF Filling
    <2> HIDE DEF Seen
    <2>8. PICK none : none = Seen(0)
      OBVIOUS
    <2>9. PICK a : a = fold[1 .. 0]
      OBVIOUS
    <2>10. Filling(blocks, p, a, none)
      BY <2>2, <2>3, <2>7, <2>8, <2>9
    <2> QED  BY <2>8, <2>9, <2>10
  <1>13. ASSUME NEW k \in 0 .. 4, k \in Good PROVE k + 1 \in Good
    <2>1. k + 1 \in 1 .. 5 /\ k + 1 \in 0 .. 5 /\ (k + 1) - 1 = k
      OBVIOUS
    <2>2. PICK m \in 1 .. 5 : m = k + 1
      BY <2>1
    <2>3. fold[1 .. m] = Choose(fold[1 .. (m - 1)], blocks, p, Categories[m])
      BY <1>11, <1>n
    <2>4. PICK acc : acc = fold[1 .. k]
      OBVIOUS
    <2>5. PICK c \in Flexible : c = Categories[m]
      BY <1>1
    <2>6. Filling(blocks, p, acc, Seen(k))
      BY <1>13, <2>4
    <2>7. Candidates(Seen(k), c) = {}
      <3>1. \A i \in 1 .. k : Categories[i] # Categories[m]
        <4>1. \A i \in 1 .. k : i \in 1 .. 5 /\ i # m
          BY <2>2
        <4> QED  BY <4>1, <1>n
      <3> QED  BY <2>5, <3>1 DEF Candidates
    <2>8. Seen(m) = Seen(k) \cup Candidates(blocks, c)
      <3>1. \A i : i \in 1 .. m <=> i \in 1 .. k \/ i = m
        BY <2>2
      <3> QED  BY <2>5, <3>1 DEF Candidates
    <2> HIDE DEF Seen
    <2>9. PICK seen : seen = Seen(k)
      OBVIOUS
    <2>10. Filling(blocks, p, Choose(acc, blocks, p, c), seen \cup Candidates(blocks, c))
      BY <2>6, <2>7, <2>9, ChooseFills
    <2> QED  BY <2>1, <2>2, <2>3, <2>4, <2>5, <2>8, <2>9, <2>10
  <1>14. 5 \in Good
    <2> HIDE DEF Good
    <2>1. \A k \in 0 .. 5 : k \in Good
      <3>1. \A k \in 0 .. 5 - 1 : k \in Good => k + 1 \in Good
        BY <1>13
      <3> QED  BY <1>12, <3>1, CountingUp
    <2> QED  BY <2>1
  <1>15. Seen(5) = {b \in blocks : ~Pinned(b)}
    <2>1. \A b \in blocks : ~Pinned(b) => b.type \in Flexible
      BY DEF Block, Pinned
    <2> QED  BY <1>1, <2>1
  <1> QED  BY <1>1, <1>10, <1>14, <1>15

-----------------------------------------------------------------------------
(* The plans.                                                              *)

\* Of the blocks of a category that are not pinned, a longer one does not take the
\* place of one that comes first.
EarlierComeFirst ==
  \A a, b \in given :
    /\ a.type = b.type /\ ~Pinned(a) /\ ~Pinned(b)
    /\ Before(priority, a, b) /\ b \in selected /\ a \notin selected
    => b.tokens < a.tokens

\* Only messages lose priority: at every plan at most one point for each newer
\* message, which for all but the oldest leaves out two of them; and what is newer
\* keeps the greater priority while both are in the plan.
PriorityInv ==
  LET messages == Adjustable(AllBlocks(question))
  IN  /\ \A b \in AllBlocks(question) : b.type # "message" => priority[b] = BasePriority
      /\ \A old, new \in messages :
           old.n < new.n =>
             /\ priority[new] + plans * Cardinality(messages) >= BasePriority + 2 * plans
             /\ ~Covered(old) /\ ~Covered(new) /\ (plans = 0 \/ {old, new} \subseteq selected) =>
                  priority[old] <= priority[new]

\* The inductive invariant of the plans.
PlanInv ==
  /\ PlanTypeOK
  /\ MustKeepIsKept
  /\ stage # "context" <=> plans > 0
  /\ plans = 0 => given = {}
  /\ WithinBudget
  /\ NothingFitsAnymore
  /\ EarlierComeFirst
  /\ PriorityInv
  /\ OlderOnlyIfShorter
  /\ BestChunksFirst

\* The blocks of a question.
LEMMA BlocksKnown ==
  ASSUME NEW q \in Questions
  PROVE  /\ AllBlocks(q) \subseteq Block /\ IsFiniteSet(AllBlocks(q))
         /\ \A blocks \in SUBSET AllBlocks(q) :
              blocks \subseteq Block /\ IsFiniteSet(blocks) /\ Distinct(blocks)
         /\ \A b \in AllBlocks(q) :
              /\ b.type = "message" => b \in q.blocks
              /\ b.type = "rag" => b \in RagBlocks(q)
         /\ \A b \in q.prompt : b.type = "prompt"
         /\ \A b \in RagBlocks(q) : b.type = "rag" /\ ~b.keep
         /\ \A a, b \in RagBlocks(q) : a.n = b.n => a = b
  <1>1. /\ AllBlocks(q) \subseteq Block /\ IsFiniteSet(AllBlocks(q))
        /\ \A b \in q.blocks : b.type \notin {"prompt", "memory", "rag"}
        /\ \A a, b \in q.blocks :
             a.type \in Flexible /\ ~a.keep /\ ~b.keep /\ a.type = b.type /\ a.n = b.n => a = b
        /\ \A b \in q.prompt : b.type = "prompt"
    BY QuestionsAssumption
  <1>2. /\ \A b \in MemoryBlocks(q) : b.type = "memory"
        /\ \A a, b \in MemoryBlocks(q) : a.n = b.n => a = b
    <2> DEFINE tokens(i) == q.recall.rows[Weighed(q.recall)[i]].tokens
               block(i) == [type |-> "memory", n |-> i, tokens |-> tokens(i), keep |-> FALSE]
    <2>1. MemoryBlocks(q) = {block(i) : i \in 1 .. Len(Weighed(q.recall))}
      BY DEF MemoryBlocks
    <2> HIDE DEF tokens
    <2>2. \A i : block(i).type = "memory" /\ block(i).n = i /\ block(i).keep = FALSE
      OBVIOUS
    <2> HIDE DEF block
    <2>3. \A b \in MemoryBlocks(q) : \E i : b = block(i)
      BY <2>1
    <2> QED  BY <2>2, <2>3
  <1>3. /\ \A b \in RagBlocks(q) : b.type = "rag" /\ ~b.keep
        /\ \A a, b \in RagBlocks(q) : a.n = b.n => a = b
    <2> DEFINE tokens(i) == q.search.rows[Found(q.search)[i]]
               block(i) == [type |-> "rag", n |-> i, tokens |-> tokens(i), keep |-> FALSE]
    <2>1. RagBlocks(q) = {block(i) : i \in 1 .. Len(Found(q.search))}
      BY DEF RagBlocks
    <2> HIDE DEF tokens
    <2>2. \A i : block(i).type = "rag" /\ block(i).n = i /\ block(i).keep = FALSE
      OBVIOUS
    <2> HIDE DEF block
    <2>3. \A b \in RagBlocks(q) : \E i : b = block(i)
      BY <2>1
    <2> QED  BY <2>2, <2>3
  <1>4. AllBlocks(q) = q.blocks \cup MemoryBlocks(q) \cup q.prompt \cup RagBlocks(q)
    BY DEF AllBlocks, PlanBlocks
  <1>5. \A b \in AllBlocks(q) : ~Pinned(b) => b.type \in Flexible /\ ~b.keep
    BY <1>1 DEF Block, Pinned
  <1>6. Distinct(AllBlocks(q))
    <2> SUFFICES ASSUME NEW a \in AllBlocks(q), NEW b \in AllBlocks(q),
                        ~Pinned(a), ~Pinned(b), a.type = b.type, a.n = b.n
                 PROVE  a = b
      BY DEF Distinct
    <2>1. a.type \in Flexible /\ ~a.keep /\ ~b.keep
      BY <1>5
    <2>2. CASE a.type \in {"memory", "rag"}
      BY <1>1, <1>2, <1>3, <1>4, <2>2
    <2>3. CASE a.type \notin {"memory", "rag"}
      <3>1. a \in q.blocks /\ b \in q.blocks
        BY <1>1, <1>2, <1>3, <1>4, <2>1, <2>3 DEF Flexible
      <3> QED  BY <1>1, <2>1, <3>1
    <2> QED  BY <2>2, <2>3
  <1>7. ASSUME NEW blocks \in SUBSET AllBlocks(q)
        PROVE  blocks \subseteq Block /\ IsFiniteSet(blocks) /\ Distinct(blocks)
    <2>1. IsFiniteSet(blocks)
      BY <1>1, FS_Subset
    <2> QED  BY <1>1, <1>6, <2>1 DEF Distinct
  <1>8. \A b \in AllBlocks(q) : /\ b.type = "message" => b \in q.blocks
                                /\ b.type = "rag" => b \in RagBlocks(q)
    BY <1>1, <1>2, <1>3, <1>4
  <1> QED  BY <1>1, <1>3, <1>7, <1>8

\* Priorities stay natural numbers, whichever blocks are pruned.
LEMMA LoweredInNat ==
  ASSUME NEW q \in Questions, priority \in [AllBlocks(q) -> Nat],
         NEW blocks \in SUBSET AllBlocks(q)
  PROVE  /\ Lowered(blocks) \in [AllBlocks(q) -> Nat]
         /\ \A b \in AllBlocks(q) : Penalty(b, blocks) \in Nat
  <1> DEFINE all == AllBlocks(q)
  <1>1. IsFiniteSet(all)
    BY QuestionsAssumption
  <1> HIDE DEF all
  <1>2. ASSUME NEW b \in all
        PROVE  Penalty(b, blocks) \in Nat
    <2> DEFINE newer == {c \in Adjustable(blocks) : c.n > b.n}
    <2>1. newer \subseteq all
      BY DEF Adjustable, all
    <2> HIDE DEF newer
    <2>2. Cardinality(newer) \in Nat
      BY <1>1, <2>1, FS_Subset, FS_CardinalityType
    <2> QED  BY <2>2 DEF Penalty, newer
  <1>3. priority \in [all -> Nat]
    BY DEF all
  <1>4. ASSUME NEW b \in all
        PROVE  (IF b \notin Adjustable(blocks) THEN priority[b]
                ELSE IF priority[b] > Penalty(b, blocks)
                       THEN priority[b] - Penalty(b, blocks)
                ELSE 0) \in Nat
    <2>1. priority[b] \in Nat
      BY <1>3
    <2>2. Penalty(b, blocks) \in Nat
      BY <1>2
    <2> HIDE DEF all
    <2> QED  BY <2>1, <2>2
  <1>5. Lowered(blocks) \in [all -> Nat]
    BY <1>3, <1>4 DEF Lowered
  <1> QED  BY <1>2, <1>5 DEF all

\* A plan selects, of the blocks it is given, at least those that are pinned:
\* none of them is dropped as summarized either.
LEMMA PlanKeepsPinned ==
  ASSUME PlanTypeOK, NEW blocks \in SUBSET AllBlocks(question), Plan(blocks),
         question' = question
  PROVE  /\ priority' \in [AllBlocks(question) -> Nat]
         /\ given' \subseteq AllBlocks(question)
         /\ selected' \subseteq given'
         /\ plans' = plans + 1
         /\ {b \in blocks : b.keep \/ b.type = "prompt"} \subseteq selected'
  <1> DEFINE kept == {b \in blocks : ~Covered(b)}
  <1>1. priority' = Lowered(kept) /\ given' = kept
        /\ selected' = kept \cap Chosen(kept, priority') /\ plans' = plans + 1
    BY DEF Plan
  <1>2. {b \in kept : Pinned(b)} \subseteq Chosen(kept, priority')
    BY DEF Chosen
  <1>3. ASSUME NEW b \in blocks, b.keep \/ b.type = "prompt"
        PROVE  b \in kept /\ Pinned(b)
    BY <1>3 DEF Covered, Pinned, Fixed
  <1>4. kept \in SUBSET AllBlocks(question)
    OBVIOUS
  <1> HIDE DEF kept
  <1>5. Lowered(kept) \in [AllBlocks(question) -> Nat]
    BY <1>4, LoweredInNat DEF PlanTypeOK
  <1> QED  BY <1>1, <1>2, <1>3, <1>4, <1>5 DEF PlanTypeOK

\* A plan fits into the budget, leaves out only what does not fit, and of every
\* category takes first what comes first.
LEMMA PlanFits ==
  ASSUME PlanTypeOK, NEW blocks \in SUBSET AllBlocks(question), Plan(blocks)
  PROVE  WithinBudget' /\ NothingFitsAnymore' /\ EarlierComeFirst'
  <1> DEFINE kept == {b \in blocks : ~Covered(b)}
             free == {b \in kept : ~Pinned(b)}
             pinned == {b \in kept : Pinned(b)}
  <1>1. priority' = Lowered(kept) /\ given' = kept
        /\ selected' = kept \cap Chosen(kept, priority')
    BY DEF Plan
  <1>2. kept \in SUBSET AllBlocks(question)
    OBVIOUS
  <1>3. kept \in SUBSET Block /\ IsFiniteSet(kept) /\ Distinct(kept)
    BY <1>2, BlocksKnown DEF PlanTypeOK
  <1>4. priority' \in [AllBlocks(question) -> Nat]
    <2> HIDE DEF kept
    <2> QED  BY <1>1, <1>2, LoweredInNat DEF PlanTypeOK
  <1>5. PICK acc : Filling(kept, priority', acc, free) /\ acc.selected = Filled(kept, priority')
    <2> HIDE DEF kept
    <2> QED  BY <1>2, <1>3, <1>4, FilledFills
  <1>6. selected' = pinned \cup acc.selected
    BY <1>1, <1>5 DEF Chosen, Filling
  <1>7. \A c \in Flexible : Candidates(selected', c) = Candidates(acc.selected, c)
    BY <1>6 DEF Candidates
  <1>8. acc.selected \subseteq free
    BY <1>5 DEF Filling
  <1>9. {b \in selected' : ~Pinned(b)} = acc.selected
    BY <1>6, <1>8
  <1>10. \A b \in given' \ selected' : b \in free /\ b \notin acc.selected /\ b.type \in Flexible
    <2>1. \A b \in kept : ~Pinned(b) => b.type \in Flexible
      BY <1>3 DEF Block, Pinned
    <2> QED  BY <1>1, <1>6, <2>1
  <1>11. Tokens(selected') = acc.used
    BY <1>5, <1>6 DEF Filling
  <1> HIDE DEF kept, free, pinned
  <1>12. WithinBudget'
    BY <1>1, <1>5, <1>7, <1>9, <1>11 DEF WithinBudget, Filling
  <1>13. NothingFitsAnymore'
    BY <1>1, <1>5, <1>7, <1>10, <1>11 DEF NothingFitsAnymore, Filling
  <1>14. EarlierComeFirst'
    <2> SUFFICES ASSUME NEW a \in given', NEW b \in given', a.type = b.type, ~Pinned(a),
                        ~Pinned(b), Before(priority', a, b), b \in selected', a \notin selected'
                 PROVE  b.tokens < a.tokens
      BY DEF EarlierComeFirst
    <2>1. a \in free /\ b \in free
      BY <1>1 DEF free
    <2>2. b \in acc.selected /\ a \notin acc.selected
      BY <1>6, <1>9
    <2> QED  BY <1>5, <2>1, <2>2 DEF Filling
  <1> QED  BY <1>12, <1>13, <1>14

\* How much priority a plan takes from messages: less from the newer one, and from
\* none but the oldest as much as there are messages less two.
LEMMA PenaltyBounds ==
  ASSUME NEW all, IsFiniteSet(all), \A b \in all : b.n \in Nat, NEW kept \in SUBSET all
  PROVE  /\ Cardinality(Adjustable(all)) \in Nat
         /\ \A old, new \in Adjustable(all) : old.n < new.n =>
              Penalty(new, kept) + 2 <= Cardinality(Adjustable(all))
         /\ \A old, new \in Adjustable(kept) : old.n < new.n =>
              Penalty(new, kept) < Penalty(old, kept)
  <1> DEFINE messages == Adjustable(all)
             newer(b) == {c \in Adjustable(kept) : c.n > b.n}
  <1>1. IsFiniteSet(messages) /\ Cardinality(messages) \in Nat /\ messages \subseteq all
        /\ Adjustable(kept) \subseteq messages
    <2>1. messages \subseteq all /\ Adjustable(kept) \subseteq messages
      BY DEF Adjustable
    <2> HIDE DEF messages
    <2> QED  BY <2>1, FS_Subset, FS_CardinalityType
  <1>2. \A b : newer(b) \in SUBSET messages /\ Penalty(b, kept) = Cardinality(newer(b))
    BY <1>1 DEF Penalty
  <1>3. \A b \in messages : b \notin newer(b)
    BY <1>1
  <1> HIDE DEF newer
  <1>4. ASSUME NEW b PROVE IsFiniteSet(newer(b)) /\ Cardinality(newer(b)) \in Nat
    <2> HIDE DEF messages
    <2> QED  BY <1>1, <1>2, FS_Subset, FS_CardinalityType
  <1>5. ASSUME NEW old \in messages, NEW new \in messages, old.n < new.n
        PROVE  Penalty(new, kept) + 2 <= Cardinality(messages)
    <2>1. new \notin newer(new) /\ old \notin newer(new) /\ old # new
      BY <1>1, <1>3, <1>5 DEF newer
    <2> HIDE DEF messages
    <2>2. PICK one \in SUBSET messages : one = newer(new) \cup {new}
      BY <1>2
    <2>3. PICK two \in SUBSET messages : two = one \cup {old}
      OBVIOUS
    <2>4. IsFiniteSet(one) /\ Cardinality(one) = Cardinality(newer(new)) + 1
      BY <1>4, <2>1, <2>2, FS_AddElement
    <2>5. old \notin one
      BY <2>1, <2>2
    <2>6. IsFiniteSet(two) /\ Cardinality(two) = Cardinality(one) + 1
      BY <2>3, <2>4, <2>5, FS_AddElement
    <2>7. Cardinality(two) <= Cardinality(messages)
      BY <1>1, FS_Subset
    <2> QED  BY <1>1, <1>2, <1>4, <2>4, <2>6, <2>7
  <1>6. ASSUME NEW old \in Adjustable(kept), NEW new \in Adjustable(kept), old.n < new.n
        PROVE  Penalty(new, kept) < Penalty(old, kept)
    <2>1. \A b \in Adjustable(kept) : b.n \in Nat
      BY <1>1
    <2>2. newer(new) \cup {new} \subseteq newer(old) /\ new \notin newer(new)
      BY <1>6, <2>1 DEF newer
    <2>3. IsFiniteSet(newer(new) \cup {new})
          /\ Cardinality(newer(new) \cup {new}) = Cardinality(newer(new)) + 1
      BY <1>4, <2>2, FS_AddElement
    <2>4. Cardinality(newer(new) \cup {new}) <= Cardinality(newer(old))
      BY <1>4, <2>2, FS_Subset
    <2> QED  BY <1>2, <1>4, <2>3, <2>4
  <1> QED  BY <1>1, <1>5, <1>6

\* A plan keeps the order of the messages, as far as priorities reach.
LEMMA PlanKeepsOrder ==
  ASSUME PlanTypeOK, PriorityInv, OlderOnlyIfShorter,
         NEW blocks \in SUBSET AllBlocks(question), Plan(blocks), question' = question,
         plans > 0 => selected \subseteq blocks,
         \A b \in AllBlocks(question) :
           b.type = "message" => (b \in blocks <=> plans = 0 \/ b \in selected)
  PROVE  PriorityInv' /\ OlderOnlyIfShorter'
  <1> DEFINE all == AllBlocks(question)
             messages == Adjustable(all)
             kept == {b \in blocks : ~Covered(b)}
             loss(b) == Penalty(b, kept)
  <1>1. priority' = Lowered(kept) /\ given' = kept /\ plans' = plans + 1
        /\ selected' \subseteq kept
    BY DEF Plan
  <1>2. /\ IsFiniteSet(all) /\ kept \in SUBSET all
        /\ \A b \in all : b.n \in Nat /\ b.tokens \in Nat
    BY BlocksKnown DEF PlanTypeOK, Block
  <1>3. \A b \in all : priority[b] \in Nat /\ loss(b) \in Nat
    BY <1>2, LoweredInNat DEF PlanTypeOK
  <1>4. PICK M \in Nat : M = Cardinality(messages)
    <2> HIDE DEF all, kept
    <2> QED  BY <1>2, PenaltyBounds DEF messages
  <1>5. /\ \A old, new \in messages : old.n < new.n => loss(new) + 2 <= M
        /\ \A old, new \in Adjustable(kept) : old.n < new.n => loss(new) < loss(old)
    <2>1. /\ \A old, new \in messages : old.n < new.n =>
               Penalty(new, kept) + 2 <= Cardinality(messages)
          /\ \A old, new \in Adjustable(kept) : old.n < new.n =>
               Penalty(new, kept) < Penalty(old, kept)
      <3> HIDE DEF all, kept
      <3> QED  BY <1>2, PenaltyBounds DEF messages
    <2> QED  BY <1>4, <2>1
  <1>6. \A b \in all :
          priority'[b] = IF b \notin Adjustable(kept) THEN priority[b]
                         ELSE IF priority[b] > loss(b) THEN priority[b] - loss(b)
                         ELSE 0
    BY <1>1 DEF Lowered, PlanTypeOK
  <1>7. \A b \in messages : /\ b \in all /\ b.type = "message" /\ ~Pinned(b)
                            /\ b \in kept => b \in Adjustable(kept)
    BY DEF Adjustable, Pinned, Fixed
  <1>8. \A b \in all : b.type # "message" => b \notin Adjustable(kept)
    BY DEF Adjustable
  <1>9. messages' = messages /\ all' = all
    BY DEF Adjustable
  <1>10. \A b : Covered(b)' <=> Covered(b)
    BY DEF Covered
  <1>11. plans \in Nat /\ BasePriority \in Nat
    BY BasePriorityAssumption DEF PlanTypeOK
  <1>12. PICK w \in Nat : w = plans * M
    BY <1>11
  <1>13. plans' * M = w + M
    BY <1>1, <1>11, <1>12
  <1>14. \A b \in all : b.type = "message" /\ b \in kept => plans = 0 \/ b \in selected
    OBVIOUS
  <1>15. EarlierComeFirst'
    BY PlanFits
  <1>16. ASSUME NEW old \in messages, NEW new \in messages, old.n < new.n
         PROVE  /\ priority'[new] + plans' * M >= BasePriority + 2 * plans'
                /\ plans' * M < BasePriority + 2 * plans' =>
                     priority'[new] > 0 /\ w < BasePriority + 2 * plans
    <2>1. priority[new] + w >= BasePriority + 2 * plans
      BY <1>4, <1>12, <1>16 DEF PriorityInv
    <2>2. loss(new) + 2 <= M
      BY <1>5, <1>16
    <2>3. priority'[new] \in Nat /\ priority'[new] >= priority[new] - loss(new)
      <3> HIDE DEF all, messages, kept, loss
      <3> QED  BY <1>3, <1>6, <1>7
    <2>4. priority[new] \in Nat /\ loss(new) \in Nat
      BY <1>3, <1>7
    <2> HIDE DEF all, messages, kept, loss
    <2> QED  BY <1>1, <1>11, <1>13, <2>1, <2>2, <2>3, <2>4
  <1>17. ASSUME NEW old \in messages, NEW new \in messages, old.n < new.n,
                ~Covered(old), ~Covered(new), old \in kept, new \in kept
         PROVE  /\ priority'[old] <= priority'[new]
                /\ priority'[new] > 0 => priority'[old] < priority'[new]
    <2>1. priority[old] <= priority[new]
      <3>1. plans = 0 \/ {old, new} \subseteq selected
        BY <1>7, <1>14, <1>17
      <3> QED  BY <1>17, <3>1 DEF PriorityInv
    <2>2. old \in Adjustable(kept) /\ new \in Adjustable(kept) /\ old \in all /\ new \in all
      BY <1>7, <1>17
    <2>3. loss(new) < loss(old)
      BY <1>5, <1>17, <2>2
    <2>4. /\ priority[old] \in Nat /\ priority[new] \in Nat
          /\ loss(old) \in Nat /\ loss(new) \in Nat
      BY <1>3, <2>2
    <2> HIDE DEF all, messages, kept, loss
    <2> QED  BY <1>6, <2>1, <2>2, <2>3, <2>4
  <1>18. PriorityInv'
    <2>1. \A b \in all : b.type # "message" => priority'[b] = BasePriority
      BY <1>6, <1>8 DEF PriorityInv
    <2>2. ASSUME NEW old \in messages, NEW new \in messages, old.n < new.n,
                 ~Covered(old), ~Covered(new), {old, new} \subseteq selected'
          PROVE  priority'[old] <= priority'[new]
      BY <1>1, <1>17, <2>2
    <2>3. plans' # 0
      BY <1>1, <1>11
    <2> HIDE DEF kept, loss
    <2> QED  BY <1>4, <1>9, <1>10, <1>16, <2>1, <2>2, <2>3 DEF PriorityInv
  <1>19. OlderOnlyIfShorter'
    <2>1. ASSUME NEW old \in messages, NEW new \in messages, old.n < new.n,
                 ~Covered(old), ~Covered(new), plans' * M < BasePriority + 2 * plans',
                 old \in selected', new \notin selected'
          PROVE  old.tokens < new.tokens
      <3>1. old \in kept
        BY <1>1, <2>1
      <3>2. CASE new \in kept
        <4>1. priority'[old] < priority'[new]
          BY <1>16, <1>17, <2>1, <3>1, <3>2
        <4>2. /\ priority'[old] \in Nat /\ priority'[new] \in Nat
              /\ old.type = new.type /\ ~Pinned(old) /\ ~Pinned(new)
          <5>1. priority' \in [all -> Nat]
            <6> HIDE DEF kept
            <6> QED  BY <1>1, <1>2, LoweredInNat DEF PlanTypeOK
          <5> QED  BY <1>7, <5>1
        <4>3. Before(priority', new, old)
          BY <4>1, <4>2 DEF Before
        <4> QED  BY <1>1, <1>15, <2>1, <3>1, <3>2, <4>2, <4>3 DEF EarlierComeFirst
      <3>3. CASE new \notin kept
        <4>1. new \notin blocks
          BY <2>1, <3>3
        <4>2. plans > 0 /\ new \notin selected /\ old \in selected
          <5>1. plans # 0 /\ new \notin selected
            <6>1. new \in all /\ new.type = "message"
              BY <1>7
            <6> HIDE DEF kept, loss, messages
            <6> QED  BY <4>1, <6>1
          <5>2. old \in selected
            <6>1. old \in all /\ old.type = "message"
              BY <1>7
            <6> HIDE DEF loss, messages
            <6> QED  BY <1>14, <3>1, <5>1, <6>1
          <5> QED  BY <1>11, <5>1, <5>2
        <4>3. plans * M < BasePriority + 2 * plans
          BY <1>12, <1>16, <2>1
        <4> QED  BY <1>4, <2>1, <4>2, <4>3 DEF OlderOnlyIfShorter
      <3> QED  BY <3>2, <3>3
    <2> HIDE DEF kept, loss
    <2> QED  BY <1>4, <1>9, <1>10, <2>1 DEF OlderOnlyIfShorter
  <1> QED  BY <1>18, <1>19

-----------------------------------------------------------------------------
(* The chunks a search finds.                                              *)

LEMMA ScoreInNat ==
  ASSUME NEW s, \A c \in DOMAIN s.points : s.points[c] \in Nat
  PROVE  \A c : Score(s, c) \in Nat
  BY DEF Score, HitBase, Boost

\* The best come first: a chunk that passes the filters and still has its row is
\* found before every one it has a higher score than.
LEMMA FoundInOrder ==
  ASSUME NEW s, Proposed(s) \subseteq Nat, IsFiniteSet(Proposed(s)),
         \A c \in DOMAIN s.points : s.points[c] \in Nat
  PROVE  /\ Len(Found(s)) \in Nat
         /\ \A i \in 1 .. Len(Found(s)) : Found(s)[i] \in Filtered(s)
         /\ \A c \in Filtered(s) \cap DOMAIN s.rows, i \in 1 .. Len(Found(s)) :
              Score(s, c) > Score(s, Found(s)[i]) =>
                \E j \in 1 .. Len(Found(s)) : j < i /\ Found(s)[j] = c
  <1> DEFINE S == Filtered(s)
             score(c) == Score(s, c)
             all == Ranked(S, Order(s))
             n == Cardinality(S)
             top == TopRanked(s)
             found == Found(s)
  <1>1. S \subseteq Nat /\ IsFiniteSet(S) /\ S \subseteq Proposed(s)
    <2>1. S \subseteq Proposed(s)
      BY DEF Filtered, Passing
    <2> HIDE DEF S
    <2> QED  BY <2>1, FS_Subset
  <1>2. \A c \in S : score(c) \in Nat
    BY ScoreInNat
  <1>3. \A c, d \in S : <<c, d>> \in Order(s) <=> Ahead(s, c, d)
    BY DEF Order
  <1> HIDE DEF S
  <1>4. Orders(Order(s), S)
    <2>1. \A c \in S : ~Ahead(s, c, c)
      BY <1>1, <1>2 DEF Ahead
    <2>2. \A c, d \in S : c # d => Ahead(s, c, d) \/ Ahead(s, d, c)
      BY <1>1, <1>2 DEF Ahead
    <2>3. \A c, d, e \in S : Ahead(s, c, d) /\ Ahead(s, d, e) => Ahead(s, c, e)
      BY <1>1, <1>2 DEF Ahead
    <2> QED  BY <1>3, <2>1, <2>2, <2>3 DEF Orders
  <1>5. /\ n \in Nat /\ all \in [1 .. n -> S]
        /\ \A c \in S : \E k \in 1 .. n : all[k] = c
        /\ \A k, l \in 1 .. n : k < l <=> <<all[k], all[l]>> \in Order(s)
    BY <1>1, <1>4, RankedSorts
  <1>6. all \in Seq(S) /\ Len(all) = n
    <2> HIDE DEF all, n
    <2> QED  BY <1>5
  <1>7. top = Cut(all, TopK) /\ found = Filter(top, DOMAIN s.rows)
    BY DEF TopRanked, Found, S
  <1> HIDE DEF all, n, top, found
  <1>8. /\ top \in Seq(S) /\ Len(top) = IF n < TopK THEN n ELSE TopK
        /\ \A k \in 1 .. Len(top) : k \in 1 .. n /\ top[k] = all[k]
    BY <1>6, <1>7, CutKeeps, TopKAssumption
  <1>9. /\ found \in Seq(S)
        /\ \A k \in 1 .. Len(found) : \E p \in 1 .. Len(top) : top[p] = found[k]
        /\ \A p \in 1 .. Len(top) : top[p] \in DOMAIN s.rows =>
             \E k \in 1 .. Len(found) : found[k] = top[p]
        /\ \A k, l \in 1 .. Len(found) : k < l => Precedes(top, found[k], found[l])
    <2>1. PICK rows : rows = DOMAIN s.rows
      OBVIOUS
    <2>2. PICK t \in Seq(S) : t = top
      BY <1>8
    <2>3. PICK f : f = Filter(t, rows)
      OBVIOUS
    <2>4. f \in Seq(S) /\ \A k \in 1 .. Len(f) : f[k] \in rows
      BY <2>3, FilterKeeps
    <2>6. \A k \in 1 .. Len(f) : \E p \in 1 .. Len(t) : t[p] = f[k]
      BY <2>3, FilterKeeps
    <2>7. \A p \in 1 .. Len(t) : t[p] \in rows => \E k \in 1 .. Len(f) : f[k] = t[p]
      BY <2>3, FilterKeeps
    <2>8. \A k, l \in 1 .. Len(f) : k < l => Precedes(t, f[k], f[l])
      BY <2>3, FilterKeeps
    <2>5. f = found
      BY <1>7, <2>1, <2>2, <2>3
    <2> QED  BY <2>1, <2>2, <2>4, <2>5, <2>6, <2>7, <2>8
  <1>10. Len(found) \in Nat /\ \A i \in 1 .. Len(found) : found[i] \in S
    BY <1>9
  <1>11. ASSUME NEW c \in S \cap DOMAIN s.rows, NEW i \in 1 .. Len(found),
                score(c) > score(found[i])
         PROVE  \E j \in 1 .. Len(found) : j < i /\ found[j] = c
    <2>1. PICK d \in S : d = found[i]
      BY <1>10
    <2>2. Ahead(s, c, d) /\ ~Ahead(s, d, c)
      BY <1>2, <1>11, <2>1 DEF Ahead
    <2>3. PICK p \in 1 .. Len(top) : top[p] = d
      BY <1>9, <2>1
    <2>4. PICK q \in 1 .. n : all[q] = c
      BY <1>5
    <2>5. p \in 1 .. n /\ all[p] = d
      BY <1>8, <2>3
    <2>6. q < p
      BY <1>3, <1>5, <2>2, <2>4, <2>5
    <2>7. q \in 1 .. Len(top) /\ top[q] = c
      <3>1. Len(top) \in Nat
        BY <1>8
      <3>2. q \in 1 .. Len(top)
        BY <1>5, <2>3, <2>6, <3>1
      <3> QED  BY <1>8, <2>4, <3>2
    <2>8. PICK j \in 1 .. Len(found) : found[j] = c
      BY <1>9, <2>7
    <2>9. c # d
      BY <1>2, <1>11, <2>1
    <2>10. ASSUME i < j PROVE FALSE
      <3>1. PICK k, l \in 1 .. Len(top) : k < l /\ top[k] = d /\ top[l] = c
        <4>1. Precedes(top, found[i], found[j])
          BY <1>9, <2>10
        <4>2. Precedes(top, d, c)
          BY <2>1, <2>8, <4>1
        <4> QED  BY <4>2 DEF Precedes
      <3>2. k \in 1 .. n /\ l \in 1 .. n /\ all[k] = d /\ all[l] = c
        BY <1>8, <3>1
      <3>3. <<d, c>> \in Order(s)
        BY <1>5, <3>1, <3>2
      <3> QED  BY <1>3, <2>2, <3>3
    <2>11. j # i
      BY <2>1, <2>8, <2>9
    <2> QED  BY <1>10, <2>8, <2>10, <2>11
  <1> QED  BY <1>10, <1>11 DEF found, S

\* A chunk that is not in the plan made with the chunks found was too long for
\* every one that is and has a lower score, unless the filters take it.
LEMMA RagKeepsBest ==
  ASSUME PlanInv, RagStage
  PROVE  BestChunksFirst'
  <1> DEFINE s == question.search
             rag == RagBlocks(question)
             found == Found(s)
             all == AllBlocks(question)
             Sent(c) == \E i \in 1 .. Len(found) :
                          found[i] = c /\ \E b \in selected' : b.type = "rag" /\ b.n = i
  <1>1. question' = question /\ EnrichPlan(rag)
    BY DEF RagStage
  <1>2. /\ Len(found) \in Nat
        /\ \A i \in 1 .. Len(found) : found[i] \in Filtered(s)
        /\ \A c \in Filtered(s) \cap DOMAIN s.rows, i \in 1 .. Len(found) :
             Score(s, c) > Score(s, found[i]) =>
               \E j \in 1 .. Len(found) : j < i /\ found[j] = c
    BY QuestionsAssumption, FoundInOrder DEF PlanInv, PlanTypeOK
  <1>3. \A c \in Proposed(s) : Score(s, c) \in Nat
    BY QuestionsAssumption, ScoreInNat DEF PlanInv, PlanTypeOK
  <1>4. /\ \A b \in all : b.type = "rag" => b \in rag
        /\ \A b \in rag : b.type = "rag" /\ ~b.keep
    BY BlocksKnown DEF PlanInv, PlanTypeOK
  <1>5. /\ \A b \in rag : \E i \in 1 .. Len(found) : b.n = i /\ b.tokens = s.rows[found[i]]
        /\ \A i \in 1 .. Len(found) :
             \E b \in rag : b.n = i /\ b.tokens = s.rows[found[i]]
    <2> DEFINE tokens(i) == question.search.rows[Found(question.search)[i]]
               block(i) == [type |-> "rag", n |-> i, tokens |-> tokens(i), keep |-> FALSE]
    <2>1. rag = {block(i) : i \in 1 .. Len(found)}
      BY DEF RagBlocks
    <2> HIDE DEF tokens
    <2>2. \A i : block(i).n = i /\ block(i).tokens = tokens(i)
      OBVIOUS
    <2> HIDE DEF block, rag, found
    <2>3. /\ \A b \in rag : \E i \in 1 .. Len(found) : b.n = i /\ b.tokens = tokens(i)
          /\ \A i \in 1 .. Len(found) : \E b \in rag : b.n = i /\ b.tokens = tokens(i)
      BY <2>1, <2>2
    <2> QED  BY <2>3 DEF tokens, found
  <1>6. selected' \subseteq all
    <2>1. CASE rag = {}
      BY <1>1, <2>1 DEF EnrichPlan, PlanInv, PlanTypeOK
    <2>2. CASE rag # {}
      <3>1. PICK blocks \in SUBSET all : blocks = selected \cup rag
        BY DEF PlanInv, PlanTypeOK, AllBlocks
      <3>2. Plan(blocks)
        BY <1>1, <2>2, <3>1 DEF EnrichPlan
      <3> QED  BY <1>1, <3>2, PlanKeepsPinned DEF PlanInv
    <2> QED  BY <2>1, <2>2
  <1>7. ASSUME NEW c \in Proposed(s) \cap DOMAIN s.rows, NEW d \in Proposed(s),
               Sent(d), Score(s, c) > Score(s, d), ~Sent(c)
        PROVE  \/ s.rows[c] > s.rows[d]
               \/ c \notin s.hits /\ Score(s, c) < AloneFrom
    <2>1. PICK i \in 1 .. Len(found), b \in selected' :
            found[i] = d /\ b.type = "rag" /\ b.n = i
      BY <1>7
    <2>2. d \in Filtered(s)
      BY <1>2, <2>1
    <2>3. CASE c \notin Filtered(s)
      <3>1. Score(s, d) >= Threshold
        BY <2>2 DEF Filtered, Passing
      <3>2. c \in Passing(s)
        BY <1>3, <1>7, <3>1 DEF Passing, Threshold
      <3>3. ~(c \in s.hits \/ Score(s, c) >= AloneFrom)
        BY <2>3, <3>2 DEF Filtered
      <3> QED  BY <1>3, <3>3 DEF AloneFrom
    <2>4. CASE c \in Filtered(s)
      <3>1. PICK j \in 1 .. Len(found) : j < i /\ found[j] = c
        BY <1>2, <1>7, <2>1, <2>4
      <3>2. b \in rag /\ b.tokens = s.rows[d]
        <4>1. b \in rag
          BY <1>4, <1>6, <2>1
        <4> QED  BY <1>5, <2>1, <4>1
      <3>3. PICK a \in rag : a.n = j /\ a.tokens = s.rows[c]
        BY <1>5, <3>1
      <3>4. a \notin selected' /\ a.type = "rag"
        BY <1>4, <1>7, <3>1, <3>3
      <3>5. PICK blocks \in SUBSET all : blocks = selected \cup rag
        BY DEF PlanInv, PlanTypeOK, AllBlocks
      <3>6. Plan(blocks)
        BY <1>1, <3>2, <3>5 DEF EnrichPlan
      <3>7. EarlierComeFirst' /\ a \in given' /\ b \in given' /\ ~Pinned(a) /\ ~Pinned(b)
        <4>1. EarlierComeFirst'
          BY <3>6, PlanFits DEF PlanInv
        <4>2. a \in blocks /\ ~Covered(a) /\ b \in blocks /\ ~Covered(b)
          BY <2>1, <3>2, <3>4, <3>5 DEF Covered
        <4>3. a \in given' /\ b \in given'
          BY <3>6, <4>2 DEF Plan
        <4>4. ~Pinned(a) /\ ~Pinned(b)
          BY <1>4, <2>1, <3>2, <3>3, <3>4 DEF Pinned, Fixed
        <4> QED  BY <4>1, <4>3, <4>4
      <3>8. priority'[a] = BasePriority /\ priority'[b] = BasePriority
        <4>1. a \in all /\ b \in all
          BY <3>2, <3>3 DEF AllBlocks
        <4>2. priority[a] = BasePriority /\ priority[b] = BasePriority
          BY <2>1, <3>4, <4>1 DEF PlanInv, PriorityInv
        <4>3. \A x : x.type # "message" => x \notin Adjustable({y \in blocks : ~Covered(y)})
          BY DEF Adjustable
        <4>4. priority' = Lowered({y \in blocks : ~Covered(y)})
          BY <3>6 DEF Plan
        <4>5. a \in DOMAIN priority /\ b \in DOMAIN priority
          BY <4>1 DEF PlanInv, PlanTypeOK
        <4> QED  BY <2>1, <3>4, <4>2, <4>3, <4>4, <4>5 DEF Lowered
      <3>9. Before(priority', a, b)
        BY <2>1, <3>1, <3>3, <3>8 DEF Before
      <3>10. b.tokens < a.tokens
        BY <2>1, <3>4, <3>7, <3>9 DEF EarlierComeFirst
      <3>11. a.tokens \in Nat /\ b.tokens \in Nat
        <4>1. a \in Block /\ b \in Block
          BY <3>2, <3>3, BlocksKnown DEF AllBlocks, PlanInv, PlanTypeOK
        <4> QED  BY <4>1 DEF Block
      <3> QED  BY <3>2, <3>3, <3>10, <3>11
    <2> QED  BY <2>3, <2>4
  <1> HIDE DEF found
  <1> QED  BY <1>1, <1>7 DEF BestChunksFirst, found

-----------------------------------------------------------------------------
(* The invariant.                                                          *)

LEMMA PlanInitial == PlanInit => PlanInv
  <1> SUFFICES ASSUME PlanInit PROVE PlanInv
    OBVIOUS
  <1> USE DEF PlanInit
  <1>1. PlanTypeOK /\ MustKeepIsKept
    BY BasePriorityAssumption DEF PlanTypeOK, MustKeepIsKept, Stages
  <1>2. WithinBudget
    <2>1. {b \in selected : ~Pinned(b)} = {}
      OBVIOUS
    <2>2. \A c \in Flexible : Candidates(selected, c) = {}
      BY DEF Candidates
    <2>3. Tokens({}) = 0
      <3>1. {} \in SUBSET Block /\ IsFiniteSet({})
        BY FS_EmptySet
      <3> QED  BY <3>1, TokensOf
    <2>4. \A c \in Flexible : Cap(EmptyOf(given), c) \in Nat
      BY CapsAreNat
    <2> QED  BY <2>1, <2>2, <2>3, <2>4 DEF WithinBudget
  <1>3. NothingFitsAnymore /\ EarlierComeFirst /\ BestChunksFirst
    BY DEF NothingFitsAnymore, EarlierComeFirst, BestChunksFirst
  <1>4. OlderOnlyIfShorter
    BY DEF OlderOnlyIfShorter
  <1>5. PriorityInv
    <2>1. \A b \in Adjustable(AllBlocks(question)) : b \in AllBlocks(question)
      BY DEF Adjustable
    <2>2. Cardinality(Adjustable(AllBlocks(question))) \in Nat
      <3>1. /\ IsFiniteSet(AllBlocks(question))
            /\ \A b \in AllBlocks(question) : b.n \in Nat
        BY BlocksKnown DEF Block
      <3> QED  BY <3>1, PenaltyBounds
    <2> QED  BY <2>1, <2>2, BasePriorityAssumption DEF PriorityInv
  <1> QED  BY <1>1, <1>2, <1>3, <1>4, <1>5 DEF PlanInv

\* A plan that is made: all of the invariant but what the stage brings.
LEMMA PlanMade ==
  ASSUME PlanInv, NEW blocks \in SUBSET AllBlocks(question), Plan(blocks),
         question' = question, stage' \in Stages,
         plans > 0 => selected \subseteq blocks,
         \A b \in AllBlocks(question) :
           b.type = "message" => (b \in blocks <=> plans = 0 \/ b \in selected)
  PROVE  /\ PlanTypeOK' /\ plans' > 0
         /\ WithinBudget' /\ NothingFitsAnymore' /\ EarlierComeFirst'
         /\ PriorityInv' /\ OlderOnlyIfShorter'
         /\ {b \in blocks : b.keep \/ b.type = "prompt"} \subseteq selected'
  <1>1. PlanTypeOK /\ PriorityInv /\ OlderOnlyIfShorter
    BY DEF PlanInv
  <1>2. WithinBudget' /\ NothingFitsAnymore' /\ EarlierComeFirst'
    BY <1>1, PlanFits
  <1>3. PriorityInv' /\ OlderOnlyIfShorter'
    BY <1>1, PlanKeepsOrder
  <1>4. /\ priority' \in [AllBlocks(question) -> Nat]
        /\ given' \subseteq AllBlocks(question)
        /\ selected' \subseteq given'
        /\ plans' = plans + 1
        /\ {b \in blocks : b.keep \/ b.type = "prompt"} \subseteq selected'
    BY <1>1, PlanKeepsPinned
  <1>5. PlanTypeOK' /\ plans' > 0
    BY <1>1, <1>4 DEF PlanTypeOK
  <1> QED  BY <1>2, <1>3, <1>4, <1>5

\* A step that changes nothing but the stage, before the last.
LEMMA PlanKept ==
  ASSUME PlanInv, UNCHANGED <<question, priority, given, selected, plans>>
  PROVE  /\ WithinBudget' /\ NothingFitsAnymore' /\ EarlierComeFirst'
         /\ PriorityInv' /\ OlderOnlyIfShorter'
  <1>1. \A b : Covered(b)' <=> Covered(b)
    BY DEF Covered
  <1>2. WithinBudget' /\ NothingFitsAnymore' /\ EarlierComeFirst'
    BY DEF PlanInv, WithinBudget, NothingFitsAnymore, EarlierComeFirst
  <1>3. PriorityInv' /\ OlderOnlyIfShorter'
    BY <1>1 DEF PlanInv, PriorityInv, OlderOnlyIfShorter
  <1> QED  BY <1>2, <1>3

\* Blocks that are added to a plan.
LEMMA EnrichStep ==
  ASSUME PlanInv, NEW extra \in SUBSET AllBlocks(question), EnrichPlan(extra),
         \A b \in extra : b.type # "message",
         stage # "context", question' = question, stage' \in Stages
  PROVE  /\ PlanTypeOK' /\ plans' > 0
         /\ WithinBudget' /\ NothingFitsAnymore' /\ EarlierComeFirst'
         /\ PriorityInv' /\ OlderOnlyIfShorter'
         /\ {b \in selected \cup extra : b.keep \/ b.type = "prompt"} \subseteq selected'
  <1>1. PlanTypeOK /\ plans > 0
    BY DEF PlanInv
  <1>2. CASE extra = {}
    <2>1. UNCHANGED <<priority, given, selected, plans>>
      BY <1>2 DEF EnrichPlan
    <2>2. PlanTypeOK' /\ plans' > 0
      BY <1>1, <2>1 DEF PlanTypeOK
    <2> QED  BY <1>2, <2>1, <2>2, PlanKept
  <1>3. CASE extra # {}
    <2>1. PICK blocks \in SUBSET AllBlocks(question) : blocks = selected \cup extra
      BY <1>1 DEF PlanTypeOK
    <2>2. Plan(blocks)
      BY <1>3, <2>1 DEF EnrichPlan
    <2>3. plans # 0
      BY <1>1 DEF PlanTypeOK
    <2>4. \A b \in AllBlocks(question) :
            b.type = "message" => (b \in blocks <=> plans = 0 \/ b \in selected)
      BY <2>1, <2>3
    <2> QED  BY <2>1, <2>2, <2>4, PlanMade
  <1> QED  BY <1>2, <1>3

LEMMA PlanStep == PlanInv /\ [PlanNext]_planVars => PlanInv'
  <1> SUFFICES ASSUME PlanInv, [PlanNext]_planVars PROVE PlanInv'
    OBVIOUS
  <1>1. PlanTypeOK /\ MustKeepIsKept /\ question \in Questions
    BY DEF PlanInv, PlanTypeOK
  <1>2. /\ \A b \in question.prompt : b.type = "prompt"
        /\ \A b \in RagBlocks(question) : b.type = "rag"
        /\ \A b \in AllBlocks(question) : b.type = "message" => b \in question.blocks
    BY <1>1, BlocksKnown
  <1>3. CASE ContextStage
    <2>1. Plan(PlanBlocks(question)) /\ question' = question /\ stage' = "prompt"
      BY <1>3 DEF ContextStage
    <2>2. PICK blocks \in SUBSET AllBlocks(question) : blocks = PlanBlocks(question)
      BY DEF AllBlocks
    <2>3. plans = 0
      BY <1>1, <1>3 DEF PlanInv, PlanTypeOK, ContextStage
    <2>4. \A b \in AllBlocks(question) :
            b.type = "message" => (b \in blocks <=> plans = 0 \/ b \in selected)
      BY <1>2, <2>2, <2>3 DEF PlanBlocks
    <2>5. /\ PlanTypeOK' /\ plans' > 0
          /\ WithinBudget' /\ NothingFitsAnymore' /\ EarlierComeFirst'
          /\ PriorityInv' /\ OlderOnlyIfShorter'
          /\ {b \in blocks : b.keep \/ b.type = "prompt"} \subseteq selected'
      BY <2>1, <2>2, <2>3, <2>4, PlanMade DEF Stages
    <2>6. MustKeepIsKept'
      BY <2>1, <2>2, <2>5 DEF MustKeepIsKept, PlanBlocks
    <2>7. BestChunksFirst' /\ (stage # "context" <=> plans > 0)' /\ (plans = 0 => given = {})'
      BY <2>1, <2>5 DEF BestChunksFirst, PlanTypeOK
    <2> QED  BY <2>5, <2>6, <2>7 DEF PlanInv
  <1>4. CASE PromptStage
    <2>1. question' = question /\ stage = "prompt" /\ stage' = "rag"
          /\ EnrichPlan(question.prompt)
      BY <1>4 DEF PromptStage
    <2>2. /\ PlanTypeOK' /\ plans' > 0
          /\ WithinBudget' /\ NothingFitsAnymore' /\ EarlierComeFirst'
          /\ PriorityInv' /\ OlderOnlyIfShorter'
          /\ {b \in selected \cup question.prompt : b.keep \/ b.type = "prompt"} \subseteq selected'
      <3>1. PICK extra \in SUBSET AllBlocks(question) : extra = question.prompt
        BY DEF AllBlocks
      <3>2. \A b \in extra : b.type # "message"
        BY <1>2, <3>1
      <3>3. stage # "context" /\ stage' \in Stages /\ EnrichPlan(extra)
        BY <2>1, <3>1 DEF Stages
      <3> QED  BY <2>1, <3>1, <3>2, <3>3, EnrichStep
    <2>3. MustKeepIsKept'
      <3>1. plans > 0
        BY <2>1 DEF PlanInv
      <3> QED  BY <1>1, <1>2, <2>1, <2>2, <3>1 DEF MustKeepIsKept
    <2>4. BestChunksFirst' /\ (stage # "context" <=> plans > 0)' /\ (plans = 0 => given = {})'
      BY <2>1, <2>2 DEF BestChunksFirst, PlanTypeOK
    <2> QED  BY <2>2, <2>3, <2>4 DEF PlanInv
  <1>5. CASE RagStage
    <2>1. question' = question /\ stage = "rag" /\ stage' = "done"
          /\ EnrichPlan(RagBlocks(question))
      BY <1>5 DEF RagStage
    <2>2. /\ PlanTypeOK' /\ plans' > 0
          /\ WithinBudget' /\ NothingFitsAnymore' /\ EarlierComeFirst'
          /\ PriorityInv' /\ OlderOnlyIfShorter'
          /\ {b \in selected \cup RagBlocks(question) : b.keep \/ b.type = "prompt"} \subseteq selected'
      <3>1. PICK extra \in SUBSET AllBlocks(question) : extra = RagBlocks(question)
        BY DEF AllBlocks
      <3>2. \A b \in extra : b.type # "message"
        BY <1>2, <3>1
      <3>3. stage # "context" /\ stage' \in Stages /\ EnrichPlan(extra)
        BY <2>1, <3>1 DEF Stages
      <3> QED  BY <2>1, <3>1, <3>2, <3>3, EnrichStep
    <2>3. MustKeepIsKept'
      <3>1. plans > 0
        BY <2>1 DEF PlanInv
      <3> QED  BY <1>1, <1>2, <2>1, <2>2, <3>1 DEF MustKeepIsKept
    <2>4. BestChunksFirst'
      BY <1>5, RagKeepsBest
    <2>5. (stage # "context" <=> plans > 0)' /\ (plans = 0 => given = {})'
      BY <2>1, <2>2 DEF PlanTypeOK
    <2> QED  BY <2>2, <2>3, <2>4, <2>5 DEF PlanInv
  <1>6. CASE UNCHANGED planVars
    <2>1. UNCHANGED <<question, stage, priority, given, selected, plans>>
      BY <1>6 DEF planVars
    <2>2. /\ WithinBudget' /\ NothingFitsAnymore' /\ EarlierComeFirst'
          /\ PriorityInv' /\ OlderOnlyIfShorter'
      BY <2>1, PlanKept
    <2>3. PlanTypeOK' /\ MustKeepIsKept' /\ BestChunksFirst'
      BY <2>1 DEF PlanInv, PlanTypeOK, MustKeepIsKept, BestChunksFirst
    <2>4. (stage # "context" <=> plans > 0)' /\ (plans = 0 => given = {})'
      BY <2>1 DEF PlanInv
    <2> QED  BY <2>2, <2>3, <2>4 DEF PlanInv
  <1> QED  BY <1>3, <1>4, <1>5, <1>6 DEF PlanNext

LEMMA PlanAlways == PlanSpec => []PlanInv
  BY PlanInitial, PlanStep, PTL DEF PlanSpec

\* Every plan is made of blocks of the request, and priorities stay natural.
THEOREM PlanTypes == PlanSpec => []PlanTypeOK
  <1>1. PlanInv => PlanTypeOK
    BY DEF PlanInv
  <1> QED  BY <1>1, PlanAlways, PTL

\* The question, the isolation policy and the prompt are in every plan made from
\* when they are known, however little the budget leaves.
THEOREM MustKeepAlways == PlanSpec => []MustKeepIsKept
  <1>1. PlanInv => MustKeepIsKept
    BY DEF PlanInv
  <1> QED  BY <1>1, PlanAlways, PTL

\* For every question and every budget: what is selected fits into what is
\* available, unless the pinned blocks alone do not and nothing else is selected,
\* and no category takes more than its cap.
THEOREM BudgetHolds == PlanSpec => []WithinBudget
  <1>1. PlanInv => WithinBudget
    BY DEF PlanInv
  <1> QED  BY <1>1, PlanAlways, PTL

\* For every question and every budget: a block that a plan leaves out would not
\* have fitted beside what it has.
THEOREM BudgetIsUsed == PlanSpec => []NothingFitsAnymore
  <1>1. PlanInv => NothingFitsAnymore
    BY DEF PlanInv
  <1> QED  BY <1>1, PlanAlways, PTL

\* For every history for which the priorities reach: an older message is sent in
\* place of a newer one only where the newer one was longer, through all the plans
\* of a question.
THEOREM RecentComeFirst == PlanSpec => []OlderOnlyIfShorter
  <1>1. PlanInv => OlderOnlyIfShorter
    BY DEF PlanInv
  <1> QED  BY <1>1, PlanAlways, PTL

\* For every search, from its scores to the plan: a chunk is sent in place of one
\* with a higher score only where that one was too long, or has no word of the
\* question beside others that have.
THEOREM BestComeFirst == PlanSpec => []BestChunksFirst
  <1>1. PlanInv => BestChunksFirst
    BY DEF PlanInv
  <1> QED  BY <1>1, PlanAlways, PTL

-----------------------------------------------------------------------------
(* Recall.                                                                 *)

\* What is found by vectors is among the hits and may be read.
LEMMA ByVectorReads ==
  ASSUME NEW s, NEW A, s.hits \in Seq(A)
  PROVE  ByVector(s) \in Seq(A) /\ ToSet(ByVector(s)) \subseteq Readable(s)
  <1> DEFINE found == Filter(s.hits, Readable(s))
             first == Cut(found, MemoryLimit)
  <1>1. found \in Seq(A) /\ \A k \in 1 .. Len(found) : found[k] \in Readable(s)
    BY FilterKeeps
  <1>2. MemoryLimit \in Nat
    BY MemoryLimitAssumption
  <1> HIDE DEF found
  <1>3. /\ first \in Seq(A)
        /\ \A k \in 1 .. Len(first) : k \in 1 .. Len(found) /\ first[k] = found[k]
    BY <1>1, <1>2, CutKeeps
  <1>4. ByVector(s) = first
    BY DEF ByVector, FirstOf, found
  <1> HIDE DEF first
  <1> QED  BY <1>1, <1>3, <1>4 DEF ToSet

\* Memories are in one order.
LEMMA ImportanceOrders ==
  ASSUME NEW s, Worded(s) \in SUBSET Nat, \A i \in Worded(s) : s.rows[i].importance \in Nat
  PROVE  Orders(MoreImportant(s), Worded(s))
  <1> DEFINE S == Worded(s)
             value(i) == s.rows[i].importance
  <1>1. \A i, j \in S : <<i, j>> \in MoreImportant(s) <=>
          value(i) > value(j) \/ (value(i) = value(j) /\ i > j)
    BY DEF MoreImportant
  <1>2. \A i \in S : i \in Nat /\ value(i) \in Nat
    OBVIOUS
  <1> HIDE DEF S, value
  <1>3. Orders(MoreImportant(s), S)
    BY <1>1, <1>2 DEF Orders
  <1> QED  BY <1>3 DEF S

\* What is found by its words has them and may be read, and something is found
\* unless there is nothing.
LEMMA ByWordsReads ==
  ASSUME NEW s, Worded(s) \in SUBSET Nat, IsFiniteSet(Worded(s)),
         \A i \in Worded(s) : s.rows[i].importance \in Nat
  PROVE  /\ ByWords(s) \in Seq(Worded(s))
         /\ ByWords(s) = <<>> => Worded(s) = {}
  <1> DEFINE S == Worded(s)
             all == Ranked(S, MoreImportant(s))
             first == Cut(all, MemoryLimit)
             n == Cardinality(S)
  <1>1. n \in Nat /\ all \in [1 .. n -> S] /\ \A i \in S : \E k \in 1 .. n : all[k] = i
    BY ImportanceOrders, RankedSorts
  <1>2. MemoryLimit \in Nat \ {0}
    BY MemoryLimitAssumption
  <1>3. ByWords(s) = first
    BY DEF ByWords, FirstOf
  <1> HIDE DEF n, all
  <1>4. all \in Seq(S) /\ Len(all) = n
    BY <1>1
  <1>5. first \in Seq(S) /\ Len(first) = IF n < MemoryLimit THEN n ELSE MemoryLimit
    BY <1>2, <1>4, CutKeeps
  <1> HIDE DEF first
  <1>6. ASSUME first = <<>> PROVE S = {}
    <2>1. Len(first) = 0
      BY <1>6
    <2>2. n = 0
      BY <2>1, <1>1, <1>2, <1>5
    <2> QED  BY <2>2, <1>1
  <1> QED  BY <1>3, <1>5, <1>6

-----------------------------------------------------------------------------
(* Memories.                                                               *)

\* Who may read what, of the rows as they are.
LEMMA ReadableIs ==
  ASSUME NEW q
  PROVE  Readable(View(q)) =
           {i \in DOMAIN memory :
              /\ ~memory[i].forgotten /\ i \notin expired
              /\ q.scope \in {"any", memory[i].scope}
              /\ \/ q.user \in Admins \/ memory[i].scope = "GLOBAL"
                 \/ q.user = IF memory[i].scope = "CONVERSATION" THEN memory[i].source
                                                                 ELSE memory[i].owner}
  BY DEF Readable, View

\* Rows are added, and removed for good.
Grows ==
  /\ DOMAIN memory \subseteq DOMAIN memory'
  /\ \A i \in DOMAIN memory :
       /\ memory'[i].scope = memory[i].scope
       /\ memory'[i].owner = memory[i].owner
       /\ memory'[i].source \in {memory[i].source, Null}
       /\ memory[i].forgotten => memory'[i].forgotten
  /\ expired \subseteq expired'

\* What a request knows stays so.
LEMMA KnowsStays ==
  ASSUME Grows, NEW q, Knows(q)
  PROVE  Knows(q)'
  <1>1. ASSUME q.pc \in {"propose", "rows", "words"}
        PROVE  q.hidden \subseteq DOMAIN memory' \ Readable(View(q))'
    <2>1. q.user \in Users /\ q.hidden \subseteq DOMAIN memory \ Readable(View(q))
      BY <1>1 DEF Knows
    <2>2. q.user # Null
      BY <2>1, ContextMemoryAssumption
    <2>3. ASSUME NEW i \in DOMAIN memory, i \in Readable(View(q))'
          PROVE  i \in Readable(View(q))
      <3>1. /\ ~memory'[i].forgotten /\ i \notin expired'
            /\ q.scope \in {"any", memory'[i].scope}
            /\ \/ q.user \in Admins \/ memory'[i].scope = "GLOBAL"
               \/ q.user = IF memory'[i].scope = "CONVERSATION" THEN memory'[i].source
                                                                ELSE memory'[i].owner
        BY <2>3 DEF Readable, View
      <3>2. /\ memory'[i].scope = memory[i].scope
            /\ memory'[i].owner = memory[i].owner
            /\ memory'[i].source \in {memory[i].source, Null}
            /\ memory[i].forgotten => memory'[i].forgotten
            /\ expired \subseteq expired'
        BY DEF Grows
      <3> QED  BY <3>1, <3>2, <2>2, ReadableIs
    <2> QED  BY <2>1, <2>3 DEF Grows
  <1>2. q.pc = "delete" => memory'[q.id].forgotten
    BY DEF Knows, Grows
  <1> QED  BY <1>1, <1>2 DEF Knows, Grows

LEMMA IdleTyped == Idle \in Request
  BY DEF Idle, Request, Points

\* Ids are natural numbers, and so are those of the rows.
LEMMA RowIds ==
  ASSUME TypeOK
  PROVE  /\ Len(memory) \in Nat /\ DOMAIN memory = 1 .. Len(memory)
         /\ DOMAIN memory \subseteq Ids
         /\ Ids \subseteq Nat /\ IsFiniteSet(Ids)
  <1>1. MaxMemories \in Nat /\ Len(memory) \in Nat /\ Len(memory) <= MaxMemories
    BY ContextMemoryAssumption DEF TypeOK
  <1>2. IsFiniteSet(Ids)
    BY <1>1, FS_Interval DEF Ids
  <1> QED  BY <1>1, <1>2 DEF TypeOK, Ids

\* A step of one request that touches no store.
LEMMA RequestStep ==
  ASSUME MemoryInv, NEW r \in Requests, NEW q \in Request,
         request' = [request EXCEPT ![r] = q], Knows(q),
         request[r].pc # "delete", q.pc # "delete",
         UNCHANGED <<storeVars, indexing, history>>, faults' \in 0 .. MaxFaults
  PROVE  MemoryInv'
  <1>1. TypeOK'
    BY DEF MemoryInv, TypeOK, storeVars, history
  <1>2. Grows
    BY DEF Grows, storeVars
  <1>3. ASSUME NEW s \in Requests PROVE Knows(request[s])'
    <2>1. request'[s] = request[s] \/ request'[s] = q
      BY DEF MemoryInv, TypeOK
    <2>2. \A p : Knows(p) => Knows(p)'
      BY <1>2, KnowsStays
    <2>3. Knows(request[s])
      BY DEF MemoryInv
    <2>4. PICK p : p = request'[s]
      OBVIOUS
    <2>5. Knows(p)'
      BY <2>1, <2>2, <2>3, <2>4
    <2> QED  BY <2>4, <2>5 DEF Knows
  <1>4. Deleting' = Deleting
    <2>1. \A s \in Requests : request'[s].pc = "delete" <=> request[s].pc = "delete"
      BY DEF MemoryInv, TypeOK
    <2>2. \A s \in Requests : request[s].pc = "delete" => request'[s] = request[s]
      BY DEF MemoryInv, TypeOK
    <2> QED  BY <2>1, <2>2 DEF Deleting
  <1>5. ForgottenIsDealtWith' /\ LiveIsIndexed'
    BY <1>4 DEF MemoryInv, ForgottenIsDealtWith, LiveIsIndexed, storeVars, history
  <1> QED  BY <1>1, <1>3, <1>5 DEF MemoryInv

\* An ended request knows nothing.
LEMMA IdleKnows == Knows(Idle)
  BY DEF Knows, Idle

LEMMA CreateMemoryStep ==
  ASSUME MemoryInv, NEW r \in Requests, NEW u \in Users, NEW row \in NewRows,
         CreateMemory(r, u, row)
  PROVE  MemoryInv'
  <1>1. row \in Row /\ ~row.forgotten
    BY ContextMemoryAssumption
  <1>2. PICK q : /\ q = [Idle EXCEPT !.row = row,
                            !.pc = IF u \notin Admins /\ row.scope = "CONVERSATION"
                                   THEN "check" ELSE "create",
                            !.user = IF u \notin Admins /\ row.scope = "CONVERSATION"
                                     THEN u ELSE Null]
    OBVIOUS
  <1>3. request' = [request EXCEPT ![r] = q]
    BY <1>2 DEF CreateMemory
  <1>4. q \in Request /\ q.pc \in {"check", "create"} /\ q.row = row
    BY <1>1, <1>2, IdleTyped DEF Request, Idle, Points
  <1>5. Knows(q)
    BY <1>1, <1>4 DEF Knows
  <1>6. request[r].pc # "delete"
    BY DEF CreateMemory, Free
  <1>7. UNCHANGED <<storeVars, indexing, history>> /\ faults' \in 0 .. MaxFaults
    BY DEF CreateMemory, MemoryInv, TypeOK
  <1> QED  BY <1>3, <1>4, <1>5, <1>6, <1>7, RequestStep

LEMMA CheckedStep ==
  ASSUME MemoryInv, NEW r \in Requests, Checked(r)
  PROVE  MemoryInv'
  <1>1. PICK q : q = IF request[r].row.source \in open \cap {request[r].user}
                     THEN [request[r] EXCEPT !.pc = "create", !.user = Null]
                     ELSE Idle
    OBVIOUS
  <1>2. request[r] \in Request /\ Knows(request[r]) /\ request[r].pc = "check"
    BY DEF MemoryInv, TypeOK, Checked
  <1>3. request' = [request EXCEPT ![r] = q]
    BY <1>1 DEF Checked, Ends, MemoryInv, TypeOK
  <1>4. q \in Request /\ q.pc # "delete"
    BY <1>1, <1>2, IdleTyped DEF Request, Points, Idle
  <1>5. Knows(q)
    BY <1>1, <1>2, IdleKnows DEF Request, Knows
  <1>6. UNCHANGED <<storeVars, indexing, history>> /\ faults' \in 0 .. MaxFaults
    BY DEF Checked, MemoryInv, TypeOK
  <1> QED  BY <1>2, <1>3, <1>4, <1>5, <1>6, RequestStep

LEMMA ForgetMemoryStep ==
  ASSUME MemoryInv, NEW r \in Requests, NEW u \in Users, NEW i \in DOMAIN memory,
         ForgetMemory(r, u, i)
  PROVE  MemoryInv'
  <1>1. PICK q : q = [Idle EXCEPT !.pc = "update", !.id = i]
    OBVIOUS
  <1>2. request' = [request EXCEPT ![r] = q] /\ request[r].pc # "delete"
    BY <1>1 DEF ForgetMemory, Free
  <1>3. i \in Nat
    BY RowIds DEF MemoryInv
  <1>4. q \in Request /\ q.pc = "update" /\ q.id = i
    BY <1>1, <1>3, IdleTyped DEF Request, Points, Idle
  <1>5. Knows(q)
    BY <1>4 DEF Knows
  <1>6. UNCHANGED <<storeVars, indexing, history>> /\ faults' \in 0 .. MaxFaults
    BY DEF ForgetMemory, MemoryInv, TypeOK
  <1> QED  BY <1>2, <1>4, <1>5, <1>6, RequestStep

LEMMA SearchMemoriesStep ==
  ASSUME MemoryInv, NEW r \in Requests, NEW search \in Searches,
         SearchMemories(r, search)
  PROVE  MemoryInv'
  <1>1. /\ search.user \in Users /\ search.scope \in Scopes \cup {"any"}
        /\ search.asks \in BOOLEAN
    BY ContextMemoryAssumption
  <1>2. PICK p : p = [Idle EXCEPT !.pc = IF search.asks THEN "propose" ELSE "words",
                        !.user = search.user, !.scope = search.scope, !.asks = search.asks]
    OBVIOUS
  <1>3. PICK q : q = [p EXCEPT !.hidden = DOMAIN memory \ Readable(View(p))]
    OBVIOUS
  <1>4. request' = [request EXCEPT ![r] = q] /\ request[r].pc # "delete"
    BY <1>2, <1>3 DEF SearchMemories, Free
  <1>5. p \in Request /\ p.pc \in {"propose", "words"} /\ p.user = search.user
    BY <1>1, <1>2, IdleTyped DEF Request, Points, Idle
  <1>6. DOMAIN memory \subseteq Ids
    BY RowIds DEF MemoryInv
  <1>7. /\ q \in Request /\ q.pc = p.pc /\ q.user = p.user /\ q.scope = p.scope
        /\ q.hidden = DOMAIN memory \ Readable(View(p))
    BY <1>3, <1>5, <1>6 DEF Request
  <1>8. Readable(View(q)) = Readable(View(p))
    BY <1>7, ReadableIs
  <1>9. Knows(q)
    BY <1>1, <1>5, <1>7, <1>8 DEF Knows
  <1>10. UNCHANGED <<storeVars, indexing, history>> /\ faults' \in 0 .. MaxFaults
    BY DEF SearchMemories, MemoryInv, TypeOK
  <1> QED  BY <1>4, <1>5, <1>7, <1>9, <1>10, RequestStep

\* A search goes on with what it knows.
LEMMA SearchKnows ==
  ASSUME NEW q, Knows(q), q.pc \in {"propose", "rows"},
         NEW p, p.pc \in {"rows", "words"},
         p.user = q.user, p.scope = q.scope, p.hidden = q.hidden
  PROVE  Knows(p)
  <1>1. Readable(View(p)) = Readable(View(q))
    BY DEF Readable, View
  <1> QED  BY <1>1 DEF Knows

LEMMA ProposeStep ==
  ASSUME MemoryInv, NEW r \in Requests, Propose(r)
  PROVE  MemoryInv'
  <1>1. request[r] \in Request /\ Knows(request[r]) /\ request[r].pc = "propose"
    BY DEF MemoryInv, TypeOK, Propose
  <1>2. PICK nearest \in kSubset(Min({Proposals, Cardinality(vectors)}), vectors) :
          \E hits \in SetToSeqs(nearest) :
            request' = [request EXCEPT ![r].hits = hits,
                                       ![r].pc = IF hits = <<>> THEN "words" ELSE "rows"]
    BY DEF Propose
  <1>3. PICK hits \in SetToSeqs(nearest) :
            request' = [request EXCEPT ![r].hits = hits,
                                       ![r].pc = IF hits = <<>> THEN "words" ELSE "rows"]
    BY <1>2
  <1>4. nearest \subseteq Ids /\ IsFiniteSet(nearest) /\ Cardinality(nearest) \in Nat
    <2>1. nearest \subseteq vectors
      BY DEF kSubset
    <2>2. nearest \subseteq Ids /\ IsFiniteSet(Ids)
      BY <2>1, RowIds DEF MemoryInv, TypeOK
    <2> QED  BY <2>2, FS_Subset, FS_CardinalityType
  <1>5. hits \in Seq(Ids)
    <2>1. hits \in [1 .. Cardinality(nearest) -> nearest]
      BY <1>3 DEF SetToSeqs
    <2>2. hits \in [1 .. Cardinality(nearest) -> Ids]
      BY <2>1, <1>4
    <2> QED  BY <2>2, <1>4
  <1>6. PICK q : q = [request[r] EXCEPT !.hits = hits,
                        !.pc = IF hits = <<>> THEN "words" ELSE "rows"]
    OBVIOUS
  <1>7. request' = [request EXCEPT ![r] = q]
    BY <1>3, <1>6 DEF MemoryInv, TypeOK
  <1>8. /\ q \in Request /\ q.pc \in {"rows", "words"}
        /\ q.user = request[r].user /\ q.scope = request[r].scope
        /\ q.hidden = request[r].hidden
    BY <1>1, <1>5, <1>6 DEF Request, Points
  <1>9. Knows(q)
    BY <1>1, <1>8, SearchKnows
  <1>10. UNCHANGED <<storeVars, indexing, history>> /\ faults' \in 0 .. MaxFaults
    BY DEF Propose, MemoryInv, TypeOK
  <1> QED  BY <1>1, <1>7, <1>8, <1>9, <1>10, RequestStep

\* What a search finds are ids of memories the user may read now.
LEMMA FoundByVector ==
  ASSUME TypeOK, NEW q \in Request
  PROVE  ByVector(View(q)) \in Seq(Ids) /\ ToSet(ByVector(View(q))) \subseteq Readable(View(q))
  <1>1. PICK s : s = View(q)
    OBVIOUS
  <1>2. s.hits \in Seq(Ids)
    BY <1>1 DEF View, Request
  <1>3. ByVector(s) \in Seq(Ids) /\ ToSet(ByVector(s)) \subseteq Readable(s)
    BY <1>2, ByVectorReads
  <1> QED  BY <1>1, <1>3

LEMMA FoundByWords ==
  ASSUME TypeOK, NEW q \in Request
  PROVE  /\ ByWords(View(q)) \in Seq(Ids) /\ ToSet(ByWords(View(q))) \subseteq Readable(View(q))
         /\ ByWords(View(q)) = <<>> => Worded(View(q)) = {}
  <1>1. PICK s : s = View(q)
    OBVIOUS
  <1>2. Worded(s) \subseteq Readable(s)
    BY DEF Worded
  <1>3. Readable(s) \subseteq DOMAIN memory
    BY <1>1, ReadableIs
  <1>4. Worded(s) \subseteq Ids /\ Worded(s) \in SUBSET Nat /\ IsFiniteSet(Worded(s))
    BY <1>2, <1>3, RowIds, FS_Subset
  <1>5. \A i \in Worded(s) : s.rows[i].importance \in Nat
    <2>1. \A i \in DOMAIN memory : View(q).rows[i].importance = 0
      BY DEF View
    <2> QED  BY <1>1, <1>2, <1>3, <2>1
  <1>6. ByWords(s) \in Seq(Worded(s)) /\ (ByWords(s) = <<>> => Worded(s) = {})
    BY <1>4, <1>5, ByWordsReads
  <1>7. PICK found \in Seq(Worded(s)) : found = ByWords(s)
    BY <1>6
  <1>8. found \in Seq(Ids) /\ ToSet(found) \subseteq Readable(s)
    BY <1>2, <1>4 DEF ToSet
  <1> QED  BY <1>1, <1>6, <1>7, <1>8

\* The request that has its answer.
LEMMA AnswerKnows ==
  ASSUME NEW ids \in Seq(Ids)
  PROVE  LET q == [Idle EXCEPT !.pc = "answered", !.result = ids]
         IN  q \in Request /\ Knows(q) /\ q.pc = "answered" /\ q.result = ids
  BY IdleTyped DEF Idle, Request, Points, Knows

LEMMA ReadRowsStep ==
  ASSUME MemoryInv, NEW r \in Requests, ReadRows(r)
  PROVE  MemoryInv'
  <1>1. request[r] \in Request /\ Knows(request[r]) /\ request[r].pc = "rows" /\ TypeOK
    BY DEF MemoryInv, TypeOK, ReadRows
  <1>2. PICK found \in Seq(Ids) : found = ByVector(View(request[r]))
    BY <1>1, FoundByVector
  <1>3. UNCHANGED <<storeVars, indexing, history>> /\ faults' \in 0 .. MaxFaults
    BY DEF ReadRows, MemoryInv, TypeOK
  <1>4. CASE found # <<>>
    <2>1. PICK q : q = [Idle EXCEPT !.pc = "answered", !.result = found]
      OBVIOUS
    <2>2. request' = [request EXCEPT ![r] = q]
      BY <1>2, <1>4, <2>1 DEF ReadRows, Answer
    <2> QED  BY <1>1, <1>3, <2>1, <2>2, AnswerKnows, RequestStep
  <1>5. CASE found = <<>>
    <2>1. PICK q : q = [request[r] EXCEPT !.pc = "words"]
      OBVIOUS
    <2>2. request' = [request EXCEPT ![r] = q]
      BY <1>2, <1>5, <2>1 DEF ReadRows, GoesOn, MemoryInv, TypeOK
    <2>3. /\ q \in Request /\ q.pc = "words" /\ q.user = request[r].user
          /\ q.scope = request[r].scope /\ q.hidden = request[r].hidden
      BY <1>1, <2>1 DEF Request, Points
    <2>4. Knows(q)
      BY <1>1, <2>3, SearchKnows
    <2> QED  BY <1>1, <1>3, <2>2, <2>3, <2>4, RequestStep
  <1> QED  BY <1>4, <1>5

LEMMA ReadWordsStep ==
  ASSUME MemoryInv, NEW r \in Requests, ReadWords(r)
  PROVE  MemoryInv'
  <1>1. request[r] \in Request /\ request[r].pc = "words" /\ TypeOK
    BY DEF MemoryInv, TypeOK, ReadWords
  <1>2. PICK found \in Seq(Ids) : found = ByWords(View(request[r]))
    BY <1>1, FoundByWords
  <1>3. PICK q : q = [Idle EXCEPT !.pc = "answered", !.result = found]
    OBVIOUS
  <1>4. request' = [request EXCEPT ![r] = q]
    BY <1>2, <1>3 DEF ReadWords, Answer
  <1>5. UNCHANGED <<storeVars, indexing, history>> /\ faults' \in 0 .. MaxFaults
    BY DEF ReadWords, MemoryInv, TypeOK
  <1> QED  BY <1>1, <1>3, <1>4, <1>5, AnswerKnows, RequestStep

LEMMA FaultTyped ==
  ASSUME TypeOK, Fault
  PROVE  faults' \in 0 .. MaxFaults
  <1>1. MaxFaults \in Nat
    BY ContextMemoryAssumption
  <1> QED  BY <1>1 DEF Fault, TypeOK

LEMMA SearchFailsStep ==
  ASSUME MemoryInv, NEW r \in Requests, SearchFails(r)
  PROVE  MemoryInv'
  <1>1. /\ request[r] \in Request /\ Knows(request[r])
        /\ request[r].pc \in {"propose", "rows"} /\ TypeOK
    BY DEF MemoryInv, TypeOK, SearchFails
  <1>2. PICK q : q = [request[r] EXCEPT !.pc = "words"]
    OBVIOUS
  <1>3. request' = [request EXCEPT ![r] = q]
    BY <1>2 DEF SearchFails, GoesOn, MemoryInv, TypeOK
  <1>4. /\ q \in Request /\ q.pc = "words" /\ q.user = request[r].user
        /\ q.scope = request[r].scope /\ q.hidden = request[r].hidden
    BY <1>1, <1>2 DEF Request, Points
  <1>5. Knows(q)
    BY <1>1, <1>4, SearchKnows
  <1>6. UNCHANGED <<storeVars, indexing, history>> /\ faults' \in 0 .. MaxFaults
    BY <1>1, FaultTyped DEF SearchFails
  <1> QED  BY <1>1, <1>3, <1>4, <1>5, <1>6, RequestStep

\* What the other requests know stays so, whatever becomes of one of them.
LEMMA OthersKnow ==
  ASSUME MemoryInv, Grows, NEW r \in Requests, NEW q \in Request,
         request' = [request EXCEPT ![r] = q], Knows(q)'
  PROVE  /\ request' \in [Requests -> Request]
         /\ \A s \in Requests : Knows(request[s])'
  <1>1. request' \in [Requests -> Request]
    BY DEF MemoryInv, TypeOK
  <1>2. ASSUME NEW s \in Requests PROVE Knows(request[s])'
    <2>1. request'[s] = request[s] \/ request'[s] = q
      BY DEF MemoryInv, TypeOK
    <2>2. \A p : Knows(p) => Knows(p)'
      BY KnowsStays
    <2>3. Knows(request[s])
      BY DEF MemoryInv
    <2>4. PICK p : p = request'[s]
      OBVIOUS
    <2>5. Knows(p)'
      BY <2>1, <2>2, <2>3, <2>4
    <2> QED  BY <2>4, <2>5 DEF Knows
  <1> QED  BY <1>1, <1>2

LEMMA CreateRowStep ==
  ASSUME MemoryInv, NEW r \in Requests, CreateRow(r)
  PROVE  MemoryInv'
  <1>1. /\ request[r] \in Request /\ Knows(request[r])
        /\ request[r].pc = "create" /\ TypeOK
        /\ UNCHANGED <<expired, vectors, open, history, faults>>
        /\ request' = [request EXCEPT ![r] = Idle]
    BY DEF MemoryInv, TypeOK, CreateRow, Ends
  <1>2. PICK row : row = request[r].row
    OBVIOUS
  <1>3. row \in Row /\ ~row.forgotten
    BY <1>1, <1>2 DEF Knows
  <1>4. PICK n \in Nat : n = Len(memory)
    BY RowIds DEF MemoryInv
  <1>5. DOMAIN memory = 1 .. n /\ n < MaxMemories /\ MaxMemories \in Nat
    BY <1>1, <1>4, RowIds, ContextMemoryAssumption DEF CreateRow
  <1>6. \/ memory' = Append(memory, row) /\ indexing' = indexing \cup {n + 1}
        \/ UNCHANGED <<memory, indexing>>
    BY <1>2, <1>4 DEF CreateRow
  <1>7. CASE memory' = Append(memory, row) /\ indexing' = indexing \cup {n + 1}
    <2>1. /\ memory' \in Seq(Row) /\ Len(memory') = n + 1
          /\ DOMAIN memory' = 1 .. n + 1
          /\ memory'[n + 1] = row
          /\ \A i \in 1 .. n : memory'[i] = memory[i]
      BY <1>1, <1>3, <1>4, <1>7 DEF TypeOK
    <2>2. Grows
      BY <1>1, <1>5, <2>1 DEF Grows
    <2>3. Knows(Idle)'
      BY DEF Knows, Idle
    <2>4. request' \in [Requests -> Request] /\ \A s \in Requests : Knows(request[s])'
      BY <1>1, <2>2, <2>3, IdleTyped, OthersKnow
    <2>5. TypeOK'
      BY <1>1, <1>4, <1>5, <1>7, <2>1, <2>4 DEF TypeOK, history
    <2>6. Deleting' = Deleting
      <3>1. \A s \in Requests : request'[s].pc = "delete" <=> request[s].pc = "delete"
        BY <1>1 DEF TypeOK, Idle
      <3>2. \A s \in Requests : request[s].pc = "delete" => request'[s] = request[s]
        BY <1>1 DEF TypeOK
      <3> QED  BY <3>1, <3>2 DEF Deleting
    <2>7. ForgottenIsDealtWith'
      BY <1>1, <1>3, <1>5, <1>7, <2>1, <2>6
         DEF MemoryInv, ForgottenIsDealtWith, history
    <2>8. LiveIsIndexed'
      BY <1>1, <1>5, <1>7, <2>1 DEF MemoryInv, LiveIsIndexed, history
    <2> QED  BY <2>4, <2>5, <2>7, <2>8 DEF MemoryInv
  <1>8. CASE UNCHANGED <<memory, indexing>>
    <2>1. Knows(Idle) /\ Idle.pc # "delete" /\ faults' \in 0 .. MaxFaults
      BY <1>1, IdleKnows DEF Idle, TypeOK
    <2> QED  BY <1>1, <1>8, <2>1, IdleTyped, RequestStep DEF storeVars, history
  <1> QED  BY <1>6, <1>7, <1>8

LEMMA ForgottenStep ==
  ASSUME MemoryInv, NEW r \in Requests, Forgotten(r)
  PROVE  MemoryInv'
  <1>1. /\ request[r] \in Request /\ Knows(request[r]) /\ request[r].pc = "update"
        /\ TypeOK /\ UNCHANGED <<expired, vectors, indexing, open, history, faults>>
    BY DEF MemoryInv, TypeOK, Forgotten
  <1>2. PICK i \in DOMAIN memory : i = request[r].id
    BY <1>1 DEF Knows
  <1>3. memory' = [memory EXCEPT ![i].forgotten = TRUE]
    BY <1>2 DEF Forgotten
  <1>4. PICK q : q = [request[r] EXCEPT !.pc = "delete"]
    OBVIOUS
  <1>5. request' = [request EXCEPT ![r] = q]
    BY <1>4 DEF Forgotten, GoesOn, MemoryInv, TypeOK
  <1>6. q \in Request /\ q.pc = "delete" /\ q.id = i
    BY <1>1, <1>2, <1>4 DEF Request, Points
  <1>7. /\ memory' \in Seq(Row) /\ Len(memory') = Len(memory) /\ DOMAIN memory' = DOMAIN memory
        /\ memory'[i] = [memory[i] EXCEPT !.forgotten = TRUE]
        /\ \A j \in DOMAIN memory : j # i => memory'[j] = memory[j]
        /\ memory[i] \in Row
    <2>1. PICK row \in Row : row = [memory[i] EXCEPT !.forgotten = TRUE]
      <3>1. memory[i] \in Row
        BY <1>1, <1>2 DEF TypeOK
      <3> QED  BY <3>1 DEF Row
    <2>2. memory' = [memory EXCEPT ![i] = row]
      BY <1>3, <2>1
    <2> QED  BY <1>1, <1>2, <2>1, <2>2 DEF TypeOK
  <1>8. memory'[i].forgotten /\ \A j \in DOMAIN memory :
          /\ memory'[j].scope = memory[j].scope /\ memory'[j].owner = memory[j].owner
          /\ memory'[j].source = memory[j].source
          /\ memory[j].forgotten => memory'[j].forgotten
          /\ j # i => memory'[j].forgotten = memory[j].forgotten
    BY <1>7 DEF Row
  <1>9. Grows
    BY <1>1, <1>7, <1>8 DEF Grows
  <1>10. Knows(q)'
    BY <1>2, <1>6, <1>7, <1>8 DEF Knows
  <1>11. request' \in [Requests -> Request] /\ \A s \in Requests : Knows(request[s])'
    BY <1>5, <1>6, <1>9, <1>10, OthersKnow
  <1>12. TypeOK'
    BY <1>1, <1>7, <1>11 DEF TypeOK, history
  <1>13. Deleting \cup {i} \subseteq Deleting'
    <2>1. request'[r] = q /\ \A s \in Requests : s # r => request'[s] = request[s]
      BY <1>1, <1>5 DEF TypeOK
    <2> QED  BY <1>1, <1>6, <2>1 DEF Deleting
  <1>14. ForgottenIsDealtWith'
    BY <1>1, <1>7, <1>8, <1>13 DEF MemoryInv, ForgottenIsDealtWith, history
  <1>15. LiveIsIndexed'
    BY <1>1, <1>7, <1>8 DEF MemoryInv, LiveIsIndexed, history
  <1> QED  BY <1>11, <1>12, <1>14, <1>15 DEF MemoryInv

\* An end of a request that knew what to delete, or not.
LEMMA EndLeaves ==
  ASSUME MemoryInv, UNCHANGED <<memory, expired>>, NEW r \in Requests,
         request' = [request EXCEPT ![r] = Idle]
  PROVE  /\ request' \in [Requests -> Request]
         /\ \A s \in Requests : Knows(request[s])'
         /\ Deleting \ {request[r].id} \subseteq Deleting'
         /\ request[r].pc # "delete" => Deleting' = Deleting
  <1>1. Grows
    BY DEF Grows
  <1>2. Knows(Idle)'
    BY DEF Knows, Idle
  <1>3. request' \in [Requests -> Request] /\ \A s \in Requests : Knows(request[s])'
    BY <1>1, <1>2, IdleTyped, OthersKnow
  <1>4. request'[r] = Idle /\ \A s \in Requests : s # r => request'[s] = request[s]
    BY DEF MemoryInv, TypeOK
  <1>5. Idle.pc # "delete"
    BY DEF Idle
  <1> QED  BY <1>3, <1>4, <1>5 DEF Deleting

LEMMA DeleteMemoryStep ==
  ASSUME MemoryInv, NEW r \in Requests, DeleteMemory(r)
  PROVE  MemoryInv'
  <1>1. PICK i : i = request[r].id
    OBVIOUS
  <1>2. /\ request[r].pc = "delete" /\ vectors' = vectors \ {i}
        /\ beside' = IF i \in indexing THEN beside \cup {i} ELSE beside \ {i}
        /\ lost' = lost \ {i}
        /\ request' = [request EXCEPT ![r] = Idle]
        /\ UNCHANGED <<memory, expired, indexing, open, faults>>
    BY <1>1 DEF DeleteMemory, Ends
  <1>3. i \in DOMAIN memory /\ memory[i].forgotten
    BY <1>1, <1>2 DEF MemoryInv, Knows
  <1>4. /\ request' \in [Requests -> Request]
        /\ \A s \in Requests : Knows(request[s])'
        /\ Deleting \ {i} \subseteq Deleting'
    BY <1>1, <1>2, EndLeaves
  <1>5. TypeOK'
    BY <1>2, <1>3, <1>4 DEF MemoryInv, TypeOK
  <1>6. ForgottenIsDealtWith'
    BY <1>2, <1>3, <1>4 DEF MemoryInv, ForgottenIsDealtWith
  <1>7. LiveIsIndexed'
    BY <1>2, <1>3 DEF MemoryInv, LiveIsIndexed
  <1> QED  BY <1>4, <1>5, <1>6, <1>7 DEF MemoryInv

LEMMA RequestFailsStep ==
  ASSUME MemoryInv, NEW r \in Requests, RequestFails(r)
  PROVE  MemoryInv'
  <1>1. /\ lost' = IF request[r].pc = "delete" THEN lost \cup {request[r].id} ELSE lost
        /\ request' = [request EXCEPT ![r] = Idle] /\ Fault
        /\ UNCHANGED <<storeVars, indexing, beside>>
    BY DEF RequestFails, Ends
  <1>2. /\ request' \in [Requests -> Request]
        /\ \A s \in Requests : Knows(request[s])'
        /\ Deleting \ {request[r].id} \subseteq Deleting'
        /\ request[r].pc # "delete" => Deleting' = Deleting
    BY <1>1, EndLeaves DEF storeVars
  <1>3. request[r].pc = "delete" => request[r].id \in DOMAIN memory
    BY DEF MemoryInv, Knows
  <1>4. TypeOK'
    BY <1>1, <1>2, <1>3, FaultTyped DEF MemoryInv, TypeOK, storeVars
  <1>5. ForgottenIsDealtWith'
    BY <1>1, <1>2 DEF MemoryInv, ForgottenIsDealtWith, storeVars
  <1>6. LiveIsIndexed'
    BY <1>1 DEF MemoryInv, LiveIsIndexed, storeVars
  <1> QED  BY <1>2, <1>4, <1>5, <1>6 DEF MemoryInv

\* A step of no request.
LEMMA NoRequestStep ==
  ASSUME MemoryInv, Grows, UNCHANGED request
  PROVE  /\ \A s \in Requests : Knows(request[s])'
         /\ Deleting' = Deleting
  <1>1. ASSUME NEW s \in Requests PROVE Knows(request[s])'
    <2>1. PICK p : p = request[s]
      OBVIOUS
    <2>2. Knows(p)'
      BY <2>1, KnowsStays DEF MemoryInv
    <2> QED  BY <2>1, <2>2 DEF Knows
  <1> QED  BY <1>1 DEF Deleting

LEMMA UpsertMemoryStep ==
  ASSUME MemoryInv, NEW i \in Ids, UpsertMemory(i)
  PROVE  MemoryInv'
  <1>1. /\ i \in indexing /\ indexing' = indexing \ {i} /\ vectors' = vectors \cup {i}
        /\ UNCHANGED <<memory, expired, request, open, history, faults>>
    BY DEF UpsertMemory
  <1>2. Grows
    BY <1>1 DEF Grows
  <1>3. TypeOK'
    BY <1>1 DEF MemoryInv, TypeOK, history
  <1>4. (\A s \in Requests : Knows(request[s])') /\ Deleting' = Deleting
    BY <1>1, <1>2, NoRequestStep
  <1>5. ForgottenIsDealtWith' /\ LiveIsIndexed'
    BY <1>1, <1>4 DEF MemoryInv, ForgottenIsDealtWith, LiveIsIndexed, history
  <1> QED  BY <1>3, <1>4, <1>5 DEF MemoryInv

LEMMA IndexFailsStep ==
  ASSUME MemoryInv, NEW i \in Ids, IndexFails(i)
  PROVE  MemoryInv'
  <1>1. /\ i \in indexing /\ indexing' = indexing \ {i} /\ lost' = lost \cup {i} /\ Fault
        /\ UNCHANGED <<storeVars, request, beside>>
    BY DEF IndexFails
  <1>2. Grows
    BY <1>1 DEF Grows, storeVars
  <1>3. TypeOK'
    BY <1>1, FaultTyped DEF MemoryInv, TypeOK, storeVars
  <1>4. (\A s \in Requests : Knows(request[s])') /\ Deleting' = Deleting
    BY <1>1, <1>2, NoRequestStep
  <1>5. ForgottenIsDealtWith' /\ LiveIsIndexed'
    BY <1>1, <1>4 DEF MemoryInv, ForgottenIsDealtWith, LiveIsIndexed, storeVars
  <1> QED  BY <1>3, <1>4, <1>5 DEF MemoryInv

LEMMA ExpireStep ==
  ASSUME MemoryInv, NEW i \in Ids, Expire(i)
  PROVE  MemoryInv'
  <1>1. /\ i \in DOMAIN memory /\ expired' = expired \cup {i}
        /\ UNCHANGED <<memory, vectors, indexing, request, open, history, faults>>
    BY DEF Expire
  <1>2. Grows
    BY <1>1 DEF Grows
  <1>3. TypeOK'
    BY <1>1 DEF MemoryInv, TypeOK, history
  <1>4. (\A s \in Requests : Knows(request[s])') /\ Deleting' = Deleting
    BY <1>1, <1>2, NoRequestStep
  <1>5. ForgottenIsDealtWith' /\ LiveIsIndexed'
    BY <1>1, <1>4 DEF MemoryInv, ForgottenIsDealtWith, LiveIsIndexed, history
  <1> QED  BY <1>3, <1>4, <1>5 DEF MemoryInv

LEMMA RemoveConversationStep ==
  ASSUME MemoryInv, NEW u \in Owners, RemoveConversation(u)
  PROVE  MemoryInv'
  <1>1. /\ open' = open \ {u}
        /\ memory' = [i \in DOMAIN memory |->
             [memory[i] EXCEPT !.source = IF @ = u THEN Null ELSE @]]
        /\ UNCHANGED <<expired, vectors, indexing, request, history, faults>>
        /\ TypeOK
    BY DEF RemoveConversation, MemoryInv
  <1>2. DOMAIN memory = 1 .. Len(memory) /\ Len(memory) \in Nat
    BY <1>1, RowIds
  <1>3. ASSUME NEW i \in DOMAIN memory
        PROVE  /\ memory'[i] \in Row
               /\ memory'[i].scope = memory[i].scope /\ memory'[i].owner = memory[i].owner
               /\ memory'[i].source \in {memory[i].source, Null}
               /\ memory'[i].forgotten = memory[i].forgotten
    <2>1. memory[i] \in Row
      BY <1>1 DEF TypeOK
    <2>2. memory'[i] = [memory[i] EXCEPT !.source = IF memory[i].source = u THEN Null
                                                    ELSE memory[i].source]
      BY <1>1
    <2> QED  BY <2>1, <2>2 DEF Row
  <1>4. memory' \in Seq(Row) /\ Len(memory') = Len(memory) /\ DOMAIN memory' = DOMAIN memory
    <2>1. DOMAIN memory' = DOMAIN memory
      BY <1>1
    <2>2. memory' = [i \in 1 .. Len(memory) |-> memory'[i]]
      BY <1>1, <1>2
    <2>3. PICK rows : rows = memory'
      OBVIOUS
    <2>4. rows \in [1 .. Len(memory) -> Row]
      BY <1>2, <1>3, <2>2, <2>3
    <2>5. rows \in Seq(Row) /\ Len(rows) = Len(memory)
      BY <1>2, <2>4
    <2> QED  BY <2>1, <2>3, <2>5
  <1>5. Grows
    BY <1>1, <1>3, <1>4 DEF Grows
  <1>6. TypeOK'
    BY <1>1, <1>4 DEF TypeOK, history
  <1>7. (\A s \in Requests : Knows(request[s])') /\ Deleting' = Deleting
    BY <1>1, <1>5, NoRequestStep
  <1>8. ForgottenIsDealtWith' /\ LiveIsIndexed'
    BY <1>1, <1>3, <1>4, <1>7 DEF MemoryInv, ForgottenIsDealtWith, LiveIsIndexed, history
  <1> QED  BY <1>6, <1>7, <1>8 DEF MemoryInv

LEMMA CrashStep ==
  ASSUME MemoryInv, Crash
  PROVE  MemoryInv'
  <1>1. /\ Fault /\ lost' = lost \cup indexing \cup Deleting /\ indexing' = {}
        /\ request' = [r \in Requests |-> Idle]
        /\ UNCHANGED <<storeVars, beside>>
    BY DEF Crash, Deleting
  <1>2. \A s \in Requests : request[s].pc = "delete" => request[s].id \in DOMAIN memory
    BY DEF MemoryInv, Knows
  <1>3. Deleting \subseteq DOMAIN memory
    BY <1>2 DEF Deleting
  <1>4. TypeOK'
    BY <1>1, <1>3, FaultTyped, IdleTyped DEF MemoryInv, TypeOK, storeVars
  <1>5. \A s \in Requests : Knows(request[s])'
    BY <1>1 DEF Knows, Idle
  <1>6. ForgottenIsDealtWith' /\ LiveIsIndexed'
    BY <1>1 DEF MemoryInv, ForgottenIsDealtWith, LiveIsIndexed, storeVars
  <1> QED  BY <1>4, <1>5, <1>6 DEF MemoryInv

LEMMA MemoryInit == Init => MemoryInv
  <1> SUFFICES ASSUME Init PROVE MemoryInv
    OBVIOUS
  <1>1. MaxMemories \in Nat /\ MaxFaults \in Nat
    BY ContextMemoryAssumption
  <1>2. memory \in Seq(Row) /\ Len(memory) = 0 /\ DOMAIN memory = {}
    BY DEF Init
  <1>3. TypeOK
    BY <1>1, <1>2, IdleTyped DEF Init, TypeOK
  <1>4. \A r \in Requests : Knows(request[r])
    BY IdleKnows DEF Init
  <1> QED  BY <1>2, <1>3, <1>4 DEF MemoryInv, ForgottenIsDealtWith, LiveIsIndexed

LEMMA MemoryStep == MemoryInv /\ [Next]_vars => MemoryInv'
  <1> SUFFICES ASSUME MemoryInv, [Next]_vars PROVE MemoryInv'
    OBVIOUS
  <1>1. ASSUME NEW r \in Requests, Step(r) PROVE MemoryInv'
    BY <1>1, CheckedStep, CreateRowStep, ForgottenStep, DeleteMemoryStep, ProposeStep,
       ReadRowsStep, ReadWordsStep, SearchFailsStep, RequestFailsStep DEF Step
  <1>2. ASSUME NEW r \in Requests, NEW search \in Searches, SearchMemories(r, search)
        PROVE  MemoryInv'
    BY <1>2, SearchMemoriesStep
  <1>3. ASSUME NEW r \in Requests, NEW u \in Users, NEW row \in NewRows,
               CreateMemory(r, u, row)
        PROVE  MemoryInv'
    BY <1>3, CreateMemoryStep
  <1>4. ASSUME NEW r \in Requests, NEW u \in Users, NEW i \in DOMAIN memory,
               ForgetMemory(r, u, i)
        PROVE  MemoryInv'
    BY <1>4, ForgetMemoryStep
  <1>5. ASSUME NEW i \in Ids, UpsertMemory(i) \/ IndexFails(i) \/ Expire(i)
        PROVE  MemoryInv'
    BY <1>5, UpsertMemoryStep, IndexFailsStep, ExpireStep
  <1>6. ASSUME NEW u \in Owners, RemoveConversation(u) PROVE MemoryInv'
    BY <1>6, RemoveConversationStep
  <1>7. CASE Crash
    BY <1>7, CrashStep
  <1>8. CASE UNCHANGED vars
    <2>1. UNCHANGED <<memory, expired, vectors, indexing, request, open, beside, lost, faults>>
      BY <1>8 DEF vars, history
    <2>2. Grows
      BY <2>1 DEF Grows
    <2>3. (\A s \in Requests : Knows(request[s])') /\ Deleting' = Deleting
      BY <2>1, <2>2, NoRequestStep
    <2> QED  BY <2>1, <2>3 DEF MemoryInv, TypeOK, ForgottenIsDealtWith, LiveIsIndexed
  <1> QED  BY <1>1, <1>2, <1>3, <1>4, <1>5, <1>6, <1>7, <1>8 DEF Next

LEMMA MemoryAlways == Spec => []MemoryInv
  BY MemoryInit, MemoryStep, PTL DEF Spec

\* Rows, vectors and requests are what they should be.
THEOREM MemoryTypes == Spec => []TypeOK
  <1>1. MemoryInv => TypeOK  BY DEF MemoryInv
  <1> QED  BY MemoryAlways, <1>1, PTL

\* The vector of a forgotten memory goes with its deletion.
THEOREM ForgottenLeavesSearches == Spec => []ForgottenIsUnindexed
  <1>1. MemoryInv => ForgottenIsUnindexed
    BY DEF MemoryInv, ForgottenIsDealtWith, ForgottenIsUnindexed
  <1> QED  BY MemoryAlways, <1>1, PTL

\* A memory nobody has forgotten keeps its vector.
THEOREM LiveStaysIndexed == Spec => []LiveIsIndexed
  <1>1. MemoryInv => LiveIsIndexed  BY DEF MemoryInv
  <1> QED  BY MemoryAlways, <1>1, PTL

\* How a search comes to its answer.
LEMMA AnswersComeFromReads ==
  ASSUME MemoryInv, [Next]_vars, NEW r \in Requests, Answers(r)
  PROVE  /\ request[r] \in Request /\ TypeOK
         /\ \/ /\ request'[r].result = ByVector(View(request[r]))
               /\ ByVector(View(request[r])) # <<>>
            \/ request'[r].result = ByWords(View(request[r]))
  <1>1. /\ TypeOK /\ request \in [Requests -> Request] /\ request[r] \in Request
        /\ request[r].pc \in {"rows", "words"} /\ request'[r].pc = "answered"
    BY DEF MemoryInv, TypeOK, Answers
  <1>2. request'[r] # request[r] /\ request'[r] # Idle
    BY <1>1 DEF Idle
  <1>3. ~Free(r)
    BY <1>1 DEF Free
  <1>4. ~GoesOn(r, "words")
    <2>1. PICK q : q = [request[r] EXCEPT !.pc = "words"]
      OBVIOUS
    <2>2. q.pc = "words"
      BY <1>1, <2>1 DEF Request
    <2>3. GoesOn(r, "words") => request'[r] = q
      BY <1>1, <2>1 DEF GoesOn
    <2> QED  BY <1>1, <2>2, <2>3
  <1>5. ASSUME NEW q \in Requests, Step(q)
        PROVE  q = r /\ (ReadRows(r) \/ ReadWords(r))
    <2>1. CASE q = r
      <3>1. ~Checked(r) /\ ~CreateRow(r) /\ ~Forgotten(r) /\ ~DeleteMemory(r) /\ ~Propose(r)
        BY <1>1 DEF Checked, CreateRow, Forgotten, DeleteMemory, Propose
      <3>2. ~RequestFails(r)
        BY <1>1, <1>2 DEF RequestFails, Ends
      <3>3. ~SearchFails(r)
        BY <1>4 DEF SearchFails
      <3> QED  BY <1>5, <2>1, <3>1, <3>2, <3>3 DEF Step
    <2>2. CASE q # r
      BY <1>1, <1>2, <1>5, <2>2 DEF Step, Checked, CreateRow, Forgotten, DeleteMemory,
         Propose, ReadRows, ReadWords, SearchFails, RequestFails, Ends, GoesOn, Answer
    <2> QED  BY <2>1, <2>2
  <1>6. \E q \in Requests : Step(q)
    <2>1. ASSUME NEW q \in Requests, NEW search \in Searches, SearchMemories(q, search)
          PROVE  FALSE
      BY <1>1, <1>2, <1>3, <2>1 DEF SearchMemories
    <2>2. ASSUME NEW q \in Requests, NEW u \in Users, NEW row \in NewRows,
                 CreateMemory(q, u, row)
          PROVE  FALSE
      BY <1>1, <1>2, <1>3, <2>2 DEF CreateMemory
    <2>3. ASSUME NEW q \in Requests, NEW u \in Users, NEW i \in DOMAIN memory,
                 ForgetMemory(q, u, i)
          PROVE  FALSE
      BY <1>1, <1>2, <1>3, <2>3 DEF ForgetMemory
    <2>4. ASSUME NEW i \in Ids, UpsertMemory(i) \/ IndexFails(i) \/ Expire(i)
          PROVE  FALSE
      BY <1>2, <2>4 DEF UpsertMemory, IndexFails, Expire
    <2>5. ASSUME NEW u \in Owners, RemoveConversation(u) PROVE FALSE
      BY <1>2, <2>5 DEF RemoveConversation
    <2>6. ~Crash /\ ~UNCHANGED vars
      BY <1>2 DEF Crash, vars
    <2> QED  BY <2>1, <2>2, <2>3, <2>4, <2>5, <2>6 DEF Next
  <1>7. ReadRows(r) \/ ReadWords(r)
    BY <1>5, <1>6
  <1>8. ASSUME NEW ids, Answer(r, ids) PROVE request'[r].result = ids
    BY <1>1, <1>8 DEF Answer, Idle
  <1>9. CASE ReadRows(r)
    <2>1. ByVector(View(request[r])) # <<>>
      BY <1>4, <1>9 DEF ReadRows
    <2> QED  BY <1>1, <1>8, <1>9, <2>1 DEF ReadRows
  <1>10. CASE ReadWords(r)
    BY <1>1, <1>8, <1>10 DEF ReadWords
  <1> QED  BY <1>7, <1>9, <1>10

\* What a user could not read when a search began is never in its answer.
THEOREM HiddenStaysHidden == Spec => NothingHiddenFound
  <1>1. ASSUME MemoryInv, [Next]_vars, NEW r \in Requests, Answers(r)
        PROVE  ToSet(request'[r].result) \cap request[r].hidden = {}
    <2>1. ToSet(request'[r].result) \subseteq Readable(View(request[r]))
      BY <1>1, AnswersComeFromReads, FoundByVector, FoundByWords
    <2>2. request[r].hidden \cap Readable(View(request[r])) = {}
      BY <1>1 DEF MemoryInv, Knows, Answers
    <2> QED  BY <2>1, <2>2
  <1>2. MemoryInv /\ [Next]_vars =>
          [\A r \in Requests : Answers(r) =>
             ToSet(request'[r].result) \cap request[r].hidden = {}]_request
    BY <1>1
  <1> QED  BY MemoryAlways, <1>2, PTL DEF Spec, NothingHiddenFound

\* A search that answers nothing may read no memory with its words.
THEOREM SearchesFind == Spec => SearchFinds
  <1>1. ASSUME MemoryInv, [Next]_vars, NEW r \in Requests, Answers(r),
               request'[r].result = <<>>
        PROVE  Worded(View(request[r])) = {}
    BY <1>1, AnswersComeFromReads, FoundByWords
  <1>2. MemoryInv /\ [Next]_vars =>
          [\A r \in Requests : Answers(r) /\ request'[r].result = <<>> =>
             Worded(View(request[r])) = {}]_request
    BY <1>1
  <1> QED  BY MemoryAlways, <1>2, PTL DEF Spec, SearchFinds
=============================================================================
