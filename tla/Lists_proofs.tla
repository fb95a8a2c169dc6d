---------------------------- MODULE Lists_proofs ----------------------------
(***************************************************************************)
(* What Filter keeps, drops and leaves in order.  Filter is a fold, and a  *)
(* fold is a recursive function that is only known to solve its equation:  *)
(* the first lemmas build a solution over an interval (induction being     *)
(* stated with sets, since a theorem may not take an operator), unfold one *)
(* step of it, and the others speak of filtered lists only.                *)
(***************************************************************************)
EXTENDS Lists, TLAPS, WellFoundedInduction, SequenceTheorems,
        FiniteSetTheorems

-----------------------------------------------------------------------------
(* Induction *)

\* Induction over the naturals, stated with a set.
LEMMA NatSets ==
    ASSUME NEW P \in SUBSET Nat, 0 \in P, \A n \in P : n + 1 \in P
    PROVE  P = Nat
  <1>1. SUFFICES ASSUME Nat \ P # {} PROVE FALSE
    OBVIOUS
  <1>2. PICK x \in Nat \ P : \A y \in Nat \ P : ~(<<y, x>> \in OpToRel(<, Nat))
    BY <1>1, NatLessThanWellFounded, WFMin, Zenon
  <1>3. \A y \in Nat \ P : ~(y < x)
    BY <1>2 DEF OpToRel
  <1> QED
    BY <1>3

\* The same up to n.
LEMMA UpTo ==
    ASSUME NEW n \in Nat, NEW P \in SUBSET (0..n), 0 \in P,
           \A k \in P : k < n => k + 1 \in P
    PROVE  \A k \in 0..n : k \in P
  <1> DEFINE Q == {k \in Nat : k <= n => k \in P}
  <1>1. 0 \in Q /\ \A k \in Q : k + 1 \in Q
    OBVIOUS
  <1>2. Q = Nat
    <2> HIDE DEF Q
    <2> QED BY <1>1, NatSets DEF Q
  <1> QED
    BY <1>2

\* Max of the library, which chooses: the greatest, where there is one.
LEMMA MaxIs ==
    ASSUME NEW S \in SUBSET Int, NEW m \in S, \A x \in S : x <= m
    PROVE  Max(S) = m
  <1>1. m \in S /\ \A y \in S : m >= y
    OBVIOUS
  <1>2. Max(S) \in S /\ \A y \in S : Max(S) >= y
    BY <1>1, Zenon DEF Max
  <1>3. m \in Int /\ Max(S) \in Int
    BY <1>2
  <1>4. m >= Max(S) /\ Max(S) >= m
    BY <1>1, <1>2
  <1> HIDE DEF Max
  <1> QED
    BY <1>3, <1>4

\* The element a fold over 1..n takes first.
LEMMA MaxOfInterval ==
    ASSUME NEW n \in Nat \ {0}
    PROVE  Max(1..n) = n /\ (1..n) \ {n} = 1..(n - 1) /\ 1..n # {}
  <1>1. 1..n \in SUBSET Int /\ n \in 1..n /\ \A x \in 1..n : x <= n
    OBVIOUS
  <1>2. Max(1..n) = n
    BY <1>1, MaxIs
  <1>3. \A x : x \in (1..n) \ {n} <=> x \in 1..(n - 1)
    OBVIOUS
  <1> QED
    BY <1>1, <1>2, <1>3

\* A set of numbers up to n has its greatest among them.
LEMMA MaxBelow ==
    ASSUME NEW n \in Nat, NEW d \in SUBSET (1..n), d # {}
    PROVE  Max(d) \in d /\ \A y \in d : Max(d) >= y
  <1> DEFINE P == {m \in 0..n : \A e \in SUBSET (1..m) : e # {} =>
                                   \E x \in e : \A y \in e : x >= y}
  <1>1. 0 \in P
    <2>1. \A e \in SUBSET (1..0) : e = {}
      OBVIOUS
    <2>2. \A e \in SUBSET (1..0) : e # {} => \E x \in e : \A y \in e : x >= y
      BY <2>1, Zenon
    <2>3. 0 \in 0..n
      OBVIOUS
    <2> QED
      BY <2>2, <2>3
  <1>2. ASSUME NEW m \in P, m < n PROVE m + 1 \in P
    <2>1. ASSUME NEW e \in SUBSET (1..(m + 1)), e # {}
          PROVE  \E x \in e : \A y \in e : x >= y
      <3>1. CASE m + 1 \in e
        BY <3>1
      <3>2. CASE m + 1 \notin e
        <4>1. e \in SUBSET (1..m)
          BY <3>2
        <4> QED
          BY <2>1, <4>1
      <3> QED
        BY <3>1, <3>2
    <2> QED
      BY <1>2, <2>1
  <1>3. P \in SUBSET (0..n) /\ n \in 0..n
    OBVIOUS
  <1>4. n \in P
    <2> HIDE DEF P
    <2> QED BY <1>1, <1>2, <1>3, UpTo
  <1>5. \E x \in d : \A y \in d : x >= y
    BY <1>4
  <1> HIDE DEF P
  <1> QED
    BY <1>5, Zenon DEF Max

\* The same with 0 for the set that has none.
LEMMA MaxOrZero ==
    ASSUME NEW n \in Nat, NEW d \in SUBSET (1..n)
    PROVE  Max({0} \cup d) \in 0..n
  <1>1. CASE d = {}
    <2>1. {0} \cup d = {0}
      BY <1>1
    <2>2. {0} \in SUBSET Int /\ 0 \in {0} /\ \A x \in {0} : x <= 0
      OBVIOUS
    <2>3. Max({0}) = 0
      BY <2>2, MaxIs
    <2> QED
      BY <2>1, <2>3
  <1>2. CASE d # {}
    <2>1. PICK top \in d : \A y \in d : top >= y
      BY <1>2, MaxBelow
    <2>2. top \in {0} \cup d /\ {0} \cup d \in SUBSET Int /\ \A x \in {0} \cup d : x <= top
      BY <2>1
    <2>3. Max({0} \cup d) = top
      BY <2>2, MaxIs
    <2> QED
      BY <2>1, <2>3
  <1> QED
    BY <1>1, <1>2

-----------------------------------------------------------------------------
(* Folds from the left *)

\* The recursion of a fold from the left over n elements, G[k][a] being what the
\* k-th makes of the accumulated a.
Solves(g, n, base, G) ==
    \A d \in SUBSET (1..n) :
        g[d] = IF d = {} THEN base ELSE G[Max(d)][g[d \ {Max(d)}]]

Solved(n, A, base, G) == \E g \in [SUBSET (1..n) -> A] : Solves(g, n, base, G)

\* The recursion over no element, and over one more.
LEMMA SolvedOfNone ==
    ASSUME NEW A, NEW base \in A, NEW G
    PROVE  Solved(0, A, base, G)
  <1>1. \A d \in SUBSET (1..0) : d = {}
    OBVIOUS
  <1> DEFINE g == [d \in SUBSET (1..0) |-> base]
  <1>2. g \in [SUBSET (1..0) -> A]
    OBVIOUS
  <1>3. Solves(g, 0, base, G)
    BY <1>1 DEF Solves
  <1> HIDE DEF g
  <1> QED
    BY <1>2, <1>3 DEF Solved

LEMMA SolvedOfNext ==
    ASSUME NEW m \in Nat, NEW A, NEW base \in A, NEW G, Solved(m, A, base, G),
           G[m + 1] \in [A -> A]
    PROVE  Solved(m + 1, A, base, G)
  <1>1. PICK g \in [SUBSET (1..m) -> A] : Solves(g, m, base, G)
    BY DEF Solved
  <1> DEFINE h == [d \in SUBSET (1..(m + 1)) |->
                     IF m + 1 \in d THEN G[m + 1][g[d \ {m + 1}]] ELSE g[d]]
  <1>2. ASSUME NEW d \in SUBSET (1..(m + 1))
        PROVE  d \ {m + 1} \in SUBSET (1..m)
    OBVIOUS
  <1>3. ASSUME NEW d \in SUBSET (1..(m + 1)), m + 1 \notin d
        PROVE  d \in SUBSET (1..m)
    BY <1>3
  <1>4. ASSUME NEW d \in SUBSET (1..(m + 1))
        PROVE  h[d] \in A
    <2>1. CASE m + 1 \in d
      BY <1>2, <2>1
    <2>2. CASE m + 1 \notin d
      BY <1>3, <2>2
    <2> QED
      BY <2>1, <2>2
  <1>5. h \in [SUBSET (1..(m + 1)) -> A]
    BY <1>4
  <1>6. ASSUME NEW d \in SUBSET (1..(m + 1))
        PROVE  h[d] = IF d = {} THEN base ELSE G[Max(d)][h[d \ {Max(d)}]]
    <2>1. CASE m + 1 \in d
      <3>1. d \in SUBSET Int /\ \A x \in d : x <= m + 1
        OBVIOUS
      <3>2. Max(d) = m + 1
        BY <2>1, <3>1, MaxIs
      <3>3. d \ {m + 1} \in SUBSET (1..(m + 1)) /\ m + 1 \notin d \ {m + 1}
        OBVIOUS
      <3>4. h[d \ {m + 1}] = g[d \ {m + 1}]
        BY <3>3
      <3> QED
        BY <2>1, <3>2, <3>4
    <2>2. CASE m + 1 \notin d
      <3>1. d \in SUBSET (1..m) /\ h[d] = g[d]
        BY <1>3, <2>2
      <3> DEFINE e == d \ {Max(d)}
      <3>2. e \in SUBSET (1..(m + 1)) /\ m + 1 \notin e
        <4> HIDE DEF h
        <4> QED BY <2>2
      <3>3. h[e] = g[e]
        <4> HIDE DEF e
        <4> QED BY <3>2
      <3> QED
        BY <1>1, <3>1, <3>3 DEF Solves
    <2> QED
      BY <2>1, <2>2
  <1>7. Solves(h, m + 1, base, G)
    <2> HIDE DEF h
    <2> QED BY <1>6 DEF Solves
  <1> QED
    <2> HIDE DEF h
    <2> QED BY <1>5, <1>7 DEF Solved

\* The recursion has a solution over any number of elements.
LEMMA FoldExists ==
    ASSUME NEW n \in Nat, NEW A, NEW base \in A, NEW G \in [1..n -> [A -> A]]
    PROVE  \E g \in [SUBSET (1..n) -> A] : Solves(g, n, base, G)
  <1> DEFINE P == {m \in 0..n : Solved(m, A, base, G)}
  <1>1. 0 \in P
    BY SolvedOfNone
  <1>2. ASSUME NEW m \in P, m < n PROVE m + 1 \in P
    <2>1. m \in Nat /\ m + 1 \in 1..n /\ m + 1 \in 0..n /\ Solved(m, A, base, G)
      BY <1>2
    <2> QED
      BY <2>1, SolvedOfNext
  <1>3. n \in P
    <2>1. P \in SUBSET (0..n) /\ n \in 0..n
      OBVIOUS
    <2> HIDE DEF P
    <2> QED
      BY <1>1, <1>2, <2>1, UpTo
  <1> QED
    BY <1>3 DEF Solved

\* One step of the recursion, with the types of what it uses.
Unfolds(g, d, n, A, base, G) ==
    IF d = {} THEN g[d] = base
    ELSE /\ Max(d) \in 1..n
         /\ g[d \ {Max(d)}] \in A
         /\ g[d] = G[Max(d)][g[d \ {Max(d)}]]

\* The solution over an interval, one step of it at a time.
LEMMA FoldUnfolds ==
    ASSUME NEW n \in Nat, NEW A, NEW base \in A, NEW G \in [1..n -> [A -> A]]
    PROVE  \E g \in [SUBSET (1..n) -> A] :
              \A d \in SUBSET (1..n) : Unfolds(g, d, n, A, base, G)
  <1>1. PICK g \in [SUBSET (1..n) -> A] : Solves(g, n, base, G)
    BY FoldExists
  <1>2. ASSUME NEW d \in SUBSET (1..n)
        PROVE  Unfolds(g, d, n, A, base, G)
    <2>1. CASE d = {}
      BY <1>1, <2>1 DEF Solves, Unfolds
    <2>2. CASE d # {}
      <3>1. Max(d) \in d
        BY <2>2, MaxBelow
      <3>2. Max(d) \in 1..n /\ d \ {Max(d)} \in SUBSET (1..n)
        BY <3>1
      <3>3. g[d \ {Max(d)}] \in A
        BY <3>2
      <3>4. g[d] = G[Max(d)][g[d \ {Max(d)}]]
        BY <1>1, <2>2 DEF Solves
      <3> QED
        BY <2>2, <3>2, <3>3, <3>4 DEF Unfolds
    <2> QED
      BY <2>1, <2>2
  <1> QED
    BY <1>2

Keeps(f, n, A) == \A k \in 1..n : f[k - 1] \in A => f[k] \in A

\* What every step keeps holds at the end.
LEMMA Stays ==
    ASSUME NEW n \in Nat, NEW A, NEW f, f[0] \in A, Keeps(f, n, A)
    PROVE  \A k \in 0..n : f[k] \in A
  <1> DEFINE P == {k \in 0..n : f[k] \in A}
  <1>1. P \in SUBSET (0..n) /\ 0 \in P
    OBVIOUS
  <1>2. ASSUME NEW k \in P, k < n
        PROVE  k + 1 \in P
    <2>1. k + 1 \in 1..n /\ k + 1 \in 0..n /\ (k + 1) - 1 = k
      BY <1>2
    <2> QED
      BY <2>1 DEF Keeps
  <1>3. \A k \in 0..n : k \in P
    <2> HIDE DEF P
    <2> QED
      BY <1>1, <1>2, UpTo
  <1> QED
    BY <1>3

\* A list with one of its elements replaced.
LEMMA Replaced ==
    ASSUME NEW S, NEW t \in Seq(S), NEW m, NEW x \in S
    PROVE  [t EXCEPT ![m] = x] \in Seq(S)
  <1>1. t \in [1..Len(t) -> S] /\ Len(t) \in Nat
    OBVIOUS
  <1> DEFINE u == [t EXCEPT ![m] = x]
  <1>2. u \in [1..Len(t) -> S]
    BY <1>1
  <1> HIDE DEF u
  <1>3. u \in Seq(S)
    BY <1>1, <1>2
  <1> QED
    BY <1>3 DEF u

\* What a fold over lists of S stays in.
LEMMA ListStays ==
    ASSUME NEW S, NEW n \in Nat, NEW f, f[0] \in Seq(S), Keeps(f, n, Seq(S))
    PROVE  f[n] \in Seq(S)
  <1> DEFINE A == Seq(S)
  <1> HIDE DEF A
  <1>1. \A k \in 0..n : f[k] \in A
    BY Stays DEF A
  <1> QED
    BY <1>1 DEF A

-----------------------------------------------------------------------------
(* Orders *)

\* R compares all the elements of S with each other, and compares what lies
\* between.
Compares(R, S) ==
    /\ \A x, y \in S : <<x, y>> \in R \/ <<y, x>> \in R
    /\ \A x, y, z \in S : <<x, y>> \in R /\ <<y, z>> \in R => <<x, z>> \in R

Least(R, S, x) == x \in S /\ \A y \in S : <<x, y>> \in R

\* A finite set that can be compared has a least element: what a CHOOSE of a
\* best one finds.
LEMMA LeastExists ==
    ASSUME NEW S, IsFiniteSet(S), S # {}, NEW R, Compares(R, S)
    PROVE  \E x \in S : Least(R, S, x)
  <1>1. PICK n \in Nat : ExistsSurjection(1..n, S)
    BY FS_NatSurjection
  <1>2. PICK f \in [1..n -> S] : \A x \in S : \E i \in 1..n : f[i] = x
    BY <1>1 DEF ExistsSurjection, Surjection
  <1> DEFINE P == {m \in 0..n : m = 0 \/ \E i \in 1..m : \A j \in 1..m : <<f[i], f[j]>> \in R}
  <1>3. ASSUME NEW m \in P, m < n
        PROVE  m + 1 \in P
    <2>1. m + 1 \in 0..n /\ m + 1 \in 1..n /\ \A j \in 1..(m + 1) : j \in 1..m \/ j = m + 1
      BY <1>3
    <2>2. <<f[m + 1], f[m + 1]>> \in R
      BY <2>1 DEF Compares
    <2>3. CASE m = 0
      <3>1. \A j \in 1..(m + 1) : j = m + 1
        BY <2>3
      <3>2. m + 1 \in 1..(m + 1) /\ \A j \in 1..(m + 1) : <<f[m + 1], f[j]>> \in R
        BY <2>1, <2>2, <3>1
      <3> QED
        BY <2>1, <3>2
    <2>4. CASE m # 0
      <3>1. PICK i \in 1..m : \A j \in 1..m : <<f[i], f[j]>> \in R
        BY <1>3, <2>4
      <3>2. i \in 1..n /\ i \in 1..(m + 1) /\ m + 1 \in 1..(m + 1) /\ 1..m \subseteq 1..n
        BY <1>3, <2>1
      <3>3. CASE <<f[i], f[m + 1]>> \in R
        BY <2>1, <3>1, <3>2, <3>3
      <3>4. CASE <<f[m + 1], f[i]>> \in R
        <4>1. ASSUME NEW j \in 1..m
              PROVE  <<f[m + 1], f[j]>> \in R
          <5>1. f[m + 1] \in S /\ f[i] \in S /\ f[j] \in S
            BY <2>1, <3>2
          <5> QED
            BY <3>1, <3>4, <5>1 DEF Compares
        <4>2. \A j \in 1..(m + 1) : <<f[m + 1], f[j]>> \in R
          BY <2>1, <2>2, <4>1
        <4> QED
          BY <2>1, <3>2, <4>2
      <3> QED
        BY <2>1, <3>2, <3>3, <3>4 DEF Compares
    <2> QED
      BY <2>3, <2>4
  <1>4. n \in P
    <2>1. P \in SUBSET (0..n) /\ 0 \in P /\ n \in 0..n
      OBVIOUS
    <2> HIDE DEF P
    <2> QED
      BY <1>3, <2>1, UpTo
  <1>5. n # 0
    BY <1>2
  <1>6. PICK i \in 1..n : \A j \in 1..n : <<f[i], f[j]>> \in R
    BY <1>4, <1>5
  <1> QED
    BY <1>2, <1>6 DEF Least

\* R is a strict order of S that leaves no two elements apart.
Orders(R, S) ==
    /\ \A x \in S : <<x, x>> \notin R
    /\ \A x, y \in S : x # y => <<x, y>> \in R \/ <<y, x>> \in R
    /\ \A x, y, z \in S : <<x, y>> \in R /\ <<y, z>> \in R => <<x, z>> \in R

\* Sorted lists every element once, the earlier of two before the later: no two
\* of n elements have as many before them, so that each number below n is that
\* of one.
LEMMA Sorting ==
    ASSUME NEW S, IsFiniteSet(S), NEW R, Orders(R, S)
    PROVE  /\ Cardinality(S) \in Nat
           /\ Sorted(S, R) \in [1..Cardinality(S) -> S]
           /\ \A i, j \in 1..Cardinality(S) : i < j => <<Sorted(S, R)[i], Sorted(S, R)[j]>> \in R
           /\ \A x \in S : \E i \in 1..Cardinality(S) : Sorted(S, R)[i] = x
  <1> DEFINE n == Cardinality(S)
             before(x) == {y \in S : <<y, x>> \in R}
             rank == [x \in S |-> Cardinality(before(x))]
             t == Sorted(S, R)
  <1>1. n \in Nat
    BY FS_CardinalityType
  <1>2. ASSUME NEW x \in S
        PROVE  IsFiniteSet(before(x)) /\ rank[x] \in 0..(n - 1)
    <2>1. x \notin before(x) /\ before(x) \in SUBSET (S \ {x})
      BY DEF Orders
    <2>2. IsFiniteSet(S \ {x}) /\ Cardinality(S \ {x}) = n - 1
      BY FS_RemoveElement
    <2> HIDE DEF before
    <2>3. IsFiniteSet(before(x)) /\ Cardinality(before(x)) <= n - 1
      BY <2>1, <2>2, FS_Subset
    <2>4. Cardinality(before(x)) \in Nat
      BY <2>3, FS_CardinalityType
    <2> QED
      BY <1>1, <2>3, <2>4
  <1>3. ASSUME NEW x \in S, NEW y \in S, <<x, y>> \in R
        PROVE  rank[x] < rank[y]
    <2>1. before(x) \cup {x} \in SUBSET before(y) /\ x \notin before(x)
      BY <1>3 DEF Orders
    <2>2. IsFiniteSet(before(x)) /\ IsFiniteSet(before(y)) /\ rank[x] \in Int /\ rank[y] \in Int
      BY <1>2
    <2> HIDE DEF before
    <2>3. Cardinality(before(x) \cup {x}) = Cardinality(before(x)) + 1
      BY <2>1, <2>2, FS_AddElement
    <2>4. Cardinality(before(x) \cup {x}) <= Cardinality(before(y))
      BY <2>1, <2>2, FS_Subset
    <2> QED
      BY <2>2, <2>3, <2>4
  <1>11. \A x \in S : rank[x] \in Int /\ rank[x] + 1 \in 1..n
    <2> HIDE DEF rank, n, before, t
    <2>1. \A x \in S : rank[x] \in 0..(n - 1)
      BY <1>2
    <2> QED
      BY <1>1, <2>1
  <1>4. ASSUME NEW x \in S, NEW y \in S, rank[x] = rank[y]
        PROVE  x = y
    <2> HIDE DEF rank
    <2>1. <<x, y>> \notin R /\ <<y, x>> \notin R
      BY <1>3, <1>4, <1>11
    <2> QED
      BY <2>1 DEF Orders
  <1>5. \A k \in 0..(n - 1) : \E x \in S : rank[x] = k
    <2>1. rank \in [S -> 0..(n - 1)]
      BY <1>2
    <2>2. IsFiniteSet(0..(n - 1)) /\ Cardinality(0..(n - 1)) = n
      BY <1>1, FS_Interval
    <2> HIDE DEF rank
    <2>3. rank \in Injection(S, 0..(n - 1))
      BY <1>4, <2>1 DEF Injection, IsInjective
    <2>4. rank \in Surjection(S, 0..(n - 1))
      BY <2>2, <2>3, FS_Injection
    <2> QED
      BY <2>4 DEF Surjection
  <1>6. ASSUME NEW k \in 1..n
        PROVE  t[k] \in S /\ rank[t[k]] = k - 1
    <2>1. k - 1 \in 0..(n - 1)
      BY <1>1
    <2>2. \E x \in S : Cardinality(before(x)) = k - 1
      BY <1>5, <2>1
    <2>3. t[k] = CHOOSE x \in S : Cardinality(before(x)) = k - 1
      BY DEF Sorted
    <2>4. t[k] \in S /\ Cardinality(before(t[k])) = k - 1
      <3> HIDE DEF before, t, n
      <3> QED
        BY <2>2, <2>3
    <2> HIDE DEF t
    <2> QED
      BY <2>4
  <1>7. t = [k \in 1..n |-> t[k]]
    <2>1. t = [k \in 1..n |-> CHOOSE x \in S : Cardinality(before(x)) = k - 1]
      BY DEF Sorted
    <2> DEFINE e(k) == CHOOSE x \in S : Cardinality(before(x)) = k - 1
    <2>2. t = [k \in 1..n |-> e(k)]
      BY <2>1
    <2> HIDE DEF t, e, n
    <2> QED
      BY <2>2
  <1>8. t \in [1..n -> S]
    <2> HIDE DEF t
    <2> QED
      BY <1>6, <1>7
  <1>9. ASSUME NEW i \in 1..n, NEW j \in 1..n, i < j
        PROVE  <<t[i], t[j]>> \in R
    <2>1. rank[t[i]] < rank[t[j]] /\ t[i] \in S /\ t[j] \in S
      BY <1>1, <1>6, <1>9
    <2> HIDE DEF t, rank
    <2>2. t[i] # t[j]
      BY <1>1, <1>6, <1>9
    <2>3. <<t[j], t[i]>> \notin R
      BY <1>1, <1>3, <1>6, <1>9, <2>1
    <2> QED
      BY <2>1, <2>2, <2>3 DEF Orders
  <1>10. ASSUME NEW x \in S
         PROVE  \E i \in 1..n : t[i] = x
    <2> HIDE DEF t, rank
    <2>1. rank[x] + 1 \in 1..n /\ rank[x] \in Int
      BY <1>11
    <2>2. t[rank[x] + 1] \in S /\ rank[t[rank[x] + 1]] = rank[x]
      BY <1>6, <2>1
    <2>3. t[rank[x] + 1] = x
      BY <1>4, <2>2
    <2> QED
      BY <2>1, <2>3
  <1> QED
    BY <1>1, <1>8, <1>9, <1>10

\* A part of an interval is finite.
LEMMA FinitePart ==
    ASSUME NEW n \in Nat, NEW K \in SUBSET (1..n)
    PROVE  IsFiniteSet(K)
  <1>1. IsFiniteSet(1..n)
    BY FS_Interval
  <1> QED
    BY <1>1, FS_Subset

\* The least of some indices.
LEMMA MinIs ==
    ASSUME NEW n \in Nat, NEW K \in SUBSET (1..n), K # {}
    PROVE  Min(K) \in K /\ \A k \in K : Min(K) <= k
  <1> DEFINE R == {p \in K \X K : p[1] <= p[2]}
  <1>1. Compares(R, K)
    BY DEF Compares
  <1>2. IsFiniteSet(K)
    BY FinitePart
  <1>3. PICK x \in K : Least(R, K, x)
    BY <1>1, <1>2, LeastExists
  <1>4. \A y \in K : x <= y
    BY <1>3 DEF Least
  <1> HIDE DEF R
  <1> QED
    BY <1>4, Zenon DEF Min

\* The lesser of two numbers.
LEMMA MinOfTwo ==
    ASSUME NEW a \in Nat, NEW b \in Nat
    PROVE  /\ Min({a, b}) \in Nat
           /\ Min({a, b}) <= b
           /\ b <= a => Min({a, b}) = b
           /\ a > 0 /\ b > 0 => Min({a, b}) > 0
  <1>1. \A x \in {a, b} : (\A y \in {a, b} : x <= y) => x = IF a <= b THEN a ELSE b
    OBVIOUS
  <1>2. \E x \in {a, b} : \A y \in {a, b} : x <= y
    OBVIOUS
  <1>3. Min({a, b}) \in {a, b} /\ \A y \in {a, b} : Min({a, b}) <= y
    BY <1>2, Zenon DEF Min
  <1> QED
    BY <1>1, <1>3

\* The elements of a list at some of its indices are finitely many.
LEMMA FiniteImage ==
    ASSUME NEW S, NEW s \in Seq(S), NEW K \in SUBSET DOMAIN s
    PROVE  IsFiniteSet({s[k] : k \in K})
  <1> DEFINE f == [k \in K |-> s[k]]
             image == {s[k] : k \in K}
  <1>1. DOMAIN s = 1..Len(s) /\ Len(s) \in Nat
    OBVIOUS
  <1>2. IsFiniteSet(K)
    BY <1>1, FinitePart
  <1>3. f \in [K -> image] /\ \A t \in image : \E k \in K : f[k] = t
    OBVIOUS
  <1>4. f \in Surjection(K, image)
    <2> HIDE DEF f, image
    <2> QED
      BY <1>3 DEF Surjection
  <1> HIDE DEF f
  <1> QED
    BY <1>2, <1>4, FS_Surjection

-----------------------------------------------------------------------------
(* Filter *)

\* What one element makes of the list.
OneMore(t, x, T) == IF x \in T THEN Append(t, x) ELSE t

\* Filter goes through its list one element at a time.
LEMMA FilterSteps ==
    ASSUME NEW S, NEW s \in Seq(S), NEW T
    PROVE  \E f : /\ f[0] = <<>> /\ Filter(s, T) = f[Len(s)]
                  /\ \A k \in 1..Len(s) : f[k] = OneMore(f[k - 1], s[k], T)
  <1> DEFINE n == Len(s)
             A == Seq(S)
             G == [k \in 1..n |-> [t \in A |-> OneMore(t, s[k], T)]]
             Body(g) == [d \in SUBSET DOMAIN s |->
                           IF d = {} THEN <<>> ELSE OneMore(g[d \ {Max(d)}], s[Max(d)], T)]
  <1>1. n \in Nat /\ DOMAIN s = 1..n /\ \A k \in 1..n : s[k] \in S
    OBVIOUS
  <1>2. G \in [1..n -> [A -> A]] /\ <<>> \in A
    BY <1>1 DEF OneMore
  <1>3. PICK g \in [SUBSET (1..n) -> A] : Solves(g, n, <<>>, G)
    <2> HIDE DEF G, A, n
    <2> QED BY <1>1, <1>2, FoldExists
  <1>4. ASSUME NEW d \in SUBSET (1..n), d # {}
        PROVE  Max(d) \in 1..n
    BY <1>4, MaxBelow, <1>1
  <1>5. g = Body(g)
    <2>1. ASSUME NEW d \in SUBSET (1..n)
          PROVE  g[d] = Body(g)[d]
      <3>1. CASE d = {}
        BY <3>1, <1>3, <1>1 DEF Solves
      <3>2. CASE d # {}
        <4>1. Max(d) \in 1..n /\ g[d \ {Max(d)}] \in A
          BY <3>2, <1>4
        <4>2. g[d] = G[Max(d)][g[d \ {Max(d)}]]
          BY <3>2, <1>3 DEF Solves
        <4> QED
          BY <3>2, <4>1, <4>2, <1>1
      <3> QED
        BY <3>1, <3>2
    <2> QED
      BY <2>1, <1>1
  <1>6. PICK h : h = Body(h) /\ Filter(s, T) = h[DOMAIN s]
    <2> HIDE <1>3
    <2> QED BY <1>5, Zenon DEF Filter, FoldLeft, MapThenFoldSet, OneMore
  <1> DEFINE f == [k \in 0..n |-> h[1..k]]
  <1>7. \A d \in SUBSET (1..n) :
           h[d] = IF d = {} THEN <<>> ELSE OneMore(h[d \ {Max(d)}], s[Max(d)], T)
    BY <1>6, <1>1
  <1>8. f[0] = <<>> /\ Filter(s, T) = f[n]
    BY <1>1, <1>6, <1>7
  <1>9. ASSUME NEW k \in 1..n
        PROVE  f[k] = OneMore(f[k - 1], s[k], T)
    <2>1. Max(1..k) = k /\ (1..k) \ {k} = 1..(k - 1) /\ 1..k # {}
      BY MaxOfInterval
    <2>2. 1..k \in SUBSET (1..n) /\ k \in 0..n /\ k - 1 \in 0..n
      BY <1>1
    <2> QED
      BY <2>1, <2>2, <1>7
  <1> QED
    <2> HIDE DEF f
    <2> QED BY <1>8, <1>9

\* Filter(s, T) takes the elements of s that are in T, each once and in order.
Filtered(s, T, t) ==
    \E e \in [1..Len(t) -> 1..Len(s)] :
        /\ \A i \in 1..Len(t) : t[i] = s[e[i]] /\ t[i] \in T
        /\ \A i, j \in 1..Len(t) : i < j => e[i] < e[j]
        /\ \A k \in 1..Len(s) : s[k] \in T => \E i \in 1..Len(t) : e[i] = k

\* By induction over the length of what has been gone through.
LEMMA Filtering ==
    ASSUME NEW S, NEW s \in Seq(S), NEW T
    PROVE  Filter(s, T) \in Seq(S) /\ Filtered(s, T, Filter(s, T))
  <1>1. PICK f : /\ f[0] = <<>> /\ Filter(s, T) = f[Len(s)]
                 /\ \A k \in 1..Len(s) : f[k] = OneMore(f[k - 1], s[k], T)
    BY FilterSteps
  <1> DEFINE n == Len(s)
             Good(k, t, e) ==
                /\ t \in Seq(S) /\ e \in [1..Len(t) -> 1..n]
                /\ \A i \in 1..Len(t) : e[i] <= k /\ t[i] = s[e[i]] /\ t[i] \in T
                /\ \A i, j \in 1..Len(t) : i < j => e[i] < e[j]
                /\ \A m \in 1..k : s[m] \in T => \E i \in 1..Len(t) : e[i] = m
             P == {k \in 0..n : \E e : Good(k, f[k], e)}
  <1>2. 0 \in P
    <2> DEFINE e == [i \in 1..0 |-> 0]
    <2>1. <<>> \in Seq(S) /\ Len(<<>>) = 0 /\ 0 \in 0..n
      OBVIOUS
    <2>2. \A i : i \notin 1..0
      OBVIOUS
    <2>3. e \in [1..0 -> 1..n]
      OBVIOUS
    <2> HIDE DEF e
    <2>4. Good(0, <<>>, e)
      BY <2>1, <2>2, <2>3
    <2> HIDE DEF Good
    <2> QED
      BY <1>1, <2>1, <2>4
  <1>3. ASSUME NEW k \in P, k < n
        PROVE  k + 1 \in P
    <2> DEFINE t == f[k]
    <2>1. PICK e : Good(k, t, e)
      OBVIOUS
    <2>2. k + 1 \in 1..n /\ k + 1 \in 0..n /\ s[k + 1] \in S /\ f[k + 1] = OneMore(t, s[k + 1], T)
      BY <1>1, <1>3
    <2> HIDE DEF t
    <2>3. CASE s[k + 1] \in T
      <3> DEFINE u == Append(t, s[k + 1])
                 d == [i \in 1..Len(u) |-> IF i = Len(u) THEN k + 1 ELSE e[i]]
      <3>1. u \in Seq(S) /\ Len(u) = Len(t) + 1 /\ u[Len(u)] = s[k + 1]
        BY <2>1, <2>2
      <3>2. \A i \in 1..Len(u) : i # Len(u) => i \in 1..Len(t) /\ u[i] = t[i]
        BY <2>1, <2>2
      <3>3. Len(t) \in Nat /\ n \in Nat /\ k \in 0..n
        BY <2>1
      <3> HIDE DEF u, n
      <3>4. d \in [1..Len(u) -> 1..n]
        BY <2>1, <2>2, <3>1, <3>2
      <3>5. \A i \in 1..Len(u) : d[i] <= k + 1 /\ u[i] = s[d[i]] /\ u[i] \in T
        <4>1. ASSUME NEW i \in 1..Len(u)
              PROVE  d[i] <= k + 1 /\ u[i] = s[d[i]] /\ u[i] \in T
          <5>1. CASE i = Len(u)
            BY <5>1, <2>2, <2>3, <3>1, <3>3
          <5>2. CASE i # Len(u)
            <6>1. i \in 1..Len(t) /\ u[i] = t[i] /\ d[i] = e[i] /\ e[i] \in 1..n
              BY <2>1, <3>2, <5>2
            <6> QED
              BY <2>1, <3>3, <6>1
          <5> QED
            BY <5>1, <5>2
        <4> QED
          BY <4>1
      <3>6. ASSUME NEW i \in 1..Len(u), NEW j \in 1..Len(u), i < j
            PROVE  d[i] < d[j]
        <4>1. i # Len(u)
          BY <3>1, <3>3, <3>6
        <4>2. d[i] = e[i] /\ i \in 1..Len(t)
          BY <3>2, <4>1
        <4>3. d[j] = IF j = Len(u) THEN k + 1 ELSE e[j]
          OBVIOUS
        <4> HIDE DEF d
        <4>4. e[i] \in 1..n /\ e[i] <= k
          BY <2>1, <4>2
        <4>5. CASE j = Len(u)
          BY <3>3, <4>2, <4>3, <4>4, <4>5
        <4>6. CASE j # Len(u)
          <5>1. j \in 1..Len(t)
            BY <3>2, <4>6
          <5> QED
            BY <2>1, <3>6, <4>2, <4>3, <4>6, <5>1
        <4> QED
          BY <4>5, <4>6
      <3>7. \A m \in 1..(k + 1) : s[m] \in T => \E i \in 1..Len(u) : d[i] = m
        <4>1. ASSUME NEW m \in 1..(k + 1), s[m] \in T
              PROVE  \E i \in 1..Len(u) : d[i] = m
          <5>1. CASE m = k + 1
            <6>1. Len(u) \in 1..Len(u)
              BY <3>1, <3>3
            <6> QED
              BY <5>1, <6>1
          <5>2. CASE m # k + 1
            <6>1. m \in 1..k
              BY <5>2, <3>3
            <6>2. PICK i \in 1..Len(t) : e[i] = m
              BY <6>1, <2>1, <4>1
            <6>3. i \in 1..Len(u) /\ i # Len(u)
              BY <3>1, <3>3
            <6> QED
              BY <6>2, <6>3
          <5> QED
            BY <5>1, <5>2
        <4> QED
          BY <4>1
      <3>8. Good(k + 1, u, d)
        <4> HIDE DEF d
        <4> QED
          BY <3>1, <3>4, <3>5, <3>6, <3>7
      <3>9. f[k + 1] = u
        BY <2>2, <2>3 DEF OneMore, u
      <3> HIDE DEF d, Good
      <3> QED
        BY <2>2, <3>8, <3>9 DEF n
    <2>4. CASE s[k + 1] \notin T
      <3>1. f[k + 1] = t
        BY <2>2, <2>4 DEF OneMore
      <3>2. n \in Nat /\ k \in 0..n
        OBVIOUS
      <3>3. \A i \in 1..Len(t) : e[i] \in 1..n /\ e[i] <= k + 1
        <4>1. ASSUME NEW i \in 1..Len(t)
              PROVE  e[i] \in 1..n /\ e[i] <= k + 1
          <5>1. e[i] \in 1..n /\ e[i] <= k
            BY <2>1
          <5> QED
            BY <3>2, <5>1
        <4> QED
          BY <4>1
      <3>4. \A m \in 1..(k + 1) : m \in 1..k \/ m = k + 1
        BY <3>2
      <3>5. Good(k + 1, t, e)
        BY <2>1, <2>4, <3>3, <3>4
      <3> HIDE DEF Good
      <3> QED
        BY <2>2, <3>1, <3>5
    <2> QED
      BY <2>3, <2>4
  <1>4. n \in P
    <2>1. P \in SUBSET (0..n) /\ n \in 0..n /\ n \in Nat
      OBVIOUS
    <2> HIDE DEF P, n
    <2> QED
      BY <1>2, <1>3, <2>1, UpTo
  <1> QED
    BY <1>1, <1>4 DEF Filtered

-----------------------------------------------------------------------------
(* Members, repetitions and order *)

In(x, s) == \E i \in 1..Len(s) : s[i] = x

Once(s) == \A i, j \in 1..Len(s) : s[i] = s[j] => i = j

Precedes(s, x, y) == \E i, j \in 1..Len(s) : i < j /\ s[i] = x /\ s[j] = y

\* A filtered list has the elements that are in T, in their order, and none twice
\* that was not there twice.
LEMMA FilterMembers ==
    ASSUME NEW S, NEW s \in Seq(S), NEW T
    PROVE  /\ Filter(s, T) \in Seq(S)
           /\ \A x : In(x, Filter(s, T)) <=> x \in T /\ In(x, s)
           /\ \A x, y : Precedes(Filter(s, T), x, y)
                           <=> x \in T /\ y \in T /\ Precedes(s, x, y)
           /\ Once(s) => Once(Filter(s, T))
  <1> DEFINE t == Filter(s, T)
  <1>1. t \in Seq(S) /\ Filtered(s, T, t)
    BY Filtering
  <1> HIDE DEF t
  <1>2. PICK e \in [1..Len(t) -> 1..Len(s)] :
           /\ \A i \in 1..Len(t) : t[i] = s[e[i]] /\ t[i] \in T
           /\ \A i, j \in 1..Len(t) : i < j => e[i] < e[j]
           /\ \A k \in 1..Len(s) : s[k] \in T => \E i \in 1..Len(t) : e[i] = k
    BY <1>1 DEF Filtered
  <1>3. ASSUME NEW i \in 1..Len(t), NEW j \in 1..Len(t), e[i] < e[j]
        PROVE  i < j
    <2>1. i \in Int /\ j \in Int /\ e[i] \in Int /\ e[j] \in Int
      <3>1. e[i] \in 1..Len(s) /\ e[j] \in 1..Len(s)
        BY <1>2
      <3> QED
        BY <3>1
    <2>2. CASE j < i
      <3>1. e[j] < e[i]
        BY <1>2, <2>2
      <3> QED
        BY <1>3, <2>1, <3>1
    <2> QED
      BY <1>3, <2>1, <2>2
  <1>4. ASSUME NEW x
        PROVE  In(x, t) <=> x \in T /\ In(x, s)
    <2>1. CASE In(x, t)
      <3>1. PICK i \in 1..Len(t) : t[i] = x
        BY <2>1 DEF In
      <3>2. e[i] \in 1..Len(s) /\ s[e[i]] = x /\ x \in T
        BY <1>2, <3>1
      <3> QED
        BY <2>1, <3>2 DEF In
    <2>2. CASE x \in T /\ In(x, s)
      <3>1. PICK k \in 1..Len(s) : s[k] = x
        BY <2>2 DEF In
      <3>2. PICK i \in 1..Len(t) : e[i] = k
        BY <1>2, <2>2, <3>1
      <3>3. t[i] = x
        BY <1>2, <3>1, <3>2
      <3> QED
        BY <2>2, <3>3 DEF In
    <2> QED
      BY <2>1, <2>2
  <1>5. ASSUME NEW x, NEW y
        PROVE  Precedes(t, x, y) <=> x \in T /\ y \in T /\ Precedes(s, x, y)
    <2>1. CASE Precedes(t, x, y)
      <3>1. PICK i \in 1..Len(t), j \in 1..Len(t) : i < j /\ t[i] = x /\ t[j] = y
        BY <2>1 DEF Precedes
      <3>2. /\ e[i] \in 1..Len(s) /\ e[j] \in 1..Len(s) /\ e[i] < e[j]
            /\ s[e[i]] = x /\ s[e[j]] = y /\ x \in T /\ y \in T
        BY <3>1, <1>2
      <3> QED
        BY <2>1, <3>2 DEF Precedes
    <2>2. CASE x \in T /\ y \in T /\ Precedes(s, x, y)
      <3>1. PICK a \in 1..Len(s), b \in 1..Len(s) : a < b /\ s[a] = x /\ s[b] = y
        BY <2>2 DEF Precedes
      <3>2. PICK i \in 1..Len(t) : e[i] = a
        BY <1>2, <2>2, <3>1
      <3>3. PICK j \in 1..Len(t) : e[j] = b
        BY <1>2, <2>2, <3>1
      <3>4. t[i] = x /\ t[j] = y /\ e[i] < e[j]
        BY <1>2, <3>1, <3>2, <3>3
      <3>5. i < j
        BY <1>3, <3>4
      <3> QED
        BY <2>2, <3>4, <3>5 DEF Precedes
    <2> QED
      BY <2>1, <2>2
  <1>6. ASSUME Once(s), NEW i \in 1..Len(t), NEW j \in 1..Len(t), t[i] = t[j]
        PROVE  i = j
    <2>1. e[i] = e[j] /\ e[i] \in Int
      BY <1>2, <1>6 DEF Once
    <2>2. ~(i < j) /\ ~(j < i)
      BY <1>2, <2>1
    <2>3. i \in Int /\ j \in Int
      BY <1>1
    <2> QED
      BY <2>2, <2>3
  <1> QED
    BY <1>1, <1>4, <1>5, <1>6 DEF t, Once

\* An element put before a list that does not have it.
LEMMA PutFirst ==
    ASSUME NEW S, NEW s \in Seq(S), NEW r \in S
    PROVE  /\ <<r>> \o s \in Seq(S)
           /\ \A x : In(x, <<r>> \o s) <=> x = r \/ In(x, s)
           /\ \A x, y : Precedes(<<r>> \o s, x, y) <=> Precedes(s, x, y) \/ (x = r /\ In(y, s))
           /\ Once(s) /\ ~In(r, s) => Once(<<r>> \o s)
  <1> DEFINE t == <<r>> \o s
  <1>1. /\ t \in Seq(S) /\ Len(t) = Len(s) + 1 /\ t[1] = r
        /\ \A i \in 2..Len(t) : t[i] = s[i - 1]
    OBVIOUS
  <1>2. Len(s) \in Nat
    OBVIOUS
  <1> HIDE DEF t
  <1>3. /\ 1 \in 1..Len(t)
        /\ \A i \in 1..Len(t) : i = 1 \/ (i \in 2..Len(t) /\ i - 1 \in 1..Len(s) /\ t[i] = s[i - 1])
        /\ \A i \in 1..Len(s) : i + 1 \in 2..Len(t) /\ i + 1 \in 1..Len(t) /\ t[i + 1] = s[i]
    BY <1>1, <1>2
  <1>4. ASSUME NEW x
        PROVE  In(x, t) <=> x = r \/ In(x, s)
    <2>1. CASE In(x, t)
      <3>1. PICK i \in 1..Len(t) : t[i] = x
        BY <2>1 DEF In
      <3>2. x = r \/ (i - 1 \in 1..Len(s) /\ s[i - 1] = x)
        BY <1>1, <1>3, <3>1
      <3> QED
        BY <2>1, <3>2 DEF In
    <2>2. CASE x = r
      BY <1>1, <1>3, <2>2 DEF In
    <2>3. CASE In(x, s)
      <3>1. PICK i \in 1..Len(s) : s[i] = x
        BY <2>3 DEF In
      <3>2. i + 1 \in 1..Len(t) /\ t[i + 1] = x
        BY <1>3, <3>1
      <3> QED
        BY <2>3, <3>2 DEF In
    <2> QED
      BY <2>1, <2>2, <2>3
  <1>5. ASSUME NEW x, NEW y
        PROVE  Precedes(t, x, y) <=> Precedes(s, x, y) \/ (x = r /\ In(y, s))
    <2>1. CASE Precedes(t, x, y)
      <3>1. PICK i \in 1..Len(t), j \in 1..Len(t) : i < j /\ t[i] = x /\ t[j] = y
        BY <2>1 DEF Precedes
      <3>2. j # 1 /\ j - 1 \in 1..Len(s) /\ s[j - 1] = y
        BY <1>3, <3>1
      <3>3. CASE i = 1
        <4>1. x = r /\ In(y, s)
          BY <1>1, <3>1, <3>2, <3>3 DEF In
        <4> QED
          BY <2>1, <4>1
      <3>4. CASE i # 1
        <4>1. i - 1 \in 1..Len(s) /\ s[i - 1] = x /\ i - 1 < j - 1
          BY <1>3, <3>1, <3>4
        <4>2. Precedes(s, x, y)
          BY <3>2, <4>1 DEF Precedes
        <4> QED
          BY <2>1, <4>2
      <3> QED
        BY <3>3, <3>4
    <2>2. CASE Precedes(s, x, y)
      <3>1. PICK i \in 1..Len(s), j \in 1..Len(s) : i < j /\ s[i] = x /\ s[j] = y
        BY <2>2 DEF Precedes
      <3>2. i + 1 < j + 1 /\ i + 1 \in 1..Len(t) /\ j + 1 \in 1..Len(t)
            /\ t[i + 1] = x /\ t[j + 1] = y
        BY <1>3, <3>1
      <3>3. Precedes(t, x, y)
        BY <3>2 DEF Precedes
      <3> QED
        BY <2>2, <3>3
    <2>3. CASE x = r /\ In(y, s)
      <3>1. PICK j \in 1..Len(s) : s[j] = y
        BY <2>3 DEF In
      <3>2. 1 < j + 1 /\ j + 1 \in 1..Len(t) /\ t[j + 1] = y
        BY <1>3, <3>1
      <3> QED
        BY <1>1, <1>3, <2>3, <3>2 DEF Precedes
    <2> QED
      BY <2>1, <2>2, <2>3
  <1>6. ASSUME Once(s), ~In(r, s), NEW i \in 1..Len(t), NEW j \in 1..Len(t), t[i] = t[j]
        PROVE  i = j
    <2>1. CASE i = 1 \/ j = 1
      BY <1>1, <1>3, <1>6, <2>1 DEF In
    <2>2. CASE i # 1 /\ j # 1
      <3>1. /\ i - 1 \in 1..Len(s) /\ j - 1 \in 1..Len(s) /\ s[i - 1] = s[j - 1]
            /\ i \in Int /\ j \in Int
        BY <1>3, <1>6, <2>2
      <3>2. i - 1 = j - 1
        BY <1>6, <3>1 DEF Once
      <3> QED
        BY <3>1, <3>2
    <2> QED
      BY <2>1, <2>2
  <1> QED
    BY <1>1, <1>4, <1>5, <1>6 DEF t, Once

\* An increasing choice of places takes the i-th from no earlier than i.
LEMMA Increasing ==
    ASSUME NEW n \in Nat, NEW m \in Nat, NEW d \in [1..n -> 1..m],
           \A i, j \in 1..n : i < j => d[i] < d[j]
    PROVE  \A i \in 1..n : i <= d[i]
  <1> DEFINE P == {k \in 0..n : k = 0 \/ k <= d[k]}
  <1>1. 0 \in P
    OBVIOUS
  <1>2. ASSUME NEW k \in P, k < n
        PROVE  k + 1 \in P
    <2>1. k \in Nat /\ k + 1 \in 1..n /\ k + 1 \in 0..n /\ d[k + 1] \in 1..m
      BY <1>2
    <2>2. CASE k = 0
      BY <2>1, <2>2
    <2>3. CASE k # 0
      <3>1. k \in 1..n /\ d[k] \in 1..m /\ k <= d[k] /\ d[k] < d[k + 1]
        BY <1>2, <2>1, <2>3
      <3> QED
        BY <2>1, <3>1
    <2> QED
      BY <2>2, <2>3
  <1>3. P \in SUBSET (0..n)
    OBVIOUS
  <1>4. \A k \in 0..n : k \in P
    <2> HIDE DEF P
    <2> QED
      BY <1>1, <1>2, <1>3, UpTo
  <1>5. ASSUME NEW i \in 1..n
        PROVE  i <= d[i]
    <2>1. i \in 0..n /\ i # 0
      OBVIOUS
    <2> QED
      BY <1>4, <2>1
  <1> QED
    BY <1>5

\* What is in two lists, in an order the second keeps, is no earlier in the second
\* if the second has all of the first.
LEMMA NoEarlier ==
    ASSUME NEW S, NEW t \in Seq(S), NEW u \in Seq(S), Once(u),
           \A x : In(x, t) => In(x, u),
           \A x, y : Precedes(t, x, y) => Precedes(u, x, y),
           NEW i \in 1..Len(t), NEW j \in 1..Len(u), t[i] = u[j]
    PROVE  i <= j
  <1> DEFINE d == [k \in 1..Len(t) |-> CHOOSE l \in 1..Len(u) : u[l] = t[k]]
  <1>1. ASSUME NEW k \in 1..Len(t)
        PROVE  d[k] \in 1..Len(u) /\ u[d[k]] = t[k]
    <2>1. \E l \in 1..Len(u) : u[l] = t[k]
      BY DEF In
    <2> QED
      BY <2>1
  <1>2. d \in [1..Len(t) -> 1..Len(u)]
    BY <1>1
  <1> HIDE DEF d
  <1>3. ASSUME NEW k \in 1..Len(t), NEW l \in 1..Len(t), k < l
        PROVE  d[k] < d[l]
    <2>1. Precedes(t, t[k], t[l])
      BY <1>3 DEF Precedes
    <2>2. PICK a \in 1..Len(u), b \in 1..Len(u) : a < b /\ u[a] = t[k] /\ u[b] = t[l]
      BY <2>1 DEF Precedes
    <2>3. d[k] = a /\ d[l] = b
      BY <1>1, <2>2 DEF Once
    <2> QED
      BY <2>2, <2>3
  <1>4. i <= d[i]
    <2>1. Len(t) \in Nat /\ Len(u) \in Nat
      OBVIOUS
    <2> QED
      BY <1>2, <1>3, <2>1, Increasing
  <1>5. d[i] = j
    BY <1>1 DEF Once
  <1> QED
    BY <1>4, <1>5

\* Where x stands in t, no more stand before it than before y in u, if all that do
\* stand before y too.
LEMMA NotLater ==
    ASSUME NEW S, NEW t \in Seq(S), NEW u \in Seq(S), Once(t),
           NEW i \in 1..Len(t), NEW j \in 1..Len(u),
           \A x : Precedes(t, x, t[i]) => \E k \in 1..Len(u) : k < j /\ u[k] = x
    PROVE  i <= j
  <1> SUFFICES ASSUME j < i PROVE FALSE
    OBVIOUS
  <1> DEFINE f == [k \in 1..(i - 1) |-> CHOOSE l \in 1..(j - 1) : u[l] = t[k]]
  <1>1. ASSUME NEW k \in 1..(i - 1)
        PROVE  f[k] \in 1..(j - 1) /\ u[f[k]] = t[k]
    <2>1. Precedes(t, t[k], t[i])
      BY DEF Precedes
    <2>2. \E l \in 1..(j - 1) : u[l] = t[k]
      BY <2>1
    <2> QED
      BY <2>2
  <1>2. f \in [1..(i - 1) -> 1..(j - 1)]
    BY <1>1
  <1>3. /\ IsFiniteSet(1..(i - 1)) /\ IsFiniteSet(1..(j - 1))
        /\ Cardinality(1..(j - 1)) < Cardinality(1..(i - 1))
    <2>1. i - 1 \in Int /\ j - 1 \in Int /\ 1 \in Int /\ 1 <= j
      OBVIOUS
    <2>2. /\ IsFiniteSet(1..(i - 1)) /\ IsFiniteSet(1..(j - 1))
          /\ Cardinality(1..(i - 1)) = IF 1 > i - 1 THEN 0 ELSE (i - 1) - 1 + 1
          /\ Cardinality(1..(j - 1)) = IF 1 > j - 1 THEN 0 ELSE (j - 1) - 1 + 1
      BY <2>1, FS_Interval
    <2> QED
      BY <2>1, <2>2
  <1> HIDE DEF f
  <1> DEFINE A == 1..(i - 1)
             B == 1..(j - 1)
  <1>4. PICK k, l \in A : k # l /\ f[k] = f[l]
    <2>1. /\ f \in [A -> B] /\ IsFiniteSet(A) /\ IsFiniteSet(B)
          /\ Cardinality(B) < Cardinality(A)
      BY <1>2, <1>3
    <2> HIDE DEF A, B
    <2> QED
      BY <2>1, FS_PigeonHole
  <1>5. t[k] = t[l] /\ k \in 1..Len(t) /\ l \in 1..Len(t)
    BY <1>1, <1>4
  <1> QED
    BY <1>4, <1>5 DEF Once

\* A function on an interval is a list of its values.
LEMMA ListIf ==
    ASSUME NEW n \in Nat, NEW t, t = [k \in 1..n |-> t[k]]
    PROVE  IsList(t)
  <1>1. t \in [1..n -> ToSet(t)]
    BY DEF ToSet
  <1> QED
    BY <1>1 DEF IsList

\* A sequence over some set is a list.
LEMMA ListOf ==
    ASSUME NEW S, NEW t \in Seq(S)
    PROVE  IsList(t) /\ ToSet(t) \subseteq S
  <1>1. Len(t) \in Nat /\ DOMAIN t = 1..Len(t) /\ t = [k \in 1..Len(t) |-> t[k]]
        /\ \A k \in 1..Len(t) : t[k] \in S
    OBVIOUS
  <1>2. IsList(t)
    BY <1>1, ListIf
  <1> QED
    BY <1>1, <1>2 DEF ToSet

\* A list whose elements are in T is a sequence over T.
LEMMA ListWithin ==
    ASSUME NEW t, IsList(t), NEW S, ToSet(t) \subseteq S
    PROVE  t \in Seq(S)
  BY DEF IsList

\* The same, element by element.
LEMMA ListMembers ==
    ASSUME NEW s, IsList(s), NEW T
    PROVE  IsList(Filter(s, T)) /\ ToSet(Filter(s, T)) = ToSet(s) \cap T
  <1> DEFINE S == ToSet(s)
             t == Filter(s, T)
  <1>1. s \in Seq(S)
    BY DEF IsList
  <1>2. t \in Seq(S) /\ \A x : In(x, t) <=> x \in T /\ In(x, s)
    <2> HIDE DEF S
    <2> QED
      BY <1>1, FilterMembers
  <1>3. \A x : (In(x, t) <=> x \in ToSet(t)) /\ (In(x, s) <=> x \in ToSet(s))
    <2> HIDE DEF t, S
    <2> QED
      BY <1>1, <1>2 DEF In, ToSet
  <1>4. ToSet(t) = ToSet(s) \cap T
    <2> HIDE DEF t, S
    <2> QED
      BY <1>2, <1>3
  <1>5. IsList(t)
    <2> HIDE DEF t, S
    <2> QED
      BY <1>2, ListOf
  <1> QED
    BY <1>4, <1>5

=============================================================================
