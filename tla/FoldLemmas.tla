----------------------------- MODULE FoldLemmas -----------------------------
(***************************************************************************)
(* What folds compute, for sets and sequences of any size.  Induction is   *)
(* stated with sets in place of predicates: finite sets are well founded   *)
(* under inclusion, and that is a fact about one relation.                 *)
(***************************************************************************)
EXTENDS Integers, Sequences, FiniteSets, SequencesExt, FiniteSetTheorems, TLAPS

\* c takes an element away from every set that is not empty.
Chooses(c, S) == \A T \in SUBSET S : T # {} => c[T] \in T

\* G contains the empty set, and a set as soon as it contains it without the chosen element.
Inductive(G, S, c) ==
    {} \in G /\ \A T \in SUBSET S : T # {} /\ T \ {c[T]} \in G => T \in G

\* g is defined by what it is for the empty set and by how it follows, for any other one,
\* from its value without the chosen element.
Follows(g, S, c, base, h) ==
    \A T \in SUBSET S : g[T] = IF T = {} THEN base ELSE h[<<g[T \ {c[T]}], c[T]>>]

-----------------------------------------------------------------------------
\* Induction

\* Among subsets of a finite set there is one that contains no other.
LEMMA SmallestSubset ==
  ASSUME NEW S, IsFiniteSet(S), NEW F \in SUBSET (SUBSET S), F # {}
  PROVE  \E T \in F : \A U \in F : U \subseteq T => U = T
<1> DEFINE R == StrictSubsetOrdering(S)
           X == FiniteSubsetsOf(S)
<1>1. IsWellFoundedOn(R, X)
  BY FS_StrictSubsetOrderingWellFounded
<1>2. F \subseteq X
  BY FS_FiniteSubsetsOfFinite
<1> HIDE DEF R, X
<1>3. \E T \in F : \A U \in F : ~(<<U, T>> \in R)
  BY <1>1, <1>2, WFMin
<1> QED
  BY <1>3 DEF R, StrictSubsetOrdering

\* A set that contains 0 and the successors of its numbers contains all numbers.
LEMMA Induction ==
  ASSUME NEW G, 0 \in G, \A n \in Nat : n \in G => n + 1 \in G
  PROVE  \A n \in Nat : n \in G
<1>1. SUFFICES ASSUME NEW n \in Nat, n \notin G PROVE FALSE
  OBVIOUS
<1> DEFINE B == {m \in 0 .. n : m \notin G}
           F == {0 .. m : m \in B}
<1>2. /\ B \subseteq 0 .. n /\ n \in B /\ IsFiniteSet(0 .. n)
      /\ \A X : X \in F <=> \E m \in B : X = 0 .. m
  <2>1. IsFiniteSet(0 .. n)
    BY FS_Interval
  <2>2. B \subseteq 0 .. n /\ n \in B
    BY <1>1
  <2> QED
    BY <2>1, <2>2
<1>3. PICK m \in B : \A k \in B : 0 .. k \subseteq 0 .. m => 0 .. k = 0 .. m
  <2> HIDE DEF B, F
  <2>1. F \in SUBSET (SUBSET (0 .. n))
    <3>1. ASSUME NEW m \in B PROVE 0 .. m \subseteq 0 .. n
      BY <1>2
    <3> QED
      BY <1>2, <3>1
  <2>2. F # {}
    BY <1>2
  <2>3. PICK T \in F : \A U \in F : U \subseteq T => U = T
    <3> DEFINE J == 0 .. n
    <3>1. IsFiniteSet(J) /\ F \in SUBSET (SUBSET J)
      BY <1>2, <2>1
    <3> HIDE DEF J
    <3> QED
      BY <2>2, <3>1, SmallestSubset
  <2>4. PICK m \in B : T = 0 .. m
    BY <1>2, <2>3
  <2>5. \A k \in B : 0 .. k \in F
    BY <1>2
  <2> QED
    BY <2>3, <2>4, <2>5
<1>4. m # 0 /\ m - 1 \in B
  BY <1>3
<1>5. 0 .. (m - 1) \subseteq 0 .. m /\ m \in 0 .. m /\ m \notin 0 .. (m - 1)
  BY <1>3
<1> QED
  BY <1>3, <1>4, <1>5

\* So does an inductive set with the subsets of a finite set.
LEMMA ChoiceInduction ==
  ASSUME NEW S, IsFiniteSet(S), NEW c, Chooses(c, S),
         NEW G, Inductive(G, S, c)
  PROVE  \A T \in SUBSET S : T \in G
<1> USE DEF Inductive
<1>1. SUFFICES ASSUME NEW T \in SUBSET S, T \notin G PROVE FALSE
  OBVIOUS
<1> DEFINE F == {U \in SUBSET S : U \notin G}
<1>2. F \in SUBSET (SUBSET S) /\ F # {}
  BY <1>1
<1>3. PICK U \in F : \A W \in F : W \subseteq U => W = U
  <2> HIDE DEF F
  <2> QED
    BY <1>2, SmallestSubset
<1>4. U # {} /\ U \in SUBSET S /\ c[U] \in U /\ U \notin G
  BY <1>3 DEF Chooses
<1>5. U \ {c[U]} \in SUBSET S /\ U \ {c[U]} # U /\ U \ {c[U]} \subseteq U
  BY <1>4
<1>6. U \ {c[U]} \in G
  BY <1>3, <1>5
<1> QED
  BY <1>4, <1>6

-----------------------------------------------------------------------------
\* Recursion over the subsets of a finite set

LEMMA RecursionExists ==
  ASSUME NEW S, IsFiniteSet(S), NEW c, Chooses(c, S),
         NEW V, NEW base \in V, NEW h \in [V \X S -> V]
  PROVE  \E g \in [SUBSET S -> V] : Follows(g, S, c, base, h)
<1> USE DEF Chooses
<1> DEFINE Holds(g, T) == g[T] = IF T = {} THEN base ELSE h[<<g[T \ {c[T]}], c[T]>>]
           Upto(g, n) == \A T \in SUBSET S : Cardinality(T) <= n => Holds(g, T)
           G == {n \in Nat : \E g \in [SUBSET S -> V] : Upto(g, n)}
<1>0. \A T \in SUBSET S :
         /\ IsFiniteSet(T) /\ Cardinality(T) \in Nat
         /\ Cardinality(T) = 0 <=> T = {}
         /\ T # {} => /\ T \ {c[T]} \in SUBSET S
                      /\ Cardinality(T \ {c[T]}) = Cardinality(T) - 1
  <2> TAKE T \in SUBSET S
  <2>1. IsFiniteSet(T)
    BY FS_Subset
  <2>2. Cardinality(T) \in Nat
    BY <2>1, FS_CardinalityType
  <2>3. Cardinality(T) = 0 <=> T = {}
    BY <2>1, FS_EmptySet
  <2>4. T # {} => Cardinality(T \ {c[T]}) = Cardinality(T) - 1
    BY <2>1, FS_RemoveElement
  <2> QED
    BY <2>1, <2>2, <2>3, <2>4
<1>1. 0 \in G
  <2> DEFINE g == [T \in SUBSET S |-> base]
  <2>1. g \in [SUBSET S -> V]
    OBVIOUS
  <2>2. ASSUME NEW T \in SUBSET S, Cardinality(T) <= 0 PROVE Holds(g, T)
    <3>1. Cardinality(T) \in Nat /\ (Cardinality(T) = 0 <=> T = {})
      BY <1>0
    <3>2. T = {}
      BY <2>2, <3>1
    <3>3. g[T] = base
      OBVIOUS
    <3> HIDE DEF g
    <3> QED
      BY <3>2, <3>3
  <2> HIDE DEF g
  <2> QED
    BY <2>1, <2>2
<1>2. ASSUME NEW n \in Nat, n \in G PROVE n + 1 \in G
  <2>1. PICK g \in [SUBSET S -> V] : Upto(g, n)
    BY <1>2
  <2> DEFINE f == [T \in SUBSET S |->
                     IF Cardinality(T) <= n THEN g[T] ELSE h[<<g[T \ {c[T]}], c[T]>>]]
  <2>2. ASSUME NEW T \in SUBSET S, ~(Cardinality(T) <= n)
        PROVE  T # {} /\ <<g[T \ {c[T]}], c[T]>> \in V \X S
    <3>1. Cardinality(T) \in Nat /\ (Cardinality(T) = 0 <=> T = {})
      BY <1>0
    <3>2. T # {}
      BY <2>2, <3>1
    <3> QED
      BY <3>2
  <2>3. f \in [SUBSET S -> V]
    BY <2>2
  <2>4. ASSUME NEW T \in SUBSET S, Cardinality(T) <= n + 1 PROVE Holds(f, T)
    <3>1. CASE Cardinality(T) <= n
      <4>1. Holds(g, T) /\ f[T] = g[T]
        BY <2>1, <3>1
      <4>2. ASSUME T # {} PROVE f[T \ {c[T]}] = g[T \ {c[T]}]
        <5> DEFINE U == T \ {c[T]}
        <5>1. /\ Cardinality(T) \in Nat /\ U \in SUBSET S
              /\ Cardinality(U) = Cardinality(T) - 1
          BY <1>0, <4>2, Zenon
        <5> HIDE DEF U
        <5>2. Cardinality(U) <= n
          BY <3>1, <5>1
        <5>3. f[U] = g[U]
          BY <5>1, <5>2
        <5> QED
          BY <5>3 DEF U
      <4> QED
        BY <4>1, <4>2
    <3>2. CASE ~(Cardinality(T) <= n)
      <4>1. T # {} /\ f[T] = h[<<g[T \ {c[T]}], c[T]>>]
        BY <2>2, <3>2
      <4>2. f[T \ {c[T]}] = g[T \ {c[T]}]
        <5> DEFINE U == T \ {c[T]}
        <5>1. /\ Cardinality(T) \in Nat /\ U \in SUBSET S
              /\ Cardinality(U) = Cardinality(T) - 1
          BY <1>0, <4>1, Zenon
        <5> HIDE DEF U
        <5>2. Cardinality(U) <= n
          BY <2>4, <5>1
        <5>3. f[U] = g[U]
          BY <5>1, <5>2
        <5> QED
          BY <5>3 DEF U
      <4> QED
        BY <4>1, <4>2
    <3> QED
      BY <3>1, <3>2
  <2> HIDE DEF f
  <2>5. Upto(f, n + 1)
    BY <2>4
  <2>6. \E e \in [SUBSET S -> V] : Upto(e, n + 1)
    <3> HIDE DEF Upto
    <3> QED
      BY <2>3, <2>5
  <2>7. n + 1 \in Nat
    OBVIOUS
  <2> HIDE DEF Upto
  <2> QED
    BY <2>6, <2>7
<1>3. Cardinality(S) \in G
  <2> HIDE DEF G
  <2>1. Cardinality(S) \in Nat
    BY <1>0
  <2> QED
    BY <1>1, <1>2, <2>1, Induction
<1>4. PICK g \in [SUBSET S -> V] : Upto(g, Cardinality(S))
  BY <1>3
<1>5. \A T \in SUBSET S : Cardinality(T) <= Cardinality(S)
  BY FS_Subset
<1> QED
  BY <1>4, <1>5 DEF Follows

-----------------------------------------------------------------------------
\* Recursion along a sequence

\* The last of the first numbers.
LEMMA MaxOfInterval ==
  ASSUME NEW n \in Nat \ {0}
  PROVE  Max(1 .. n) = n
<1>1. n \in 1 .. n /\ \A y \in 1 .. n : n >= y
  OBVIOUS
<1>2. \A x \in 1 .. n : (\A y \in 1 .. n : x >= y) => x = n
  OBVIOUS
<1> QED
  BY <1>1, <1>2 DEF Max

\* A finite set of numbers that is not empty has a greatest one.
LEMMA MaxOfFinite ==
  ASSUME NEW S, S \subseteq Int, IsFiniteSet(S), S # {}
  PROVE  Max(S) \in S /\ \A y \in S : Max(S) >= y
<1> DEFINE Above(x) == {y \in S : y > x}
           F == {Above(x) : x \in S}
<1>1. F \in SUBSET (SUBSET S) /\ F # {} /\ \A x \in S : Above(x) \in F
  OBVIOUS
<1>2. PICK U \in F : \A W \in F : W \subseteq U => W = U
  <2>0. F \in SUBSET (SUBSET S) /\ F # {}
    BY <1>1
  <2> HIDE DEF F
  <2>1. \E U \in F : \A W \in F : W \subseteq U => W = U
    BY ONLY IsFiniteSet(S), <2>0, SmallestSubset
  <2> QED
    BY <2>1
<1>3. PICK x \in S : U = Above(x)
  BY <1>2
<1>4. ASSUME NEW y \in S, y > x PROVE FALSE
  <2>1. Above(y) \subseteq Above(x) /\ y \in Above(x) /\ y \notin Above(y)
    <3> HIDE DEF F
    <3>1. x \in Int /\ y \in Int /\ \A z \in S : z \in Int
      BY <1>3
    <3>2. \A z \in S : z > y => z > x
      BY <1>4, <3>1
    <3>3. y > x /\ ~(y > y)
      BY <1>4, <3>1
    <3> QED
      BY <3>2, <3>3
  <2> HIDE DEF Above, F
  <2> QED
    BY <1>1, <1>2, <1>3, <2>1
<1>5. \A y \in S : x >= y
  BY <1>4
<1> QED
  BY <1>5 DEF Max

\* The first indices of a sequence: the last of them, and those before it.
LEMMA FirstIndices ==
  ASSUME NEW A, NEW s \in Seq(A), NEW k \in 1 .. Len(s)
  PROVE  /\ 1 .. k \in SUBSET DOMAIN s /\ 1 .. k # {}
         /\ Max(1 .. k) = k /\ (1 .. k) \ {Max(1 .. k)} = 1 .. (k - 1)
<1>1. DOMAIN s = 1 .. Len(s) /\ Len(s) \in Nat
  OBVIOUS
<1>2. k \in Nat \ {0} /\ k \in 1 .. k /\ (1 .. k) \ {k} = 1 .. (k - 1)
  BY <1>1
<1>3. \A i \in 1 .. k : i \in 1 .. Len(s)
  BY <1>1
<1>4. Max(1 .. k) = k
  BY <1>2, MaxOfInterval
<1> QED
  BY <1>1, <1>2, <1>3, <1>4

\* g folds the elements of s, of any set of indices the last one last.
FoldsDown(g, s, base, h) ==
    \A T \in SUBSET DOMAIN s :
        g[T] = IF T = {} THEN base ELSE h[<<g[T \ {Max(T)}], s[Max(T)]>>]

\* Recursion over the indices of a sequence, from its last element down, as a fold does it.
LEMMA SequenceRecursion ==
  ASSUME NEW A, NEW s \in Seq(A), NEW V, NEW base \in V, NEW h \in [V \X A -> V]
  PROVE  \E g \in [SUBSET DOMAIN s -> V] : FoldsDown(g, s, base, h)
<1> DEFINE S == DOMAIN s
           c == [T \in SUBSET S |-> Max(T)]
           e == [p \in V \X S |-> h[<<p[1], s[p[2]]>>]]
<1>1. S = 1 .. Len(s) /\ S \subseteq Int /\ IsFiniteSet(S) /\ \A i \in S : s[i] \in A
  <2>1. S = 1 .. Len(s) /\ Len(s) \in Nat /\ \A i \in S : s[i] \in A
    OBVIOUS
  <2>2. IsFiniteSet(1 .. Len(s))
    BY <2>1, FS_Interval
  <2> QED
    BY <2>1, <2>2
<1>2. ASSUME NEW T \in SUBSET S, T # {} PROVE c[T] = Max(T) /\ c[T] \in T
  <2>1. IsFiniteSet(T) /\ T \subseteq Int
    BY <1>1, FS_Subset
  <2> QED
    BY <1>2, <2>1, MaxOfFinite
<1>3. e \in [V \X S -> V]
  BY <1>1
<1>4. \E g \in [SUBSET S -> V] : Follows(g, S, c, base, e)
  <2> HIDE DEF S, c, e
  <2>1. Chooses(c, S)
    BY <1>2 DEF Chooses
  <2> QED
    BY <1>1, <1>3, <2>1, RecursionExists
<1>5. PICK g \in [SUBSET S -> V] :
         \A T \in SUBSET S : g[T] = IF T = {} THEN base ELSE e[<<g[T \ {c[T]}], c[T]>>]
  <2> HIDE DEF S, c, e
  <2> QED
    BY <1>4 DEF Follows
<1>6. ASSUME NEW T \in SUBSET S
      PROVE  g[T] = IF T = {} THEN base ELSE h[<<g[T \ {Max(T)}], s[Max(T)]>>]
  <2>1. CASE T = {}
    BY <1>5, <2>1
  <2>2. CASE T # {}
    <3>1. /\ c[T] = Max(T) /\ c[T] \in S /\ g[T \ {c[T]}] \in V
          /\ g[T] = e[<<g[T \ {c[T]}], c[T]>>]
      BY <1>2, <1>5, <2>2
    <3>2. e[<<g[T \ {c[T]}], c[T]>>] = h[<<g[T \ {c[T]}], s[c[T]]>>]
      BY <3>1
    <3> QED
      BY <2>2, <3>1, <3>2
  <2> QED
    BY <2>1, <2>2
<1> QED
  BY <1>6 DEF FoldsDown

-----------------------------------------------------------------------------
\* Sums along a sequence

SumSeq(s) == FoldLeft(LAMBDA x, y : x + y, 0, s)

\* The sum of a sequence is the last one of its partial sums.
LEMMA SumIsPartialSum ==
  ASSUME NEW s \in Seq(Int)
  PROVE  \E f \in [0 .. Len(s) -> Int] :
            f[0] = 0 /\ f[Len(s)] = SumSeq(s) /\ \A k \in 1 .. Len(s) : f[k] = f[k - 1] + s[k]
<1> DEFINE S == DOMAIN s
           h == [p \in Int \X Int |-> p[1] + p[2]]
           Eqn(g) == g = [T \in SUBSET S |-> IF T = {} THEN 0 ELSE g[T \ {Max(T)}] + s[Max(T)]]
           it == CHOOSE g : Eqn(g)
<1>1. S = 1 .. Len(s) /\ Len(s) \in Nat /\ IsFiniteSet(S) /\ \A i \in S : s[i] \in Int
  BY FS_Interval
<1>2. SumSeq(s) = it[S]
  BY Zenon DEF SumSeq, FoldLeft, MapThenFoldSet
<1>3. PICK g \in [SUBSET S -> Int] :
         \A T \in SUBSET S : g[T] = IF T = {} THEN 0 ELSE h[<<g[T \ {Max(T)}], s[Max(T)]>>]
  <2> DEFINE V == Int
  <2>1. h \in [V \X V -> V] /\ 0 \in V /\ s \in Seq(V)
    OBVIOUS
  <2> HIDE DEF h, V
  <2>2. \E g \in [SUBSET DOMAIN s -> V] : FoldsDown(g, s, 0, h)
    BY ONLY <2>1, SequenceRecursion, Zenon
  <2>3. PICK g \in [SUBSET S -> V] : FoldsDown(g, s, 0, h)
    BY <2>2
  <2>4. \A T \in SUBSET S : g[T] = IF T = {} THEN 0 ELSE h[<<g[T \ {Max(T)}], s[Max(T)]>>]
    BY <2>3 DEF FoldsDown
  <2> QED
    BY <2>4 DEF V
<1>4. ASSUME NEW T \in SUBSET S, T # {} PROVE Max(T) \in S
  BY <1>1, <1>4, FS_Subset, MaxOfFinite
<1>5. ASSUME NEW T \in SUBSET S
      PROVE  g[T] = IF T = {} THEN 0 ELSE g[T \ {Max(T)}] + s[Max(T)]
  <2>1. CASE T = {}
    BY <1>3, <2>1
  <2>2. CASE T # {}
    <3>1. /\ g[T \ {Max(T)}] \in Int /\ s[Max(T)] \in Int
          /\ g[T] = h[<<g[T \ {Max(T)}], s[Max(T)]>>]
      BY <1>1, <1>3, <1>4, <2>2
    <3> QED
      BY <2>2, <3>1
  <2> QED
    BY <2>1, <2>2
<1>8. Eqn(g)
  BY <1>5
<1>9. Eqn(it)
  <2> HIDE DEF Eqn
  <2> QED
    BY <1>8
<1> DEFINE f == [k \in 0 .. Len(s) |-> it[1 .. k]]
<1>10. it[{}] = 0 /\ \A k \in 1 .. Len(s) : it[1 .. k] = it[1 .. (k - 1)] + s[k]
  <2>1. \A T \in SUBSET S : it[T] = IF T = {} THEN 0 ELSE it[T \ {Max(T)}] + s[Max(T)]
    BY <1>9
  <2> HIDE DEF it
  <2>2. ASSUME NEW k \in 1 .. Len(s) PROVE it[1 .. k] = it[1 .. (k - 1)] + s[k]
    BY <2>1, FirstIndices
  <2> QED
    BY <2>1, <2>2
<1> HIDE DEF it
<1>11. 1 .. 0 = {} /\ f[0] = 0 /\ f[Len(s)] = SumSeq(s)
  BY <1>1, <1>2, <1>10
<1>12. \A k \in 1 .. Len(s) : f[k] = f[k - 1] + s[k]
  BY <1>1, <1>10
<1>f. f = [k \in 0 .. Len(s) |-> f[k]]
  OBVIOUS
<1> HIDE DEF f
<1>13. ASSUME NEW n \in Nat PROVE n \in {m \in Nat : m <= Len(s) => f[m] \in Int}
  <2> DEFINE G == {m \in Nat : m <= Len(s) => f[m] \in Int}
  <2>1. 0 \in G
    BY <1>11
  <2>2. ASSUME NEW m \in Nat, m \in G PROVE m + 1 \in G
    BY <1>1, <1>12, <2>2
  <2> HIDE DEF G
  <2> QED
    BY <2>1, <2>2, Induction DEF G
<1>14. f \in [0 .. Len(s) -> Int]
  BY <1>1, <1>13, <1>f
<1> QED
  BY <1>11, <1>12, <1>14

\* A number at the end of a sequence is added to its sum.
LEMMA SumAppended ==
  /\ SumSeq(<<>>) = 0
  /\ \A s \in Seq(Int) : SumSeq(s) \in Int
  /\ \A s \in Seq(Int), v \in Int : SumSeq(Append(s, v)) = SumSeq(s) + v
<1>1. SumSeq(<<>>) = 0
  <2>1. <<>> \in Seq(Int) /\ Len(<<>>) = 0
    OBVIOUS
  <2> QED
    BY <2>1, SumIsPartialSum
<1>2. ASSUME NEW s \in Seq(Int) PROVE SumSeq(s) \in Int
  <2>1. Len(s) \in 0 .. Len(s)
    OBVIOUS
  <2> QED
    BY <2>1, SumIsPartialSum
<1>3. ASSUME NEW s \in Seq(Int), NEW v \in Int PROVE SumSeq(Append(s, v)) = SumSeq(s) + v
  <2> DEFINE t == Append(s, v)
             n == Len(s)
  <2>1. /\ n \in Nat /\ t \in Seq(Int) /\ Len(t) = n + 1
        /\ t[n + 1] = v /\ \A i \in 1 .. n : t[i] = s[i]
    OBVIOUS
  <2>2. PICK f \in [0 .. Len(s) -> Int] :
           f[0] = 0 /\ f[Len(s)] = SumSeq(s) /\ \A k \in 1 .. Len(s) : f[k] = f[k - 1] + s[k]
    BY SumIsPartialSum
  <2> HIDE DEF t
  <2>3. PICK g \in [0 .. Len(t) -> Int] :
           g[0] = 0 /\ g[Len(t)] = SumSeq(t) /\ \A k \in 1 .. Len(t) : g[k] = g[k - 1] + t[k]
    BY <2>1, SumIsPartialSum
  <2> DEFINE G == {m \in Nat : m <= n => g[m] = f[m]}
  <2>4. 0 \in G
    BY <2>2, <2>3
  <2>5. ASSUME NEW m \in Nat, m \in G PROVE m + 1 \in G
    <3>1. ASSUME m + 1 <= n PROVE g[m + 1] = f[m + 1]
      <4>1. m + 1 \in 1 .. n /\ m + 1 \in 1 .. Len(t) /\ (m + 1) - 1 = m
        BY <2>1, <3>1
      <4>2. g[m] = f[m] /\ t[m + 1] = s[m + 1]
        BY <2>1, <2>5, <4>1
      <4> QED
        BY <2>2, <2>3, <4>1, <4>2
    <3> QED
      BY <3>1
  <2>6. n \in G
    <3> HIDE DEF G
    <3> QED
      BY <2>1, <2>4, <2>5, Induction
  <2>7. g[n + 1] = g[n] + v
    <3>1. n + 1 \in 1 .. Len(t) /\ (n + 1) - 1 = n
      BY <2>1
    <3> QED
      BY <2>1, <2>3, <3>1
  <2> QED
    BY <2>1, <2>2, <2>3, <2>6, <2>7 DEF t
<1> QED
  BY <1>1, <1>2, <1>3

-----------------------------------------------------------------------------
\* Sums over a set

SumFun(f) == FoldFunction(LAMBDA x, y : x + y, 0, f)

Pick(S) == [T \in SUBSET S |-> CHOOSE x \in T : TRUE]

LEMMA PickChooses == \A S : Chooses(Pick(S), S)
  BY DEF Chooses, Pick

\* g adds the value of one element of S after the other, up to the sum of f.
AddsUp(g, f, S) ==
    /\ g[S] = SumFun(f) /\ g[{}] = 0
    /\ \A T \in SUBSET S : T # {} => g[T] = f[Pick(S)[T]] + g[T \ {Pick(S)[T]}]

LEMMA SumFunFollows ==
  ASSUME NEW S, IsFiniteSet(S), NEW f \in [S -> Int]
  PROVE  \E g \in [SUBSET S -> Int] : AddsUp(g, f, S)
<1> DEFINE c == Pick(S)
           h == [p \in Int \X S |-> f[p[2]] + p[1]]
           Eqn(g) == g = [T \in SUBSET S |->
                            IF T = {} THEN 0
                            ELSE LET x == CHOOSE x \in T : TRUE IN f[x] + g[T \ {x}]]
           it == CHOOSE g : Eqn(g)
<1>1. SumFun(f) = it[S]
  <2>1. DOMAIN f = S
    OBVIOUS
  <2>2. SumFun(f) = (CHOOSE g : g = [T \in SUBSET (DOMAIN f) |->
                                        IF T = {} THEN 0
                                        ELSE LET x == CHOOSE x \in T : TRUE
                                             IN  f[x] + g[T \ {x}]])[DOMAIN f]
    BY Zenon DEF SumFun, FoldFunction, FoldFunctionOnSet, MapThenFoldSet
  <2> QED
    BY <2>1, <2>2, Zenon
<1>2. \E g \in [SUBSET S -> Int] : Follows(g, S, c, 0, h)
  <2> DEFINE V == Int
  <2>1. h \in [V \X S -> V] /\ 0 \in V
    OBVIOUS
  <2>2. Chooses(c, S)
    BY PickChooses
  <2> HIDE DEF c, h, V
  <2>3. \E g \in [SUBSET S -> V] : Follows(g, S, c, 0, h)
    BY ONLY IsFiniteSet(S), <2>1, <2>2, RecursionExists
  <2> QED
    BY <2>3 DEF V
<1>3. PICK g \in [SUBSET S -> Int] :
         \A T \in SUBSET S : g[T] = IF T = {} THEN 0 ELSE h[<<g[T \ {c[T]}], c[T]>>]
  <2> HIDE DEF c, h
  <2> QED
    BY <1>2 DEF Follows
<1>4. ASSUME NEW T \in SUBSET S, T # {}
      PROVE  c[T] = (CHOOSE x \in T : TRUE) /\ c[T] \in T /\ g[T] = f[c[T]] + g[T \ {c[T]}]
  <2>1. c[T] = (CHOOSE x \in T : TRUE) /\ c[T] \in T
    BY <1>4 DEF Pick
  <2> HIDE DEF c
  <2>2. c[T] \in S /\ g[T \ {c[T]}] \in Int
    BY <2>1
  <2>3. g[T] = h[<<g[T \ {c[T]}], c[T]>>]
    BY <1>3, <1>4
  <2> QED
    BY <2>1, <2>2, <2>3
<1>5. Eqn(g)
  <2>1. g[{}] = 0
    BY <1>3
  <2>2. ASSUME NEW T \in SUBSET S, T # {}
        PROVE  g[T] = LET x == CHOOSE x \in T : TRUE IN f[x] + g[T \ {x}]
    BY <1>4, <2>2, Zenon
  <2> QED
    BY <2>1, <2>2
<1>6. Eqn(it)
  <2> HIDE DEF Eqn
  <2> QED
    BY <1>5
<1>7. /\ it = [T \in SUBSET S |-> it[T]] /\ it[{}] = 0
      /\ \A T \in SUBSET S : T # {} => it[T] = f[c[T]] + it[T \ {c[T]}]
  <2>1. it = [T \in SUBSET S |-> IF T = {} THEN 0
                                ELSE LET x == CHOOSE x \in T : TRUE IN f[x] + it[T \ {x}]]
    BY <1>6
  <2> HIDE DEF it
  <2>2. ASSUME NEW T \in SUBSET S, T # {} PROVE it[T] = f[c[T]] + it[T \ {c[T]}]
    <3>1. it[T] = LET x == CHOOSE x \in T : TRUE IN f[x] + it[T \ {x}]
      BY <2>1, <2>2
    <3>2. c[T] = CHOOSE x \in T : TRUE
      BY <1>4, <2>2
    <3> HIDE DEF c
    <3> QED
      BY <3>1, <3>2, Zenon
  <2> QED
    BY <2>1, <2>2
<1> HIDE DEF it, c, Eqn
<1> DEFINE G == {T \in SUBSET S : it[T] \in Int}
<1>8. ASSUME NEW T \in SUBSET S, T # {}, T \ {c[T]} \in G PROVE T \in G
  <2>1. c[T] \in S /\ it[T] = f[c[T]] + it[T \ {c[T]}]
    BY <1>4, <1>7, <1>8
  <2>2. f[c[T]] \in Int /\ it[T \ {c[T]}] \in Int
    BY <1>8, <2>1
  <2> QED
    BY <2>1, <2>2
<1>9. \A T \in SUBSET S : T \in G
  <2>1. {} \in G
    BY <1>7
  <2>2. Chooses(c, S)
    BY PickChooses DEF c
  <2> HIDE DEF G
  <2>3. \A T \in SUBSET S : T \in G
    <3>1. Inductive(G, S, c)
      BY <1>8, <2>1 DEF Inductive
    <3> QED
      BY <2>2, <3>1, ChoiceInduction
  <2> QED
    BY <2>3
<1>10. it \in [SUBSET S -> Int]
  BY <1>7, <1>9
<1> QED
  BY <1>1, <1>7, <1>10 DEF c, AddsUp

\* g is f with m taken from s and given to d.
Moves(g, f, s, d, m) == g = [f EXCEPT ![s] = f[s] - m, ![d] = f[d] + m]

\* What one element gives and another one takes does not change the sum.
LEMMA SumFunMoved ==
  ASSUME NEW S, IsFiniteSet(S), NEW f \in [S -> Int], NEW g \in [S -> Int],
         NEW s \in S, NEW d \in S, s # d, NEW m \in Int,
         Moves(g, f, s, d, m)
  PROVE  SumFun(g) = SumFun(f)
<1> USE DEF Moves
<1> DEFINE c == Pick(S)
<1>0. ASSUME NEW e \in [S -> Int] PROVE \E F \in [SUBSET S -> Int] : AddsUp(F, e, S)
  BY SumFunFollows
<1>1. PICK F \in [SUBSET S -> Int] : AddsUp(F, f, S)
  BY <1>0
<1>2. PICK H \in [SUBSET S -> Int] : AddsUp(H, g, S)
  BY <1>0
<1>3. Chooses(c, S)
  BY PickChooses
<1> HIDE DEF c
<1> DEFINE Moved(T) == (IF d \in T THEN m ELSE 0) - (IF s \in T THEN m ELSE 0)
           G == {T \in SUBSET S : H[T] = F[T] + Moved(T)}
<1>4. {} \in G
  BY <1>1, <1>2 DEF AddsUp
<1>5. ASSUME NEW T \in SUBSET S, T # {}, T \ {c[T]} \in G PROVE T \in G
  <2> DEFINE x == c[T]
             U == T \ {x}
  <2>1. x \in T /\ x \in S /\ U \in SUBSET S
    BY <1>3, <1>5 DEF Chooses
  <2>2. F[T] = f[x] + F[U] /\ H[T] = g[x] + H[U] /\ H[U] = F[U] + Moved(U)
    BY <1>1, <1>2, <1>5 DEF AddsUp, c
  <2>3. /\ d \in U <=> d \in T /\ x # d
        /\ s \in U <=> s \in T /\ x # s
    OBVIOUS
  <2>4. /\ f[x] \in Int /\ F[U] \in Int /\ F[T] \in Int
        /\ g[x] = IF x = d THEN f[x] + m ELSE IF x = s THEN f[x] - m ELSE f[x]
    BY <2>1
  <2> HIDE DEF x, U
  <2>5. H[T] = F[T] + Moved(T)
    BY <2>1, <2>2, <2>3, <2>4
  <2> QED
    BY <2>5
<1>6. S \in G
  <2> HIDE DEF G
  <2>1. \A T \in SUBSET S : T \in G
    <3>1. Inductive(G, S, c)
      BY <1>4, <1>5 DEF Inductive
    <3> QED
      BY <1>3, <3>1, ChoiceInduction
  <2>2. S \in SUBSET S
    OBVIOUS
  <2> QED
    BY <2>1, <2>2
<1>7. F[S] \in Int /\ H[S] = F[S]
  <2>1. S \in SUBSET S
    OBVIOUS
  <2>2. F[S] \in Int
    BY <2>1
  <2>3. Moved(S) = 0 /\ H[S] = F[S] + Moved(S)
    BY <1>6
  <2> HIDE DEF Moved
  <2> QED
    BY <2>2, <2>3
<1> QED
  BY <1>1, <1>2, <1>7 DEF AddsUp

-----------------------------------------------------------------------------
\* Sorted lists of a finite set

\* s lists the elements of S, by what k makes of them: strictly, or with ties.
Increasing(s, S, k) ==
    /\ s \in Bijection(1 .. Cardinality(S), S)
    /\ \A i, j \in 1 .. Cardinality(S) : i < j => k[s[i]] < k[s[j]]

Sorted(s, S, k) ==
    /\ s \in Bijection(1 .. Cardinality(S), S)
    /\ \A i, j \in 1 .. Cardinality(S) : i < j => k[s[i]] <= k[s[j]]

\* If a set has an increasing list, it has no other one.
LEMMA IncreasingIsOnly ==
  ASSUME NEW S, IsFiniteSet(S), NEW k \in [S -> Int],
         NEW s, Increasing(s, S, k), NEW t, Sorted(t, S, k)
  PROVE  s = t
<1> DEFINE n == Cardinality(S)
           G == {m \in Nat : \A j \in 1 .. n : j <= m => s[j] = t[j]}
<1>1. n \in Nat
  BY FS_CardinalityType
<1> HIDE DEF n
<1>2. /\ s \in [1 .. n -> S] /\ t \in [1 .. n -> S]
      /\ \A i, j \in 1 .. n : (s[i] = s[j] => i = j) /\ (t[i] = t[j] => i = j)
      /\ \A x \in S : (\E i \in 1 .. n : s[i] = x) /\ (\E i \in 1 .. n : t[i] = x)
      /\ \A i, j \in 1 .. n : i < j => k[s[i]] < k[s[j]] /\ k[t[i]] <= k[t[j]]
  BY DEF Increasing, Sorted, Bijection, Injection, Surjection, IsInjective, n
<1>3. 0 \in G
  BY <1>1
<1>4. ASSUME NEW m \in Nat, m \in G PROVE m + 1 \in G
  <2> SUFFICES ASSUME m + 1 \in 1 .. n PROVE s[m + 1] = t[m + 1]
    <3>1. ASSUME NEW j \in 1 .. n, j <= m + 1 PROVE j <= m \/ j = m + 1
      BY <1>1, <3>1
    <3> QED
      BY <1>4, <3>1
  <2>1. PICK p \in 1 .. n : t[p] = s[m + 1]
    BY <1>2
  <2>2. PICK q \in 1 .. n : s[q] = t[m + 1]
    BY <1>2
  <2>3. p >= m + 1
    <3>1. ~(p <= m)
      <4> SUFFICES ASSUME p <= m PROVE FALSE
        OBVIOUS
      <4>1. s[p] = t[p]
        BY <1>4
      <4>2. p = m + 1
        BY <1>2, <2>1, <4>1
      <4> QED
        BY <4>2
    <3> QED
      BY <1>1, <3>1
  <2>4. q >= m + 1
    <3>1. ~(q <= m)
      <4> SUFFICES ASSUME q <= m PROVE FALSE
        OBVIOUS
      <4>1. s[q] = t[q]
        BY <1>4
      <4>2. q = m + 1
        BY <1>2, <2>2, <4>1
      <4> QED
        BY <4>2
    <3> QED
      BY <1>1, <3>1
  <2>5. k[t[m + 1]] <= k[s[m + 1]]
    <3>1. p = m + 1 \/ m + 1 < p
      BY <1>1, <2>3
    <3>2. k[t[m + 1]] \in Int
      BY <1>2
    <3> QED
      BY <1>2, <2>1, <3>1, <3>2
  <2>6. q = m + 1
    <3>1. ~(m + 1 < q)
      <4> SUFFICES ASSUME m + 1 < q PROVE FALSE
        OBVIOUS
      <4>1. k[s[m + 1]] < k[s[q]]
        BY <1>2
      <4>2. k[s[m + 1]] \in Int /\ k[s[q]] \in Int
        BY <1>2
      <4> QED
        BY <2>2, <2>5, <4>1, <4>2
    <3> QED
      BY <1>1, <2>4, <3>1
  <2> QED
    BY <2>2, <2>6
<1>5. \A m \in Nat : m \in G
  <2> HIDE DEF G
  <2> QED
    BY ONLY <1>3, <1>4, Induction
<1>6. \A j \in 1 .. n : s[j] = t[j]
  BY <1>1, <1>5
<1>7. s = [i \in 1 .. n |-> s[i]] /\ t = [i \in 1 .. n |-> t[i]]
  BY ONLY <1>2
<1> QED
  BY ONLY <1>6, <1>7, Zenon

\* An element that is greater than all others goes to the end of the list.
LEMMA IncreasingExtended ==
  ASSUME NEW S, IsFiniteSet(S), NEW e, e \notin S,
         NEW k, NEW l, \A x \in S : l[x] = k[x] /\ l[x] < l[e],
         NEW s, Increasing(s, S, k)
  PROVE  LET n == Cardinality(S)
         IN  /\ n \in Nat /\ Cardinality(S \cup {e}) = n + 1
             /\ Increasing([i \in 1 .. n + 1 |-> IF i = n + 1 THEN e ELSE s[i]], S \cup {e}, l)
<1> DEFINE n == Cardinality(S)
           u == S \cup {e}
           r == [i \in 1 .. n + 1 |-> IF i = n + 1 THEN e ELSE s[i]]
<1>1. n \in Nat /\ Cardinality(u) = n + 1
  BY FS_CardinalityType, FS_AddElement
<1>2. /\ s \in [1 .. n -> S]
      /\ \A i, j \in 1 .. n : s[i] = s[j] => i = j
      /\ \A x \in S : \E i \in 1 .. n : s[i] = x
      /\ \A i, j \in 1 .. n : i < j => k[s[i]] < k[s[j]]
  BY DEF Increasing, Bijection, Injection, Surjection, IsInjective
<1> HIDE DEF n
<1>3. /\ \A i \in 1 .. n + 1 : i \in 1 .. n \/ i = n + 1
      /\ \A i \in 1 .. n : i \in 1 .. n + 1 /\ i # n + 1
      /\ n + 1 \in 1 .. n + 1
      /\ \A i, j \in 1 .. n + 1 : i < j => i \in 1 .. n
  BY ONLY <1>1
<1>4. /\ r[n + 1] = e
      /\ \A i \in 1 .. n : r[i] = s[i] /\ s[i] \in S
      /\ DOMAIN r = 1 .. n + 1
  BY <1>2, <1>3
<1>5. r \in [1 .. n + 1 -> u]
  BY <1>2, <1>3
<1> HIDE DEF r, u
<1>6. \A i, j \in 1 .. n + 1 : r[i] = r[j] => i = j
  BY ONLY <1>2, <1>3, <1>4, e \notin S, Zenon
<1>7. \A x \in u : \E i \in 1 .. n + 1 : r[i] = x
  BY <1>2, <1>3, <1>4 DEF u
<1>8. \A i, j \in 1 .. n + 1 : i < j => l[r[i]] < l[r[j]]
  <2> SUFFICES ASSUME NEW i \in 1 .. n + 1, NEW j \in 1 .. n + 1, i < j
               PROVE  l[r[i]] < l[r[j]]
    OBVIOUS
  <2>1. i \in 1 .. n
    BY <1>3
  <2>2. CASE j \in 1 .. n
    BY <1>2, <1>4, <2>1, <2>2
  <2>3. CASE j = n + 1
    BY <1>4, <2>1, <2>3
  <2> QED
    BY <1>3, <2>2, <2>3
<1>9. Increasing(r, u, l)
  BY <1>1, <1>5, <1>6, <1>7, <1>8 DEF Increasing, Bijection, Injection, Surjection, IsInjective
<1> QED
  BY <1>1, <1>9 DEF r, u, n

\* A finite set whose elements k tells apart has an increasing list.
LEMMA IncreasingExists ==
  ASSUME NEW S, IsFiniteSet(S), NEW k \in [S -> Int],
         \A x, y \in S : k[x] = k[y] => x = y
  PROVE  \E s : Increasing(s, S, k)
<1> DEFINE Latest(T, x) == x \in T /\ \A y \in T : k[y] <= k[x]
           c == [T \in SUBSET S |-> CHOOSE x : Latest(T, x)]
           G == {T \in SUBSET S : \E s : Increasing(s, T, k)}
<1>1. ASSUME NEW T \in SUBSET S, T # {} PROVE Latest(T, c[T])
  <2> DEFINE K == {k[x] : x \in T}
  <2>1. IsFiniteSet(K)
    <3>1. IsFiniteSet(T)
      BY FS_Subset
    <3>2. [x \in T |-> k[x]] \in Surjection(T, K)
      BY DEF Surjection
    <3> QED
      BY <3>1, <3>2, FS_Surjection
  <2>2. K \subseteq Int /\ K # {}
    BY <1>1
  <2> HIDE DEF K
  <2>3. \E m \in K : \A y \in K : y <= m
    BY <2>1, <2>2, MaxOfFinite
  <2>4. \E x : Latest(T, x)
    BY <2>3 DEF K
  <2> HIDE DEF Latest
  <2> QED
    BY <2>4
<1>2. Chooses(c, S)
  BY <1>1 DEF Chooses
<1>3. {} \in G
  <2>1. Cardinality({}) = 0 /\ 1 .. 0 = {}
    BY FS_EmptySet
  <2>2. Increasing([i \in {} |-> 0], {}, k)
    BY <2>1 DEF Increasing, Bijection, Injection, Surjection, IsInjective
  <2> QED
    BY <2>2
<1>4. ASSUME NEW T \in SUBSET S, T # {}, T \ {c[T]} \in G PROVE T \in G
  <2> DEFINE e == c[T]
             U == T \ {e}
  <2>1. e \in T /\ \A y \in T : k[y] <= k[e]
    BY <1>1, <1>4
  <2>2. PICK s : Increasing(s, U, k)
    BY <1>4
  <2> HIDE DEF c, G
  <2>3. e \notin U /\ IsFiniteSet(U) /\ T = U \cup {e}
    BY <2>1, FS_Subset
  <2>4. \A x \in U : k[x] = k[x] /\ k[x] < k[e]
    <3> SUFFICES ASSUME NEW x \in U PROVE k[x] < k[e]
      OBVIOUS
    <3>1. k[x] <= k[e] /\ k[x] # k[e] /\ k[x] \in Int /\ k[e] \in Int
      BY <2>1
    <3> QED
      BY ONLY <3>1
  <2> HIDE DEF e, U
  <2>5. \E t : Increasing(t, T, k)
    BY ONLY <2>2, <2>3, <2>4, IncreasingExtended
  <2> QED
    BY <2>5 DEF G
<1>5. Inductive(G, S, c)
  <2> HIDE DEF c, G
  <2> QED
    BY <1>3, <1>4 DEF Inductive
<1>6. S \in G
  <2> HIDE DEF c, G
  <2> QED
    BY <1>2, <1>5, ChoiceInduction
<1> QED
  BY <1>6

\* s lists the numbers of S in their order.
Enumerates(s, n, S) ==
    /\ s \in [1 .. n -> S]
    /\ \A x \in S : \E i \in 1 .. n : s[i] = x
    /\ \A i, j \in 1 .. n : i < j => s[i] < s[j]

\* D is what S has up to some number.
InitialPart(D, S) == D \subseteq S /\ \A x \in D, y \in S : y < x => y \in D

\* The first numbers of a set are listed by the first part of its list.
LEMMA EnumerationPrefix ==
  ASSUME NEW P, P \subseteq Int, NEW D, InitialPart(D, P),
         NEW n \in Nat, NEW m \in Nat,
         NEW s, Enumerates(s, n, P), NEW d, Enumerates(d, m, D)
  PROVE  m <= n /\ \A i \in 1 .. m : d[i] = s[i]
<1> DEFINE G == {k \in Nat : \A i \in 1 .. m : i <= k => i <= n /\ d[i] = s[i]}
<1>1. /\ \A i \in 1 .. n : s[i] \in P /\ s[i] \in Int
      /\ \A i \in 1 .. m : d[i] \in D /\ d[i] \in P /\ d[i] \in Int
      /\ \A x \in P : \E i \in 1 .. n : s[i] = x
      /\ \A x \in D : \E i \in 1 .. m : d[i] = x
      /\ \A i, j \in 1 .. n : i < j => s[i] < s[j]
      /\ \A i, j \in 1 .. m : i < j => d[i] < d[j]
      /\ \A x \in D, y \in P : y < x => y \in D
  BY DEF Enumerates, InitialPart
<1>2. \A i, j \in 1 .. n : s[i] = s[j] => i = j
  <2> SUFFICES ASSUME NEW i \in 1 .. n, NEW j \in 1 .. n, s[i] = s[j], i < j PROVE FALSE
    OBVIOUS
  <2>1. s[i] < s[j] /\ s[i] \in Int
    BY <1>1
  <2> QED
    BY ONLY <2>1, s[i] = s[j]
<1>3. \A i, j \in 1 .. m : d[i] = d[j] => i = j
  <2> SUFFICES ASSUME NEW i \in 1 .. m, NEW j \in 1 .. m, d[i] = d[j], i < j PROVE FALSE
    OBVIOUS
  <2>1. d[i] < d[j] /\ d[i] \in Int
    BY <1>1
  <2> QED
    BY ONLY <2>1, d[i] = d[j]
<1>4. 0 \in G
  OBVIOUS
<1>5. ASSUME NEW k \in Nat, k \in G PROVE k + 1 \in G
  <2> SUFFICES ASSUME k + 1 \in 1 .. m PROVE k + 1 <= n /\ d[k + 1] = s[k + 1]
    <3>1. \A i \in 1 .. m : i <= k + 1 => i <= k \/ i = k + 1
      OBVIOUS
    <3> QED
      BY <1>5, <3>1
  <2>1. \A i \in 1 .. m : i <= k => i <= n /\ d[i] = s[i]
    BY <1>5
  <2> HIDE DEF G
  <2>2. PICK j \in 1 .. n : s[j] = d[k + 1]
    BY <1>1
  \* The next number of D is none of those listed before.
  <2>3. j >= k + 1
    <3> SUFFICES ASSUME j <= k PROVE FALSE
      OBVIOUS
    <3>1. j \in 1 .. m
      OBVIOUS
    <3>2. d[j] = s[j]
      BY <2>1, <3>1
    <3>3. j = k + 1
      BY <1>3, <2>2, <3>1, <3>2
    <3> QED
      BY ONLY <3>3, j <= k, k \in Nat
  <2>4. k + 1 \in 1 .. n
    BY <2>3
  \* So that the next number of the whole list is no later, and therefore one of D.
  <2>5. s[k + 1] = s[j] \/ s[k + 1] < s[j]
    BY <1>1, <2>3, <2>4
  <2>6. s[k + 1] \in D
    BY <1>1, <2>2, <2>4, <2>5
  <2>7. PICK i \in 1 .. m : d[i] = s[k + 1]
    BY <1>1, <2>6
  <2>8. i >= k + 1
    <3> SUFFICES ASSUME i <= k PROVE FALSE
      OBVIOUS
    <3>1. i \in 1 .. n /\ d[i] = s[i]
      BY <2>1
    <3>2. i = k + 1
      BY <1>2, <2>4, <2>7, <3>1
    <3> QED
      BY ONLY <3>2, i <= k, k \in Nat
  <2>9. d[k + 1] = d[i] \/ d[k + 1] < d[i]
    BY <1>1, <2>8
  <2>10. d[k + 1] \in Int /\ s[k + 1] \in Int
    BY <1>1, <2>4
  <2> QED
    BY ONLY <2>2, <2>4, <2>5, <2>7, <2>9, <2>10
<1>6. \A k \in Nat : k \in G
  <2> HIDE DEF G
  <2> QED
    BY ONLY <1>4, <1>5, Induction
<1>7. \A i \in 1 .. m : i <= n /\ d[i] = s[i]
  <2> SUFFICES ASSUME NEW i \in 1 .. m PROVE i <= n /\ d[i] = s[i]
    OBVIOUS
  <2>1. i \in G /\ i <= i
    BY <1>6
  <2> QED
    BY <2>1
<1>8. m <= n
  <2>1. CASE m = 0
    BY <2>1
  <2>2. CASE m # 0
    <3>1. m \in 1 .. m
      BY <2>2
    <3> QED
      BY <1>7, <3>1
  <2> QED
    BY <2>1, <2>2
<1> QED
  BY <1>7, <1>8

\* What occurs in a sequence has a first occurrence.
LEMMA FirstOccurrence ==
  ASSUME NEW S, NEW s \in Seq(S), NEW x, \E i \in 1 .. Len(s) : s[i] = x
  PROVE  \E j \in 1 .. Len(s) : s[j] = x /\ \A l \in 1 .. j - 1 : s[l] # x
<1> DEFINE First(j) == s[j] = x /\ \A l \in 1 .. j - 1 : s[l] # x
           G == {n \in Nat : (\E i \in 1 .. Len(s) : i <= n /\ s[i] = x) => \E j \in 1 .. Len(s) : First(j)}
<1>1. 0 \in G
  OBVIOUS
<1>2. ASSUME NEW n \in Nat, n \in G PROVE n + 1 \in G
  <2> SUFFICES ASSUME NEW i \in 1 .. Len(s), i <= n + 1, s[i] = x PROVE \E j \in 1 .. Len(s) : First(j)
    OBVIOUS
  <2>1. CASE \E l \in 1 .. Len(s) : l <= n /\ s[l] = x
    BY <1>2, <2>1
  <2>2. CASE \A l \in 1 .. Len(s) : l <= n => s[l] # x
    <3>1. \A l \in 1 .. i - 1 : l \in 1 .. Len(s) /\ l <= n
      OBVIOUS
    <3> QED
      BY <2>2, <3>1
  <2> QED
    BY <2>1, <2>2
<1>3. \A n \in Nat : n \in G
  <2> HIDE DEF G
  <2> QED
    BY ONLY <1>1, <1>2, Induction
<1>4. Len(s) \in G
  <2>1. Len(s) \in Nat
    OBVIOUS
  <2> HIDE DEF G
  <2> QED
    BY <1>3, <2>1
<1>5. \A i \in 1 .. Len(s) : i <= Len(s)
  OBVIOUS
<1> QED
  BY <1>4, <1>5

=============================================================================
