-------------------------- MODULE SourceText_proofs --------------------------
(***************************************************************************)
(* What the operators of SourceText compute: sorting, selecting positions  *)
(* of a sequence, flattening, and the spans that name a part of a text.    *)
(***************************************************************************)
EXTENDS SourceText, FiniteSetTheorems, SequenceTheorems, WellFoundedInduction,
        TLAPS

(* Induction over the natural numbers, for a set of them: what the         *)
(* recursive functions of the model compute is proved with it.             *)
LessThan == {pair \in Nat \X Nat : pair[1] < pair[2]}

LEMMA NaturalsAreWellFounded == IsWellFoundedOn(LessThan, Nat)
  BY NatLessThanWellFounded, Zenon DEF OpToRel, LessThan

LEMMA NatSetInduction ==
    ASSUME NEW P, 0 \in P, \A n \in Nat : n \in P => n + 1 \in P
    PROVE  \A n \in Nat : n \in P
<1>. DEFINE T == Nat \ P
<1>1. SUFFICES ASSUME T # {} PROVE FALSE
  OBVIOUS
<1>2. PICK x \in T : \A y \in T : <<y, x>> \notin LessThan
  <2>1. T \subseteq Nat /\ T # {}
    BY <1>1
  <2>. HIDE DEF T
  <2>. QED BY <2>1, NaturalsAreWellFounded, WFMin, Zenon
<1>3. x \in Nat /\ x # 0 /\ x - 1 \in Nat
  OBVIOUS
<1>4. <<x - 1, x>> \in LessThan
  BY <1>3 DEF LessThan
<1>5. x - 1 \in P
  BY <1>2, <1>3, <1>4
<1>. QED BY <1>3, <1>5

\* A finite set of numbers that is not empty has a smallest and a largest one.
LEMMA MinMaxOf ==
    ASSUME NEW S, S \subseteq Int, S # {}, IsFiniteSet(S)
    PROVE  /\ Min(S) \in S /\ Max(S) \in S
           /\ \A x \in S : Min(S) <= x /\ x <= Max(S)
<1>. DEFINE HasEnds(T) == /\ \E x \in T : \A y \in T : x <= y
                          /\ \E x \in T : \A y \in T : x >= y
            P == {n \in Nat : \A T \in SUBSET S :
                     IsFiniteSet(T) /\ Cardinality(T) = n + 1 => HasEnds(T)}
<1>1. 0 \in P
  <2>. SUFFICES ASSUME NEW T \in SUBSET S, IsFiniteSet(T), Cardinality(T) = 1
                PROVE  HasEnds(T)
    OBVIOUS
  <2>1. PICK x : T = {x}
    BY FS_Singleton
  <2>. QED BY <2>1
<1>2. ASSUME NEW n \in Nat, n \in P PROVE n + 1 \in P
  <2>. SUFFICES ASSUME NEW T \in SUBSET S, IsFiniteSet(T), Cardinality(T) = n + 2
                PROVE  HasEnds(T)
    BY SMT
  <2>1. PICK x : x \in T
    BY FS_EmptySet
  <2>2. IsFiniteSet(T \ {x}) /\ Cardinality(T \ {x}) = n + 1
    BY <2>1, FS_RemoveElement
  <2>3. HasEnds(T \ {x})
    BY <1>2, <2>2
  <2>4. PICK low \in T \ {x} : \A y \in T \ {x} : low <= y
    BY <2>3
  <2>5. PICK high \in T \ {x} : \A y \in T \ {x} : high >= y
    BY <2>3
  <2>6. \E z \in T : \A y \in T : z <= y
    <3>1. \A y \in T : y = x \/ low <= y
      BY <2>4
    <3>2. x \in Int /\ low \in Int /\ T \subseteq Int
      BY <2>1, <2>4
    <3>3. CASE low <= x
      BY <2>4, <3>1, <3>3
    <3>4. CASE x < low
      BY <2>1, <3>1, <3>2, <3>4
    <3>. QED BY <3>2, <3>3, <3>4
  <2>7. \E z \in T : \A y \in T : z >= y
    <3>1. \A y \in T : y = x \/ high >= y
      BY <2>5
    <3>2. x \in Int /\ high \in Int /\ T \subseteq Int
      BY <2>1, <2>5
    <3>3. CASE high >= x
      BY <2>5, <3>1, <3>3
    <3>4. CASE x > high
      BY <2>1, <3>1, <3>2, <3>4
    <3>. QED BY <3>2, <3>3, <3>4
  <2>. QED BY <2>6, <2>7
<1>3. \A n \in Nat : n \in P
  <2>. HIDE DEF P
  <2>. QED BY <1>1, <1>2, NatSetInduction
<1>4. Cardinality(S) \in Nat /\ Cardinality(S) # 0
  BY FS_CardinalityType, FS_EmptySet
<1>5. HasEnds(S)
  <2>1. Cardinality(S) - 1 \in P
    BY <1>3, <1>4
  <2>. QED BY <1>4, <2>1
<1>6. PICK low \in S : \A y \in S : low <= y
  BY <1>5
<1>7. PICK high \in S : \A y \in S : high >= y
  BY <1>5
<1>8. Min(S) \in S /\ \A y \in S : Min(S) <= y
  BY <1>6 DEF Min
<1>9. Max(S) \in S /\ \A y \in S : Max(S) >= y
  BY <1>7 DEF Max
<1>. QED BY <1>8, <1>9

LEMMA PairIsFinite == ASSUME NEW a, NEW b PROVE IsFiniteSet({a, b})
<1>1. IsFiniteSet({a} \cup {b})
  BY FS_Singleton, FS_AddElement
<1>2. {a, b} = {a} \cup {b}
  OBVIOUS
<1>. QED BY <1>1, <1>2

\* The values of a function on a finite set are finitely many.
LEMMA ImageIsFinite ==
    ASSUME NEW S, IsFiniteSet(S), NEW f, DOMAIN f = S, f = [x \in S |-> f[x]]
    PROVE  IsFiniteSet({f[x] : x \in S}) /\ Cardinality({f[x] : x \in S}) <= Cardinality(S)
<1>. DEFINE T == {f[x] : x \in S}
<1>1. f \in Surjection(S, T)
  BY DEF Surjection
<1>. HIDE DEF T
<1>2. IsFiniteSet(T) /\ Cardinality(T) <= Cardinality(S)
  BY <1>1, FS_Surjection
<1>. QED BY <1>2 DEF T

-----------------------------------------------------------------------------
(* Sorting by a strict total order, given as the set of its pairs.         *)

IsOrder(L, S) ==
    /\ \A x \in S : <<x, x>> \notin L
    /\ \A x, y, z \in S : <<x, y>> \in L /\ <<y, z>> \in L => <<x, z>> \in L
    /\ \A x, y \in S : x = y \/ <<x, y>> \in L \/ <<y, x>> \in L

Rank(L, S, x) == Cardinality({y \in S : <<y, x>> \in L})

\* The elements of a set have the ranks from 0, each one of them.
LEMMA RanksOfOrder ==
    ASSUME NEW S, IsFiniteSet(S), NEW L, IsOrder(L, S)
    PROVE  /\ Cardinality(S) \in Nat
           /\ \A x \in S : Rank(L, S, x) \in 0 .. (Cardinality(S) - 1)
           /\ \A x, y \in S : <<x, y>> \in L <=> Rank(L, S, x) < Rank(L, S, y)
           /\ \A k \in 1 .. Cardinality(S) : \E x \in S : Rank(L, S, x) = k - 1
<1>. DEFINE n == Cardinality(S)
            Under(x) == {y \in S : <<y, x>> \in L}
            rank == [x \in S |-> Rank(L, S, x)]
<1>0. n \in Nat
  BY FS_CardinalityType
<1>1. ASSUME NEW x \in S
      PROVE  IsFiniteSet(Under(x)) /\ Rank(L, S, x) = Cardinality(Under(x))
             /\ Cardinality(Under(x)) \in Nat
  BY FS_Subset, FS_CardinalityType DEF Rank
<1>2. ASSUME NEW x \in S PROVE Rank(L, S, x) \in 0 .. (n - 1)
  <2>1. x \notin Under(x) /\ Under(x) \cup {x} \subseteq S
    BY DEF IsOrder
  <2>2. Cardinality(Under(x) \cup {x}) = Cardinality(Under(x)) + 1
    BY <1>1, <2>1, FS_AddElement
  <2>3. Cardinality(Under(x) \cup {x}) <= n
    BY <2>1, FS_Subset
  <2>. QED BY <1>0, <1>1, <2>2, <2>3
<1>3. ASSUME NEW x \in S, NEW y \in S, <<x, y>> \in L
      PROVE  Rank(L, S, x) < Rank(L, S, y)
  <2>1. x \notin Under(x) /\ Under(x) \cup {x} \subseteq Under(y)
    BY <1>3 DEF IsOrder
  <2>2. Cardinality(Under(x) \cup {x}) = Cardinality(Under(x)) + 1
    BY <1>1, <2>1, FS_AddElement
  <2>3. Cardinality(Under(x) \cup {x}) <= Cardinality(Under(y))
    BY <1>1, <2>1, FS_Subset
  <2>. HIDE DEF Under
  <2>. QED BY <1>1, <2>2, <2>3
<1>4. ASSUME NEW x \in S, NEW y \in S, Rank(L, S, x) < Rank(L, S, y)
      PROVE  <<x, y>> \in L
  <2>1. Rank(L, S, x) \in Nat /\ Rank(L, S, y) \in Nat
    BY <1>2
  <2>2. x # y /\ ~(Rank(L, S, y) < Rank(L, S, x))
    BY <1>4, <2>1
  <2>. QED BY <1>3, <2>2 DEF IsOrder
<1>5. rank \in Injection(S, 0 .. (n - 1))
  <2>1. rank \in [S -> 0 .. (n - 1)]
    BY <1>2
  <2>2. ASSUME NEW x \in S, NEW y \in S, rank[x] = rank[y] PROVE x = y
    <3>1. Rank(L, S, x) \in Nat /\ Rank(L, S, y) = Rank(L, S, x)
      BY <1>2, <2>2
    <3>2. <<x, y>> \notin L /\ <<y, x>> \notin L
      BY <1>3, <3>1
    <3>. QED BY <3>2 DEF IsOrder
  <2>. HIDE DEF rank
  <2>. QED BY <2>1, <2>2 DEF Injection, IsInjective
<1>6. IsFiniteSet(0 .. (n - 1)) /\ Cardinality(0 .. (n - 1)) = n
  BY <1>0, FS_Interval
<1>7. rank \in Surjection(S, 0 .. (n - 1))
  <2>. HIDE DEF rank
  <2>. QED BY <1>5, <1>6, FS_Injection
<1>8. ASSUME NEW k \in 1 .. n PROVE \E x \in S : Rank(L, S, x) = k - 1
  <2>1. k - 1 \in 0 .. (n - 1)
    BY <1>0
  <2>2. PICK x \in S : rank[x] = k - 1
    <3>. HIDE DEF rank
    <3>. QED BY <1>7, <2>1 DEF Surjection
  <2>. QED BY <2>2
<1>. QED BY <1>0, <1>2, <1>3, <1>4, <1>8

\* What sorting a set gives: a sequence of its elements, each once, in order.
IsSorting(s, L, S) ==
    /\ s \in Seq(S) /\ Len(s) = Cardinality(S) /\ DOMAIN s = 1 .. Cardinality(S)
    /\ Cardinality(S) \in Nat
    /\ ToSet(s) = S /\ IsInjective(s)
    /\ \A i, j \in DOMAIN s : i < j <=> <<s[i], s[j]>> \in L
    /\ \A k \in DOMAIN s : s[k] \in S /\ Rank(L, S, s[k]) = k - 1

LEMMA SortedByRank ==
    ASSUME NEW S, IsFiniteSet(S), NEW L, IsOrder(L, S), NEW s,
           s = [k \in 1 .. Cardinality(S) |-> s[k]],
           \A k \in 1 .. Cardinality(S) : s[k] \in S /\ Rank(L, S, s[k]) = k - 1
    PROVE  IsSorting(s, L, S)
<1>. DEFINE n == Cardinality(S)
<1>0. n \in Nat
  BY FS_CardinalityType
<1>1. \A k \in 1 .. n : s[k] \in S /\ Rank(L, S, s[k]) = k - 1
  OBVIOUS
<1>2. s \in [1 .. n -> S] /\ DOMAIN s = 1 .. n
  BY <1>1
<1>3. s \in Seq(S) /\ Len(s) = n
  BY <1>0, <1>2
<1>. HIDE DEF n
<1>4. \A i, j \in 1 .. n : i < j <=> <<s[i], s[j]>> \in L
  <2>. TAKE i, j \in 1 .. n
  <2>1. <<s[i], s[j]>> \in L <=> i - 1 < j - 1
    BY <1>1, RanksOfOrder
  <2>. QED BY <1>0, <2>1
<1>5. IsInjective(s)
  <2>. SUFFICES ASSUME NEW i \in 1 .. n, NEW j \in 1 .. n, s[i] = s[j] PROVE i = j
    BY <1>2 DEF IsInjective
  <2>1. i - 1 = j - 1
    BY <1>1
  <2>. QED BY <1>0, <2>1
<1>6. ToSet(s) = S
  <2>1. ASSUME NEW x \in S PROVE \E k \in 1 .. n : s[k] = x
    <3>1. Rank(L, S, x) \in 0 .. (n - 1)
      BY RanksOfOrder DEF n
    <3>. DEFINE k == Rank(L, S, x) + 1
    <3>2. k \in 1 .. n /\ Rank(L, S, s[k]) = Rank(L, S, x)
      BY <1>0, <1>1, <3>1
    <3>. HIDE DEF k
    <3>3. s[k] \in S
      BY <1>1, <3>2
    <3>4. <<x, s[k]>> \notin L /\ <<s[k], x>> \notin L
      BY <3>1, <3>2, <3>3, RanksOfOrder, <1>0
    <3>. QED BY <3>2, <3>3, <3>4 DEF IsOrder
  <2>. QED BY <1>1, <1>2, <2>1 DEF ToSet
<1>. QED BY <1>0, <1>1, <1>2, <1>3, <1>4, <1>5, <1>6 DEF IsSorting, n

Ascending(S) == {pair \in S \X S : pair[1] < pair[2]}

\* A sorted set of numbers.
LEMMA SortedNumbers ==
    ASSUME NEW S, S \subseteq Int, IsFiniteSet(S)
    PROVE  /\ Sorted(S, <) \in Seq(S) /\ Len(Sorted(S, <)) = Cardinality(S)
           /\ DOMAIN Sorted(S, <) = 1 .. Cardinality(S) /\ Cardinality(S) \in Nat
           /\ ToSet(Sorted(S, <)) = S /\ IsInjective(Sorted(S, <))
           /\ \A i, j \in DOMAIN Sorted(S, <) : i < j <=> Sorted(S, <)[i] < Sorted(S, <)[j]
<1>. DEFINE s == Sorted(S, <)
<1>1. IsOrder(Ascending(S), S)
  BY DEF IsOrder, Ascending
<1>2. s = [k \in 1 .. Cardinality(S) |-> CHOOSE x \in S : Cardinality({y \in S : y < x}) = k - 1]
  BY DEF Sorted
<1>3. \A k \in 1 .. Cardinality(S) : s[k] \in S /\ Rank(Ascending(S), S, s[k]) = k - 1
  <2>. TAKE k \in 1 .. Cardinality(S)
  <2>1. \A x \in S : Rank(Ascending(S), S, x) = Cardinality({y \in S : y < x})
    <3>1. \A x \in S : {y \in S : <<y, x>> \in Ascending(S)} = {y \in S : y < x}
      BY DEF Ascending
    <3>. QED BY <3>1 DEF Rank
  <2>2. \E x \in S : Cardinality({y \in S : y < x}) = k - 1
    <3>1. PICK x \in S : Rank(Ascending(S), S, x) = k - 1
      BY <1>1, RanksOfOrder
    <3>. QED BY <2>1, <3>1
  <2>3. s[k] = CHOOSE x \in S : Cardinality({y \in S : y < x}) = k - 1
    BY <1>2
  <2>. HIDE DEF s
  <2>4. s[k] \in S /\ Cardinality({y \in S : y < s[k]}) = k - 1
    BY <2>2, <2>3, Zenon
  <2>. QED BY <2>1, <2>4
<1>4. s = [k \in 1 .. Cardinality(S) |-> s[k]]
  BY <1>2
<1>. HIDE DEF s
<1>5. IsSorting(s, Ascending(S), S)
  BY <1>1, <1>3, <1>4, SortedByRank
<1>6. \A x, y \in S : <<x, y>> \in Ascending(S) <=> x < y
  BY DEF Ascending
<1>. QED BY <1>5, <1>6 DEF IsSorting, s

\* The positions of a sequence that are in a set, and what stands there.
LEMMA PositionsOf ==
    ASSUME NEW T, NEW seq \in Seq(T), NEW S
    PROVE  LET at == S \cap DOMAIN seq
               p == Positions(seq, S)
           IN  /\ at \subseteq Nat \ {0} /\ IsFiniteSet(at) /\ Cardinality(at) \in Nat
               /\ p \in Seq(at) /\ Len(p) = Cardinality(at) /\ DOMAIN p = 1 .. Cardinality(at)
               /\ ToSet(p) = at /\ IsInjective(p)
               /\ \A i, j \in DOMAIN p : i < j <=> p[i] < p[j]
<1>. DEFINE at == S \cap DOMAIN seq
<1>1. at \subseteq Nat \ {0} /\ at \subseteq 1 .. Len(seq) /\ Len(seq) \in Nat
  OBVIOUS
<1>2. IsFiniteSet(at)
  BY <1>1, FS_Interval, FS_Subset
<1>3. at \subseteq Int
  BY <1>1
<1>. HIDE DEF at
<1>. QED BY <1>1, <1>2, <1>3, SortedNumbers DEF Positions, at

LEMMA SelectedOf ==
    ASSUME NEW T, NEW seq \in Seq(T), NEW S
    PROVE  /\ Selected(seq, S) \in Seq(T)
           /\ ToSet(Selected(seq, S)) = {seq[i] : i \in S \cap DOMAIN seq}
           /\ Len(Selected(seq, S)) = Cardinality(S \cap DOMAIN seq)
           /\ IsInjective(seq) => IsInjective(Selected(seq, S))
<1>. DEFINE at == S \cap DOMAIN seq
            p == Positions(seq, S)
            s == Selected(seq, S)
<1>1. /\ at \subseteq DOMAIN seq /\ Cardinality(at) \in Nat
      /\ p \in Seq(at) /\ Len(p) = Cardinality(at) /\ DOMAIN p = 1 .. Cardinality(at)
      /\ ToSet(p) = at /\ IsInjective(p)
  BY PositionsOf
<1>2. DOMAIN s = DOMAIN p /\ \A k \in DOMAIN p : s[k] = seq[p[k]] /\ p[k] \in at /\ s[k] \in T
  BY <1>1 DEF Selected
<1>. HIDE DEF at, p, s
<1>3. s \in Seq(T) /\ Len(s) = Cardinality(at)
  <2>1. s = [k \in 1 .. Cardinality(at) |-> seq[p[k]]]
    BY <1>1 DEF Selected, s, p
  <2>. QED BY <1>1, <1>2, <2>1
<1>4. ToSet(s) = {seq[i] : i \in at}
  <2>1. \A k \in DOMAIN s : s[k] \in {seq[i] : i \in at}
    BY <1>2
  <2>2. \A i \in at : \E k \in DOMAIN p : p[k] = i
    BY <1>1 DEF ToSet
  <2>3. \A i \in at : \E k \in DOMAIN s : s[k] = seq[i]
    BY <1>2, <2>2
  <2>. QED BY <2>1, <2>3 DEF ToSet
<1>5. IsInjective(seq) => IsInjective(s)
  BY <1>1, <1>2 DEF IsInjective
<1>. QED BY <1>3, <1>4, <1>5 DEF at, s

-----------------------------------------------------------------------------
(* A function that takes its value at i from the one at i - 1 exists.      *)

GoesBySteps(f, n, first, step) ==
    \A i \in 1 .. n : f[i] = IF i = 1 THEN first ELSE step[<<f[i - 1], i>>]

LEMMA StepsExist ==
    ASSUME NEW V, NEW n \in Nat, NEW first \in V, NEW step \in [V \X Nat -> V]
    PROVE  \E f \in [1 .. n -> V] : GoesBySteps(f, n, first, step)
<1>. DEFINE Steps(f, m) == GoesBySteps(f, m, first, step)
            P == {m \in Nat : \E f \in [1 .. m -> V] : Steps(f, m)}
<1>1. 0 \in P
  <2>. DEFINE none == [i \in 1 .. 0 |-> first]
  <2>1. none \in [1 .. 0 -> V]
    OBVIOUS
  <2>2. Steps(none, 0)
    BY DEF GoesBySteps
  <2>. HIDE DEF none
  <2>. QED BY <2>1, <2>2
<1>2. ASSUME NEW m \in Nat, m \in P PROVE m + 1 \in P
  <2>1. PICK f \in [1 .. m -> V] : Steps(f, m)
    BY <1>2
  <2>. DEFINE last == IF m = 0 THEN first ELSE step[<<f[m], m + 1>>]
              g == [i \in 1 .. (m + 1) |-> IF i = m + 1 THEN last ELSE f[i]]
  <2>2. last \in V
    <3>1. m # 0 => f[m] \in V
      BY <2>1
    <3>. QED BY <3>1
  <2>3. g \in [1 .. (m + 1) -> V]
    <3>. HIDE DEF last
    <3>1. \A i \in 1 .. (m + 1) : i = m + 1 \/ i \in 1 .. m
      OBVIOUS
    <3>. QED BY <2>2, <3>1
  <2>4. \A i \in 1 .. m : g[i] = f[i]
    OBVIOUS
  <2>5. g[m + 1] = last
    OBVIOUS
  <2>. HIDE DEF g
  <2>6. ASSUME NEW i \in 1 .. (m + 1)
        PROVE  g[i] = IF i = 1 THEN first ELSE step[<<g[i - 1], i>>]
    <3>1. CASE i = m + 1
      <4>1. m # 0 => m \in 1 .. m /\ g[m] = f[m]
        BY <2>4
      <4>2. i - 1 = m
        BY <3>1
      <4>3. CASE m = 0
        BY <2>5, <3>1, <4>3
      <4>4. CASE m # 0
        <5>1. i # 1 /\ last = step[<<g[i - 1], i>>]
          BY <3>1, <4>1, <4>2, <4>4
        <5>. QED BY <2>5, <3>1, <5>1
      <4>. QED BY <4>3, <4>4
    <3>2. CASE i # m + 1
      <4>1. i \in 1 .. m /\ (i # 1 => i - 1 \in 1 .. m)
        BY <3>2
      <4>. QED BY <2>1, <2>4, <4>1 DEF GoesBySteps
    <3>. QED BY <3>1, <3>2
  <2>. QED BY <2>3, <2>6 DEF GoesBySteps
<1>3. \A m \in Nat : m \in P
  <2>. HIDE DEF P
  <2>. QED BY <1>1, <1>2, NatSetInduction
<1>. QED BY <1>3

\* FlattenSeq joins the sequences one by one.
Joins(f, s) ==
    /\ f[1] = s[1] /\ \A i \in 2 .. Len(s) : f[i] = f[i - 1] \o s[i]
    /\ FlattenSeq(s) = f[Len(s)]

LEMMA FlattenJoins ==
    ASSUME NEW T, NEW s \in Seq(Seq(T)), s # <<>>
    PROVE  \E f \in [1 .. Len(s) -> Seq(T)] : Joins(f, s)
<1>. DEFINE n == Len(s)
            step == [v \in Seq(T) \X Nat |-> IF v[2] \in 1 .. n THEN v[1] \o s[v[2]] ELSE v[1]]
            Flattens(f) == f = [i \in 1 .. n |-> IF i = 1 THEN s[i] ELSE f[i - 1] \o s[i]]
<1>1. n \in Nat \ {0} /\ \A i \in 1 .. n : s[i] \in Seq(T)
  OBVIOUS
<1>2. step \in [Seq(T) \X Nat -> Seq(T)]
  BY <1>1
<1>. DEFINE V == Seq(T)
            first == s[1]
<1>3. PICK f \in [1 .. n -> V] : GoesBySteps(f, n, first, step)
  <2>1. n \in Nat /\ first \in V /\ step \in [V \X Nat -> V]
    BY <1>1, <1>2
  <2>. HIDE DEF step, n, V, first
  <2>. QED BY <2>1, StepsExist
<1>4. \A i \in 1 .. n : f[i] = IF i = 1 THEN s[i] ELSE f[i - 1] \o s[i]
  <2>. TAKE i \in 1 .. n
  <2>1. CASE i = 1
    BY <1>3, <2>1 DEF GoesBySteps
  <2>2. CASE i # 1
    <3>1. i - 1 \in 1 .. n /\ i \in Nat
      BY <1>1, <2>2
    <3>2. f[i - 1] \in Seq(T)
      BY <3>1
    <3>3. step[<<f[i - 1], i>>] = f[i - 1] \o s[i]
      BY <3>1, <3>2
    <3>. QED BY <1>3, <2>2, <3>3 DEF GoesBySteps
  <2>. QED BY <2>1, <2>2
<1>. HIDE DEF step
<1>5. Flattens(f)
  BY <1>4
<1>6. FlattenSeq(s) = (CHOOSE g : Flattens(g))[n]
  BY <1>1 DEF FlattenSeq
<1>. DEFINE h == CHOOSE g : Flattens(g)
<1>7. Flattens(h)
  <2>. HIDE DEF Flattens
  <2>. QED BY <1>5
<1>8. FlattenSeq(s) = h[n]
  BY <1>6
<1>. HIDE DEF h
<1>9. DOMAIN h = 1 .. n
  BY <1>7
<1>10. h[1] = s[1] /\ \A i \in 2 .. n : h[i] = h[i - 1] \o s[i]
  <2>1. \A i \in 1 .. n : h[i] = IF i = 1 THEN s[i] ELSE h[i - 1] \o s[i]
    BY <1>7
  <2>2. 1 \in 1 .. n /\ \A i \in 2 .. n : i \in 1 .. n /\ i # 1
    BY <1>1
  <2>. QED BY <2>1, <2>2
<1>11. \A i \in 1 .. n : h[i] \in Seq(T)
  <2>. DEFINE P == {m \in Nat : m + 1 \in 1 .. n => h[m + 1] \in Seq(T)}
  <2>1. 0 \in P
    BY <1>1, <1>10
  <2>2. ASSUME NEW m \in Nat, m \in P PROVE m + 1 \in P
    <3>. SUFFICES ASSUME (m + 1) + 1 \in 1 .. n PROVE h[(m + 1) + 1] \in Seq(T)
      OBVIOUS
    <3>1. (m + 1) + 1 \in 2 .. n /\ m + 1 \in 1 .. n /\ ((m + 1) + 1) - 1 = m + 1
      BY <1>1
    <3>2. h[m + 1] \in Seq(T) /\ s[(m + 1) + 1] \in Seq(T)
      BY <1>1, <2>2, <3>1
    <3>3. h[(m + 1) + 1] = h[m + 1] \o s[(m + 1) + 1]
      BY <1>10, <3>1
    <3>. QED BY <3>2, <3>3
  <2>3. \A m \in Nat : m \in P
    <3>. HIDE DEF P
    <3>. QED BY <2>1, <2>2, NatSetInduction
  <2>. TAKE i \in 1 .. n
  <2>4. i - 1 \in Nat /\ (i - 1) + 1 = i
    OBVIOUS
  <2>5. i - 1 \in P
    BY <2>3, <2>4
  <2>. QED BY <2>4, <2>5
<1>12. h \in [1 .. n -> Seq(T)]
  <2>1. h = [i \in 1 .. n |-> h[i]]
    BY <1>7, <1>9
  <2>. HIDE DEF Flattens
  <2>. QED BY <1>11, <2>1
<1>. QED BY <1>8, <1>10, <1>12 DEF Joins

\* What holds of the first sequence, and still when the next is joined, holds of all.
LEMMA FlattenInduction ==
    ASSUME NEW T, NEW s \in Seq(Seq(T)), s # <<>>,
           NEW Good, <<1, s[1]>> \in Good,
           \A i \in 1 .. (Len(s) - 1) : \A v \in Seq(T) :
              <<i, v>> \in Good => <<i + 1, v \o s[i + 1]>> \in Good
    PROVE  FlattenSeq(s) \in Seq(T) /\ <<Len(s), FlattenSeq(s)>> \in Good
<1>. DEFINE n == Len(s)
<1>1. n \in Nat \ {0}
  OBVIOUS
<1>2. PICK f \in [1 .. n -> Seq(T)] : Joins(f, s)
  BY FlattenJoins
<1>. DEFINE P == {m \in Nat : m + 1 \in 1 .. n => <<m + 1, f[m + 1]>> \in Good}
<1>3. 0 \in P
  <2>1. f[1] = s[1]
    BY <1>2 DEF Joins
  <2>2. <<1, f[1]>> \in Good
    BY <2>1
  <2>3. 0 + 1 = 1
    OBVIOUS
  <2>. QED BY <2>2, <2>3
<1>4. ASSUME NEW m \in Nat, m \in P PROVE m + 1 \in P
  <2>. DEFINE i == m + 1
  <2>. SUFFICES ASSUME i + 1 \in 1 .. n PROVE <<i + 1, f[i + 1]>> \in Good
    OBVIOUS
  <2>1. /\ i \in 1 .. (n - 1) /\ i \in 1 .. n /\ i + 1 \in 2 .. n /\ (i + 1) - 1 = i
    BY <1>1
  <2>2. <<i, f[i]>> \in Good /\ f[i] \in Seq(T)
    BY <1>2, <1>4, <2>1
  <2>. HIDE DEF i
  <2>3. f[i + 1] = f[i] \o s[i + 1]
    BY <1>2, <2>1 DEF Joins
  <2>4. <<i + 1, f[i] \o s[i + 1]>> \in Good
    BY <2>1, <2>2
  <2>. QED BY <2>3, <2>4
<1>5. \A m \in Nat : m \in P
  <2>. HIDE DEF P
  <2>. QED BY <1>3, <1>4, NatSetInduction
<1>6. <<n, f[n]>> \in Good
  <2>1. n - 1 \in Nat /\ (n - 1) + 1 = n /\ n \in 1 .. n
    BY <1>1
  <2>2. n - 1 \in P
    BY <1>5, <2>1
  <2>. HIDE DEF n
  <2>. QED BY <2>1, <2>2
<1>. QED BY <1>1, <1>2, <1>6 DEF Joins

\* A part of a sequence.
LEMMA PartOfSequence ==
    ASSUME NEW T, NEW s \in Seq(T), NEW i \in Nat, NEW j \in i .. Len(s)
    PROVE  LET part == SubSeq(s, i + 1, j)
           IN  /\ DOMAIN part = 1 .. (j - i) /\ Len(part) = j - i
               /\ \A k \in 1 .. (j - i) : part[k] = s[i + k]
<1>. DEFINE part == SubSeq(s, i + 1, j)
<1>1. Len(s) \in Nat /\ j \in Nat /\ i <= j /\ j - i \in Nat
  OBVIOUS
<1>2. Len(part) = j - i
  BY <1>1
<1>3. \A k \in 1 .. (j - i) : part[k] = s[i + k]
  BY <1>1
<1>4. DOMAIN part = 1 .. (j - i)
  BY <1>1, <1>2
<1>. QED BY <1>2, <1>3, <1>4

-----------------------------------------------------------------------------
(* The spans of a text.                                                    *)

\* A number larger than those of a set is sorted behind them.
LEMMA LargestIsLast ==
    ASSUME NEW S, S \subseteq Int, IsFiniteSet(S), NEW m \in Int, \A x \in S : x < m
    PROVE  LET s == Sorted(S, <)
               t == Sorted(S \cup {m}, <)
           IN  /\ Len(t) = Len(s) + 1 /\ t[Len(t)] = m
               /\ \A i \in DOMAIN s : t[i] = s[i]
<1>. DEFINE R == S \cup {m}
            s == Sorted(S, <)
            t == Sorted(R, <)
            n == Cardinality(S)
            Low(U, x) == {y \in U : y < x}
<1>1. R \subseteq Int /\ IsFiniteSet(R) /\ Cardinality(R) = n + 1 /\ n \in Nat
  <2>1. m \notin S
    OBVIOUS
  <2>. QED BY <2>1, FS_AddElement, FS_CardinalityType
<1>2. /\ s \in Seq(S) /\ DOMAIN s = 1 .. n /\ Len(s) = n /\ ToSet(s) = S
      /\ \A i, j \in DOMAIN s : i < j <=> s[i] < s[j]
  BY SortedNumbers
<1>3. /\ t \in Seq(R) /\ DOMAIN t = 1 .. (n + 1) /\ Len(t) = n + 1 /\ ToSet(t) = R
      /\ \A i, j \in DOMAIN t : i < j <=> t[i] < t[j]
  <2>. HIDE DEF R
  <2>. QED BY <1>1, SortedNumbers
<1>. HIDE DEF s, t, n
<1>4. \A x \in R : x <= m
  OBVIOUS
<1>5. t[n + 1] = m
  <2>1. m \in ToSet(t)
    BY <1>3
  <2>2. PICK k \in DOMAIN t : t[k] = m
    BY <2>1 DEF ToSet
  <2>3. n + 1 \in DOMAIN t /\ t[n + 1] \in R /\ t[n + 1] \in Int
    <3>1. n + 1 \in DOMAIN t
      BY <1>1, <1>3
    <3>. HIDE DEF R
    <3>2. t[n + 1] \in R
      BY <1>3, <3>1
    <3>. QED BY <1>1, <3>1, <3>2
  <2>4. ~(k < n + 1)
    BY <1>3, <1>4, <2>2, <2>3
  <2>5. k = n + 1
    BY <1>1, <1>3, <2>4
  <2>. QED BY <2>2, <2>5
<1>. DEFINE P == {k \in Nat : \A i \in 1 .. n : i <= k => t[i] = s[i]}
<1>6. 0 \in P
  BY <1>1
<1>7. \A i \in 1 .. n : t[i] \in S /\ s[i] \in S
  <2>. TAKE i \in 1 .. n
  <2>1. i \in DOMAIN t /\ n + 1 \in DOMAIN t /\ i < n + 1 /\ i \in DOMAIN s
    BY <1>1, <1>2, <1>3
  <2>2. t[i] \in R /\ t[i] < m
    BY <1>3, <1>5, <2>1
  <2>3. t[i] # m
    BY <2>2
  <2>4. s[i] \in S
    BY <1>2, <2>1
  <2>. QED BY <2>2, <2>3, <2>4
<1>8. ASSUME NEW k \in Nat, k \in P PROVE k + 1 \in P
  <2>. DEFINE i == k + 1
  <2>. SUFFICES ASSUME i \in 1 .. n PROVE t[i] = s[i]
    <3>1. \A j \in 1 .. n : j <= k + 1 => j <= k \/ j = k + 1
      BY <1>1
    <3>. QED BY <1>8, <3>1
  <2>0. i \in DOMAIN s /\ i \in DOMAIN t /\ i \in Nat /\ \A j \in 1 .. n : j \in DOMAIN s /\ j \in DOMAIN t
    BY <1>1, <1>2, <1>3
  <2>1. \A j \in 1 .. n : j < i => t[j] = s[j]
    BY <1>8
  <2>. HIDE DEF i
  <2>2. s[i] \in Int /\ t[i] \in Int
    BY <1>7
  <2>3. ASSUME s[i] < t[i] PROVE FALSE
    <3>1. s[i] \in ToSet(t)
      BY <1>3, <1>7
    <3>2. PICK j \in DOMAIN t : t[j] = s[i]
      BY <3>1 DEF ToSet
    <3>3. j < i
      BY <1>3, <2>0, <2>3, <3>2
    <3>4. j \in 1 .. n
      BY <1>1, <1>3, <2>0, <3>3
    <3>5. s[j] = s[i]
      BY <2>1, <3>2, <3>3, <3>4
    <3>6. s[j] < s[i]
      BY <1>2, <2>0, <3>3, <3>4
    <3>. QED BY <2>2, <3>5, <3>6
  <2>4. ASSUME t[i] < s[i] PROVE FALSE
    <3>1. t[i] \in ToSet(s)
      BY <1>2, <1>7
    <3>2. PICK j \in DOMAIN s : s[j] = t[i]
      BY <3>1 DEF ToSet
    <3>3. j < i /\ j \in 1 .. n
      BY <1>2, <2>0, <2>4, <3>2
    <3>4. t[j] = t[i]
      BY <2>1, <3>2, <3>3
    <3>5. t[j] < t[i]
      BY <1>3, <2>0, <3>3
    <3>. QED BY <2>2, <3>4, <3>5
  <2>. QED BY <2>2, <2>3, <2>4
<1>9. \A k \in Nat : k \in P
  <2>. HIDE DEF P
  <2>. QED BY <1>6, <1>8, NatSetInduction
<1>10. \A i \in 1 .. n : t[i] = s[i]
  <2>. TAKE i \in 1 .. n
  <2>1. i \in Nat /\ i <= i
    BY <1>1
  <2>2. i \in P
    BY <1>9, <2>1
  <2>. QED BY <2>1, <2>2
<1>. QED BY <1>2, <1>3, <1>5, <1>10 DEF s, t

\* Numbers from 0 on that go up: where the lines of a text begin.
GoUpFromZero(starts) ==
    /\ starts \in Seq(Nat) /\ starts # <<>> /\ starts[1] = 0
    /\ \A i, j \in DOMAIN starts : i < j => starts[i] < starts[j]

LEMMA StartsGoUp ==
    ASSUME NEW S, S \subseteq Nat \ {0}, IsFiniteSet(S)
    PROVE  LET starts == <<0>> \o Sorted(S, <)
           IN  /\ GoUpFromZero(starts) /\ Len(starts) = Len(Sorted(S, <)) + 1
               /\ Len(Sorted(S, <)) \in Nat
               /\ \A i \in 1 .. Len(Sorted(S, <)) : starts[i + 1] = Sorted(S, <)[i]
<1>. DEFINE p == Sorted(S, <)
            starts == <<0>> \o p
            n == Len(p)
<1>1. p \in Seq(S) /\ DOMAIN p = 1 .. n /\ n \in Nat /\ \A i, j \in DOMAIN p : i < j <=> p[i] < p[j]
  <2>1. S \subseteq Int
    OBVIOUS
  <2>. QED BY <2>1, SortedNumbers
<1>. HIDE DEF p, n
<1>2. \A i \in 1 .. n : p[i] \in S /\ p[i] \in Nat /\ 0 < p[i]
  <2>. TAKE i \in 1 .. n
  <2>1. p[i] \in S
    BY <1>1
  <2>2. p[i] \in Nat \ {0}
    BY <2>1
  <2>. QED BY <2>1, <2>2
<1>3. p \in Seq(Nat)
  <2>1. p \in Seq(S) /\ S \subseteq Nat
    BY <1>1
  <2>2. p \in [1 .. n -> Nat]
    <3>1. p = [i \in 1 .. n |-> p[i]]
      BY <1>1
    <3>. QED BY <1>2, <3>1
  <2>. QED BY <1>1, <2>2
<1>4. /\ starts \in Seq(Nat) /\ Len(starts) = n + 1 /\ DOMAIN starts = 1 .. (n + 1)
      /\ starts[1] = 0 /\ \A i \in 2 .. (n + 1) : starts[i] = p[i - 1]
  BY <1>1, <1>3 DEF n
<1>. HIDE DEF starts
<1>5. ASSUME NEW i \in DOMAIN starts, NEW j \in DOMAIN starts, i < j
      PROVE  starts[i] < starts[j]
  <2>1. i \in 1 .. (n + 1) /\ j \in 2 .. (n + 1) /\ j - 1 \in 1 .. n
    BY <1>1, <1>4, <1>5
  <2>2. CASE i = 1
    BY <1>2, <1>4, <2>1, <2>2
  <2>3. CASE i # 1
    <3>1. i \in 2 .. (n + 1) /\ i - 1 \in 1 .. n /\ i - 1 < j - 1
      BY <1>1, <1>5, <2>1, <2>3
    <3>2. p[i - 1] < p[j - 1]
      BY <1>1, <2>1, <3>1
    <3>. QED BY <1>4, <2>1, <3>1, <3>2
  <2>. QED BY <2>2, <2>3
<1>6. \A i \in 1 .. n : starts[i + 1] = p[i]
  <2>. TAKE i \in 1 .. n
  <2>1. i + 1 \in 2 .. (n + 1) /\ (i + 1) - 1 = i
    BY <1>1
  <2>. QED BY <1>4, <2>1
<1>7. GoUpFromZero(starts)
  BY <1>1, <1>4, <1>5 DEF GoUpFromZero
<1>. QED BY <1>1, <1>4, <1>6, <1>7 DEF starts, n, p

\* The line of an offset is the last one that begins at it or before.
LEMMA LineOfOffset ==
    ASSUME NEW starts, GoUpFromZero(starts), NEW a \in Nat
    PROVE  LET line == OffsetToLineCol(a, starts)[1]
           IN  /\ line \in 1 .. Len(starts) /\ starts[line] <= a
               /\ \A i \in 1 .. Len(starts) : line < i => a < starts[i]
               /\ OffsetToLineCol(a, starts) = <<line, a - starts[line] + 1>>
<1>. DEFINE n == Len(starts)
            B == {i \in DOMAIN starts : starts[i] <= a}
            m == Max(B)
<1>1. /\ n \in Nat \ {0} /\ DOMAIN starts = 1 .. n /\ starts[1] = 0
      /\ \A i \in 1 .. n : starts[i] \in Nat
      /\ \A i, j \in 1 .. n : i < j => starts[i] < starts[j]
  BY DEF GoUpFromZero
<1>2. B \subseteq Int /\ B # {} /\ IsFiniteSet(B)
  <2>1. 1 \in B
    BY <1>1
  <2>2. B \in SUBSET (1 .. n) /\ IsFiniteSet(1 .. n)
    BY <1>1, FS_Interval
  <2>. HIDE DEF B
  <2>3. IsFiniteSet(B)
    BY <2>2, FS_Subset
  <2>. QED BY <1>1, <2>1, <2>2, <2>3
<1>3. m \in B /\ \A i \in B : i <= m
  <2>. HIDE DEF B
  <2>. QED BY <1>2, MinMaxOf
<1>. HIDE DEF m
<1>4. m \in 1 .. n /\ starts[m] <= a
  BY <1>1, <1>3
<1>5. B = 1 .. m
  <2>1. \A i \in 1 .. m : i \in B
    <3>. TAKE i \in 1 .. m
    <3>1. i \in 1 .. n /\ (i = m \/ i < m)
      BY <1>1, <1>4
    <3>2. starts[i] <= starts[m]
      BY <1>1, <1>4, <3>1
    <3>. QED BY <1>1, <1>4, <3>1, <3>2
  <2>2. \A i \in B : i \in 1 .. m
    BY <1>1, <1>3, <1>4
  <2>. QED BY <2>1, <2>2
<1>6. Cardinality(B) = m
  <2>1. 1 \in Int /\ m \in Int /\ m \in Nat /\ 1 <= m
    BY <1>1, <1>4
  <2>2. Cardinality(1 .. m) = IF 1 > m THEN 0 ELSE m - 1 + 1
    BY <2>1, FS_Interval
  <2>3. Cardinality(1 .. m) = m
    BY <2>1, <2>2
  <2>. QED BY <1>5, <2>3
<1>7. \A i \in 1 .. n : m < i => a < starts[i]
  BY <1>1, <1>3, <1>4
<1>8. OffsetToLineCol(a, starts) = <<m, a - starts[m] + 1>>
  BY <1>6 DEF OffsetToLineCol
<1>. QED BY <1>4, <1>7, <1>8

\* The texts between the stops, one after the other, end where the stops are.
LEMMA LinesReachStops ==
    ASSUME NEW T, NEW source \in Seq(T), NEW stops, GoUpFromZero(stops),
           stops[Len(stops)] <= Len(source), NEW lines,
           lines = [k \in 1 .. (Len(stops) - 1) |-> SubSeq(source, stops[k] + 1, stops[k + 1])],
           NEW m \in 0 .. (Len(stops) - 1)
    PROVE  Len(FlattenSeq(SubSeq(lines, 1, m))) = stops[m + 1]
<1>. DEFINE n == Len(stops)
            some == SubSeq(lines, 1, m)
<1>1. /\ n \in Nat \ {0} /\ DOMAIN stops = 1 .. n /\ stops[1] = 0
      /\ \A i \in 1 .. n : stops[i] \in Nat
      /\ \A i, j \in 1 .. n : i < j => stops[i] < stops[j]
  BY DEF GoUpFromZero
<1>. HIDE DEF n
<1>2. \A k \in 1 .. (n - 1) : /\ k \in 1 .. n /\ k + 1 \in 1 .. n
                              /\ stops[k] \in Nat /\ stops[k + 1] \in stops[k] .. Len(source)
  <2>. TAKE k \in 1 .. (n - 1)
  <2>1. k \in 1 .. n /\ k + 1 \in 1 .. n /\ k < k + 1 /\ (k + 1 = n \/ k + 1 < n) /\ n \in 1 .. n
    BY <1>1
  <2>2. stops[k] < stops[k + 1] /\ stops[k + 1] <= stops[n]
    BY <1>1, <2>1
  <2>4. stops[n] <= Len(source)
    BY DEF n
  <2>3. stops[n] <= Len(source) /\ Len(source) \in Nat /\ stops[n] \in Nat
    BY <1>1, <2>1, <2>4
  <2>. QED BY <1>1, <2>1, <2>2, <2>3
<1>3. \A k \in 1 .. (n - 1) : /\ lines[k] \in Seq(T)
                              /\ Len(lines[k]) = stops[k + 1] - stops[k]
  <2>. TAKE k \in 1 .. (n - 1)
  <2>1. lines[k] = SubSeq(source, stops[k] + 1, stops[k + 1])
    BY DEF n
  <2>2. stops[k] \in Nat /\ stops[k + 1] \in stops[k] .. Len(source)
    BY <1>2
  <2>. DEFINE i == stops[k]
              j == stops[k + 1]
  <2>3. /\ Len(SubSeq(source, i + 1, j)) = j - i /\ DOMAIN SubSeq(source, i + 1, j) = 1 .. (j - i)
        /\ \A h \in 1 .. (j - i) : SubSeq(source, i + 1, j)[h] = source[i + h]
    <3>. HIDE DEF i, j
    <3>1. i \in Nat /\ j \in i .. Len(source)
      BY <2>2 DEF i, j
    <3>. QED BY <3>1, PartOfSequence
  <2>. HIDE DEF i, j
  <2>4. SubSeq(source, i + 1, j) \in Seq(T)
    <3>1. i \in Nat /\ j \in i .. Len(source)
      BY <2>2 DEF i, j
    <3>. QED BY <3>1
  <2>. QED BY <2>1, <2>3, <2>4 DEF i, j
<1>4. lines \in Seq(Seq(T)) /\ Len(lines) = n - 1
  <2>1. lines = [k \in 1 .. (n - 1) |-> lines[k]]
    BY DEF n
  <2>. DEFINE S == Seq(T)
  <2>2. lines \in [1 .. (n - 1) -> S]
    BY <1>3, <2>1
  <2>3. n - 1 \in Nat
    BY <1>1
  <2>. DEFINE k == n - 1
  <2>. HIDE DEF S, k
  <2>4. lines \in [1 .. k -> S] /\ k \in Nat
    BY <2>2, <2>3 DEF k
  <2>5. lines \in Seq(S) /\ Len(lines) = k
    BY <2>4
  <2>. QED BY <2>5 DEF S, k
<1>5. m \in 0 .. (n - 1) /\ m \in Nat
  BY <1>1 DEF n
<1>6. DOMAIN some = 1 .. m /\ Len(some) = m /\ \A k \in 1 .. m : some[k] = lines[k]
  <2>. DEFINE S == Seq(T)
  <2>1. lines \in Seq(S) /\ 0 \in Nat /\ m \in 0 .. Len(lines)
    BY <1>4, <1>5
  <2>. HIDE DEF S
  <2>2. /\ DOMAIN SubSeq(lines, 0 + 1, m) = 1 .. (m - 0) /\ Len(SubSeq(lines, 0 + 1, m)) = m - 0
        /\ \A k \in 1 .. (m - 0) : SubSeq(lines, 0 + 1, m)[k] = lines[0 + k]
    BY <2>1, PartOfSequence
  <2>3. 0 + 1 = 1 /\ m - 0 = m /\ \A k \in 1 .. m : 0 + k = k
    BY <1>5
  <2>. QED BY <2>2, <2>3
<1>7. \A k \in 1 .. m : /\ some[k] \in Seq(T) /\ Len(some[k]) = stops[k + 1] - stops[k]
                        /\ stops[k] \in Nat /\ stops[k + 1] \in Nat
  <2>1. \A k \in 1 .. m : k \in 1 .. (n - 1)
    BY <1>1, <1>5
  <2>2. \A k \in 1 .. m : stops[k] \in Nat /\ stops[k + 1] \in Nat
    BY <1>1, <1>2, <2>1
  <2>. QED BY <1>3, <1>6, <2>1, <2>2
<1>8. some \in Seq(Seq(T))
  <2>1. SubSeq(lines, 1, m) \in Seq(Seq(T))
    <3>. DEFINE S == Seq(T)
    <3>1. lines \in Seq(S) /\ m \in 0 .. Len(lines)
      BY <1>4, <1>5
    <3>. HIDE DEF S
    <3>2. SubSeq(lines, 1, m) \in Seq(S)
      BY <3>1
    <3>. QED BY <3>2 DEF S
  <2>. QED BY <2>1
<1>. HIDE DEF some
<1>9. CASE m = 0
  <2>1. FlattenSeq(some) = some
    BY <1>6, <1>9 DEF FlattenSeq
  <2>. QED BY <1>1, <1>6, <1>9, <2>1 DEF some
<1>10. CASE m # 0
  <2>. DEFINE Good == {pair \in (1 .. m) \X Seq(T) : Len(pair[2]) = stops[pair[1] + 1]}
  <2>1. some # <<>> /\ 1 \in 1 .. m
    BY <1>5, <1>6, <1>10
  <2>2. <<1, some[1]>> \in Good
    <3>1. Len(some[1]) = stops[1 + 1] /\ some[1] \in Seq(T)
      BY <1>1, <1>7, <2>1
    <3>. QED BY <2>1, <3>1
  <2>3. ASSUME NEW i \in 1 .. (Len(some) - 1), NEW v \in Seq(T), <<i, v>> \in Good
        PROVE  <<i + 1, v \o some[i + 1]>> \in Good
    <3>. DEFINE h == i + 1
    <3>1. i \in 1 .. m /\ h \in 1 .. m
      BY <1>5, <1>6
    <3>2. Len(v) = stops[h]
      BY <2>3
    <3>. HIDE DEF h
    <3>3. v \o some[h] \in Seq(T) /\ Len(v \o some[h]) = Len(v) + Len(some[h])
      BY <1>7, <3>1
    <3>4. Len(v \o some[h]) = stops[h + 1]
      <4>1. /\ Len(some[h]) = stops[h + 1] - stops[h]
            /\ stops[h] \in Nat /\ stops[h + 1] \in Nat
        BY <1>7, <3>1
      <4>2. Len(v \o some[h]) = stops[h] + (stops[h + 1] - stops[h])
        BY <3>2, <3>3, <4>1
      <4>. QED BY <4>1, <4>2
    <3>. QED BY <3>1, <3>3, <3>4 DEF h
  <2>. HIDE DEF Good
  <2>4. <<Len(some), FlattenSeq(some)>> \in Good
    BY <1>8, <2>1, <2>2, <2>3, FlattenInduction
  <2>. QED BY <1>6, <2>4 DEF Good, some
<1>. QED BY <1>9, <1>10

\* Where the lines of a text begin, against where they stop: the two agree on
\* every line that has a character, and the last stop is the end of the text.
LinesFit(source, starts, stops) ==
    /\ GoUpFromZero(starts) /\ GoUpFromZero(stops)
    /\ stops[Len(stops)] = Len(source)
    /\ \A i \in 1 .. Len(starts) : starts[i] < Len(source) =>
          i <= Len(stops) - 1 /\ starts[i] = stops[i]

Ends(source, ends) == {i \in DOMAIN source : source[i] \in ends \/ i = Len(source)}

LEMMA LinesOfText ==
    ASSUME NEW T, NEW source \in Seq(T), source # <<>>
    PROVE  LinesFit(source, ComputeLineStarts(source), <<0>> \o Positions(source, Ends(source, {"n"})))
<1>. DEFINE N == {i \in DOMAIN source : source[i] = "n"}
            E == Ends(source, {"n"})
            m == Len(source)
            s == Sorted(N, <)
            t == Sorted(E, <)
<1>1. /\ m \in Nat \ {0} /\ DOMAIN source = 1 .. m
      /\ N \subseteq 1 .. m /\ E \subseteq 1 .. m /\ E = N \cup {m}
  <2>1. m \in Nat \ {0} /\ DOMAIN source = 1 .. m
    OBVIOUS
  <2>2. N \subseteq 1 .. m /\ E \subseteq 1 .. m
    BY <2>1 DEF Ends
  <2>3. m \in DOMAIN source
    BY <2>1
  <2>4. E = N \cup {m}
    BY <2>3 DEF Ends
  <2>. QED BY <2>1, <2>2, <2>4
<1>2. ComputeLineStarts(source) = <<0>> \o s /\ Positions(source, E) = t
  <2>1. N \cap DOMAIN source = N /\ E \cap DOMAIN source = E
    BY <1>1
  <2>2. Positions(source, N) = s /\ Positions(source, E) = t
    <3>. HIDE DEF N, E
    <3>. QED BY <2>1 DEF Positions
  <2>. QED BY <2>2 DEF ComputeLineStarts
<1>. HIDE DEF m, N, E
<1>3. /\ IsFiniteSet(N) /\ IsFiniteSet(E) /\ N \subseteq Nat \ {0} /\ E \subseteq Nat \ {0}
      /\ N \subseteq Int /\ m \in Int
  <2>1. IsFiniteSet(1 .. m)
    BY <1>1, FS_Interval
  <2>2. IsFiniteSet(N) /\ IsFiniteSet(E)
    BY <1>1, <2>1, FS_Subset
  <2>. QED BY <1>1, <2>2
<1>. HIDE DEF s, t
<1>. DEFINE starts == <<0>> \o s
            stops == <<0>> \o t
<1>4. /\ GoUpFromZero(starts) /\ Len(starts) = Len(s) + 1 /\ Len(s) \in Nat
      /\ \A i \in 1 .. Len(s) : starts[i + 1] = s[i]
  BY <1>3, StartsGoUp DEF s
<1>5. /\ GoUpFromZero(stops) /\ Len(stops) = Len(t) + 1 /\ Len(t) \in Nat
      /\ \A i \in 1 .. Len(t) : stops[i + 1] = t[i]
  BY <1>3, StartsGoUp DEF t
<1>6. /\ DOMAIN s = 1 .. Len(s) /\ ToSet(s) = N
      /\ \A i, j \in DOMAIN s : i < j <=> s[i] < s[j]
  BY <1>3, SortedNumbers DEF s
<1>. HIDE DEF starts, stops
<1>7. CASE m \in N
  <2>1. E = N
    BY <1>1, <1>7
  <2>2. s = t
    BY <2>1 DEF s, t
  <2>3. starts = stops
    BY <2>2 DEF starts, stops
  <2>4. PICK k \in 1 .. Len(s) : s[k] = m
    BY <1>6, <1>7 DEF ToSet
  <2>5. k = Len(s)
    <3>1. SUFFICES ASSUME k < Len(s) PROVE FALSE
      BY <1>4, <2>4
    <3>2. Len(s) \in DOMAIN s /\ k \in DOMAIN s
      BY <1>4, <1>6, <2>4
    <3>3. s[k] < s[Len(s)]
      BY <1>6, <3>1, <3>2
    <3>4. s[Len(s)] \in 1 .. m
      BY <1>1, <1>6, <3>2 DEF ToSet
    <3>. QED BY <1>1, <2>4, <3>3, <3>4
  <2>6. stops[Len(stops)] = m
    BY <1>4, <2>3, <2>4, <2>5
  <2>7. ASSUME NEW i \in 1 .. Len(starts), starts[i] < m
        PROVE  i <= Len(stops) - 1 /\ starts[i] = stops[i]
    <3>1. i # Len(starts)
      <4>1. SUFFICES ASSUME i = Len(starts) PROVE FALSE
        OBVIOUS
      <4>2. starts[i] = m
        BY <2>3, <2>6, <4>1
      <4>. QED BY <1>1, <2>7, <4>2
    <3>2. Len(starts) \in Nat
      BY <1>4
    <3>3. i <= Len(starts) - 1
      BY <3>1, <3>2
    <3>. QED BY <2>3, <3>3
  <2>. QED BY <1>2, <1>4, <1>5, <2>6, <2>7 DEF LinesFit, starts, stops, m, E
<1>8. CASE m \notin N
  <2>1. \A x \in N : x < m
    BY <1>1, <1>8
  <2>2. /\ Len(t) = Len(s) + 1 /\ t[Len(t)] = m
        /\ \A i \in DOMAIN s : t[i] = s[i]
    <3>1. t = Sorted(N \cup {m}, <)
      BY <1>1 DEF t
    <3>. QED BY <1>3, <2>1, <3>1, LargestIsLast DEF s
  <2>3. stops[Len(stops)] = m
    <3>1. Len(t) \in 1 .. Len(t)
      BY <1>4, <2>2
    <3>. QED BY <1>5, <2>2, <3>1
  <2>4. ASSUME NEW i \in 1 .. Len(starts)
        PROVE  i <= Len(stops) - 1 /\ starts[i] = stops[i]
    <3>1. i <= Len(stops) - 1
      BY <1>4, <1>5, <2>2
    <3>2. CASE i = 1
      <4>1. starts[1] = 0
        BY <1>4 DEF GoUpFromZero
      <4>2. stops[1] = 0
        BY <1>5 DEF GoUpFromZero
      <4>. QED BY <3>1, <3>2, <4>1, <4>2
    <3>3. CASE i # 1
      <4>. DEFINE j == i - 1
      <4>1. j \in 1 .. Len(s) /\ j \in 1 .. Len(t) /\ i = j + 1
        BY <1>4, <2>2, <3>3
      <4>. HIDE DEF j
      <4>2. starts[j + 1] = s[j] /\ stops[j + 1] = t[j] /\ t[j] = s[j]
        BY <1>4, <1>5, <1>6, <2>2, <4>1
      <4>. QED BY <3>1, <4>1, <4>2
    <3>. QED BY <3>1, <3>2, <3>3
  <2>. QED BY <1>2, <1>4, <1>5, <2>3, <2>4 DEF LinesFit, starts, stops, m, E
<1>. QED BY <1>7, <1>8

\* The line and the column of a character name the place it stands at.
LEMMA PlaceOfOffset ==
    ASSUME NEW T, NEW source \in Seq(T), NEW a \in Nat, a < Len(source)
    PROVE  LET place == OffsetToLineCol(a, ComputeLineStarts(source))
               lines == LinesOf(source, {"n"})
           IN  /\ place = <<place[1], place[2]>> /\ place[1] \in Nat /\ place[2] \in Nat
               /\ Len(FlattenSeq(SubSeq(lines, 1, place[1] - 1))) + place[2] = a + 1
<1>. DEFINE starts == ComputeLineStarts(source)
            stops == <<0>> \o Positions(source, Ends(source, {"n"}))
            lines == LinesOf(source, {"n"})
            place == OffsetToLineCol(a, starts)
            line == place[1]
<1>1. source # <<>> /\ Len(source) \in Nat
  OBVIOUS
<1>2. LinesFit(source, starts, stops)
  BY <1>1, LinesOfText
<1>3. lines = [k \in 1 .. (Len(stops) - 1) |-> SubSeq(source, stops[k] + 1, stops[k + 1])]
  BY DEF LinesOf, Ends
<1>. HIDE DEF starts, stops, lines
<1>4. /\ line \in 1 .. Len(starts) /\ starts[line] <= a
      /\ place = <<line, a - starts[line] + 1>>
  BY <1>2, LineOfOffset DEF LinesFit
<1>. HIDE DEF place
<1>5. GoUpFromZero(starts) /\ GoUpFromZero(stops) /\ stops[Len(stops)] = Len(source)
  BY <1>2 DEF LinesFit
<1>6. starts[line] \in Nat /\ Len(starts) \in Nat /\ Len(stops) \in Nat
  BY <1>4, <1>5 DEF GoUpFromZero
<1>7. line \in Nat /\ line >= 1 /\ line <= Len(stops) - 1 /\ starts[line] = stops[line]
  <2>1. starts[line] < Len(source)
    BY <1>1, <1>4, <1>6
  <2>2. line <= Len(stops) - 1 /\ starts[line] = stops[line]
    BY <1>2, <1>4, <2>1 DEF LinesFit
  <2>. QED BY <1>4, <1>6, <2>2
<1>. DEFINE m == line - 1
<1>8. m \in 0 .. (Len(stops) - 1) /\ m + 1 = line
  BY <1>6, <1>7
<1>9. Len(FlattenSeq(SubSeq(lines, 1, m))) = stops[m + 1]
  <2>1. stops[Len(stops)] <= Len(source)
    BY <1>1, <1>5
  <2>. HIDE DEF m
  <2>. QED BY <1>3, <1>5, <1>8, <2>1, LinesReachStops
<1>10. place[2] = a - starts[line] + 1
  BY <1>4
<1>11. place[2] \in Nat /\ place = <<line, place[2]>>
  BY <1>4, <1>6, <1>10
<1>12. Len(FlattenSeq(SubSeq(lines, 1, m))) + place[2] = a + 1
  <2>1. Len(FlattenSeq(SubSeq(lines, 1, m))) = starts[line]
    BY <1>7, <1>8, <1>9
  <2>. DEFINE before == Len(FlattenSeq(SubSeq(lines, 1, m)))
  <2>. HIDE DEF before, line
  <2>2. before + (a - starts[line] + 1) = a + 1
    BY <1>6, <2>1 DEF before
  <2>. QED BY <1>10, <2>2 DEF before
<1>. QED BY <1>7, <1>11, <1>12 DEF starts, lines, place

\* Two pairs, one after the other.
LEMMA PairsConcatenated ==
    ASSUME NEW T, NEW p \in Seq(T), NEW q \in Seq(T), Len(p) = 2, Len(q) = 2
    PROVE  /\ (p \o q)[1] = p[1] /\ (p \o q)[2] = p[2]
           /\ (p \o q)[3] = q[1] /\ (p \o q)[4] = q[2]
<1>1. \A i \in 1 .. (Len(p) + Len(q)) :
         (p \o q)[i] = IF i <= Len(p) THEN p[i] ELSE q[i - Len(p)]
  BY ConcatProperties
<1>2. \A i \in 1 .. (Len(p) + Len(q)) :
         IF i <= Len(p) THEN (p \o q)[i] = p[i] ELSE (p \o q)[i] = q[i - Len(p)]
  BY <1>1, Zenon
<1>3. 1 .. (Len(p) + Len(q)) = 1 .. 4 /\ Len(p) = 2
  OBVIOUS
<1>4. \A i \in 1 .. 4 : IF i <= 2 THEN (p \o q)[i] = p[i] ELSE (p \o q)[i] = q[i - 2]
  BY <1>2, <1>3, Zenon
<1>5. 1 \in 1 .. 4 /\ 2 \in 1 .. 4 /\ 3 \in 1 .. 4 /\ 4 \in 1 .. 4
  OBVIOUS
<1>6. 3 - 2 = 1 /\ 4 - 2 = 2 /\ 1 <= 2 /\ 2 <= 2 /\ ~(3 <= 2) /\ ~(4 <= 2)
  OBVIOUS
<1>7. \A i \in 1 .. 4 : i <= 2 => (p \o q)[i] = p[i]
  BY <1>4, Zenon
<1>8. \A i \in 1 .. 4 : ~(i <= 2) => (p \o q)[i] = q[i - 2]
  BY <1>4, Zenon
<1>9. (p \o q)[1] = p[1] /\ (p \o q)[2] = p[2]
  BY <1>5, <1>6, <1>7, Zenon
<1>10. (p \o q)[3] = q[3 - 2] /\ (p \o q)[4] = q[4 - 2]
  BY <1>5, <1>6, <1>8, Zenon
<1>. QED BY <1>6, <1>9, <1>10, Zenon

\* Two places make a span.
LEMMA PairsJoined ==
    ASSUME NEW w \in Nat, NEW x \in Nat, NEW y \in Nat, NEW z \in Nat
    PROVE  LET span == <<w, x>> \o <<y, z>>
           IN  span[1] = w /\ span[2] = x /\ span[3] = y /\ span[4] = z
<1>. DEFINE p == <<w, x>>
            q == <<y, z>>
<1>1. p \in Seq(Nat) /\ Len(p) = 2 /\ p[1] = w /\ p[2] = x
  OBVIOUS
<1>2. q \in Seq(Nat) /\ Len(q) = 2 /\ q[1] = y /\ q[2] = z
  OBVIOUS
<1>. HIDE DEF p, q
<1>3. /\ (p \o q)[1] = p[1] /\ (p \o q)[2] = p[2]
      /\ (p \o q)[3] = q[1] /\ (p \o q)[4] = q[2]
  BY <1>1, <1>2, PairsConcatenated
<1>. QED BY <1>1, <1>2, <1>3 DEF p, q

\* What a span is made for is what it is read back as: the span of a range of
\* offsets names, by its lines and columns, exactly the characters of the range,
\* whatever the text, the line ends in it and the range, one that starts or ends
\* at a line end and a last line without one included
\* (core/spans.py offset_range_to_span).
THEOREM SpansNameTheirText ==
    ASSUME NEW T, NEW source \in Seq(T), NEW a \in Nat, NEW b \in Nat,
           a < b, b <= Len(source)
    PROVE  CutBySpan(source, OffsetRangeToSpan(<<a, b>>, ComputeLineStarts(source)), {"n"})
              = SubSeq(source, a + 1, b)
<1>. DEFINE starts == ComputeLineStarts(source)
            lines == LinesOf(source, {"n"})
            c == b - 1
            first == OffsetToLineCol(a, starts)
            last == OffsetToLineCol(c, starts)
            span == OffsetRangeToSpan(<<a, b>>, starts)
            Offset(line, column) == Len(FlattenSeq(SubSeq(lines, 1, line - 1))) + column
<1>1. c \in Nat /\ c < Len(source) /\ a < Len(source) /\ c + 1 = b /\ a <= c
  BY LenProperties
<1>2. Max({c, a}) = c
  <2>. HIDE DEF c
  <2>1. {c, a} \subseteq Int /\ {c, a} # {} /\ IsFiniteSet({c, a})
    <3>1. c \in Int /\ a \in Int
      BY <1>1
    <3>2. IsFiniteSet({c, a})
      BY PairIsFinite
    <3>. QED BY <3>1, <3>2
  <2>2. Max({c, a}) \in {c, a} /\ \A x \in {c, a} : x <= Max({c, a})
    <3>. DEFINE C == {c, a}
    <3>. HIDE DEF C
    <3>1. C \subseteq Int /\ C # {} /\ IsFiniteSet(C)
      BY <2>1 DEF C
    <3>2. Max(C) \in C /\ \A x \in C : x <= Max(C)
      BY <3>1, MinMaxOf
    <3>. QED BY <3>2 DEF C
  <2>3. c <= Max({c, a})
    BY <2>2
  <2>. QED BY <1>1, <2>2, <2>3
<1>3. span = first \o last
  BY <1>2 DEF OffsetRangeToSpan
<1>. HIDE DEF c
<1>4. /\ first = <<first[1], first[2]>> /\ first[1] \in Nat /\ first[2] \in Nat
      /\ Offset(first[1], first[2]) = a + 1
  BY <1>1, PlaceOfOffset
<1>5. /\ last = <<last[1], last[2]>> /\ last[1] \in Nat /\ last[2] \in Nat
      /\ Offset(last[1], last[2]) = c + 1
  BY <1>1, PlaceOfOffset
<1>. HIDE DEF first, last, starts
<1>6. /\ span[1] = first[1] /\ span[2] = first[2] /\ span[3] = last[1] /\ span[4] = last[2]
  <2>. DEFINE w == first[1]
              x == first[2]
              y == last[1]
              z == last[2]
  <2>1. span = <<w, x>> \o <<y, z>> /\ w \in Nat /\ x \in Nat /\ y \in Nat /\ z \in Nat
    BY <1>3, <1>4, <1>5
  <2>. HIDE DEF w, x, y, z, span
  <2>2. span[1] = w /\ span[2] = x /\ span[3] = y /\ span[4] = z
    BY <2>1, PairsJoined
  <2>. QED BY <2>2 DEF w, x, y, z
<1>. HIDE DEF span
<1>7. CutBySpan(source, span, {"n"})
         = SubSeq(source, Offset(span[1], span[2]), Offset(span[3], span[4]))
  BY DEF CutBySpan
<1>. HIDE DEF lines, Offset
<1>8. CutBySpan(source, span, {"n"}) = SubSeq(source, a + 1, b)
  BY <1>1, <1>4, <1>5, <1>6, <1>7
<1>. QED BY <1>8 DEF span, starts
=============================================================================
