---------------------------- MODULE ExtremaLemmas ----------------------------
(***************************************************************************)
(* Least and greatest elements of sets of numbers, which the consumers     *)
(* (the entry with the lowest id) and the file versions are defined with.  *)
(***************************************************************************)
EXTENDS Integers, FiniteSets, FiniteSetsExt, FiniteSetTheorems, WellFoundedInduction, TLAPS

\* A non-empty set of natural numbers has a least element.
LEMMA LeastExists ==
  ASSUME NEW S, S \subseteq Nat, S # {}
  PROVE  \E x \in S : \A y \in S : x <= y
  <1>1. \E x \in S : \A y \in S : ~ (<<y, x>> \in OpToRel(<, Nat))
    BY NatLessThanWellFounded, WFMin, Zenon
  <1>2. \A x, y \in Nat : <<y, x>> \in OpToRel(<, Nat) <=> y < x
    BY DEF OpToRel
  <1>3. \E x \in S : \A y \in S : ~ (y < x)
    BY <1>1, <1>2, Zenon
  <1>4. QED
    BY <1>3

\* A non-empty set of integers with an upper bound has a greatest element.
LEMMA GreatestExists ==
  ASSUME NEW S, S \subseteq Int, S # {}, NEW b \in Int, \A x \in S : x <= b
  PROVE  \E x \in S : \A y \in S : x >= y
  <1> DEFINE T == {n \in Nat : b - n \in S}
  <1>1. T \subseteq Nat /\ T # {}
    <2>1. PICK x \in S : TRUE
      OBVIOUS
    <2>2. b - x \in Nat /\ b - (b - x) = x
      BY <2>1
    <2>3. QED
      BY <2>1, <2>2
  <1>2. PICK n \in T : \A m \in T : n <= m
    BY <1>1, LeastExists
  <1>3. ASSUME NEW y \in S PROVE b - n >= y
    <2>1. b - y \in T
      OBVIOUS
    <2>2. QED
      BY <1>2, <2>1
  <1>4. QED
    BY <1>2, <1>3

\* What Min returns.
LEMMA MinIs ==
  ASSUME NEW S, S \subseteq Nat, S # {}
  PROVE  Min(S) \in S /\ \A y \in S : Min(S) <= y
  BY LeastExists DEF Min

\* What Max returns.
LEMMA MaxIs ==
  ASSUME NEW S, S \subseteq Int, S # {}, NEW b \in Int, \A x \in S : x <= b
  PROVE  Max(S) \in S /\ \A y \in S : Max(S) >= y
  <1>1. \E x \in S : \A y \in S : x >= y
    BY GreatestExists
  <1>2. QED
    BY <1>1 DEF Max

\* A finite set of numbers has an upper bound: one without, of the least size there
\* is, would have one without any of its elements.
LEMMA FiniteBounded ==
  ASSUME NEW S, S \subseteq Nat, IsFiniteSet(S)
  PROVE  \E b \in Nat : \A x \in S : x <= b
  <1> DEFINE Bounded(T) == \E b \in Nat : \A x \in T : x <= b
             Sizes == {n \in Nat : \E T \in SUBSET Nat :
                         IsFiniteSet(T) /\ Cardinality(T) = n /\ ~Bounded(T)}
  <1>1. ASSUME Sizes # {} PROVE FALSE
    <2>1. Sizes \subseteq Nat
      OBVIOUS
    <2>2. PICK n \in Sizes : \A m \in Sizes : n <= m
      BY <1>1, <2>1, LeastExists
    <2>3. PICK T \in SUBSET Nat : IsFiniteSet(T) /\ Cardinality(T) = n /\ ~Bounded(T)
      BY <2>2
    <2>4. PICK x \in T : x \in Nat
      BY <2>3
    <2>5. /\ IsFiniteSet(T \ {x}) /\ T \ {x} \in SUBSET Nat
          /\ Cardinality(T \ {x}) = n - 1 /\ n - 1 \in Nat
      <3>1. IsFiniteSet(T \ {x}) /\ Cardinality(T \ {x}) = n - 1
        BY <2>3, <2>4, FS_RemoveElement
      <3>2. Cardinality(T \ {x}) \in Nat
        BY <3>1, FS_CardinalityType
      <3>3. QED
        BY <3>1, <3>2
    <2>6. Bounded(T \ {x})
      <3>1. n \in Nat /\ ~ (n <= n - 1)
        BY <2>1, <2>2
      <3>2. ~ (n - 1 \in Sizes)
        <4> HIDE DEF Sizes
        <4>1. QED
          BY <2>2, <3>1
      <3>3. QED
        BY <2>5, <3>2
    <2>7. PICK b \in Nat : \A y \in T \ {x} : y <= b
      BY <2>6
    <2>8. \A y \in T : y <= b + x
      BY <2>3, <2>4, <2>7
    <2>9. b + x \in Nat
      BY <2>4, <2>7
    <2>10. QED
      BY <2>3, <2>8, <2>9
  <1>2. Cardinality(S) \in Nat
    BY FS_CardinalityType
  <1>3. QED
    BY <1>1, <1>2

\* What Max returns of a finite set.
LEMMA FiniteMax ==
  ASSUME NEW S, S \subseteq Nat, S # {}, IsFiniteSet(S)
  PROVE  Max(S) \in S /\ \A y \in S : Max(S) >= y
  <1>1. PICK b \in Nat : \A x \in S : x <= b
    BY FiniteBounded
  <1>2. S \subseteq Int /\ b \in Int
    BY <1>1
  <1>3. QED
    BY <1>1, <1>2, MaxIs

\* The n lowest elements of a set.
LowestOf(S, n) == {i \in S : Cardinality({j \in S : j < i}) < n}

\* With an element of these come all those before it.
LEMMA LowestOfIs ==
  ASSUME NEW S, S \subseteq Nat, IsFiniteSet(S), NEW n \in Nat
  PROVE  /\ LowestOf(S, n) \subseteq S
         /\ \A m \in LowestOf(S, n), i \in S : i <= m => i \in LowestOf(S, n)
         /\ n > 0 /\ S # {} => LowestOf(S, n) # {}
  <1> DEFINE Below(i) == {j \in S : j < i}
             L == LowestOf(S, n)
  <1> USE DEF LowestOf
  <1>1. L \subseteq S
    OBVIOUS
  <1>2. ASSUME NEW m \in L, NEW i \in S, i <= m PROVE i \in L
    <2>0. m \in Nat /\ i \in Nat
      BY <1>1
    <2>1. Below(i) \in SUBSET Below(m) /\ Below(m) \in SUBSET S
      <3>1. ASSUME NEW j \in S, j < i PROVE j < m
        BY <1>2, <2>0, <3>1
      <3>2. QED
        BY <3>1
    <2>2. IsFiniteSet(Below(m))
      BY <2>1, FS_Subset
    <2>3. IsFiniteSet(Below(i)) /\ Cardinality(Below(i)) <= Cardinality(Below(m))
      BY <2>1, <2>2, FS_Subset
    <2>4. Cardinality(Below(i)) \in Nat /\ Cardinality(Below(m)) \in Nat
      BY <2>2, <2>3, FS_CardinalityType
    <2>5. Cardinality(Below(m)) < n
      OBVIOUS
    <2> HIDE DEF Below
    <2>6. Cardinality(Below(i)) < n
      BY <2>3, <2>4, <2>5
    <2>7. QED
      BY <2>6 DEF Below
  <1>3. ASSUME n > 0, S # {} PROVE L # {}
    <2>1. PICK x \in S : \A y \in S : x <= y
      BY <1>3, LeastExists
    <2>2. Below(x) = {}
      <3>1. ASSUME NEW j \in S PROVE ~ (j < x)
        <4>1. j \in Nat /\ x \in Nat /\ x <= j
          BY <2>1
        <4>2. QED
          BY <4>1
      <3>2. QED
        BY <3>1
    <2>3. Cardinality(Below(x)) = 0
      BY <2>2, FS_EmptySet
    <2>4. x \in L
      BY <1>3, <2>3
    <2>5. QED
      BY <2>4
  <1>4. QED
    BY <1>1, <1>2, <1>3

==============================================================================
