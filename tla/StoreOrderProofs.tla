--------------------------- MODULE StoreOrderProofs ---------------------------
(* What InOrder makes of a finite set of numbers: its elements, each once, in   *)
(* ascending order.                                                          *)
EXTENDS StoreOrder, SequenceTheorems, FiniteSetTheorems, WellFoundedInduction, TLAPS

\* The backends that a leaf without one is tried with, and their time in seconds.
USE SMTT(20), ZenonT(20)

\* s goes through S in ascending order.
Ascends(s, S) ==
    /\ s \in [1..Cardinality(S) -> S]
    /\ \A i, j \in 1..Cardinality(S) : i < j => s[i] < s[j]

(* A nonempty family of finite subsets of a set has a member that contains no   *)
(* other: the form of induction over finite sets that the proofs below use.    *)
LEMMA MinimalSet ==
    ASSUME NEW S, IsFiniteSet(S), NEW F, \A U \in F : U \subseteq S, F # {}
    PROVE  \E U \in F : \A V \in F : V \subseteq U => V = U
<1>1. IsWellFoundedOn(StrictSubsetOrdering(S), SUBSET S)
  BY FS_StrictSubsetOrderingWellFounded, FS_FiniteSubsetsOfFinite, Zenon
<1>2. F \subseteq SUBSET S
  OBVIOUS
<1>3. PICK U \in F : \A V \in F : <<V, U>> \notin StrictSubsetOrdering(S)
  BY <1>1, <1>2, WFMin
<1> QED
  BY <1>3, Zenon DEF StrictSubsetOrdering

(* A nonempty finite set of numbers has a least element.                        *)
LEMMA LeastElement ==
    ASSUME NEW S \in SUBSET Nat, IsFiniteSet(S), S # {}
    PROVE  \E m \in S : \A x \in S : m <= x
<1> DEFINE UpTo(m) == {x \in S : x <= m}
           F == {UpTo(m) : m \in S}
<1>1. (\A U \in F : U \subseteq S) /\ F # {}
  BY Zenon
<1>2. PICK U \in F : \A V \in F : V \subseteq U => V = U
  <2> HIDE DEF F
  <2> QED
    BY <1>1, MinimalSet
<1>3. PICK m \in S : U = UpTo(m)
  BY <1>2
<1>4. ASSUME NEW x \in S, x < m PROVE FALSE
  <2>1. UpTo(x) \in F
    OBVIOUS
  <2>2. UpTo(x) \subseteq U
    <3> SUFFICES ASSUME NEW y \in S, y <= x PROVE y <= m
      BY <1>3, Zenon
    <3> QED
      BY <1>4
  <2>3. UpTo(x) = U
    BY <1>2, <2>1, <2>2, Zenon
  <2>4. m \in UpTo(x)
    BY <1>3, <2>3
  <2> QED
    BY <1>4, <2>4
<1> QED
  BY <1>4

(* A finite set of numbers can be listed in ascending order: the least element   *)
(* goes first, before the list of the others.                                  *)
LEMMA AscendingExists ==
    ASSUME NEW S \in SUBSET Nat, IsFiniteSet(S)
    PROVE  \E s : Ascends(s, S)
<1> DEFINE F == {U \in SUBSET S : ~\E s : Ascends(s, U)}
<1> SUFFICES ASSUME F # {} PROVE FALSE
  OBVIOUS
<1>1. PICK U \in F : \A V \in F : V \subseteq U => V = U
  <2>1. \A U \in F : U \subseteq S
    OBVIOUS
  <2> HIDE DEF F
  <2> QED
    BY <2>1, MinimalSet
<1>2. U \in SUBSET Nat /\ IsFiniteSet(U) /\ Cardinality(U) \in Nat
  BY FS_Subset, FS_CardinalityType, Zenon
<1>3. U # {}
  <2> SUFFICES ASSUME U = {} PROVE FALSE
    OBVIOUS
  <2>1. Cardinality(U) = 0
    BY FS_EmptySet
  <2>2. Ascends([i \in 1..0 |-> 0], U)
    BY <2>1 DEF Ascends
  <2> QED
    BY <2>2
<1>4. PICK m \in U : \A x \in U : m <= x
  BY <1>2, <1>3, LeastElement
<1> DEFINE V == U \ {m}
           n == Cardinality(U)
<1>5. Cardinality(V) = n - 1 /\ n \in Nat /\ n > 0
  BY <1>2, <1>3, FS_RemoveElement, FS_EmptySet
<1>6. PICK s : Ascends(s, V)
  <2>1. V \notin F
    BY <1>1, <1>4
  <2> QED
    BY <2>1
<1> DEFINE t == [i \in 1..n |-> IF i = 1 THEN m ELSE s[i - 1]]
<1>7. \A i \in 1..n : i # 1 => i - 1 \in 1..(n - 1) /\ s[i - 1] \in V
  <2>1. \A i \in 1..n : i # 1 => i - 1 \in 1..(n - 1)
    BY <1>5
  <2>2. \A i \in 1..(n - 1) : s[i] \in V
    BY <1>5, <1>6, Zenon DEF Ascends
  <2> HIDE DEF n, V
  <2> QED
    BY <2>1, <2>2
<1>8. t \in [1..n -> U]
  BY <1>4, <1>7
<1>9. ASSUME NEW i \in 1..n, NEW j \in 1..n, i < j PROVE t[i] < t[j]
  <2>1. j # 1 /\ t[j] = s[j - 1] /\ s[j - 1] \in V
    BY <1>5, <1>7, <1>9
  <2>2. CASE i = 1
    <3>1. t[i] = m /\ m \in Nat /\ t[j] \in Nat /\ t[j] # m /\ m <= t[j]
      BY <1>2, <1>4, <2>1, <2>2, Zenon
    <3> QED
      BY <3>1
  <2>3. CASE i # 1
    <3>1. i - 1 \in 1..(n - 1) /\ j - 1 \in 1..(n - 1) /\ i - 1 < j - 1
      BY <1>5, <1>9, <2>3
    <3>2. s[i - 1] < s[j - 1]
      BY <1>5, <1>6, <3>1, Zenon DEF Ascends
    <3> QED
      BY <2>1, <2>3, <3>2
  <2> QED
    BY <2>2, <2>3
<1>10. Ascends(t, U)
  BY <1>8, <1>9 DEF Ascends
<1> QED
  BY <1>10

(* InOrder lists the set in ascending order.                                   *)
LEMMA InOrderAscends ==
    ASSUME NEW S \in SUBSET Nat, IsFiniteSet(S)
    PROVE  Ascends(InOrder(S), S)
<1>1. PICK s : Ascends(s, S)
  BY AscendingExists
<1> QED
  BY <1>1, Zenon DEF Ascends, InOrder

(* The first n elements of an ascending list are n different elements.          *)
LEMMA PrefixCounts ==
    ASSUME NEW S \in SUBSET Nat, IsFiniteSet(S), NEW s, Ascends(s, S),
           NEW n \in 0..Cardinality(S)
    PROVE  /\ SubSeq(s, 1, n) \in Seq(S) /\ Len(SubSeq(s, 1, n)) = n
           /\ Range(SubSeq(s, 1, n)) = {s[i] : i \in 1..n}
           /\ IsFiniteSet({s[i] : i \in 1..n}) /\ Cardinality({s[i] : i \in 1..n}) = n
<1> DEFINE T == {s[i] : i \in 1..n}
           f == [i \in 1..n |-> s[i]]
<1>1. Cardinality(S) \in Nat /\ n \in Nat /\ \A i \in 1..n : i \in 1..Cardinality(S)
  BY FS_CardinalityType
<1>2. \A i \in 1..n : s[i] \in S
  BY <1>1 DEF Ascends
<1>3. /\ SubSeq(s, 1, n) \in Seq(S) /\ Len(SubSeq(s, 1, n)) = n
      /\ \A i \in 1..n : SubSeq(s, 1, n)[i] = s[i]
  BY <1>1, <1>2, SubSeqProperties
<1>4. Range(SubSeq(s, 1, n)) = T
  <2>1. DOMAIN SubSeq(s, 1, n) = 1..n
    BY <1>3
  <2> QED
    BY <1>3, <2>1 DEF Range
<1>5. f \in Bijection(1..n, T)
  <2>1. ASSUME NEW i \in 1..n, NEW j \in 1..n, f[i] = f[j] PROVE i = j
    <3>1. s[i] = s[j] /\ s[i] \in Nat /\ s[j] \in Nat
      BY <1>2, <2>1, Zenon
    <3>2. ~(i < j) /\ ~(j < i)
      BY <1>1, <3>1 DEF Ascends
    <3> QED
      BY <1>1, <3>2
  <2>2. f \in [1..n -> T]
    OBVIOUS
  <2>3. f \in Injection(1..n, T)
    BY <2>1, <2>2 DEF Injection, IsInjective
  <2>4. f \in Surjection(1..n, T)
    BY <2>2 DEF Surjection
  <2> QED
    BY <2>3, <2>4 DEF Bijection
<1>6. ExistsBijection(1..n, T)
  BY <1>5 DEF ExistsBijection
<1>7. IsFiniteSet(T) /\ Cardinality(T) = n
  BY <1>1, <1>6, FS_NatBijection, FS_CountingElements
<1> QED
  BY <1>3, <1>4, <1>7

(* They are the elements below the next one, and all elements if there is none.  *)
LEMMA PrefixElements ==
    ASSUME NEW S \in SUBSET Nat, IsFiniteSet(S), NEW s, Ascends(s, S),
           NEW n \in 0..Cardinality(S)
    PROVE  {s[i] : i \in 1..n} =
             IF n < Cardinality(S) THEN {x \in S : x < s[n + 1]} ELSE S
<1> DEFINE T(k) == {s[i] : i \in 1..k}
<1>1. Cardinality(S) \in Nat /\ n \in Nat
  BY FS_CardinalityType
<1>2. T(Cardinality(S)) = S
  <2>1. Cardinality(T(Cardinality(S))) = Cardinality(S)
    BY <1>1, PrefixCounts
  <2>2. T(Cardinality(S)) \in SUBSET S
    BY DEF Ascends
  <2> HIDE DEF T
  <2> QED
    BY <2>1, <2>2, FS_Subset
<1>3. CASE n = Cardinality(S)
  BY <1>1, <1>2, <1>3
<1>4. CASE n < Cardinality(S)
  <2>1. n + 1 \in 1..Cardinality(S) /\ s[n + 1] \in Nat
    <3>1. n + 1 \in 1..Cardinality(S)
      BY <1>1, <1>4
    <3>2. s[n + 1] \in S
      BY <3>1 DEF Ascends
    <3> QED
      BY <3>1, <3>2, Zenon
  <2>2. ASSUME NEW i \in 1..Cardinality(S)
        PROVE  s[i] \in S /\ (s[i] < s[n + 1] <=> i \in 1..n)
    <3>1. s[i] \in S /\ s[i] \in Nat
      BY Zenon DEF Ascends
    <3>2. CASE i \in 1..n
      BY <1>1, <2>1, <3>1, <3>2 DEF Ascends
    <3>3. CASE i = n + 1
      BY <1>1, <2>1, <3>1, <3>3
    <3>4. CASE n + 1 < i
      <4>1. s[n + 1] < s[i]
        BY <2>1, <3>4 DEF Ascends
      <4> QED
        BY <1>1, <2>1, <3>1, <3>4, <4>1
    <3> QED
      BY <1>1, <3>2, <3>3, <3>4
  <2>3. \A i \in 1..n : i \in 1..Cardinality(S)
    BY <1>1
  <2>4. T(n) \subseteq {x \in S : x < s[n + 1]}
    BY <2>2, <2>3
  <2>5. ASSUME NEW x \in S, x < s[n + 1] PROVE x \in T(n)
    BY <1>2, <2>2, <2>5
  <2> QED
    BY <1>4, <2>4, <2>5, Zenon
<1> QED
  BY <1>1, <1>3, <1>4

=============================================================================
