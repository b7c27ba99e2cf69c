---------------------------- MODULE BatchesProofs ----------------------------
(* Proofs of the safety properties of Batches, for every width of the integers, *)
(* length of the list and value of the option.                               *)
EXTENDS Batches, FiniteSetTheorems, TLAPS

\* The backends that a leaf without one is tried with, and their time in seconds.
USE SMTT(20), ZenonT(20)

(* The first elements of an interval are an interval.                          *)
LEMMA FirstOfInterval ==
    ASSUME NEW a \in Nat, NEW b \in Nat, NEW m \in Nat, NEW e \in Nat,
           a <= b, e = IF a + m > b THEN b ELSE a + m
    PROVE  FirstN((a + 1)..b, m) = (a + 1)..e
<1>1. ASSUME NEW d \in (a + 1)..b
      PROVE  Cardinality({x \in (a + 1)..b : x < d}) = d - 1 - a
  <2>1. {x \in (a + 1)..b : x < d} = (a + 1)..(d - 1)
    OBVIOUS
  <2>2. Cardinality((a + 1)..(d - 1)) = d - 1 - a
    BY FS_Interval
  <2> QED
    BY <2>1, <2>2, Zenon
<1>2. ASSUME NEW d \in (a + 1)..b
      PROVE  Cardinality({x \in (a + 1)..b : x < d}) < m <=> d <= e
  BY <1>1
<1>3. e <= b
  OBVIOUS
<1> QED
  BY <1>2, <1>3 DEF FirstN

(* A sum that stays below the modulus does not wrap.                           *)
LEMMA NoWrap ==
    ASSUME NEW a \in Nat, NEW m \in Nat, a < m
    PROVE  a % m = a
OBVIOUS

(* While i < n the next start does not wrap, except in the first iteration,     *)
(* where it is batchSize: it is never before i.                                *)
LEMMA NextStartValue ==
    ASSUME Inv, i < n
    PROVE  /\ i \in Nat /\ n \in Nat /\ n <= IntMax /\ batchSize \in Nat
           /\ NextStart = i + batchSize
           /\ i + batchSize < UintModulus
           /\ End \in Nat /\ i <= End /\ End <= n
<1>1. /\ i \in Nat /\ n \in Nat /\ n <= IntMax /\ batchSize \in Nat /\ IntMax \in Nat
      /\ batchSize <= UintModulus - 1 /\ (i = 0 \/ batchSize <= i)
  BY BatchesAssumption DEF Inv, TypeOK, UintModulus
<1>2. UintModulus \in Nat /\ i + batchSize < UintModulus
  BY <1>1 DEF UintModulus
<1>3. NextStart = i + batchSize
  BY <1>1, <1>2, NoWrap DEF NextStart
<1> QED
  BY <1>1, <1>2, <1>3 DEF End

(* One iteration cuts the next batch and keeps the invariant.                   *)
LEMMA AppendBatchInv ==
    ASSUME Inv, AppendBatch
    PROVE  Inv'
<1> DEFINE Ends == (0..(UintModulus - 1)) \X (0..IntMax)
<1>a. /\ i < n /\ pc = "loop" /\ n' = n /\ batchSize' = batchSize
      /\ n \in Lengths /\ batchSize \in BatchSizes /\ batches \in Seq(Ends)
  BY DEF AppendBatch, Inv, TypeOK
<1>b. /\ i \in Nat /\ n \in Nat /\ n <= IntMax /\ batchSize \in Nat
      /\ NextStart = i + batchSize /\ i + batchSize < UintModulus
      /\ End \in Nat /\ i <= End /\ End <= n
  BY <1>a, NextStartValue
<1>c. IntMax \in Nat /\ UintModulus \in Nat
  BY BatchesAssumption DEF UintModulus
<1>1. CASE UNCHANGED <<i, batches>>
  <2>1. pc' = "killed"
    BY <1>1, <1>b DEF AppendBatch
  <2> QED
    BY <1>1, <1>a, <2>1
       DEF Inv, TypeOK, NoPanic, BatchesSlice, IsBatch, LastEnd
<1>2. CASE batches' = Append(batches, <<i, End>>) /\ i' = NextStart /\ pc' = pc
  <2>1. <<i, End>> \in Ends
    BY <1>b, <1>c
  <2>2. TypeOK' /\ NoPanic'
    BY <1>2, <1>a, <1>b, <1>c, <2>1 DEF TypeOK, NoPanic
  <2>3. i' = i + batchSize
    BY <1>2, <1>b
  <2>4. Len(batches') = Len(batches) + 1 /\ Len(batches) \in Nat
        /\ batches'[Len(batches) + 1] = <<i, End>>
        /\ \A k \in 1..Len(batches) : batches'[k] = batches[k]
    BY <1>2, <1>a, <2>1
  <2>5. LastEnd' = End
    BY <1>2, <1>a, <2>1, <2>4 DEF LastEnd
  <2>6. ASSUME batchSize > 0
        PROVE  /\ \A k \in 1..Len(batches') : IsBatch(k)'
               /\ LastEnd' = IF i' > n THEN n ELSE i'
    <3>1. LastEnd = i
      BY <1>a, <1>b, <2>6 DEF Inv
    <3>2. ASSUME NEW k \in 1..Len(batches) PROVE IsBatch(k)'
      <4>1. IsBatch(k)
        BY <2>6 DEF Inv, BatchesSlice
      <4>2. batches'[k] = batches[k] /\ (k # 1 => batches'[k - 1] = batches[k - 1])
        BY <2>4
      <4> QED
        BY <1>a, <4>1, <4>2, Zenon DEF IsBatch
    <3>3. ASSUME NEW k \in Nat, k = Len(batches) + 1 PROVE IsBatch(k)'
      <4>1. batches'[k][1] = i /\ batches'[k][2] = End
        BY <2>4, <3>3
      <4>2. i = IF k = 1 THEN 0 ELSE batches'[k - 1][2]
        <5>1. CASE batches = << >>
          BY <3>1, <3>3, <5>1 DEF LastEnd
        <5>2. CASE batches # << >>
          BY <1>a, <2>4, <3>1, <3>3, <5>2 DEF LastEnd
        <5> QED
          BY <5>1, <5>2
      <4>3. i < End
        BY <1>a, <1>b, <2>6 DEF End
      <4>4. (i + 1)..End = FirstN((i + 1)..n, batchSize)
        <5>1. i <= n /\ End = IF i + batchSize > n THEN n ELSE i + batchSize
          BY <1>a, <1>b DEF End
        <5> QED
          BY <1>b, <5>1, FirstOfInterval, Zenon
      <4> QED
        BY <1>a, <4>1, <4>2, <4>3, <4>4 DEF IsBatch
    <3>4. ASSUME NEW k \in 1..Len(batches') PROVE IsBatch(k)'
      BY <2>4, <3>2, <3>3
    <3> QED
      BY <1>b, <2>3, <2>5, <3>4 DEF End
  <2>7. BatchesSlice'
    BY <1>2, <1>a, <2>6 DEF BatchesSlice
  <2>8. i' = 0 \/ batchSize <= i'
    BY <1>b, <2>3
  <2> QED
    BY <1>a, <2>2, <2>6, <2>7, <2>8 DEF Inv
<1> QED
  BY <1>1, <1>2 DEF AppendBatch

(* Every state of the loop satisfies the inductive invariant.                  *)
THEOREM Invariance == Spec => []Inv
<1>1. Init => Inv
  <2> SUFFICES ASSUME Init PROVE Inv
    OBVIOUS
  <2>1. TypeOK
    BY BatchesAssumption DEF Init, TypeOK, UintModulus
  <2>2. n \in Nat /\ Len(batches) = 0
    BY BatchesAssumption DEF Init
  <2> QED
    BY <2>1, <2>2 DEF Init, Inv, NoPanic, BatchesSlice, LastEnd
<1>2. Inv /\ [Next]_vars => Inv'
  <2> SUFFICES ASSUME Inv, [Next]_vars PROVE Inv'
    OBVIOUS
  <2>1. CASE AppendBatch
    BY <2>1, AppendBatchInv
  <2>2. CASE Return
    <3>1. i \in Nat /\ n \in Nat
      BY BatchesAssumption DEF Inv, TypeOK, UintModulus
    <3>2. batchSize > 0 => LastEnd = n
      BY <2>2, <3>1 DEF Return, Inv
    <3> QED
      BY <2>2, <3>2
         DEF Return, Inv, TypeOK, NoPanic, BatchesSlice, IsBatch, LastEnd
  <2>3. CASE UNCHANGED vars
    BY <2>3 DEF vars, Inv, TypeOK, NoPanic, BatchesSlice, IsBatch, LastEnd
  <2> QED
    BY <2>1, <2>2, <2>3 DEF Next
<1> QED
  BY <1>1, <1>2, PTL DEF Spec

(* delegationsToBatches computes no slice out of bounds, whatever the length    *)
(* of the list, the value of the option and the width of the integers.         *)
THEOREM NoPanicSafe == Spec => []NoPanic
<1>1. Inv => NoPanic
  BY DEF Inv
<1> QED
  BY <1>1, Invariance, PTL

(* Its batches cut the list as FirstN does, without gap or overlap, and make    *)
(* up the whole list when it returns.                                          *)
THEOREM BatchesSliceSafe == Spec => []BatchesSlice
<1>1. Inv => BatchesSlice
  BY DEF Inv
<1> QED
  BY <1>1, Invariance, PTL

=============================================================================
