------------------------------- MODULE Batches -------------------------------
(***************************************************************************)
(* delegationsToBatches of covenant/covenant.go, statement by statement, with *)
(* its uint64 arithmetic.  The delegations are numbered 1..n in the order of   *)
(* the list; a batch is the pair <<i, end>> of the slice expression            *)
(* dels[i:end], which stands for the delegations i+1..end.                    *)
(***************************************************************************)
EXTENDS StoreOrder, Sequences

CONSTANTS
    IntMax,         \* the largest Go int, which bounds the length of a slice
    Lengths,        \* lengths of the list of delegations
    BatchSizes,     \* values of the SigsBatchSize option
    MaxBatches      \* bound on the batches that fit in memory

UintModulus == 2 * (IntMax + 1)

ASSUME BatchesAssumption ==
    /\ IntMax \in Nat
    /\ Lengths \subseteq 0..IntMax
    /\ BatchSizes \subseteq 0..(UintModulus - 1)
    /\ MaxBatches \in Nat

VARIABLES n, batchSize, i, batches, pc

vars == <<n, batchSize, i, batches, pc>>

TypeOK ==
    /\ n \in Lengths
    /\ batchSize \in BatchSizes
    /\ i \in 0..(UintModulus - 1)
    /\ batches \in Seq((0..(UintModulus - 1)) \X (0..IntMax))
    /\ pc \in {"loop", "done", "panic", "killed"}

Init ==
    /\ n \in Lengths
    /\ batchSize \in BatchSizes
    /\ i = 0
    /\ batches = << >>
    /\ pc = "loop"

\* Mutants: a sum in signed integers; an end that is not capped, or one too far.
NextStartSigned == (i + batchSize) % (IntMax + 1)

\* The end of the batch that starts at i: a sum that may wrap, then capped.
NextStart == (i + batchSize) % UintModulus

EndUncapped == NextStart

EndOneFurther == IF NextStart + 1 > n THEN n ELSE NextStart + 1

End == IF NextStart > n THEN n ELSE NextStart

\* Mutant: the next batch starts with the last delegation of this one.
AppendBatchFromLast ==
    /\ pc = "loop" /\ i < n
    /\ IF i <= End /\ Len(batches) < MaxBatches
       THEN /\ batches' = Append(batches, <<i, End>>)
            /\ i' = (End - 1) % UintModulus
            /\ UNCHANGED pc
       ELSE /\ pc' = IF i > End THEN "panic" ELSE "killed"
            /\ UNCHANGED <<i, batches>>
    /\ UNCHANGED <<n, batchSize>>

\* One iteration.  A slice expression with i > end panics, and a list of
\* batches that outgrows the memory has the process killed.
AppendBatch ==
    /\ pc = "loop" /\ i < n
    /\ IF i <= End /\ Len(batches) < MaxBatches
       THEN /\ batches' = Append(batches, <<i, End>>)
            /\ i' = NextStart
            /\ UNCHANGED pc
       ELSE /\ pc' = IF i > End THEN "panic" ELSE "killed"
            /\ UNCHANGED <<i, batches>>
    /\ UNCHANGED <<n, batchSize>>

Return ==
    /\ pc = "loop" /\ ~(i < n)
    /\ pc' = "done"
    /\ UNCHANGED <<n, batchSize, i, batches>>

Next == AppendBatch \/ Return

Spec == Init /\ [][Next]_vars

\* The loop of a running goroutine keeps being executed.
FairSpec == Spec /\ WF_vars(Next)

-----------------------------------------------------------------------------
(* No iteration computes a slice out of bounds: the sum i + batchSize wraps   *)
(* around for no length a Go slice can have and no value of the option.       *)
NoPanic == pc # "panic"

\* The k-th batch starts where the previous one ends and holds what FirstN makes
\* of the delegations that are left, at least one.
IsBatch(k) ==
    LET start == batches[k][1]
        end == batches[k][2]
    IN  /\ start = IF k = 1 THEN 0 ELSE batches[k - 1][2]
        /\ start < end
        /\ (start + 1)..end = FirstN((start + 1)..n, batchSize)

LastEnd == IF batches = << >> THEN 0 ELSE batches[Len(batches)][2]

(* Every batch is what FirstN makes of the delegations left when it was cut   *)
(* (at most batchSize of them, never none), batches follow each other without *)
(* gap or overlap, and when the function returns they make up the whole list.  *)
BatchesSlice ==
    batchSize > 0 => /\ \A k \in 1..Len(batches) : IsBatch(k)
                     /\ pc = "done" => LastEnd = n

(* delegationsToBatches returns, for every SigsBatchSize that is not zero.    *)
Returns == batchSize > 0 => <>(pc = "done")

(* delegationsToBatches returns for every configuration that Config.Validate  *)
(* lets pass ("This makes sure no illegal values or combination of values are  *)
(* set"): Validate does not look at SigsBatchSize.                            *)
ReturnsForValidConfig == <>(pc = "done")

-----------------------------------------------------------------------------
(* The inductive invariant behind NoPanic and BatchesSlice.                   *)

(* Past the first iteration batchSize is at most i, so that i + batchSize does *)
(* not wrap around while i < n, and the last batch ends at i, or at n once i    *)
(* has passed it.                                                            *)
Inv ==
    /\ TypeOK
    /\ NoPanic
    /\ BatchesSlice
    /\ i = 0 \/ batchSize <= i
    /\ batchSize > 0 => LastEnd = IF i > n THEN n ELSE i

=============================================================================
