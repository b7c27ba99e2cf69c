------------------------------ MODULE MCBatches ------------------------------
(* Every list length and every option value of a 5-bit unsigned integer.     *)
EXTENDS Batches

AllLengths == 0..IntMax

AllSizes == 0..(UintModulus - 1)

=============================================================================
