------------------------------ MODULE StoreOrder ------------------------------
(***************************************************************************)
(* Lists of delegations, and of finality providers, as sets.  They are         *)
(* numbered in the order of the chain's store, and every list is in that       *)
(* order.                                                                     *)
(***************************************************************************)
EXTENDS Integers, FiniteSets

\* The first n delegations of a list: the page a query with a limit returns,
\* and the slice dels[0:n].
FirstN(S, n) == {d \in S : Cardinality({e \in S : e < d}) < n}

\* The list as a sequence.
InOrder(S) ==
    CHOOSE s \in [1..Cardinality(S) -> S] :
        \A i, j \in 1..Cardinality(S) : i < j => s[i] < s[j]

=============================================================================
