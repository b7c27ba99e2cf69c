------------------------------ MODULE Committee ------------------------------
(***************************************************************************)
(* What the covenant committee promises, without the program: an honest       *)
(* member approves delegations that obeyed the rules it checks during its      *)
(* current round, all of a batch at once, and the chain records the            *)
(* signatures of a batch at once, each member's once, and only on delegations  *)
(* that still need them.  An approval may also come to nothing.  There are no   *)
(* queries, pages, retries, transactions or crashes here: CovenantEmulator      *)
(* is shown to implement this specification.                                   *)
(***************************************************************************)
EXTENDS Delegation, FiniteSets, Sequences

CONSTANTS
    Members,        \* the covenant committee
    Faulty,         \* members that may sign anything
    Dels,           \* delegations
    BtcDel,         \* their data
    ParamsSet       \* the parameters governance may choose from

VARIABLES
    hist,           \* the versions of the parameters; the last is in force
    created,        \* the delegations that exist
    since,          \* the version in force when a member's round began
    approved,       \* what a member has approved and not yet seen settled
    signed          \* per delegation, the members whose signature is recorded

committeeVars == <<hist, created, since, approved, signed>>

InForce == Len(hist)

\* A delegation that still needs signatures.
Waiting(d) ==
    /\ d \in created
    /\ Cardinality(signed[d]) < hist[InForce].CovenantQuorum

\* The delegation obeyed the rules under some version from lo on.
ObeyedSince(d, lo) == \E v \in lo..InForce : RulesChecked(BtcDel[d], hist[v])

Init ==
    /\ \E p \in ParamsSet : hist = <<p>>
    /\ created = {}
    /\ since = [m \in Members |-> 0]
    /\ approved = [m \in Members |-> {}]
    /\ signed = [d \in Dels |-> {}]

-----------------------------------------------------------------------------
Govern ==
    /\ \E p \in ParamsSet : hist' = Append(hist, p)
    /\ UNCHANGED <<created, since, approved, signed>>

Create ==
    /\ \E d \in Dels : created' = created \cup {d}
    /\ UNCHANGED <<hist, since, approved, signed>>

Begin(m) ==
    /\ since' = [since EXCEPT ![m] = InForce]
    /\ UNCHANGED <<hist, created, approved, signed>>

Approve(m, D) ==
    /\ since[m] > 0
    /\ \A d \in D : ObeyedSince(d, since[m])
    /\ approved' = [approved EXCEPT ![m] = @ \cup D]
    /\ UNCHANGED <<hist, created, since, signed>>

\* Some approvals come to nothing; a member that stops leaves its round too.
Withdraw(m) ==
    /\ \E left \in SUBSET approved[m] : approved' = [approved EXCEPT ![m] = left]
    /\ since' \in {since, [since EXCEPT ![m] = 0]}
    /\ UNCHANGED <<hist, created, signed>>

\* The signatures of one batch are recorded and its approval is settled.
Sign(m, D) ==
    /\ D \subseteq approved[m]
    /\ \A d \in D : Waiting(d) /\ m \notin signed[d]
    /\ signed' = [d \in Dels |-> IF d \in D THEN signed[d] \cup {m} ELSE signed[d]]
    /\ \E left \in SUBSET approved[m] : approved' = [approved EXCEPT ![m] = left]
    /\ UNCHANGED <<hist, created, since>>

FaultySign(m, d) ==
    /\ Waiting(d)
    /\ signed' = [signed EXCEPT ![d] = @ \cup {m}]
    /\ UNCHANGED <<hist, created, since, approved>>

Next ==
    \/ Govern
    \/ Create
    \/ \E m \in Members \ Faulty :
          Begin(m) \/ Withdraw(m) \/ \E D \in SUBSET Dels : Approve(m, D)
    \/ \E m \in Members \ Faulty, D \in SUBSET Dels : Sign(m, D)
    \/ \E m \in Faulty, d \in Dels : FaultySign(m, d)

Spec == Init /\ [][Next]_committeeVars

=============================================================================
