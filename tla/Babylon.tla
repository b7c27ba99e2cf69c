------------------------------- MODULE Babylon -------------------------------
(***************************************************************************)
(* The Babylon chain as the covenant emulators see it.  It is not part of    *)
(* the repository; it is modelled from how clientcontroller/babylon.go uses   *)
(* it: parameters that governance may replace, pending delegations listed    *)
(* page by page, and transactions of MsgAddCovenantSigs messages that are     *)
(* executed as a whole, late, more than once, or never.                       *)
(*                                                                           *)
(* A transaction is [from, dels, since, until]: the member that signed, the   *)
(* delegations it signed, and the versions of the parameters in force when    *)
(* its round began and when it was built (history, read only by properties).  *)
(***************************************************************************)
EXTENDS Delegation, StoreOrder, Sequences

CONSTANTS
    Members,        \* the covenant committee
    Faulty,         \* members that do not run this program
    Dels,           \* delegations, numbered in the order of the chain's store
    BtcDel,         \* the immutable data of each delegation
    ParamsSet,      \* the parameters governance may choose from
    ChainChecks,    \* does the chain itself refuse delegations that break the rules?
    MaxVersions     \* bound on the versions of the parameters

ASSUME ChainAssumption ==
    /\ IsFiniteSet(Members)
    /\ Faulty \subseteq Members
    /\ Dels \subseteq Nat /\ IsFiniteSet(Dels)
    /\ ChainChecks \in BOOLEAN
    /\ MaxVersions \in Nat \ {0}

(* The numbers the checks compare are naturals, and the chain admits no        *)
(* unbonding time that does not fit the 16 bits of a Bitcoin timelock.         *)
ASSUME DataAssumption ==
    /\ \A d \in Dels : /\ BtcDel[d].UnbondingTime \in Nat
                       /\ BtcDel[d].UnbondingTime <= MaxUint16
    /\ \A p \in ParamsSet : /\ p.MinUnbondingTime \in Nat
                            /\ p.FinalizationTimeoutBlocks \in Nat
                            /\ p.CovenantQuorum \in Nat \ {0}

VARIABLES
    hist,           \* the versions of the parameters; the last is in force
    created,        \* the delegations the chain has accepted
    sigs,           \* per delegation, the covenant signatures recorded
    mempool         \* transactions handed to the chain and not yet executed

chainVars == <<hist, created, sigs, mempool>>

Version == Len(hist)

Versions == 0..MaxVersions

SigRecord == [by : Members, since : Versions, until : Versions]

Tx == [from : Members, dels : SUBSET Dels, since : Versions, until : Versions]

Signers(d) == {s.by : s \in sigs[d]}

Pending(d) ==
    /\ d \in created
    /\ Cardinality(sigs[d]) < hist[Version].CovenantQuorum

\* A delegation the committee has made active.
Active(d) == d \in created /\ ~Pending(d)

-----------------------------------------------------------------------------
ChainTypeOK ==
    /\ hist \in Seq(ParamsSet) /\ Version \in 1..MaxVersions
    /\ created \in SUBSET Dels
    /\ sigs \in [Dels -> SUBSET SigRecord]
    /\ mempool \in SUBSET Tx

ChainInit ==
    /\ \E p \in ParamsSet : hist = <<p>>
    /\ created = {}
    /\ sigs = [d \in Dels |-> {}]
    /\ mempool = {}

CreateDelegation(d) ==
    /\ d \notin created
    /\ ChainChecks => SpendingRules(BtcDel[d], hist[Version])
    /\ created' = created \cup {d}
    /\ UNCHANGED <<hist, sigs, mempool>>

Govern(p) ==
    /\ Version < MaxVersions
    /\ p # hist[Version]
    /\ hist' = Append(hist, p)
    /\ UNCHANGED <<created, sigs, mempool>>

\* All messages of a transaction are executed together.  A message for a
\* delegation that is no longer pending, or that its sender has signed, has no
\* effect.
DeliverTx(tx) ==
    /\ tx \in mempool
    /\ mempool' = mempool \ {tx}
    /\ sigs' = [d \in Dels |->
                  IF d \in tx.dels /\ Pending(d) /\ tx.from \notin Signers(d)
                  THEN sigs[d] \cup {[by |-> tx.from, since |-> tx.since, until |-> tx.until]}
                  ELSE sigs[d]]
    /\ UNCHANGED <<hist, created>>

\* A transaction expires, or is rejected as a whole.
DropTx(tx) ==
    /\ tx \in mempool
    /\ mempool' = mempool \ {tx}
    /\ UNCHANGED <<hist, created, sigs>>

\* A member that does not run this program signs what it likes.
FaultySign(m, d) ==
    /\ m \in Faulty
    /\ Pending(d)
    /\ m \notin Signers(d)
    /\ sigs' = [sigs EXCEPT ![d] = @ \cup {[by |-> m, since |-> 0, until |-> 0]}]
    /\ UNCHANGED <<hist, created, mempool>>

=============================================================================
