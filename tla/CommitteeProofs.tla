--------------------------- MODULE CommitteeProofs ---------------------------
(* CovenantEmulator implements Committee, for every committee, set of           *)
(* delegations, sequence of parameters and configuration; and what the         *)
(* comparison of the unbonding time achieves.                                 *)
EXTENDS CovenantEmulatorProofs

\* The backends that a leaf without one is tried with, and their time in seconds.
USE SMTT(20), ZenonT(20)

\* The mempool holds transactions of honest members only.
FromHonest == \A tx \in mempool : tx.from \in Honest

(* A member's approvals are its own: a step that leaves the mempool and the     *)
(* transaction it is sending alone keeps them.                                *)
LEMMA ApprovedKept ==
    ASSUME NEW k, mempool' = mempool, outgoing'[k] = outgoing[k]
    PROVE  Approved(k)' = Approved(k)
BY DEF Approved

(* A member that forgets the transaction it was sending approves no more than   *)
(* before: the abstract step is a withdrawal.                                 *)
LEMMA WithdrawRefines ==
    ASSUME TypeOK, NEW m \in Honest,
           UNCHANGED <<hist, created, sigs, mempool>>,
           outgoing' = [outgoing EXCEPT ![m] = NoTx(m)],
           round' = round \/ round' = [round EXCEPT ![m] = 0]
    PROVE  Abstract!Withdraw(m)
<1> DEFINE left == Approved(m)'
<1>1. m \in Members /\ outgoing \in [Members -> Tx]
  BY DEF TypeOK, Honest
<1>2. outgoing'[m] = NoTx(m) /\ outgoing'[m].dels = {}
  BY <1>1 DEF NoTx
<1>3. left \subseteq Approved(m)
  BY <1>2 DEF Approved
<1>4. \A k \in Members : k # m => Approved(k)' = Approved(k)
  BY <1>1, ApprovedKept
<1>5. [k \in Members |-> Approved(k)]' = [[k \in Members |-> Approved(k)] EXCEPT ![m] = left]
  BY <1>1, <1>4, Zenon
<1>6. left \in SUBSET [k \in Members |-> Approved(k)][m]
  BY <1>1, <1>3
<1>7. [d \in Dels |-> Signers(d)]' = [d \in Dels |-> Signers(d)]
  BY DEF Signers
<1> HIDE DEF left
<1> QED
  BY <1>5, <1>6, <1>7, Zenon DEF Abstract!Withdraw

(* A step that changes nothing the abstract state is made of is a stutter.      *)
LEMMA StutterRefines ==
    ASSUME UNCHANGED <<hist, created, sigs, mempool, outgoing, round>>
    PROVE  UNCHANGED Abstract!committeeVars
BY DEF Abstract!committeeVars, Approved, Signers

(* Signing a batch is one abstract approval.  The rules held during the round   *)
(* because the invariant holds of the transaction after the step.             *)
LEMMA ApproveRefines ==
    ASSUME Inv, Inv', NEW m \in Honest, NEW batch \in SUBSET Dels, pc[m] = "batches",
           outgoing' = [outgoing EXCEPT ![m] =
                          [from |-> m, dels |-> batch, since |-> round[m], until |-> Version]],
           UNCHANGED <<hist, created, sigs, mempool, round>>
    PROVE  Abstract!Approve(m, batch)
<1>1. m \in Members /\ outgoing \in [Members -> Tx]
  BY DEF Inv, TypeOK, Honest
<1>2. outgoing'[m] = [from |-> m, dels |-> batch, since |-> round[m], until |-> Version]
  BY <1>1
<1>3. round[m] > 0
  BY DEF Inv, RoundParamsFresh
<1>4. outgoing[m].from = m /\ outgoing[m].dels = {}
  BY DEF Inv, HeldInRound, SentChecked
<1>5. \A d \in batch : Abstract!ObeyedSince(d, round[m])
  <2> SUFFICES ASSUME NEW d \in batch PROVE Abstract!ObeyedSince(d, round[m])
    OBVIOUS
  <2>1. RulesHeld(d, outgoing[m].since, outgoing[m].until)'
    BY <1>2 DEF Inv, SentChecked
  <2>2. Version' = Version /\ hist' = hist
    BY DEF Version
  <2>3. RulesHeld(d, round[m], Version)
    BY <1>2, <2>1, <2>2 DEF RulesHeld
  <2>4. \A del, p : RulesChecked(del, p) = Abstract!RulesChecked(del, p)
    BY DEF RulesChecked, Abstract!RulesChecked, SlashingRules, Abstract!SlashingRules
  <2> QED
    BY <2>3, <2>4 DEF RulesHeld, Abstract!ObeyedSince, Abstract!InForce, Version
<1>6. Approved(m)' = Approved(m) \cup batch
  BY <1>2, <1>4 DEF Approved
<1>7. \A k \in Members : k # m => Approved(k)' = Approved(k)
  BY <1>1, ApprovedKept
<1>8. [k \in Members |-> Approved(k)]'
        = [[k \in Members |-> Approved(k)] EXCEPT ![m] = @ \cup batch]
  BY <1>1, <1>6, <1>7, Zenon
<1>9. [d \in Dels |-> Signers(d)]' = [d \in Dels |-> Signers(d)]
  BY DEF Signers
<1> QED
  BY <1>3, <1>5, <1>8, <1>9 DEF Abstract!Approve

(* Handing a transaction to the chain changes no approval.                     *)
LEMMA SendRefines ==
    ASSUME Inv, NEW m \in Honest, SendTx(m)
    PROVE  UNCHANGED Abstract!committeeVars
<1>1. outgoing[m].from = m
  BY DEF Inv, SentChecked
<1>2. mempool' = mempool \cup {outgoing[m]} /\ UNCHANGED <<hist, created, sigs, outgoing, round>>
  BY DEF SendTx, memberVars
<1>3. \A k \in Members : Approved(k)' = Approved(k)
  <2> SUFFICES ASSUME NEW k \in Members PROVE Approved(k)' = Approved(k)
    OBVIOUS
  <2>1. {t \in mempool \cup {outgoing[k]} : t.from = k}'
          = {t \in mempool \cup {outgoing[k]} : t.from = k}
    BY <1>1, <1>2
  <2> QED
    BY <2>1 DEF Approved
<1>4. [k \in Members |-> Approved(k)]' = [k \in Members |-> Approved(k)]
  BY <1>3
<1>5. [d \in Dels |-> Signers(d)]' = [d \in Dels |-> Signers(d)]
  BY <1>2 DEF Signers
<1> QED
  BY <1>2, <1>4, <1>5 DEF Abstract!committeeVars

(* Every step of an honest member is an abstract step or a stutter.            *)
LEMMA MemberRefines ==
    ASSUME Inv, NEW m \in Honest, MemberStep(m)
    PROVE  Abstract!Next \/ UNCHANGED Abstract!committeeVars
<1> USE DEF chainVars
<1>1. TypeOK /\ m \in Members /\ m \in Members \ Faulty
  BY DEF Inv, Honest
<1>2. Inv'
  BY MemberInv
<1>3. Abstract!Withdraw(m) => Abstract!Next
  BY <1>1 DEF Abstract!Next
<1>4. ASSUME Die(m), UNCHANGED chainVars PROVE Abstract!Next
  BY <1>1, <1>3, <1>4, WithdrawRefines, Zenon DEF Die
<1>5. ASSUME NEW left, NEW view, Continue(m, left, view), UNCHANGED <<chainVars, round>>
      PROVE  Abstract!Next
  BY <1>1, <1>3, <1>5, WithdrawRefines, Zenon DEF Continue
<1>6. CASE Start(m) \/ QueryCheckpointParams(m) \/ QueryStakingParams(m)
           \/ QueryParamsFails(m) \/ QueryPendingFails(m)
  <2>1. UNCHANGED <<hist, created, sigs, mempool, outgoing, round>>
    BY <1>6 DEF Start, QueryCheckpointParams, QueryStakingParams, QueryParamsFails,
                QueryPendingFails
  <2> QED
    BY <2>1, StutterRefines
<1>7. CASE Tick(m)
  <2>1. [k \in Members |-> Approved(k)]' = [k \in Members |-> Approved(k)]
    BY <1>7 DEF Tick, Approved
  <2>2. [d \in Dels |-> Signers(d)]' = [d \in Dels |-> Signers(d)]
    BY <1>7 DEF Tick, Signers
  <2>3. Abstract!Begin(m)
    BY <1>7, <2>1, <2>2 DEF Tick, Abstract!Begin, Abstract!InForce, Version
  <2> QED
    BY <1>1, <2>3 DEF Abstract!Next
<1>8. CASE QueryPendingDelegations(m)
  BY <1>4, <1>5, <1>8 DEF QueryPendingDelegations
<1>9. CASE \E keyReadable \in BOOLEAN : AddCovenantSignatures(m, keyReadable)
  <2> PICK keyReadable \in BOOLEAN : AddCovenantSignatures(m, keyReadable)
    BY <1>9
  <2> DEFINE batch == delegationsToBatches(todo[m])
  <2>1. batch \in SUBSET Dels
    BY <1>1 DEF delegationsToBatches, FirstN, TypeOK
  <2>2. CASE /\ outgoing' = [outgoing EXCEPT ![m] =
                  [from |-> m, dels |-> batch, since |-> round[m], until |-> Version]]
             /\ UNCHANGED <<chainVars, round>>
    <3>1. pc[m] = "batches"
      BY DEF AddCovenantSignatures
    <3> HIDE DEF batch
    <3>2. Abstract!Approve(m, batch)
      BY <1>2, <2>1, <2>2, <3>1, ApproveRefines, Zenon
    <3> QED
      BY <1>1, <2>1, <3>2 DEF Abstract!Next
  <2>3. CASE Continue(m, todo[m] \ batch, seen[m]) /\ UNCHANGED <<chainVars, round>>
    BY <1>5, <2>3
  <2>4. CASE Die(m) /\ UNCHANGED chainVars
    BY <1>4, <2>4
  <2> QED
    BY <2>2, <2>3, <2>4 DEF AddCovenantSignatures
<1>10. CASE SendTx(m)
  BY <1>10, SendRefines
<1>11. CASE SubmitReturns(m)
  BY <1>5, <1>11 DEF SubmitReturns
<1>12. CASE Crash(m)
  BY <1>4, <1>12 DEF Crash
<1> QED
  BY <1>6, <1>7, <1>8, <1>9, <1>10, <1>11, <1>12 DEF MemberStep

-----------------------------------------------------------------------------
(* A delegation that is pending on the chain waits for signatures in the        *)
(* abstract state: there are no more signers than signatures.                 *)
LEMMA PendingWaits ==
    ASSUME Inv, NEW d \in Dels, Pending(d)
    PROVE  Abstract!Waiting(d)
<1>1. IsFiniteSet(sigs[d])
  BY DEF Inv, RecordedChecked
<1> DEFINE by == [s \in sigs[d] |-> s.by]
<1>2. by \in Surjection(sigs[d], Signers(d))
  BY DEF Surjection, Signers
<1>3. IsFiniteSet(Signers(d)) /\ Cardinality(Signers(d)) <= Cardinality(sigs[d])
  BY <1>1, <1>2, FS_Surjection
<1>4. Cardinality(Signers(d)) \in Nat /\ Cardinality(sigs[d]) \in Nat
  BY <1>1, <1>3, FS_CardinalityType
<1>5. hist[Version].CovenantQuorum \in Nat
  BY DataAssumption DEF Inv, TypeOK, ChainTypeOK, Version
<1>6. Cardinality(Signers(d)) < hist[Version].CovenantQuorum
  BY <1>3, <1>4, <1>5 DEF Pending
<1>7. [e \in Dels |-> Signers(e)][d] = Signers(d)
  OBVIOUS
<1>8. Abstract!Cardinality(Signers(d)) = Cardinality(Signers(d))
  BY DEF Cardinality, Abstract!Cardinality, IsFiniteSet, Abstract!IsFiniteSet
<1> QED
  BY <1>6, <1>7, <1>8 DEF Pending, Abstract!Waiting, Abstract!InForce, Version

(* A transaction that leaves the mempool takes approvals of its sender only.    *)
LEMMA ApprovalsSettled ==
    ASSUME TypeOK, NEW tx \in mempool, mempool' = mempool \ {tx}, UNCHANGED outgoing
    PROVE  \E left \in SUBSET Approved(tx.from) :
              [k \in Members |-> Approved(k)]'
                = [[k \in Members |-> Approved(k)] EXCEPT ![tx.from] = left]
<1>1. Approved(tx.from)' \subseteq Approved(tx.from)
  BY DEF Approved
<1>2. ASSUME NEW k \in Members, k # tx.from PROVE Approved(k)' = Approved(k)
  <2>1. {t \in mempool \cup {outgoing[k]} : t.from = k}'
          = {t \in mempool \cup {outgoing[k]} : t.from = k}
    BY <1>2
  <2> QED
    BY <2>1 DEF Approved
<1>3. [k \in Members |-> Approved(k)]'
        = [[k \in Members |-> Approved(k)] EXCEPT ![tx.from] = Approved(tx.from)']
  BY <1>2, Zenon
<1> QED
  BY <1>1, <1>3, Zenon

(* Recording a signature adds its signer.                                      *)
LEMMA SignerAdded ==
    ASSUME NEW S, NEW rec
    PROVE  {s.by : s \in S \cup {rec}} = {s.by : s \in S} \cup {rec.by}
OBVIOUS

(* A transaction that is executed is one abstract signing: of its delegations,   *)
(* those that are pending and not yet signed by its sender.                   *)
LEMMA DeliverRefines ==
    ASSUME Inv, NEW tx \in mempool, DeliverTx(tx), UNCHANGED memberVars, tx.from \in Honest
    PROVE  Abstract!Next
<1> DEFINE m == tx.from
           D == {d \in Dels : d \in tx.dels /\ Pending(d) /\ m \notin Signers(d)}
           signed == [d \in Dels |-> Signers(d)]
           approved == [k \in Members |-> Approved(k)]
<1>1. TypeOK /\ m \in Members /\ m \in Members \ Faulty
  BY DEF Inv, Honest
<1>2. D \subseteq approved[m]
  BY <1>1 DEF Approved
<1>3. \A d \in D : Abstract!Waiting(d) /\ m \notin signed[d]
  BY PendingWaits
<1>4. \A d \in Dels : Signers(d)' = IF d \in D THEN Signers(d) \cup {m} ELSE Signers(d)
  <2> SUFFICES ASSUME NEW d \in Dels
               PROVE  Signers(d)' = IF d \in D THEN Signers(d) \cup {m} ELSE Signers(d)
    OBVIOUS
  <2> DEFINE rec == [by |-> m, since |-> tx.since, until |-> tx.until]
  <2>1. sigs'[d] = IF d \in D THEN sigs[d] \cup {rec} ELSE sigs[d]
    BY DEF DeliverTx
  <2>2. rec.by = m
    OBVIOUS
  <2> HIDE DEF D, rec, m
  <2> QED
    BY <2>1, <2>2, SignerAdded DEF Signers
<1>5. signed' = [d \in Dels |-> IF d \in D THEN signed[d] \cup {m} ELSE signed[d]]
  BY <1>4
<1>6. \E left \in SUBSET approved[m] : approved' = [approved EXCEPT ![m] = left]
  BY <1>1, ApprovalsSettled, Zenon DEF DeliverTx, memberVars
<1>7. UNCHANGED <<hist, created, round>>
  BY DEF DeliverTx, memberVars
<1>8. D \in SUBSET Dels
  OBVIOUS
<1>9. Abstract!Sign(m, D)
  <2> HIDE DEF D
  <2> QED
    BY <1>2, <1>3, <1>5, <1>6, <1>7, Zenon DEF Abstract!Sign
<1> HIDE DEF D, m
<1> QED
  BY <1>1, <1>8, <1>9 DEF Abstract!Next

(* A transaction that is lost is a withdrawal of its sender.                   *)
LEMMA DropRefines ==
    ASSUME Inv, NEW tx \in mempool, DropTx(tx), UNCHANGED memberVars, tx.from \in Honest
    PROVE  Abstract!Next
<1> DEFINE m == tx.from
           approved == [k \in Members |-> Approved(k)]
<1>1. TypeOK /\ m \in Members /\ m \in Members \ Faulty
  BY DEF Inv, Honest
<1>2. \E left \in SUBSET approved[m] : approved' = [approved EXCEPT ![m] = left]
  BY <1>1, ApprovalsSettled, Zenon DEF DropTx, memberVars
<1>3. UNCHANGED <<hist, created, round>> /\ [d \in Dels |-> Signers(d)]' = [d \in Dels |-> Signers(d)]
  BY DEF DropTx, memberVars, Signers
<1>4. Abstract!Withdraw(m)
  BY <1>2, <1>3, Zenon DEF Abstract!Withdraw
<1> HIDE DEF m
<1> QED
  BY <1>1, <1>4 DEF Abstract!Next

(* Every step of the chain is an abstract step.                                *)
LEMMA ChainRefines ==
    ASSUME Inv, FromHonest, ChainStep
    PROVE  Abstract!Next
<1>1. UNCHANGED memberVars
  BY DEF ChainStep
<1>2. UNCHANGED <<outgoing, round>>
  BY <1>1 DEF memberVars
<1>3. UNCHANGED mempool => [k \in Members |-> Approved(k)]' = [k \in Members |-> Approved(k)]
  BY <1>2 DEF Approved
<1>4. UNCHANGED sigs => [d \in Dels |-> Signers(d)]' = [d \in Dels |-> Signers(d)]
  BY DEF Signers
<1>5. ASSUME NEW d \in Dels, CreateDelegation(d) PROVE Abstract!Next
  BY <1>2, <1>3, <1>4, <1>5 DEF CreateDelegation, Abstract!Create, Abstract!Next
<1>6. ASSUME NEW p \in ParamsSet, Govern(p) PROVE Abstract!Next
  BY <1>2, <1>3, <1>4, <1>6 DEF Govern, Abstract!Govern, Abstract!Next
<1>7. ASSUME NEW tx \in mempool, DeliverTx(tx) PROVE Abstract!Next
  BY <1>1, <1>7, DeliverRefines DEF FromHonest
<1>8. ASSUME NEW tx \in mempool, DropTx(tx) PROVE Abstract!Next
  BY <1>1, <1>8, DropRefines DEF FromHonest
<1>9. ASSUME NEW m \in Faulty, NEW d \in Dels, FaultySign(m, d) PROVE Abstract!Next
  <2>1. sigs \in [Dels -> SUBSET SigRecord]
    BY DEF Inv, TypeOK, ChainTypeOK
  <2>2. \A e \in Dels : Signers(e)' = IF e = d THEN Signers(e) \cup {m} ELSE Signers(e)
    <3> SUFFICES ASSUME NEW e \in Dels
                 PROVE  Signers(e)' = IF e = d THEN Signers(e) \cup {m} ELSE Signers(e)
      OBVIOUS
    <3> DEFINE rec == [by |-> m, since |-> 0, until |-> 0]
    <3>1. sigs'[e] = IF e = d THEN sigs[e] \cup {rec} ELSE sigs[e]
      BY <1>9, <2>1 DEF FaultySign
    <3>2. rec.by = m
      OBVIOUS
    <3> HIDE DEF rec
    <3> QED
      BY <3>1, <3>2, SignerAdded DEF Signers
  <2>3. [e \in Dels |-> Signers(e)]' = [[e \in Dels |-> Signers(e)] EXCEPT ![d] = @ \cup {m}]
    BY <2>2, Zenon
  <2>4. Abstract!Waiting(d)
    BY <1>9, PendingWaits DEF FaultySign
  <2>5. Abstract!FaultySign(m, d)
    BY <1>2, <1>3, <1>9, <2>3, <2>4 DEF FaultySign, Abstract!FaultySign
  <2> QED
    BY <1>9, <2>5 DEF Abstract!Next
<1> QED
  BY <1>5, <1>6, <1>7, <1>8, <1>9 DEF ChainStep

-----------------------------------------------------------------------------
(* Transactions come from members that run this program.                      *)
LEMMA FromHonestKept == Inv /\ FromHonest /\ [Next]_vars => FromHonest'
<1> SUFFICES ASSUME Inv, FromHonest, [Next]_vars PROVE FromHonest'
  OBVIOUS
<1>1. mempool' \subseteq mempool \/ \E m \in Honest : SendTx(m)
  <2>1. CASE UNCHANGED vars
    BY <2>1 DEF vars, chainVars
  <2>2. CASE ChainStep
    BY <2>2 DEF ChainStep, CreateDelegation, Govern, DeliverTx, DropTx, FaultySign
  <2>3. ASSUME NEW m \in Honest, MemberStep(m), ~SendTx(m) PROVE UNCHANGED mempool
    BY <2>3, ChainKept
  <2> QED
    BY <2>1, <2>2, <2>3 DEF Next
<1>2. ASSUME NEW m \in Honest, SendTx(m) PROVE FromHonest'
  BY <1>2 DEF SendTx, Inv, SentChecked, FromHonest, Honest
<1>3. CASE mempool' \subseteq mempool
  BY <1>3 DEF FromHonest, Honest
<1> QED
  BY <1>1, <1>2, <1>3

(* The committee with the chain, crashes, late and lost transactions            *)
(* implements Committee.  It is the refinement the quorum run checks on one     *)
(* instance, for every committee and every configuration of the emulator        *)
(* (covenant.go, AddCovenantSignatures and covenantSigSubmissionLoop).          *)
THEOREM Implementation == Spec => ImplementsCommittee
<1>1. Init => Abstract!Init
  BY DEF Init, ChainInit, NoTx, Abstract!Init, Approved, Signers
<1>2. Init => FromHonest
  BY DEF Init, ChainInit, FromHonest
<1>3. Inv /\ FromHonest /\ [Next]_vars => [Abstract!Next]_(Abstract!committeeVars)
  <2> SUFFICES ASSUME Inv, FromHonest, [Next]_vars
               PROVE  Abstract!Next \/ UNCHANGED Abstract!committeeVars
    OBVIOUS
  <2>1. CASE UNCHANGED vars
    BY <2>1, StutterRefines DEF vars, chainVars, memberVars
  <2> QED
    BY <2>1, MemberRefines, ChainRefines DEF Next
<1> QED
  BY <1>1, <1>2, <1>3, FromHonestKept, Invariance, PTL
     DEF Spec, ImplementsCommittee, Abstract!Spec

-----------------------------------------------------------------------------
\* What a member submits has a longer unbonding time than MinUnbondingTime.
SubmittedAbove ==
    \A m \in Honest : \A d \in outgoing[m].dels :
        BtcDel[d].UnbondingTime > hist[params[m].staking].MinUnbondingTime

(* The comparison of AddCovenantSignatures lets only longer unbonding times pass. *)
LEMMA VerdictUnbonding ==
    ASSUME NEW del, NEW n, NEW p, NEW k \in BOOLEAN,
           del.UnbondingTime \in Nat, p.MinUnbondingTime \in Nat,
           Verdict(ConvertDelegationType(del, n), p, k) = "sign"
    PROVE  del.UnbondingTime > p.MinUnbondingTime
<1> DEFINE view == ConvertDelegationType(del, n)
<1>1. view.UnbondingTime = del.UnbondingTime
  BY DEF ConvertDelegationType
<1>2. ~(view.UnbondingTime <= p.MinUnbondingTime)
  BY Zenon DEF Verdict, UnbondingTimeTooShort
<1> HIDE DEF view
<1> QED
  BY <1>1, <1>2

(* A member that submits uses parameters of versions that exist.                 *)
LEMMA SubmitVersions ==
    ASSUME Inv, NEW m \in Honest, pc[m] \in {"query", "batches", "submit"}
    PROVE  /\ hist \in Seq(ParamsSet) /\ Version = Len(hist)
           /\ params[m].staking \in 1..Len(hist) /\ params[m].ckpt \in 1..Len(hist)
           /\ hist[params[m].staking] \in ParamsSet /\ hist[params[m].ckpt] \in ParamsSet
<1>1. hist \in Seq(ParamsSet) /\ Version = Len(hist)
  BY MemberTypes DEF ChainTypeOK, Version
<1>2. params[m].staking \in Nat /\ params[m].ckpt \in Nat
  BY ChainAssumption, MemberTypes DEF Honest, Versions
<1>b. round[m] \in Nat
  BY ChainAssumption DEF Inv, TypeOK, Honest, Versions
<1>3. /\ 0 < round[m] /\ round[m] <= params[m].ckpt
      /\ params[m].ckpt <= params[m].staking /\ params[m].staking <= Version
  BY DEF Inv, RoundParamsFresh
<1>4. params[m].staking \in 1..Len(hist) /\ params[m].ckpt \in 1..Len(hist)
  BY <1>1, <1>2, <1>3, <1>b
<1> QED
  BY <1>1, <1>4

(* A step of a member keeps it: ce.params does not change while a transaction is   *)
(* being submitted.                                                            *)
LEMMA MemberAbove ==
    ASSUME Inv, SubmittedAbove, NEW m \in Honest, MemberStep(m)
    PROVE  SubmittedAbove'
<1>a. /\ m \in Members /\ outgoing \in [Members -> Tx] /\ todo \in [Members -> SUBSET Dels]
      /\ params \in [Members -> [ckpt : Versions, staking : Versions]]
      /\ \A o \in Honest : o \in Members
  BY MemberTypes DEF Honest
<1>b. hist' = hist
  BY ChainKept
<1>c. ASSUME outgoing'[m].dels = {},
             \A o \in Honest : o # m => outgoing'[o] = outgoing[o] /\ params'[o] = params[o]
      PROVE  SubmittedAbove'
  BY <1>b, <1>c DEF SubmittedAbove
<1>d. ASSUME UNCHANGED <<outgoing, params>> PROVE SubmittedAbove'
  BY <1>b, <1>d DEF SubmittedAbove
<1>e. ASSUME Die(m) PROVE SubmittedAbove'
  BY <1>a, <1>c, <1>e, Zenon DEF Die, NoTx
<1>f. ASSUME NEW left, NEW view, Continue(m, left, view), params' = params
      PROVE  SubmittedAbove'
  BY <1>a, <1>c, <1>f, Zenon DEF Continue, NoTx
<1>1. CASE QueryStakingParams(m)
  <2>1. outgoing[m].dels = {}
    BY <1>1 DEF Inv, HeldInRound, QueryStakingParams
  <2> QED
    BY <1>1, <1>a, <1>c, <2>1, Zenon DEF QueryStakingParams
<1>2. CASE QueryPendingDelegations(m)
  BY <1>2, <1>e, <1>f, Zenon DEF QueryPendingDelegations
<1>3. ASSUME NEW k \in BOOLEAN, AddCovenantSignatures(m, k) PROVE SubmittedAbove'
  <2> DEFINE batch == delegationsToBatches(todo[m])
             tx == [from |-> m, dels |-> batch, since |-> round[m], until |-> Version]
  <2>1. CASE /\ \A d \in batch : Verdict(View(m, d), StakingParams(m), k) = "sign"
             /\ outgoing' = [outgoing EXCEPT ![m] = tx]
             /\ params' = params
    <3>1. batch \in SUBSET Dels
      BY <1>a DEF delegationsToBatches, FirstN
    <3>2. StakingParams(m).MinUnbondingTime = hist[params[m].staking].MinUnbondingTime
      BY Zenon DEF StakingParams
    <3>3. hist[params[m].staking].MinUnbondingTime \in Nat
      BY <1>3, SubmitVersions, DataAssumption, Zenon DEF AddCovenantSignatures
    <3>4. ASSUME NEW d \in batch
          PROVE  BtcDel[d].UnbondingTime > hist[params[m].staking].MinUnbondingTime
      <4>1. Verdict(ConvertDelegationType(BtcDel[d], seen[m][d]), StakingParams(m), k) = "sign"
        BY <2>1 DEF View
      <4>2. BtcDel[d].UnbondingTime \in Nat
        BY <3>1, DataAssumption
      <4> QED
        BY <3>2, <3>3, <4>1, <4>2, VerdictUnbonding, Zenon
    <3> HIDE DEF batch
    <3>5. /\ outgoing'[m].dels = batch
          /\ \A o \in Honest : o # m => outgoing'[o] = outgoing[o]
      BY <1>a, <2>1
    <3> QED
      BY <1>b, <2>1, <3>4, <3>5 DEF SubmittedAbove
  <2> QED
    BY <1>3, <1>e, <1>f, <2>1, Zenon DEF AddCovenantSignatures
<1>4. CASE SubmitReturns(m)
  BY <1>4, <1>f DEF SubmitReturns
<1>5. CASE Crash(m)
  BY <1>5, <1>e DEF Crash
<1> QED
  BY <1>1, <1>2, <1>3, <1>4, <1>5, <1>d
     DEF MemberStep, Start, Tick, QueryCheckpointParams, QueryParamsFails, QueryPendingFails,
         SendTx, memberVars

(* Everything submitted has a longer unbonding time than the MinUnbondingTime of    *)
(* the member's parameters, whatever governance does in the meantime.             *)
THEOREM SubmittedAboveSafe == Spec => []SubmittedAbove
<1>1. Init => SubmittedAbove
  <2>1. Init => \A m \in Honest : outgoing[m].dels = {}
    BY DEF Init, Honest, NoTx
  <2> QED
    BY <2>1 DEF SubmittedAbove
<1>2. Inv /\ SubmittedAbove /\ [Next]_vars => SubmittedAbove'
  <2> SUFFICES ASSUME Inv, SubmittedAbove, [Next]_vars PROVE SubmittedAbove'
    OBVIOUS
  <2>1. CASE \E m \in Honest : MemberStep(m)
    BY <2>1, MemberAbove, ZenonT(30)
  <2>2. CASE ChainStep
    <3>1. UNCHANGED <<outgoing, params>>
      BY <2>2 DEF ChainStep, memberVars
    <3>2. CASE hist' = hist
      BY <3>1, <3>2 DEF SubmittedAbove
    <3>3. ASSUME NEW p \in ParamsSet, Govern(p) PROVE SubmittedAbove'
      <4>1. ASSUME NEW m \in Honest, NEW d \in outgoing[m].dels
            PROVE  hist'[params[m].staking] = hist[params[m].staking]
        <5>1. pc[m] = "submit"
          BY DEF Inv, HeldInRound
        <5>2. hist \in Seq(ParamsSet) /\ params[m].staking \in 1..Len(hist)
          BY <5>1, SubmitVersions
        <5> QED
          BY <3>3, <5>2 DEF Govern
      <4> QED
        BY <3>1, <4>1 DEF SubmittedAbove
    <3> QED
      BY <2>2, <3>2, <3>3 DEF ChainStep, CreateDelegation, DeliverTx, DropTx, FaultySign
  <2>3. CASE UNCHANGED vars
    BY <2>3 DEF vars, chainVars, memberVars, SubmittedAbove
  <2> QED
    BY <2>1, <2>2, <2>3 DEF Next
<1> QED
  BY <1>1, <1>2, Invariance, PTL DEF Spec

=============================================================================
