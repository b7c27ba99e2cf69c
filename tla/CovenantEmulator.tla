--------------------------- MODULE CovenantEmulator ---------------------------
(***************************************************************************)
(* The covenant committee at work: every honest member runs the submission   *)
(* loop of covenant/covenant.go against the Babylon chain.                   *)
(*                                                                           *)
(* A list of delegations is always in the order of the chain's store, and     *)
(* removeAlreadySigned and delegationsToBatches keep that order, so a list    *)
(* is represented by the set of its elements and a batch is the first         *)
(* SigsBatchSize elements of what is left (module Batches shows that the      *)
(* slicing code does this).  A member's steps are split where it calls the    *)
(* chain; between two calls it only touches its own state.                    *)
(***************************************************************************)
EXTENDS Babylon

CONSTANTS
    DelegationLimit,    \* config: page size of the query for pending delegations
    SigsBatchSize,      \* config: delegations signed in one transaction
    RtyAttNum,          \* attempts at querying the parameters
    MaxCrashes          \* bound on crashes

ASSUME EmulatorAssumption ==
    /\ DelegationLimit \in Nat \ {0}
    /\ SigsBatchSize \in Nat \ {0}
    /\ RtyAttNum \in Nat \ {0}
    /\ MaxCrashes \in Nat

VARIABLES
    pc,         \* where the member's loop stands
    att,        \* failed attempts of the current getParamsWithRetry
    ckpt,       \* version of the checkpoint parameters just queried
    params,     \* ce.params: the versions it was assembled from, 0 for nil
    todo,       \* delegations of this round not yet handled
    seen,       \* signatures on each of them when it was queried
    outgoing,   \* the transaction SubmitCovenantSigs is sending
    round,      \* version in force when the round began (history)
    crashes     \* crashes so far

memberVars == <<pc, att, ckpt, params, todo, seen, outgoing, round>>

vars == <<chainVars, memberVars, crashes>>

Honest == Members \ Faulty

\* "down": not running; "select": waiting for the ticker; "ckpt", "staking":
\* in QueryStakingParams; "query": in QueryPendingDelegations; "batches": about
\* to handle the next batch; "submit": in SubmitCovenantSigs.
PC == {"down", "select", "ckpt", "staking", "query", "batches", "submit"}

NilParams == [ckpt |-> 0, staking |-> 0]

NoTx(m) == [from |-> m, dels |-> {}, since |-> 0, until |-> 0]

Unseen == [d \in Dels |-> 0]

\* ce.params, assembled from two versions: the checkpoint and the staking
\* parameters are queried separately.
StakingParams(m) ==
    LET stakingParams == hist[params[m].staking] IN
    [ SlashingAddress           |-> stakingParams.SlashingAddress,
      SlashingRate              |-> stakingParams.SlashingRate,
      MinSlashingTxFeeSat       |-> stakingParams.MinSlashingTxFeeSat,
      MinUnbondingTime          |-> stakingParams.MinUnbondingTime,
      CovenantQuorum            |-> stakingParams.CovenantQuorum,
      FinalizationTimeoutBlocks |-> hist[params[m].ckpt].FinalizationTimeoutBlocks ]

View(m, d) == ConvertDelegationType(BtcDel[d], seen[m][d])

-----------------------------------------------------------------------------
TypeOK ==
    /\ ChainTypeOK
    /\ pc \in [Members -> PC]
    /\ att \in [Members -> 0..(RtyAttNum - 1)]
    /\ ckpt \in [Members -> Versions]
    /\ params \in [Members -> [ckpt : Versions, staking : Versions]]
    /\ todo \in [Members -> SUBSET Dels]
    /\ seen \in [Members -> [Dels -> Nat]]
    /\ outgoing \in [Members -> Tx]
    /\ round \in [Members -> Versions]
    /\ crashes \in 0..MaxCrashes

Init ==
    /\ ChainInit
    /\ pc = [m \in Members |-> "down"]
    /\ att = [m \in Members |-> 0]
    /\ ckpt = [m \in Members |-> 0]
    /\ params = [m \in Members |-> NilParams]
    /\ todo = [m \in Members |-> {}]
    /\ seen = [m \in Members |-> Unseen]
    /\ outgoing = [m \in Members |-> NoTx(m)]
    /\ round = [m \in Members |-> 0]
    /\ crashes = 0

-----------------------------------------------------------------------------
\* Mutant: the first round begins without UpdateParams.
StartWithoutParams(m) ==
    /\ pc[m] = "down"
    /\ pc' = [pc EXCEPT ![m] = "query"]
    /\ UNCHANGED <<chainVars, att, ckpt, params, todo, seen, outgoing, round, crashes>>

\* NewCovenantEmulator and Start.  Nothing is kept from an earlier life.
Start(m) ==
    /\ pc[m] = "down"
    /\ pc' = [pc EXCEPT ![m] = "select"]
    /\ UNCHANGED <<chainVars, att, ckpt, params, todo, seen, outgoing, round, crashes>>

\* The ticker fires and UpdateParams begins.
Tick(m) ==
    /\ pc[m] = "select"
    /\ pc' = [pc EXCEPT ![m] = "ckpt"]
    /\ att' = [att EXCEPT ![m] = 0]
    /\ round' = [round EXCEPT ![m] = Version]
    /\ UNCHANGED <<chainVars, ckpt, params, todo, seen, outgoing, crashes>>

\* QueryStakingParams, first query.
QueryCheckpointParams(m) ==
    /\ pc[m] = "ckpt"
    /\ ckpt' = [ckpt EXCEPT ![m] = Version]
    /\ pc' = [pc EXCEPT ![m] = "staking"]
    /\ UNCHANGED <<chainVars, att, params, todo, seen, outgoing, round, crashes>>

\* Mutant: parameters that are set once are kept.
QueryStakingParamsOnce(m) ==
    /\ pc[m] = "staking"
    /\ params' = [params EXCEPT ![m] = IF @ = NilParams
                                       THEN [ckpt |-> ckpt[m], staking |-> Version] ELSE @]
    /\ pc' = [pc EXCEPT ![m] = "query"]
    /\ ckpt' = [ckpt EXCEPT ![m] = 0]
    /\ att' = [att EXCEPT ![m] = 0]
    /\ UNCHANGED <<chainVars, todo, seen, outgoing, round, crashes>>

\* QueryStakingParams, second query; UpdateParams stores the result.
QueryStakingParams(m) ==
    /\ pc[m] = "staking"
    /\ params' = [params EXCEPT ![m] = [ckpt |-> ckpt[m], staking |-> Version]]
    /\ pc' = [pc EXCEPT ![m] = "query"]
    /\ ckpt' = [ckpt EXCEPT ![m] = 0]
    /\ att' = [att EXCEPT ![m] = 0]
    /\ UNCHANGED <<chainVars, todo, seen, outgoing, round, crashes>>

\* Mutant: the round goes on although UpdateParams failed.
QueryParamsFailsGoesOn(m) ==
    /\ pc[m] \in {"ckpt", "staking"}
    /\ pc' = [pc EXCEPT ![m] = "query"]
    /\ ckpt' = [ckpt EXCEPT ![m] = 0]
    /\ att' = [att EXCEPT ![m] = 0]
    /\ UNCHANGED <<chainVars, params, todo, seen, outgoing, round, crashes>>

\* Either query fails: getParamsWithRetry tries again from the first query,
\* or gives up and the round is skipped.
QueryParamsFails(m) ==
    /\ pc[m] \in {"ckpt", "staking"}
    /\ IF att[m] + 1 < RtyAttNum
       THEN /\ pc' = [pc EXCEPT ![m] = "ckpt"]
            /\ att' = [att EXCEPT ![m] = @ + 1]
       ELSE /\ pc' = [pc EXCEPT ![m] = "select"]
            /\ att' = [att EXCEPT ![m] = 0]
    /\ ckpt' = [ckpt EXCEPT ![m] = 0]
    /\ UNCHANGED <<chainVars, params, todo, seen, outgoing, round, crashes>>

-----------------------------------------------------------------------------
\* The process dies: only what is on the chain, or on its way to it, is left.
Die(m) ==
    /\ pc' = [pc EXCEPT ![m] = "down"]
    /\ att' = [att EXCEPT ![m] = 0]
    /\ ckpt' = [ckpt EXCEPT ![m] = 0]
    /\ params' = [params EXCEPT ![m] = NilParams]
    /\ todo' = [todo EXCEPT ![m] = {}]
    /\ seen' = [seen EXCEPT ![m] = Unseen]
    /\ outgoing' = [outgoing EXCEPT ![m] = NoTx(m)]
    /\ round' = [round EXCEPT ![m] = 0]

\* What the loop goes on to when the delegations in left remain in the round,
\* with the number of signatures in view on each.
Continue(m, left, view) ==
    /\ todo' = [todo EXCEPT ![m] = left]
    /\ seen' = [seen EXCEPT ![m] = [d \in Dels |-> IF d \in left THEN view[d] ELSE 0]]
    /\ outgoing' = [outgoing EXCEPT ![m] = NoTx(m)]
    /\ pc' = [pc EXCEPT ![m] = IF left = {} THEN "select" ELSE "batches"]

removeAlreadySigned(m, dels) == {d \in dels : m \notin Signers(d)}

\* The first page of pending delegations, converted, then sanitized.
QueryPendingDelegations(m) ==
    LET page == FirstN({d \in Dels : Pending(d)}, DelegationLimit)
        sanitized == removeAlreadySigned(m, page)
    IN
    /\ pc[m] = "query"
    /\ \/ /\ \A d \in page : ~ConversionPanics(BtcDel[d])
          /\ Continue(m, sanitized, [d \in Dels |-> Cardinality(sigs[d])])
          /\ UNCHANGED <<att, ckpt, params, round>>
       \/ /\ \E d \in page : ConversionPanics(BtcDel[d])
          /\ Die(m)
    /\ UNCHANGED <<chainVars, crashes>>

QueryPendingFails(m) ==
    /\ pc[m] = "query"
    /\ pc' = [pc EXCEPT ![m] = "select"]
    /\ UNCHANGED <<chainVars, att, ckpt, params, todo, seen, outgoing, round, crashes>>

\* Mutant: everything goes into one batch.
OneBatch(dels) == dels

delegationsToBatches(dels) == FirstN(dels, SigsBatchSize)

\* The loop over a batch ends at a delegation with one of these verdicts.
EndsWith(m, batch, keyReadable, verdicts) ==
    LET verdict(d) == Verdict(View(m, d), StakingParams(m), keyReadable) IN
    \E d \in batch : /\ verdict(d) \in verdicts
                    /\ \A e \in batch : e < d => verdict(e) = "sign"

\* Mutant: the loop over the batch ends with its first delegation.
AddCovenantSignaturesFirst(m, keyReadable) ==
    LET batch == delegationsToBatches(todo[m]) IN
    /\ pc[m] = "batches"
    /\ \A d \in FirstN(batch, 1) : Verdict(View(m, d), StakingParams(m), keyReadable) = "sign"
    /\ outgoing' = [outgoing EXCEPT ![m] =
                      [from |-> m, dels |-> batch, since |-> round[m], until |-> Version]]
    /\ pc' = [pc EXCEPT ![m] = "submit"]
    /\ UNCHANGED <<chainVars, att, ckpt, params, todo, seen, round, crashes>>

\* AddCovenantSignatures up to the submission.  Whatever was signed before an
\* error or a skip is discarded and the loop goes on to the next batch.
AddCovenantSignatures(m, keyReadable) ==
    LET batch == delegationsToBatches(todo[m]) IN
    /\ pc[m] = "batches"
    /\ \/ /\ \A d \in batch : Verdict(View(m, d), StakingParams(m), keyReadable) = "sign"
          /\ outgoing' = [outgoing EXCEPT ![m] =
                            [from |-> m, dels |-> batch, since |-> round[m], until |-> Version]]
          /\ pc' = [pc EXCEPT ![m] = "submit"]
          /\ UNCHANGED <<att, ckpt, params, todo, seen, round>>
       \/ /\ EndsWith(m, batch, keyReadable, {"error", "skip"})
          /\ Continue(m, todo[m] \ batch, seen[m])
          /\ UNCHANGED <<att, ckpt, params, round>>
       \/ /\ EndsWith(m, batch, keyReadable, {"panic"})
          /\ Die(m)
    /\ UNCHANGED <<chainVars, crashes>>

\* SubmitCovenantSigs hands the transaction to the chain; the client does so
\* again when it sees no answer.
SendTx(m) ==
    /\ pc[m] = "submit"
    /\ mempool' = mempool \cup {outgoing[m]}
    /\ UNCHANGED <<hist, created, sigs, memberVars, crashes>>

\* SubmitCovenantSigs returns, with a response or an error: both are treated
\* alike, and an error does not mean that the transaction is not executed.
SubmitReturns(m) ==
    /\ pc[m] = "submit"
    /\ Continue(m, todo[m] \ outgoing[m].dels, seen[m])
    /\ UNCHANGED <<chainVars, att, ckpt, params, round, crashes>>

\* The process is killed, or mustGetTxSigner panics because the account key is
\* no longer in the keyring.
Crash(m) ==
    /\ pc[m] # "down"
    /\ crashes < MaxCrashes
    /\ crashes' = crashes + 1
    /\ Die(m)
    /\ UNCHANGED chainVars

-----------------------------------------------------------------------------
MemberStep(m) ==
    \/ Start(m)
    \/ Tick(m)
    \/ QueryCheckpointParams(m)
    \/ QueryStakingParams(m)
    \/ QueryParamsFails(m)
    \/ QueryPendingDelegations(m)
    \/ QueryPendingFails(m)
    \/ \E keyReadable \in BOOLEAN : AddCovenantSignatures(m, keyReadable)
    \/ SendTx(m)
    \/ SubmitReturns(m)
    \/ Crash(m)

ChainStep ==
    /\ \/ \E d \in Dels : CreateDelegation(d)
       \/ \E p \in ParamsSet : Govern(p)
       \/ \E tx \in mempool : DeliverTx(tx)
       \/ \E tx \in mempool : DropTx(tx)
       \/ \E m \in Faulty, d \in Dels : FaultySign(m, d)
    /\ UNCHANGED <<memberVars, crashes>>

Next == ChainStep \/ \E m \in Honest : MemberStep(m)

Spec == Init /\ [][Next]_vars

\* The steps that move the signature of m on d forward.
HandleDel(m, d) == d \in delegationsToBatches(todo[m]) /\ AddCovenantSignatures(m, TRUE)

SendDel(m, d) == d \in outgoing[m].dels /\ SendTx(m)

LandDel(m, d) ==
    /\ \E tx \in mempool : tx.from = m /\ d \in tx.dels /\ DeliverTx(tx)
    /\ UNCHANGED <<memberVars, crashes>>

(***************************************************************************)
(* Fairness.  The ticker keeps firing and every call returns (weak).  What   *)
(* may fail, a query, the reading of the key, the handing over or the         *)
(* execution of a transaction, does not fail for ever (strong).               *)
(***************************************************************************)
Fairness ==
    \A m \in Honest :
        /\ WF_vars(Start(m)) /\ WF_vars(Tick(m))
        /\ SF_vars(QueryCheckpointParams(m)) /\ SF_vars(QueryStakingParams(m))
        /\ SF_vars(QueryPendingDelegations(m))
        /\ WF_vars(SubmitReturns(m))
        /\ \A d \in Dels : /\ SF_vars(HandleDel(m, d))
                           /\ SF_vars(SendDel(m, d))
                           /\ SF_vars(LandDel(m, d))

FairSpec == Spec /\ Fairness

-----------------------------------------------------------------------------
(* What the committee promises.                                            *)

\* A delegation that passes the checks of AddCovenantSignatures by itself.
Verified(d) ==
    /\ Pending(d)
    /\ Verdict(ConvertDelegationType(BtcDel[d], 0), hist[Version], TRUE) = "sign"

(* Every signature of an honest member that the chain has recorded is on a   *)
(* delegation that obeyed the rules the member checks (slashed share, slashing *)
(* address, stated unbonding time and change outputs) under parameters that    *)
(* were in force during the round that produced it, whatever governance,       *)
(* crashes, retries and late transactions did meanwhile: UpdateParams runs     *)
(* first in every round and AddCovenantSignatures checks against its result.   *)
SpendingRulesEnforced ==
    \A d \in Dels : \A s \in sigs[d] :
        s.by \in Honest =>
            \E v \in s.since..s.until : v > 0 /\ RulesChecked(BtcDel[d], hist[v])

\* A quorum cannot be made of faulty members alone.
QuorumNeedsHonest == \A p \in ParamsSet : p.CovenantQuorum > Cardinality(Faulty)

(* As long as a quorum needs an honest member, a delegation becomes active     *)
(* only if, under one version of the parameters, it obeyed rules 1 and 2 of    *)
(* the README, and rule 3 too if its unbonding transaction has the output that  *)
(* AddCovenantSignatures takes for granted.                                   *)
QuorumEnforcesRules ==
    QuorumNeedsHonest =>
        \A d \in Dels : Active(d) =>
            \E v \in 1..Version :
                /\ SlashingRules(BtcDel[d], hist[v])
                /\ UnbondingOutputStated(BtcDel[d]) => UnbondingRule(BtcDel[d], hist[v])

(* No honest member's signature is ever on a delegation that cannot be          *)
(* processed, although a round meets it again and again: ConvertDelegationType  *)
(* and GetStakingTime panic before anything of the batch is submitted, a        *)
(* restarted daemon remembers nothing of it, and no staking time is cut to      *)
(* 16 bits (types/delegation.go:50-57).                                       *)
UnprocessableUnsigned ==
    \A d \in Dels : \A s \in sigs[d] : s.by \in Honest => Processable(BtcDel[d])

(* While a member handles delegations, ce.params is set and was queried in    *)
(* the same round, also when the two queries of QueryStakingParams see         *)
(* different versions: a failed UpdateParams ends the round (continue), so     *)
(* neither nil nor the previous round's parameters are ever used.             *)
RoundParamsFresh ==
    \A m \in Honest : pc[m] \in {"query", "batches", "submit"} =>
        /\ 0 < round[m] /\ round[m] <= params[m].ckpt
        /\ params[m].ckpt <= params[m].staking
        /\ params[m].staking <= Version

(* AddCovenantSignatures drops a whole batch when one of its delegations      *)
(* already has a quorum.  Since only pending delegations are queried, this     *)
(* happens only when governance replaced the parameters after UpdateParams.   *)
SkipOnlyAfterGovernance ==
    \A m \in Honest : \A d \in todo[m] :
        HasCovenantQuorum(View(m, d), StakingParams(m).CovenantQuorum)
            => params[m].staking < Version

(* A delegation that stays pending and keeps passing the checks by itself is  *)
(* eventually signed by every honest member: covd "constantly monitors        *)
(* staking requests [...] and sends the necessary signatures if verification   *)
(* is passed".                                                                *)
VerifiedGetsSigned ==
    \A m \in Honest, d \in Dels :
        <>[]Verified(d) => <>(m \in Signers(d))

(* A delegation that every version of the parameters accepts becomes active,  *)
(* and stays so once governance is done.                                      *)
VerifiedGetsActive ==
    \A d \in Dels :
        [](Pending(d) => Verified(d)) => (d \in created ~> []Active(d))

(* The unbonding time of everything a member submits is larger than the       *)
(* minimum of its parameters, "which is larger value from: MinUnbondingTime,   *)
(* CheckpointFinalizationTimeout" (AddCovenantSignatures, step 2).            *)
UnbondingTimeAboveMinimum ==
    \A m \in Honest : \A d \in outgoing[m].dels :
        BtcDel[d].UnbondingTime > MinimumUnbondingTime(StakingParams(m))

-----------------------------------------------------------------------------
(* The abstract specification that the committee implements.                *)

\* What a member has signed and the chain may yet record: the batch it is
\* submitting and its transactions in the mempool.
Approved(m) ==
    UNION {tx.dels : tx \in {t \in mempool \cup {outgoing[m]} : t.from = m}}

Abstract == INSTANCE Committee WITH
    since    <- round,
    approved <- [m \in Members |-> Approved(m)],
    signed   <- [d \in Dels |-> Signers(d)]

(* With its queries, pages, batches, retries, late and lost transactions and   *)
(* crashes, the committee implements Committee: honest members approve whole    *)
(* batches that obeyed the rules during the round (AddCovenantSignatures        *)
(* returns before the submission if one delegation of the batch does not), and  *)
(* nothing is recorded of a member that it has not approved.                    *)
ImplementsCommittee == Abstract!Spec

-----------------------------------------------------------------------------
(* The inductive invariant behind the safety properties.                    *)

\* Delegation d can be processed and obeyed the rules under a version between lo
\* and hi.
RulesHeld(d, lo, hi) ==
    /\ Processable(BtcDel[d])
    /\ hi <= Version
    /\ \E v \in lo..hi : v > 0 /\ RulesChecked(BtcDel[d], hist[v])

\* The versions a member has read are of its round, in the order it read them.
ReadInOrder ==
    \A m \in Honest :
        /\ pc[m] \in {"ckpt", "staking"} => 0 < round[m] /\ round[m] <= Version
        /\ pc[m] = "staking" => round[m] <= ckpt[m] /\ ckpt[m] <= Version

\* Delegations are held only while they are handled, and were converted.
HeldInRound ==
    \A m \in Honest :
        /\ \A d \in todo[m] : ~ConversionPanics(BtcDel[d])
        /\ pc[m] \notin {"batches", "submit"} => todo[m] = {}
        /\ pc[m] # "submit" => outgoing[m].dels = {}

\* What is on its way to the chain was checked in its round.
SentChecked ==
    /\ \A m \in Honest :
          /\ outgoing[m].from = m
          /\ \A d \in outgoing[m].dels : RulesHeld(d, outgoing[m].since, outgoing[m].until)
    /\ \A tx \in mempool : \A d \in tx.dels : RulesHeld(d, tx.since, tx.until)

\* The chain holds one signature per member, and those of honest members were
\* checked in their round.
RecordedChecked ==
    \A d \in Dels :
        /\ IsFiniteSet(sigs[d])
        /\ \A s, t \in sigs[d] : s.by = t.by => s = t
        /\ \A s \in sigs[d] : s.by \in Honest => RulesHeld(d, s.since, s.until)

(* Everything a member has read belongs to its current round, everything in   *)
(* flight or recorded was checked against parameters of the round that        *)
(* produced it, and no member is counted twice: the facts that every step of   *)
(* the committee and the chain preserves together.                            *)
Inv ==
    /\ TypeOK
    /\ RoundParamsFresh
    /\ ReadInOrder
    /\ HeldInRound
    /\ SentChecked
    /\ RecordedChecked

=============================================================================
