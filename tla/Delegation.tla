------------------------------ MODULE Delegation ------------------------------
(***************************************************************************)
(* The data the covenant emulator works on, and the pure functions over it: *)
(* staking parameters (types/params.go), delegations (types/delegation.go),  *)
(* the conversion from the chain's own type (clientcontroller/babylon.go)    *)
(* and the checks of AddCovenantSignatures (covenant/covenant.go).           *)
(*                                                                           *)
(* A Bitcoin transaction is abstracted to what the checks tell apart.  A     *)
(* slashing transaction is a record                                          *)
(*   [to, rate, fee, lock, idx]: the address it pays, the share it slashes,  *)
(*   its fee, the timelock of its change output and the output it spends;     *)
(* of an unbonding transaction, a record [lock], the timelock of its output.   *)
(* A delegation as the chain stores it is a record                           *)
(*   [StartHeight, EndHeight, UnbondingTime, StakingOutputIdx, SlashingTx,    *)
(*    BtcUndelegation (BOOLEAN: present), UnbondingTx, UnbondingSlashingTx,    *)
(*    form]                                                                  *)
(* where form says how far its encoded transactions can be processed:        *)
(*   "ok"           they decode, scripts can be built, signing succeeds;      *)
(*   "missing"      a transaction is absent or a key or signature malformed;  *)
(*   "undecodable"  a transaction does not decode, or no unbonding script;    *)
(*   "no_outputs"   the unbonding transaction has no output;                  *)
(*   "unsignable"   the staking script or a signature cannot be made.         *)
(***************************************************************************)
EXTENDS Integers

CONSTANT TwoTo64        \* 2^64, the modulus of the code's uint64 heights

ASSUME TwoTo64Assumption == TwoTo64 \in Nat /\ TwoTo64 > 2 * 65536

MaxUint16 == 65535

Uint16(n) == n % 65536

-----------------------------------------------------------------------------
(* types/params.go                                                         *)

MinimumUnbondingTime(params) ==
    IF params.MinUnbondingTime >= params.FinalizationTimeoutBlocks
    THEN params.MinUnbondingTime
    ELSE params.FinalizationTimeoutBlocks

-----------------------------------------------------------------------------
(* types/delegation.go                                                     *)

\* The code compares the unbonding signatures here, not the slashing ones.
HasCovenantQuorumOnSlashing(del, quorum) == del.CovenantUnbondingSigs >= quorum

HasCovenantQuorumOnUnbonding(del, quorum) == del.CovenantUnbondingSigs >= quorum

HasAllSignatures(del, quorum) ==
    /\ HasCovenantQuorumOnUnbonding(del, quorum)
    /\ HasCovenantQuorumOnSlashing(del, quorum)

\* Mutant: a quorum one signature too early.
HasCovenantQuorumEarly(del, quorum) ==
    /\ del.CovenantSigs >= quorum - 1
    /\ HasAllSignatures(del, quorum - 1)

HasCovenantQuorum(del, quorum) ==
    /\ del.CovenantSigs >= quorum
    /\ HasAllSignatures(del, quorum)

\* Mutant: the difference is cut to 16 bits.
StakingTimeTruncated(del) == FALSE

\* GetStakingTime panics on a difference (of unsigned heights) that does not
\* fit a uint16.
StakingTimePanics(del) ==
    (del.EndHeight - del.StartHeight) % TwoTo64 > MaxUint16

-----------------------------------------------------------------------------
(* clientcontroller/babylon.go                                             *)

\* ConvertDelegationType and ConvertUndelegationType panic on these.
ConversionPanics(btcDel) == btcDel.form = "missing"

\* The emulator's view of a delegation that carries n covenant signatures of
\* each of the three kinds.  StakingOutputIdx is not copied and stays 0.
ConvertDelegationType(btcDel, n) ==
    [ StartHeight           |-> btcDel.StartHeight,
      EndHeight             |-> btcDel.EndHeight,
      UnbondingTime         |-> btcDel.UnbondingTime,
      StakingOutputIdx      |-> 0,
      SlashingTx            |-> btcDel.SlashingTx,
      BtcUndelegation       |-> btcDel.BtcUndelegation,
      UnbondingTx           |-> btcDel.UnbondingTx,
      UnbondingSlashingTx   |-> btcDel.UnbondingSlashingTx,
      form                  |-> btcDel.form,
      CovenantSigs          |-> n,
      CovenantSlashingSigs  |-> n,
      CovenantUnbondingSigs |-> n ]

-----------------------------------------------------------------------------
(* covenant/covenant.go                                                    *)

\* Mutant: slashed funds may go anywhere.
CheckTransactionsAnyAddress(slashingTx, idx, params, lockTime) ==
    /\ slashingTx.idx = idx
    /\ slashingTx.fee >= params.MinSlashingTxFeeSat
    /\ slashingTx.rate >= params.SlashingRate
    /\ slashingTx.lock = lockTime

\* btcstaking.CheckTransactions, by what its arguments constrain.
CheckTransactions(slashingTx, idx, params, lockTime) ==
    /\ slashingTx.idx = idx
    /\ slashingTx.fee >= params.MinSlashingTxFeeSat
    /\ slashingTx.rate >= params.SlashingRate
    /\ slashingTx.to = params.SlashingAddress
    /\ slashingTx.lock = lockTime

UnbondingTimeTooShort(del, params) == del.UnbondingTime <= params.MinUnbondingTime

\* What one iteration of AddCovenantSignatures does with a delegation, in the
\* order of its checks.  "error" and "skip" both leave the function.  Of the
\* unbonding transaction only the value of its output is read: the script that
\* BuildUnbondingInfo makes for UnbondingTime is signed with, not compared.
Verdict(del, params, keyReadable) ==
    LET lockTime == Uint16(del.UnbondingTime) IN
    IF ~del.BtcUndelegation THEN "error"
    ELSE IF HasCovenantQuorum(del, params.CovenantQuorum) THEN "skip"
    ELSE IF UnbondingTimeTooShort(del, params) THEN "error"
    ELSE IF del.form = "undecodable" THEN "error"
    ELSE IF ~CheckTransactions(del.SlashingTx, del.StakingOutputIdx, params, lockTime)
         THEN "error"
    ELSE IF del.form = "no_outputs" THEN "panic"
    ELSE IF ~CheckTransactions(del.UnbondingSlashingTx, 0, params, lockTime)
         THEN "error"
    ELSE IF ~keyReadable THEN "error"
    ELSE IF StakingTimePanics(del) THEN "panic"
    ELSE IF del.form = "unsignable" THEN "error"
    ELSE "sign"

-----------------------------------------------------------------------------
(* The rules.                                                              *)

\* Rules 1 and 2 of the README, for both slashing transactions: slashed share and
\* slashing address.
SlashingRules(del, p) ==
    \A tx \in {del.SlashingTx, del.UnbondingSlashingTx} :
        /\ tx.rate >= p.SlashingRate
        /\ tx.to = p.SlashingAddress

\* Rule 3: who unbonds waits no shorter than the minimum.
UnbondingRule(del, p) == del.UnbondingTx.lock >= p.MinUnbondingTime

\* The three spending rules of the README (src/README.md:16-23).
SpendingRules(del, p) == SlashingRules(del, p) /\ UnbondingRule(del, p)

\* The output of the unbonding transaction is locked for the unbonding time that
\* the delegation states: AddCovenantSignatures takes this for granted ("0th
\* output is always the unbonding script output").
UnbondingOutputStated(del) == del.UnbondingTx.lock = del.UnbondingTime

\* What AddCovenantSignatures checks: rules 1 and 2, and that the unbonding time
\* stated and the timelock of both change outputs are larger than the minimum.
RulesChecked(del, p) ==
    /\ SlashingRules(del, p)
    /\ del.UnbondingTime > p.MinUnbondingTime
    /\ \A tx \in {del.SlashingTx, del.UnbondingSlashingTx} : tx.lock > p.MinUnbondingTime

\* Everything a signature needs is there and its staking time fits a timelock.
Processable(del) ==
    /\ del.BtcUndelegation
    /\ del.form \notin {"missing", "undecodable", "no_outputs", "unsignable"}
    /\ ~((del.EndHeight - del.StartHeight) % TwoTo64 > MaxUint16)

=============================================================================
