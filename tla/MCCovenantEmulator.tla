-------------------------- MODULE MCCovenantEmulator --------------------------
(* Small instances of CovenantEmulator.  Addresses and rates are numbers.    *)
EXTENDS CovenantEmulator, TLC

Params(address, quorum, minUnbonding, finalization) ==
    [ SlashingAddress           |-> address,
      SlashingRate              |-> 1,
      MinSlashingTxFeeSat       |-> 1,
      MinUnbondingTime          |-> minUnbonding,
      FinalizationTimeoutBlocks |-> finalization,
      CovenantQuorum            |-> quorum ]

Slashing(address, lock, idx) ==
    [to |-> address, rate |-> 1, fee |-> 1, lock |-> lock, idx |-> idx]

\* A well-formed delegation that pays slashed funds to address.
Good(address, unbonding) ==
    [ StartHeight         |-> 1,
      EndHeight           |-> 10,
      UnbondingTime       |-> unbonding,
      StakingOutputIdx    |-> 0,
      SlashingTx          |-> Slashing(address, unbonding, 0),
      BtcUndelegation     |-> TRUE,
      UnbondingTx         |-> [lock |-> unbonding],
      UnbondingSlashingTx |-> Slashing(address, unbonding, 0),
      form                |-> "ok" ]

\* Its staking time does not fit a uint16.
Backwards(address, unbonding) == [Good(address, unbonding) EXCEPT !.StartHeight = 11]

\* Its encoded transactions can be processed only as far as form says.
Malformed(address, unbonding, form) == [Good(address, unbonding) EXCEPT !.form = form]

\* Slashed funds of the unbonding output go elsewhere.
Elsewhere(address, other, unbonding) ==
    [Good(address, unbonding) EXCEPT !.UnbondingSlashingTx = Slashing(other, unbonding, 0)]

\* The output of the unbonding transaction is locked for another time than stated.
Unstated(address, unbonding, lock) ==
    [Good(address, unbonding) EXCEPT !.UnbondingTx = [lock |-> lock]]

-----------------------------------------------------------------------------
\* Governance moves the slashing address and lengthens the unbonding time, or back.
MovedParams == {Params(1, 2, 4, 4), Params(2, 2, 5, 4)}

\* On the last two the daemon panics, in a check and in the conversion.
MovedDels == << Good(1, 5), Unstated(2, 6, 3), Elsewhere(1, 2, 6), Backwards(1, 6),
                Malformed(1, 7, "missing") >>

\* Governance trades a longer unbonding time for a smaller quorum, and back; only
\* one of the versions accepts the second delegation.
TradedParams == {Params(1, 1, 5, 4), Params(1, 2, 4, 4)}

TradedDels == <<Good(1, 6), Good(1, 5)>>

QuorumOfTwo == {Params(1, 2, 4, 4)}

QuorumDels == <<Good(1, 5), Good(1, 6)>>

\* No version of these parameters suits both of these delegations.
StuckParams == {Params(1, 2, 4, 4), Params(2, 2, 4, 4)}

StuckDels == <<Good(2, 5), Good(1, 6)>>

\* The checkpoint finalization timeout exceeds the minimum unbonding time.
TimeoutParams == {Params(1, 1, 4, 4), Params(1, 1, 4, 8)}

=============================================================================
