---------------------------- MODULE MCTestManager ----------------------------
(* An instance of TestManager: three providers on pages of two.               *)
EXTENDS TestManager

Params(minUnbonding, finalization, confirmation) ==
    [ SlashingAddress           |-> 1,
      SlashingRate              |-> 1,
      MinSlashingTxFeeSat       |-> 2,
      MinUnbondingTime          |-> minUnbonding,
      FinalizationTimeoutBlocks |-> finalization,
      ComfirmationTimeBlocks    |-> confirmation,
      CovenantQuorum            |-> 1 ]

\* Either bound of the unbonding time is the larger one; no block on top of the
\* staking transaction is asked for, or two are; and a minimum above the fee.
SomeParams ==
    {Params(4, 4, 0), Params(5, 4, 2), Params(4, 5, 2),
     [Params(4, 4, 0) EXCEPT !.MinSlashingTxFeeSat = 3]}

=============================================================================
