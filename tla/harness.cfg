SPECIFICATION FairSpec
CONSTANTS
    TwoTo64 = 1048576
    Test = test
    Providers = {1, 2, 3}
    PageLimit = 2
    ParamsSet <- SomeParams
    StakingTime = 100
    SlashingFee = 2
INVARIANTS LoopKeepsSupport LeavesNothing FailsOnlyInRace ProvidersListed Inv
PROPERTY TestEnds
CHECK_DEADLOCK FALSE
