SPECIFICATION Spec
CONSTANTS
    TwoTo64 = 1048576
    Members = {m1, f1}
    Faulty = {f1}
    Dels = {1, 2}
    BtcDel <- TradedDels
    ParamsSet <- TradedParams
    ChainChecks = FALSE
    MaxVersions = 3
    DelegationLimit = 2
    SigsBatchSize = 2
    RtyAttNum = 1
    MaxCrashes = 0
INVARIANT SkipOnlyAfterGovernance
PROPERTY ImplementsCommittee
