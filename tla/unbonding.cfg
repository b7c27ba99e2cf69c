SPECIFICATION Spec
CONSTANTS
    TwoTo64 = 1048576
    Members = {m1, f1}
    Faulty = {f1}
    Dels = {1, 2}
    BtcDel <- QuorumDels
    ParamsSet <- TimeoutParams
    ChainChecks = TRUE
    MaxVersions = 2
    DelegationLimit = 2
    SigsBatchSize = 1
    RtyAttNum = 1
    MaxCrashes = 0
INVARIANT UnbondingTimeAboveMinimum
