SPECIFICATION Spec
CONSTANTS
    TwoTo64 = 1048576
    Members = {m1, f1}
    Faulty = {f1}
    Dels = {1, 2, 3, 4, 5}
    BtcDel <- MovedDels
    ParamsSet <- MovedParams
    ChainChecks = FALSE
    MaxVersions = 2
    DelegationLimit = 2
    SigsBatchSize = 2
    RtyAttNum = 1
    MaxCrashes = 1
INVARIANTS SpendingRulesEnforced QuorumEnforcesRules UnprocessableUnsigned Inv
