SPECIFICATION FairSpec
CONSTANTS
    TwoTo64 = 1048576
    Members = {m1, f1}
    Faulty = {f1}
    Dels = {1, 2}
    BtcDel <- StuckDels
    ParamsSet <- StuckParams
    ChainChecks = FALSE
    MaxVersions = 2
    DelegationLimit = 2
    SigsBatchSize = 1
    RtyAttNum = 2
    MaxCrashes = 1
INVARIANT RoundParamsFresh
PROPERTY VerifiedGetsSigned
