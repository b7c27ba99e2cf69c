SPECIFICATION FairSpec
CONSTANTS
    TwoTo64 = 1048576
    Members = {m1, f1}
    Faulty = {f1}
    Dels = {1, 2}
    BtcDel <- StuckDels
    ParamsSet <- StuckParams
    ChainChecks = TRUE
    MaxVersions = 2
    DelegationLimit = 2
    SigsBatchSize = 2
    RtyAttNum = 1
    MaxCrashes = 0
PROPERTY VerifiedGetsSigned
