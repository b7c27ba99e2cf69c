SPECIFICATION FairSpec
CONSTANTS
    TwoTo64 = 1048576
    Members = {m1, f1}
    Faulty = {f1}
    Dels = {1, 2}
    BtcDel <- QuorumDels
    ParamsSet <- StuckParams
    ChainChecks = TRUE
    MaxVersions = 1
    DelegationLimit = 1
    SigsBatchSize = 1
    RtyAttNum = 1
    MaxCrashes = 0
PROPERTY VerifiedGetsSigned
