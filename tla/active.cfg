SPECIFICATION FairSpec
CONSTANTS
    TwoTo64 = 1048576
    Members = {m1, m2}
    Faulty = {}
    Dels = {1}
    BtcDel <- QuorumDels
    ParamsSet <- QuorumOfTwo
    ChainChecks = FALSE
    MaxVersions = 1
    DelegationLimit = 1
    SigsBatchSize = 1
    RtyAttNum = 1
    MaxCrashes = 0
PROPERTY VerifiedGetsActive
