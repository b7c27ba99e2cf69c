SPECIFICATION FairSpec
CONSTANTS
    Servers = {s1, s2}
    Users = {u1, u2}
INVARIANTS OneLoop QuietAfterStop NoVainWait Inv
PROPERTIES ShutdownReturns ImplementsLifecycle
CHECK_DEADLOCK FALSE
