SPECIFICATION Spec
CONSTANTS
    Home = "/home/covd"
    FallbackDir = "/home/.covenant-emulator"
    KeyNames = {"covenant-key", "other-key"}
    Backends = {"file"}
    MaxInterrupts = 1
    Edits <- SomeEdits
    Missing = Missing
    NoKey = NoKey
INVARIANTS RunsWithWholeConfig SavedKeyFound EditsKept Inv
