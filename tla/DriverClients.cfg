CONSTANTS
    Offset = {o1}
    Byte = {b0, b1}
    Zero = b0
    None = None
    MaxEditHistory = 1
    ExternalWriters = TRUE
    ReadSamples = 1
    MaxGeneration = 1
    IdLimit = 3
SPECIFICATION ClientsSpec
INVARIANTS
    SnapshotUsable
    PassTruthful
    MirrorSound
    RollbackTruthful
    OnlineIsNew
    GateClosedInLifecycle
PROPERTIES
    ObserveBeforeWrite
    ReviewedWritesOnly
    RollbackHonest
    CloseTruthful
    WritesFounded
