CONSTANTS
    Offset = {o1, o2}
    Byte = {b0, b1}
    Zero = b0
    None = None
    MaxEditHistory = 2
    ExternalWriters = FALSE
SYMMETRY Symmetry
SPECIFICATION Spec
INVARIANTS
    HistoryExact
    RollbackExact
    EvidenceSound
    RecoveryObservable
PROPERTY
    OpenGateReported
