SPECIFICATION Spec
CONSTANTS
    Process = {p1}
    Handle = {h1, h2}
    Thread = {t1, t2}
    Offset = {o1, o2}
    Byte = {b1, b2}
    Requested = {"SET_WRITE_MODE", "READ_PHYSICAL", "WRITE_PHYSICAL", "COMPARE_WRITE_PHYSICAL_PAGE"}
    None = None
    MaxRequests = 4
    Synchronous = TRUE
    ExternalWriters = FALSE
SYMMETRY Symmetry
INVARIANTS
    OneShotGate
    CopyIsolated
PROPERTIES
    ImplementsPageStore
