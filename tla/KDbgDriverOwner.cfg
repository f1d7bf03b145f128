SPECIFICATION Spec
CONSTANTS
    Process = {p1, p2}
    Handle = {h1, h2}
    Thread = {t1, t2}
    Offset = {o1}
    Byte = {b1, b2}
    Requested = {"SET_WRITE_MODE", "READ_PHYSICAL", "WRITE_PHYSICAL",
                 "COMPARE_WRITE_PHYSICAL_PAGE", "WRITE_PROCESS_MEMORY"}
    None = None
    MaxRequests = 3
    Synchronous = TRUE
    ExternalWriters = TRUE
SYMMETRY Symmetry
INVARIANTS
    OwnershipConsistent
    ControllerOnlyWrites
