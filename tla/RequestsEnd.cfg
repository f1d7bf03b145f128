SPECIFICATION WaitFairSpec
CONSTANTS
    Process = {p1}
    Handle = {h1, h2}
    Thread = {t1, t2}
    Offset = {o1}
    Byte = {b1}
    Requested = {"SET_WRITE_MODE", "READ_PHYSICAL", "WRITE_PHYSICAL",
                 "COMPARE_WRITE_PHYSICAL_PAGE", "WRITE_PROCESS_MEMORY"}
    None = None
    MaxRequests = 3
    Synchronous = FALSE
    ExternalWriters = TRUE
    Pfn = {f1, f2}
    NoPfn = NoPfn
    PipeRecords = 2
    MaxBridgeOutput = 4
INVARIANT
    AnswerWhole
PROPERTIES
    RequestsComplete
    QueryEnds
