SPECIFICATION WorkersFairSpec
CONSTANTS
    Length = 2
    Byte = {b0, b1}
    None = None
    MaxEditHistory = 1
    TargetWrites = TRUE
    Backend = FALSE
    Opened = TRUE
    IoPanel = {browser, scanner, pointers, disassembly, snapshots}
    Browser = browser
    Evidence = evidence
    Usage = usage
    KernelRead = kernel
    Future = {browser, disassembly, evidence, kernel}
    Object = {m1, m2}
    NoObject = NoObject
INVARIANTS
    WorkersSafe
PROPERTIES
    OnlyEditedBytes
    OperationsFinish
