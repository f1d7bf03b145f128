SPECIFICATION PanelsSpec
CONSTANTS
    Length = 3
    Byte = {b0, b1}
    None = None
    MaxEditHistory = 0
    TargetWrites = FALSE
    Backend = TRUE
    Opened = TRUE
    NoSnapshot = NoSnapshot
    SnapByte = {b0, b1}
    SnapRange <- MCRange
    Chunk = 2
    MaxDiffRuns = {1, 2}
    Digit = {0, 1, 2}
    RegionLists <- MCRegions
    PointerOptions <- MCOptions
    Targets = {4}
    MaxFrontierNodes = 4
    MaxBadReads = 1
    KernelVa = {a1, a2}
    NoVa = NoVa
    Stamp = {1, 2, 3, 4, 5, 6}
SYMMETRY ByteSymmetry
INVARIANTS
    RollbackAccepted
    BaselineLive
    SuccessLocks
    DiffExact
    PathsExact
    SymbolsBound
