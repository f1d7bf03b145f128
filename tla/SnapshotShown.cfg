SPECIFICATION SPSpec
CONSTANTS
    NoSnapshot = NoSnapshot
    SnapByte = {b0, b1}
    SnapRange <- MCRange
    Chunk = 2
    MaxDiffRuns = {1, 2}
INVARIANT
    DiffShown
