SPECIFICATION Spec
CONSTANTS
    Base = 2
    Width = 2
    Regions <- MCRegions
    Comparison = {"Exact", "UnknownInitial", "Increased"}
    Alignment = {1, 2}
    ChunkSize = 3
    Limit = {2, 4}
    Amplification = 16
    MaxStores = 1
    None = None
    Pid = {p1, p2}
    Content = {t1, t2, t3}
    MaxOrdinal = 1
    MaxSaves = 3
    Fan = 2
    Levels = 4
    Frame <- MCFrame
    Tables <- MCTables
    Unreadable = {{}, {2}}
    MaxTablePages = 6
    MaxUsages = 3
    Absent = Absent
INVARIANTS
    ScanExact
    NextScanFounded
    TableSurvives
    MappingsExact
