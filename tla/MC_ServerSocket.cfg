CONSTANTS
    t1 = t1
    t2 = t2
    s1 = s1
    s2 = s2
    NoMsg = NoMsg
    Txs = {t1}
    ScanIds = {s1, s2}
    TableIds = {1, 2}
    InitTables = {1}
    DataKinds = {"GET", "UPDATE"}
    SnapshotModes <- MCAllModes
    KnownTablesOnly = TRUE
    MaxRequests = 3
SPECIFICATION Spec
INVARIANT TypeOK OneResponsePerRequest ScanRegistryTracksScans
PROPERTY EveryRequestAnswered
