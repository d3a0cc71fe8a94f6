SPECIFICATION PeacefulSpec
CONSTANTS
    p1 = p1
    p2 = p2
    c1 = c1
    c2 = c2
    Repositories <- MCOneRepository
    Clients <- MCClients
    MaxExtensions = 3
    Count = 1
    HistoryLength = 2
    MaxDefinition = 1
INVARIANTS OneActiveExtension RunningIsHeld CompletedIsSnapshotted
PROPERTY ExtensionsEnd
CHECK_DEADLOCK FALSE
