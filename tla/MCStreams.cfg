SPECIFICATION MCSpec
CONSTANTS
    Runs <- MCRuns
    Fingerprints <- MCFingerprints
    NoFingerprint = "none"
    Artifacts <- MCArtifacts
    NoArtifact = "none"
    Codes <- MCCodes
    NoCode = "none"
    MaxClock = 0
    MaxEvents = 4
    Watched = 1
    BatchLimit = 2
    MaxDrops = 2
    Steps = 2
    MaxStreams = 3
    MaxChannels = 3
INVARIANTS ReceivedInOrder EndsComplete ShownInOrder
PROPERTIES StreamDelivers AcceptedStreamEnds
CHECK_DEADLOCK FALSE
