SPECIFICATION StoreSpec
CONSTANTS
    Runs <- MCRuns
    Fingerprints <- MCFingerprints
    NoFingerprint = "none"
    Artifacts <- MCArtifacts
    NoArtifact = "none"
    Codes <- MCCodes
    NoCode = "none"
    MaxClock = 1
    MaxEvents = 3
INVARIANTS StoreTypeOK SingleFlight CancellationIsHonoured
    LogTellsStatus
PROPERTY ImplementsLifecycle
CHECK_DEADLOCK FALSE
