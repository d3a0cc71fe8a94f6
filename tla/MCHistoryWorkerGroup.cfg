SPECIFICATION WorkerSpec
CONSTANTS
    Runs <- MCOneRun
    f1 = f1
    f2 = f2
    Fingerprints <- MCFingerprints
    NoFingerprint = "none"
    Artifacts <- MCOneRun
    NoArtifact = 0
    Codes <- MCCodes
    NoCode = "none"
    MaxClock = 0
    MaxEvents = 7
INVARIANT CancelledGroupIsGone
CHECK_DEADLOCK FALSE
