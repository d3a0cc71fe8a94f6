SPECIFICATION SteadySpec
CONSTANTS
    Runs <- MCRuns
    f1 = f1
    f2 = f2
    Fingerprints <- MCFingerprints
    NoFingerprint = "none"
    Artifacts <- MCRuns
    NoArtifact = 0
    Codes <- MCCodes
    NoCode = "none"
    MaxClock = 0
    MaxEvents = 7
PROPERTIES RunsEnd CancellationTakesEffect
CHECK_DEADLOCK FALSE
