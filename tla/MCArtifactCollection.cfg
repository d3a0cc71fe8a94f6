SPECIFICATION CarefulSpec
CONSTANTS
    Runs <- MCRuns
    Fingerprints <- MCFingerprints
    NoFingerprint = "none"
    Artifacts <- MCArtifacts
    NoArtifact = 0
    Codes <- MCCodes
    NoCode = "none"
    MaxClock = 0
    MaxEvents = 3
    NoLimit = NoLimit
    Never = 100
    Inventories <- MCInventories
    Policies <- MCPolicies
    Times <- MCTimes
    NoRun = 0
    c1 = c1
    c2 = c2
    OldArtifacts <- MCOldArtifacts
    Policy <- MCPolicy
    Clients <- MCClients
INVARIANTS CompletedIsKept PreservesIncompatible PlanMatchesReference
PROPERTY RequestIsAnswered
CHECK_DEADLOCK FALSE
