SPECIFICATION TurnRefreshSpec
CONSTANTS
    MaxRuns = 5
    Probes = 3
CHECK_DEADLOCK FALSE
INVARIANTS ChecksTruthful CredentialAge
