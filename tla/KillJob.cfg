CONSTANTS
    Maps = {m1, m2, m3}
    MaxAttempts = 2
    MaxFailures = 2
SPECIFICATION KillSpec
INVARIANTS SuccessMeansAllHundred
PROPERTIES TryKillReturns
CHECK_DEADLOCK FALSE
