CONSTANTS
    Configs <- MCConfigs
    MaxInt = 1000
    MaxAttempts = 2
    KillMax = 2
SPECIFICATION LiveSpec
INVARIANTS MapOutputExact EachReducerGetsItsKeys
PROPERTIES JobEnds
CHECK_DEADLOCK FALSE
