CONSTANTS
    Tasks = {1, 2}
    Inputs <- MCInputs
    Months = {1, 2}
    Addresses = {1, 2}
    NumReduce = 3
    RunMax = 2
    FailMax = 1
SPECIFICATION Spec
INVARIANTS CountsAreExact PartsInOrder
CHECK_DEADLOCK FALSE
