CONSTANTS
    None = None
    Runs = {"r1", "r2"}
    Programs = {"numbers", "words", "transactions"}
    MaxRows = 6
    BatchSize = 2
    Words = {"w1", "w2"}
SPECIFICATION Spec
INVARIANTS SmallAfterBig OneWriter ProgressIsStored
PROPERTIES DoneIsComplete
CHECK_DEADLOCK FALSE
