CONSTANTS
    Clients = {c1, c2}
    Times = {0, 1, 2}
    Programs = {"HBaseBlaster", "CreateTable"}
    NumRecords = 3
    FailMax = 2
    CallMax = 4
SPECIFICATION Spec
INVARIANTS LastNeedsFirst BlastKeepsRows Settled
PROPERTIES TruncateHeals
CHECK_DEADLOCK FALSE
SYMMETRY Symmetry
