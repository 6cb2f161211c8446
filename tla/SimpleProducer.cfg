CONSTANTS
    p1 = p1
    p2 = p2
    Partitions = {p1, p2}
    Total = 4
    PartitionOf <- MCPartitionOf
    BufferMax = 2
    InFlightMax = 2
    FailoverMax = 1
SPECIFICATION Spec
INVARIANTS EventsInOrder EveryEventAccounted CloseFlushes
PROPERTIES Terminates
CHECK_DEADLOCK FALSE
