CONSTANTS
    c1 = c1
    c2 = c2
    g1 = g1
    u1 = u1
    p1 = p1
    p2 = p2
    NoGroup = NoGroup
    Consumers = {c1, c2}
    Partitions = {p1}
    Groups = {g1}
    GroupIds = {g1}
    FromBeginning = {}
    GroupOption <- SharedGroup
    ListenerMayFail = FALSE
    MaxOffset = 2
    MaxStarts = 3
    MaxEvictions = 1
SPECIFICATION Spec
INVARIANTS FencedInv CommitCovered
PROPERTIES TrackedOffsetsGrow
CHECK_DEADLOCK FALSE
SYMMETRY Symmetry
