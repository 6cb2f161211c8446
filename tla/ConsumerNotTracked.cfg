CONSTANTS
    c1 = c1
    c2 = c2
    g1 = g1
    u1 = u1
    p1 = p1
    p2 = p2
    NoGroup = NoGroup
    Consumers = {c1, c2}
    Partitions = {p1}
    Groups = {g1, u1}
    GroupIds = {g1}
    FromBeginning = {c2}
    GroupOption <- OneFresh
    ListenerMayFail = TRUE
    MaxOffset = 2
    MaxStarts = 2
    MaxEvictions = 1
SPECIFICATION Spec

PROPERTIES EarliestIfNotTracked
CHECK_DEADLOCK FALSE
