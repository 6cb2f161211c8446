CONSTANTS
    Codecs = {"null", "deflate", "absent"}
    SyncSize = 4
    Interval = 2
    MaxData = 3
    MaxSessions = 2
    MaxReads = 1
    MaxGot = 4
SPECIFICATION Spec
INVARIANTS ReadersFaithful SnapshotIsRead FlushedStays
CHECK_DEADLOCK FALSE
