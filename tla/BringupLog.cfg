SPECIFICATION LogSpec
CONSTANTS
    Ring = 2
    MaxLines = 5
    MaxSeq = 5
    MaxBoots = 3
INVARIANTS LastSnapshotRead NothingOlder
CHECK_DEADLOCK FALSE
