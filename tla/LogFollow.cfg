CONSTANTS
    Chars = {a}
    Readers = {"follow"}
    MaxBytes = 2
    MaxRotations = 0
    Chunk = 2
    ViewLines = 1
    TailLines = 1
SPECIFICATION LogSpec
PROPERTY FollowEmitsAll
CHECK_DEADLOCK FALSE
