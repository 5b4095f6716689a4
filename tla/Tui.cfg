CONSTANTS
    CallCount = 1
    MaxLines = 4
    MaxQueries = 2
    MaxVisits = 0
    MaxShells = 1
    MaxOdd = 1
    Jobs = {j1, j2}
    Schemas = {s1, s2}
    Tables = {t1}
    Prefills <- CloneOfExport
    Chars = {a}
    Readers = {"pane", "follow"}
    MaxBytes = 3
    MaxRotations = 1
    Chunk = 2
    ViewLines = 1
    TailLines = 1
    Callers = {c1, c2}
    MaxEvents = 3
    Capacity = 2
SPECIFICATION TuiSpec
INVARIANTS
    TreeIsReplay
    LeavesArePolled
    OutcomeIsImpalas
    NotifiesOnce
    LogIsWhole
    FlushMeansHandled
PROPERTIES
    OutcomeIsKept
    DropsWhatWasConfirmed
    LaunchesWhatWasConfirmed
CHECK_DEADLOCK FALSE
