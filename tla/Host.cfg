CONSTANTS
    CallCount = 2
    MaxLines = 3
    MaxQueries = 2
    FaultyShells = {1}
    Pools = 2
    MaxCycles = 2
    Cells = {"SqlFile/Table", "SqlFile/Table+Csv", "SqlTemplate/Table"}
    MaxVisits = 0
    MaxShells = 1
    MaxOdd = 0
    Hosts = {h1, h2}
    Home = h1
    Seed = h1
    Threshold = 2
    MaxRetries = 1
    Queries = {q1, q2}
    Named = {q2}
    Slots = 1
    MaxTries = 3
    Installers = {i1, i2, i3}
    Digests = {d1, d2}
    NoRelease = none
    Levels = {3, 4, 5, 6}
    Level4Cells = {"sqlfile_table_csv", "existingtable_csv"}
SPECIFICATION HostFairSpec
INVARIANTS
    NoOrphanExport
    ProbeIsInFlight
    OpenIsQuiet
    RowsAreTheJobs
    OneRunPerLaunch
    RoundsBoundShells
    SuccessShowsNoFailure
PROPERTIES
    CsvIsWhole MonthlyEnds
    KeepsEventFile
    ActiveStaysUsable
    PassIsEarned
CHECK_DEADLOCK FALSE
