CONSTANTS
    CallCount = 1
    MaxLines = 4
    MaxQueries = 1
    MaxVisits = 1
    MaxShells = 1
    MaxOdd = 1
SPECIFICATION MonFairSpec
INVARIANTS
    SubscriptionsBalance
PROPERTIES
    LeftMeansReturned
    FinallyPruned
    AvailableAgain
CHECK_DEADLOCK FALSE
