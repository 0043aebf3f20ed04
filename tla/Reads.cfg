SPECIFICATION ReadsSpec
CONSTANTS
    Object = {1, 2, 3, 4, 5, 6, 7}
    InitialObjects = {2, 3, 4, 5}
    Rounds = 2
    Task = {1, 2, 3, 4, 5, 6}
    InitialTasks = {2, 3, 4}
    PageSize = 2
    MaxPages = 4
    MaxChanges = 3
    MaxLength = 3
    Options <- MCOptions
INVARIANTS
    ExactIfStill
    NothingMissed
    DeleteTellsTheTruth
    CleanEndIsWhole
    HonestServiceSuffices
PROPERTIES
    EveryReadReturns
