SPECIFICATION MCSpec
CONSTANTS
    Parts = 4
    BatchSize = 3
    Concurrency = 2
    Attempts = 2
    MaxVersion = 2
    Nobody = Nobody
    Chunks = {2, 3}
    MaxParts = 6
    MaxSize = 14
INVARIANTS
    CompleteOnlyWhole
    NoNeedlessRefresh
    CutIsExact
PROPERTIES
    KeepsPromise
    EveryUploadReturns
