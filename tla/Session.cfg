SPECIFICATION MCSpec
CONSTANTS
    c1 = c1
    c2 = c2
    c3 = c3
    e1 = e1
    e2 = e2
    a1 = a1
    a2 = a2
    Client <- MCClient
    Nobody = Nobody
    Retries = 1
    MaxToken = 3
    Caller = {c1, c2, c3}
    Endpoint = {e1, e2}
    Interval = 2
    Horizon = 6
    Process = {a1, a2}
    MaxGiven = 3
INVARIANTS
    WritesAtMostOnce
    TokenIsStored
    NeverAheadOfRate
    ReconnectProvesFirst
PROPERTIES
    NoNeedlessLogin
    EveryCallReturns
