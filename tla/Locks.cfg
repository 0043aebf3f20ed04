SPECIFICATION MCLocksSpec
CONSTANTS
    p1 = p1
    p2 = p2
    p3 = p3
    l1 = l1
    l2 = l2
    l3 = l3
    Proc <- MCProc
    Key <- MCKey
    Entry <- MCEntry
    Nil = Nil
INVARIANTS
    RefsExact
PROPERTIES
    EveryCallerEnters
    ImplementsAccountLocks
