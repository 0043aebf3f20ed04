SPECIFICATION FairSpec
CONSTANTS
    c1 = c1
    c2 = c2
    c3 = c3
    o1 = o1
    o2 = o2
    o3 = o3
    o4 = o4
    root = root
    a = a
    b = b
    Client = {c1, c2, c3}
    Object = {o1, o2, o3, o4}
    Dir = {root, o1, o2, o3, o4}
    Root = root
    Name = {a, b}
    Nil = Nil
    Nowhere = Nowhere
    Trash = Trash
    Late = FALSE
    Trees <- MCTrees
    Depth = 2
    Plans <- MCPlans
    Refuses = TRUE
INVARIANTS
    FilesStayReachable
    PathsAreUnique
PROPERTIES
    ChangesWhatItNames
    EveryCallReturns
