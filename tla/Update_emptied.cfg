SPECIFICATION FairSpec
CONSTANTS
    c1 = c1
    c2 = c2
    c3 = c3
    o1 = o1
    o2 = o2
    o3 = o3
    o4 = o4
    d1 = d1
    d2 = d2
    a = a
    b = b
    Client <- MCClient1
    Object <- MCObject2
    Dir = {d1}
    Name = {a}
    Nil = Nil
    Nowhere = Nowhere
    Trash = Trash
    Late = FALSE
    Initially <- MCInitially
    LateClient = {}
PROPERTIES
    TargetNotEmptied
