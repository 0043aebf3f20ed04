SPECIFICATION Spec
CONSTANTS
    c1 = c1
    c2 = c2
    o1 = o1
    o2 = o2
    o3 = o3
    o4 = o4
    d1 = d1
    d2 = d2
    a = a
    Client = {c1, c2}
    Object = {o1, o2, o3, o4}
    Dir <- MCDir
    Name = {a}
    Nil = Nil
    Nowhere = Nowhere
    Trash = Trash
    Late = FALSE
    Initially <- MCInitially
INVARIANTS
    LeftoversAreReported
PROPERTIES
    OriginalsAreSafe
    SuccessIsTrue
