SPECIFICATION Spec
CONSTANTS
    c1 = c1
    c2 = c2
    o1 = o1
    o2 = o2
    d1 = d1
    d2 = d2
    a = a
    b = b
    Client = {c1}
    Object = {o1, o2}
    Dir = {d1, d2}
    Name = {a, b}
    Nil = Nil
    Nowhere = Nowhere
    Trash = Trash
    Late = FALSE
    Initially <- MCInitially
INVARIANTS
    HiddenIsReported
