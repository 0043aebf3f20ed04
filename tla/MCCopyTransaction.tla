------------------------- MODULE MCCopyTransaction -------------------------
EXTENDS CopyTransaction

CONSTANTS c1, c2, o1, o2, o3, o4, d1, d2, a

MCDir == {d1, d2} \cup {StageDir(c) : c \in Client}

\* A file of one name in each of two directories.
MCInitially ==
    [i \in Object |-> CASE i = o1 -> PlaceOf(d1, a)
                        [] i = o2 -> PlaceOf(d2, a)
                        [] OTHER  -> Nowhere]
=============================================================================
