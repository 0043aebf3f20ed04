------------------------ MODULE MCUpdateTransaction ------------------------
EXTENDS UpdateTransaction

CONSTANTS c1, c2, c3, o1, o2, o3, o4, d1, d2, a, b

MCClient3 == {c1, c2, c3}
MCClient1 == {c1}
MCObject4 == {o1, o2, o3, o4}
MCObject2 == {o1, o2}

\* o1 is the file at path a; the other IDs are the service's to give away.
MCInitially == [i \in Object |-> IF i = o1 THEN PlaceOf(d1, a) ELSE Nowhere]
=============================================================================
