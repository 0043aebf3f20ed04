------------------------- MODULE MCMoveTransaction -------------------------
EXTENDS MoveTransaction, TLC

CONSTANTS c1, c2, o1, o2, d1, d2, a, b

\* Two files of one name in two directories.
MCInitially == (o1 :> PlaceOf(d1, a)) @@ (o2 :> PlaceOf(d2, a))
=============================================================================
