---------------------------- MODULE AccountLocks ----------------------------
(***************************************************************************)
(* What the write locks of one 123Pan account promise to the mutating     *)
(* operations: an operation enters with a set of lock keys, holds all of   *)
(* them or none, and no key is held by two operations.  KeyedLocks is the  *)
(* implementation (update.go); the transaction modules run on top of this  *)
(* promise.                                                                *)
(***************************************************************************)
EXTENDS FiniteSets

CONSTANTS Proc,   \* the goroutines that run mutating operations
          Key     \* the lock keys, parent:<id> and path:<id>:<name>

VARIABLE inside   \* inside[p]: the keys operation p holds, {} when it holds none

TypeOK == inside \in [Proc -> SUBSET Key]

\* No other operation holds one of the keys K.
Grantable(p, K) == \A q \in Proc \ {p} : inside[q] \cap K = {}

Init == inside = [p \in Proc |-> {}]

\* keyedLocks.lock returns: p holds every key it asked for, at once.
Enter(p, K) ==
    /\ inside[p] = {}
    /\ K # {}
    /\ Grantable(p, K)
    /\ inside' = [inside EXCEPT ![p] = K]

\* The function keyedLocks.lock returned is called: p gives all keys back.
Leave(p) ==
    /\ inside[p] # {}
    /\ inside' = [inside EXCEPT ![p] = {}]

Next == \E p \in Proc : Leave(p) \/ \E K \in SUBSET Key : Enter(p, K)

Spec == Init /\ [][Next]_inside

(***************************************************************************)
(* Two operations never hold the same key: the guarantee every mutating    *)
(* handler (Put, Update, Remove, Rmdir, Move, DirMove, Copy, CreateDir)    *)
(* relies on.                                                              *)
(***************************************************************************)
Exclusive == \A p, q \in Proc : p # q => inside[p] \cap inside[q] = {}
=============================================================================
