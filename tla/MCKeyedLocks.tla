---------------------------- MODULE MCKeyedLocks ----------------------------
(***************************************************************************)
(* An instance of keyedLocks: three goroutines that take any of two keys.  *)
(* Two keys are enough for a circle of waiters.  There is one entry more   *)
(* than keys: a key may get a new entry while its old one is still in use, *)
(* if the code ever lets that happen.                                      *)
(***************************************************************************)
EXTENDS Integers, FiniteSets

CONSTANTS Proc, Key, Entry, Nil,     \* of KeyedLocks
          p1, p2, p3, l1, l2, l3

VARIABLES locks, refs, owner, stage, want, slot, got

K == INSTANCE KeyedLocks WITH pc <- stage

ASSUME MCLocksAssumption == K!LocksAssumption

MCProc == {p1, p2, p3}
MCKey == 1..2
MCEntry == {l1, l2, l3}

MCLocksSpec == K!FairSpec

RefsExact == K!RefsExact
EveryCallerEnters == K!EveryCallerEnters
ImplementsAccountLocks == K!ImplementsAccountLocks
=============================================================================
