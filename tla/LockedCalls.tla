---------------------------- MODULE LockedCalls ----------------------------
(***************************************************************************)
(* What Put, Update, Move, Copy and the other mutating calls have in       *)
(* common: a call takes the locks of its parents and paths, goes from step *)
(* to step, and gives the locks back when it returns.  A step that mutates *)
(* the drive sends a request and then makes a listing to learn what        *)
(* happened.  Locks live in the memory of the process, which may die.      *)
(***************************************************************************)
EXTENDS Drive

VARIABLES held,     \* the lock keys each client holds
          pc,       \* the step each client is at
          sent,     \* the request of that step was sent; its check is due
          result    \* what the call returned

control == <<held, pc, sent, result>>

Result == {"none", "ok", "error", "recovery", "crashed"}

LockKey == [dir : Dir, name : AnyName \cup {Nil}]

ControlTypeOK(phase) ==
    /\ held \in [Client -> SUBSET LockKey]
    /\ pc \in [Client -> phase]
    /\ sent \in [Client -> BOOLEAN]
    /\ result \in [Client -> Result]

ControlInit ==
    /\ held = [c \in Client |-> {}]
    /\ pc = [c \in Client |-> "idle"]
    /\ sent = [c \in Client |-> FALSE]
    /\ result = [c \in Client |-> "none"]

\* The account's write locks.
Locks == INSTANCE AccountLocks WITH Proc <- Client, Key <- LockKey, inside <- held

\* parentMutationLockKey; the key of a path (objectPathLockKey) is the place.
Parent(d) == [dir |-> d, name |-> Nil]

Active(c) == pc[c] \notin {"idle", "done"}

Goto(c, step) ==
    /\ pc' = [pc EXCEPT ![c] = step]
    /\ UNCHANGED <<held, result>>

\* The call returns r, and the deferred unlock runs.
\* (X_Suffix is a deliberate mistake in X, used to show that a property can
\* fail; no action of a specification uses it.)
Return_Locked(c, r) ==
    /\ pc' = [pc EXCEPT ![c] = "done"]
    /\ result' = [result EXCEPT ![c] = r]
    /\ UNCHANGED held
Return(c, r) ==
    /\ pc' = [pc EXCEPT ![c] = "done"]
    /\ result' = [result EXCEPT ![c] = r]
    /\ Locks!Leave(c)

\* Go on with a step, or return when the step is a result.
Continue(c, step) ==
    IF step \in Result THEN Return(c, step) ELSE Goto(c, step)

\* keyedLocks.lock returns.
Lock(c, keys, step) ==
    /\ pc[c] = "lock"
    /\ Locks!Enter(c, keys)
    /\ pc' = [pc EXCEPT ![c] = step]
    /\ UNCHANGED <<sent, result>>

\* The process dies: all its calls end and its locks are gone with it.
Die ==
    /\ \E c \in Client : Active(c)
    /\ pc' = [c \in Client |-> IF Active(c) THEN "done" ELSE pc[c]]
    /\ result' = [c \in Client |-> IF Active(c) THEN "crashed" ELSE result[c]]
    /\ held' = [c \in Client |-> {}]
    /\ sent' = [c \in Client |-> FALSE]

AllReturned == \A c \in Client : pc[c] = "done"
=============================================================================
