----------------------------- MODULE KeyedLocks -----------------------------
(***************************************************************************)
(* keyedLocks of update.go: a map from lock key to a reference-counted     *)
(* mutex.  lock() registers with every entry it needs while it holds the   *)
(* map's own mutex, releases that mutex and then acquires the entries one  *)
(* by one in key order; the returned function releases them in the reverse *)
(* order and drops the references, deleting an entry nobody is registered  *)
(* with any more.                                                          *)
(*                                                                         *)
(* Lock keys are numbers here: their order is the order sort.Strings puts  *)
(* them in, and a request is the set of keys left after its duplicates are *)
(* dropped.  A section under the map's mutex k.mu is one action: nothing   *)
(* else of the structure is read or written outside it, but the entry      *)
(* mutexes.                                                                *)
(***************************************************************************)
EXTENDS Integers, FiniteSets

CONSTANTS Proc,    \* goroutines that call lock()
          Key,     \* lock keys, in the order of sort.Strings
          Entry,   \* the identities (pointers) of lockEntry values
          Nil      \* no entry, no owner

LocksAssumption ==
    /\ IsFiniteSet(Proc)
    /\ Key \subseteq Int
    /\ Nil \notin Proc /\ Nil \notin Entry

VARIABLES locks,   \* keyedLocks.locks: the entry of a key, Nil when absent
          refs,    \* lockEntry.refs
          owner,   \* lockEntry.mu: who holds it, Nil when it is free
          pc,      \* where goroutine p is in lock() and the unlock function
          want,    \* p's keys, sorted and without duplicates
          slot,    \* p's entries slice: the entry p got for each of its keys
          got      \* the keys whose entry p has locked and not yet unlocked

vars == <<locks, refs, owner, pc, want, slot, got>>

Phase == {"idle", "locking", "inside", "unlocking"}

TypeOK ==
    /\ locks \in [Key -> Entry \cup {Nil}]
    /\ refs \in [Entry -> Nat]
    /\ owner \in [Entry -> Proc \cup {Nil}]
    /\ pc \in [Proc -> Phase]
    /\ want \in [Proc -> SUBSET Key]
    /\ slot \in [Proc -> [Key -> Entry \cup {Nil}]]
    /\ got \in [Proc -> SUBSET Key]

Init ==
    /\ locks = [k \in Key |-> Nil]
    /\ refs = [e \in Entry |-> 0]
    /\ owner = [e \in Entry |-> Nil]
    /\ pc = [p \in Proc |-> "idle"]
    /\ want = [p \in Proc |-> {}]
    /\ slot = [p \in Proc |-> [k \in Key |-> Nil]]
    /\ got = [p \in Proc |-> {}]

-----------------------------------------------------------------------------
\* X_Suffix is a deliberate mistake in X, used to show that a property can
\* fail; no action of the specification uses it.

\* Entries nobody refers to: what new(lockEntry) may return.
Unreferenced == {e \in Entry : refs[e] = 0}

\* The keys of K the map has no entry for.
Missing(K) == {k \in K : locks[k] = Nil}

\* The ways to give each missing key a new entry of its own.
Allocations(K) ==
    {f \in [Missing(K) -> Unreferenced] :
        \A j, k \in Missing(K) : f[j] = f[k] => j = k}

\* The reference counts after entry.refs++ on each of these entries.
Counted(used) == [e \in Entry |-> IF e \in used THEN refs[e] + 1 ELSE refs[e]]

\* First half of lock(): under k.mu, find or create the entry of every key
\* and count one more reference to it.
Register(p, K) ==
    /\ pc[p] = "idle"
    /\ \E new \in Allocations(K) :
        LET entryOf == [k \in Key |-> IF k \in Missing(K) THEN new[k] ELSE locks[k]]
            used    == {entryOf[k] : k \in K}
        IN  /\ locks' = entryOf
            /\ slot' = [slot EXCEPT ![p] = [k \in Key |-> IF k \in K THEN entryOf[k] ELSE Nil]]
            /\ refs' = Counted(used)
    /\ want' = [want EXCEPT ![p] = K]
    /\ pc' = [pc EXCEPT ![p] = "locking"]
    /\ UNCHANGED <<owner, got>>

\* The loop over the sorted entries reaches key k next.
LocksNext_Unsorted(p, k) == k \in want[p] \ got[p]
LocksNext(p, k) ==
    /\ k \in want[p] \ got[p]
    /\ \A j \in want[p] \ got[p] : k <= j

\* The loop is over: lock() returns.
LockReturns_Early(p, locked) == locked # {}
LockReturns(p, locked) == locked = want[p]

\* Second half of lock(): entry.mu.Lock() of the first key not yet locked.
\* The step waits for the entry's mutex; after the last key lock() returns.
Acquire(p, k) ==
    /\ pc[p] = "locking"
    /\ LocksNext(p, k)
    /\ owner[slot[p][k]] = Nil
    /\ owner' = [owner EXCEPT ![slot[p][k]] = p]
    /\ got' = [got EXCEPT ![p] = @ \cup {k}]
    /\ pc' = [pc EXCEPT ![p] = IF LockReturns(p, got'[p]) THEN "inside" ELSE "locking"]
    /\ UNCHANGED <<locks, refs, want, slot>>

\* The unlock function: entries[i].mu.Unlock(), last entry first.
Unlock(p, k) ==
    /\ pc[p] \in {"inside", "unlocking"}
    /\ k \in got[p]
    /\ \A j \in got[p] : j <= k
    /\ owner' = [owner EXCEPT ![slot[p][k]] = Nil]
    /\ got' = [got EXCEPT ![p] = @ \ {k}]
    /\ pc' = [pc EXCEPT ![p] = "unlocking"]
    /\ UNCHANGED <<locks, refs, want, slot>>

\* The keys the unlock function deletes from the map, given the new counts:
\* those whose entry has no reference left.
Dropped_Always(p, left) == want[p]
Dropped_Never(p, left) == {}
Dropped(p, left) == {k \in want[p] : left[slot[p][k]] = 0}

\* The end of the unlock function: under k.mu, give up the references and
\* delete the entries that have none left.
Deregister(p) ==
    /\ pc[p] = "unlocking"
    /\ got[p] = {}
    /\ refs' = [e \in Entry |->
                   IF \E k \in want[p] : slot[p][k] = e THEN refs[e] - 1 ELSE refs[e]]
    /\ locks' = [k \in Key |-> IF k \in Dropped(p, refs') THEN Nil ELSE locks[k]]
    /\ pc' = [pc EXCEPT ![p] = "idle"]
    /\ want' = [want EXCEPT ![p] = {}]
    /\ slot' = [slot EXCEPT ![p] = [k \in Key |-> Nil]]
    /\ UNCHANGED <<owner, got>>

Next ==
    \E p \in Proc :
        \/ \E K \in (SUBSET Key) \ {{}} : Register(p, K)
        \/ \E k \in Key : Acquire(p, k) \/ Unlock(p, k)
        \/ Deregister(p)

Spec == Init /\ [][Next]_vars

\* sync.Mutex hands the mutex to a goroutine that has waited more than a
\* millisecond (starvation mode), so a waiter gets a mutex that is free again
\* and again: strong fairness of Acquire.  Weak fairness of the unlock
\* function: it is deferred by every handler, and handlers return.
Fairness ==
    \A p \in Proc :
        /\ \A k \in Key : SF_vars(Acquire(p, k)) /\ WF_vars(Unlock(p, k))
        /\ WF_vars(Deregister(p))

FairSpec == Spec /\ Fairness

-----------------------------------------------------------------------------
Registered(p) == pc[p] # "idle"

\* The goroutines that refer to key k's entry.
Users(k) == {p \in Proc : Registered(p) /\ k \in want[p]}

(***************************************************************************)
(* Two goroutines between lock() and its unlock function never share a     *)
(* key, although entries are created and deleted while others wait on      *)
(* them.                                                                   *)
(***************************************************************************)
MutualExclusion ==
    \A p, q \in Proc :
        p # q /\ pc[p] = "inside" /\ pc[q] = "inside" => want[p] \cap want[q] = {}

(***************************************************************************)
(* The map holds an entry exactly for the keys somebody is registered      *)
(* with, and its reference count is their number: the map neither leaks    *)
(* entries of finished operations nor drops one in use.                    *)
(***************************************************************************)
RefsExact ==
    \A k \in Key :
        /\ locks[k] = Nil <=> Users(k) = {}
        /\ locks[k] # Nil => refs[locks[k]] = Cardinality(Users(k))

(***************************************************************************)
(* Everybody registered with a key waits on, or holds, the one entry the   *)
(* map has for it: a waiter is never left on an orphaned mutex.            *)
(***************************************************************************)
OneEntryPerKey ==
    /\ \A p \in Proc : \A k \in want[p] : slot[p][k] = locks[k]
    /\ \A j, k \in Key : j # k /\ locks[j] # Nil => locks[j] # locks[k]

(***************************************************************************)
(* Callers with overlapping key sets never wait for each other in a        *)
(* circle: whoever called lock() gets in.                                  *)
(***************************************************************************)
EveryCallerEnters == \A p \in Proc : pc[p] = "locking" ~> pc[p] = "inside"

\* lock() and its unlock function implement the promise of AccountLocks.
Inside == [p \in Proc |-> IF pc[p] = "inside" THEN want[p] ELSE {}]

Abstract == INSTANCE AccountLocks WITH inside <- Inside

(***************************************************************************)
(* Seen from the handlers, keys are taken and given back all at once and   *)
(* only when no other handler holds one of them.                           *)
(***************************************************************************)
ImplementsAccountLocks == Abstract!Spec
=============================================================================
