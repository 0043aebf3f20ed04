------------------------- MODULE LockedCallsProofs -------------------------
(***************************************************************************)
(* What the mutating calls rely on, whatever they do: the account's locks  *)
(* stay exclusive while calls take and give back their keys, and a request *)
(* has its effect once and on its own object, or none.                     *)
(***************************************************************************)
EXTENDS LockedCalls, TLAPS

\* The places of the drive, and the keys they are locked by.
Places == [Object -> Place \cup {Nowhere, Trash}]
Keyrings == [Client -> SUBSET LockKey]

(***************************************************************************)
(* Both kinds of lock keys, and a name no user gives.                      *)
(***************************************************************************)
LEMMA KeysAre ==
    /\ \A d \in Dir : Parent(d) \in LockKey
    /\ \A p \in Place : p \in LockKey
    /\ \A d \in Dir, p \in Place : Parent(d) # p
    /\ \A d, e \in Dir : Parent(d) = Parent(e) => d = e
BY DriveAssumption DEF LockKey, Parent, Place

\* A temporary name is no name of users, and tells its purpose and its call.
LEMMA TempNamesAre ==
    ASSUME NEW kind \in {"stage", "backup", "move", "copy"}, NEW c \in Client
    PROVE  /\ TempName(kind, c) \in AnyName
           /\ TempName(kind, c) \notin Name
           /\ \A other, d : TempName(other, d) = TempName(kind, c) => other = kind /\ d = c
<1>1. TempName(kind, c) \in TempNames
  BY DEF TempName, TempNames
<1> QED
  BY <1>1, DriveAssumption DEF TempName, AnyName

(***************************************************************************)
(* A place is its directory and its name, and no object that is gone.      *)
(***************************************************************************)
LEMMA PlacesAre ==
    /\ \A d \in Dir, n \in AnyName :
          PlaceOf(d, n) \in Place /\ PlaceOf(d, n).dir = d /\ PlaceOf(d, n).name = n
    /\ \A p \in Place : p.dir \in Dir /\ p.name \in AnyName
    /\ \A p, q \in Place : p.dir = q.dir /\ p.name = q.name => p = q
    /\ Nowhere \notin Place /\ Trash \notin Place /\ Nil \notin Object
BY DriveAssumption DEF Place, PlaceOf

-----------------------------------------------------------------------------
(***************************************************************************)
(* Taking keys nobody else holds, or giving keys back, leaves every key to *)
(* one call.                                                               *)
(***************************************************************************)
LEMMA KeysTaken ==
    ASSUME held \in Keyrings, Locks!Exclusive, NEW c \in Client, NEW K \in SUBSET LockKey,
           Locks!Enter(c, K)
    PROVE  /\ held' = [held EXCEPT ![c] = K]
           /\ held' \in Keyrings
           /\ Locks!Exclusive'
BY DEF Keyrings, Locks!Exclusive, Locks!Enter, Locks!Grantable

\* Returning gives all keys back.
LEMMA KeysGiven ==
    ASSUME held \in Keyrings, Locks!Exclusive, NEW c \in Client, Locks!Leave(c)
    PROVE  /\ held' = [held EXCEPT ![c] = {}]
           /\ held' \in Keyrings
           /\ Locks!Exclusive'
BY DEF Keyrings, Locks!Exclusive, Locks!Leave

\* A step that touches no keys keeps them exclusive.
LEMMA KeysKept ==
    ASSUME Locks!Exclusive, UNCHANGED held
    PROVE  Locks!Exclusive'
BY DEF Locks!Exclusive

\* A crash leaves nobody with a key.
LEMMA KeysLost ==
    ASSUME held' = [c \in Client |-> {}]
    PROVE  held' \in Keyrings /\ Locks!Exclusive'
BY DEF Keyrings, Locks!Exclusive

(***************************************************************************)
(* A step that goes on keeps its keys; one that returns gives them back.   *)
(***************************************************************************)
LEMMA Continued ==
    ASSUME held \in Keyrings, Locks!Exclusive, NEW c \in Client, NEW step, Continue(c, step)
    PROVE  /\ held' \in Keyrings
           /\ Locks!Exclusive'
           /\ step \in Result =>
                 /\ pc' = [pc EXCEPT ![c] = "done"]
                 /\ result' = [result EXCEPT ![c] = step]
                 /\ held' = [held EXCEPT ![c] = {}]
           /\ step \notin Result =>
                 /\ pc' = [pc EXCEPT ![c] = step]
                 /\ UNCHANGED <<result, held>>
<1>1. CASE step \in Result
  BY <1>1, KeysGiven DEF Continue, Return
<1>2. CASE step \notin Result
  BY <1>2, KeysKept DEF Continue, Goto
<1> QED
  BY <1>1, <1>2

-----------------------------------------------------------------------------
(***************************************************************************)
(* A request changes the place of its own object, or nothing.              *)
(***************************************************************************)
LEMMA Attempted ==
    ASSUME NEW r, Attempt(r)
    PROVE  \/ place' = place
           \/ Applicable(r) /\ place' = [place EXCEPT ![r.id] = Destination(r)]
BY DEF Attempt, Perform

\* A request that does take effect moves its object if it applies.
LEMMA Performed ==
    ASSUME NEW r, Perform(r)
    PROVE  \/ ~Applicable(r) /\ place' = place
           \/ Applicable(r) /\ place' = [place EXCEPT ![r.id] = Destination(r)]
BY DEF Perform

(***************************************************************************)
(* Where each kind of request puts its object.                             *)
(***************************************************************************)
LEMMA Effects ==
    ASSUME NEW i, NEW x
    PROVE  /\ Rename(i, x).id = i /\ Rename(i, x).op = "rename" /\ Rename(i, x).name = x
           /\ Destination(Rename(i, x)) = PlaceOf(place[i].dir, x)
           /\ Applicable(Rename(i, x)) <=> Visible(i)
           /\ Relocate(i, x).id = i /\ Relocate(i, x).op = "move"
           /\ Destination(Relocate(i, x)) = PlaceOf(x, place[i].name)
           /\ Applicable(Relocate(i, x)) <=> Visible(i)
           /\ Discard(i, x).id = i /\ Discard(i, x).op = "trash" /\ Discard(i, x).name = x
           /\ Destination(Discard(i, x)) = Trash
           /\ Applicable(Discard(i, x)) <=> Visible(i) /\ place[i].name = x
           /\ Create(i, x).id = i /\ Create(i, x).op = "create"
           /\ Destination(Create(i, x)) = PlaceOf(x.dir, x.name)
           /\ Applicable(Create(i, x)) <=> place[i] = Nowhere
BY DEF Rename, Relocate, Discard, Create, Destination, Applicable
=============================================================================
