------------------------------- MODULE Drive -------------------------------
(***************************************************************************)
(* The 123Pan drive as the backend sees it: objects with an ID that never  *)
(* changes, a parent directory and a name that do, and four mutating       *)
(* requests.  The service is external; its requests do what the backend    *)
(* relies on and what the repository's stateful mock servers do            *)
(* (mutations_test.go, update_test.go).  It accepts a name that is taken:  *)
(* the backend itself looks for duplicates (listing.go findChild).         *)
(*                                                                         *)
(* doNonIdempotent sends a request at most once.  What the handler learns  *)
(* from the response does not matter here: renameByID, trashExact and      *)
(* moveByID decide by the listing they make afterwards, and turn only the  *)
(* text of their error with the response.  So a request either had its     *)
(* effect when the handler goes on or it had not, in which case it may     *)
(* still be under way (Late) and have its effect at any later time.        *)
(***************************************************************************)
EXTENDS FiniteSets

CONSTANTS Object,    \* object IDs
          Dir,       \* IDs of the directories operations work in
          Name,      \* the names users give to files
          Client,    \* running operations
          Nil,       \* no object, no name
          Nowhere,   \* the place of an object not created yet
          Trash,     \* the place of an object in the recycle bin
          Late       \* may a request have its effect after it was given up?

\* randomStageName: a name nobody else has, for the purpose kind of client c.
TempName(kind, c) == [kind |-> kind, by |-> c]
TempNames == [kind : {"stage", "backup", "move", "copy"}, by : Client]

AnyName == Name \cup TempNames
Place == [dir : Dir, name : AnyName]
PlaceOf(d, n) == [dir |-> d, name |-> n]

ASSUME DriveAssumption ==
    /\ Name \cap TempNames = {}
    /\ Nil \notin Object \cup AnyName
    /\ {Nowhere, Trash} \cap Place = {}
    /\ Nowhere # Trash
    /\ Late \in BOOLEAN

VARIABLES place,   \* where each object is
          late     \* requests given up by their sender and still under way

Visible(i) == place[i] \in Place
ObjectsAt(p) == {i \in Object : place[i] = p}

-----------------------------------------------------------------------------
\* Requests.  A trash request carries the listed item: ID and name.
Rename(i, n)  == [op |-> "rename", id |-> i, name |-> n, dir |-> Nil]
Relocate(i, d) == [op |-> "move", id |-> i, name |-> Nil, dir |-> d]
Discard(i, n) == [op |-> "trash", id |-> i, name |-> n, dir |-> Nil]
Create(i, p)  == [op |-> "create", id |-> i, name |-> p.name, dir |-> p.dir]

\* Does request r still apply to its object?
Applicable(r) ==
    CASE r.op = "create" -> place[r.id] = Nowhere
      [] r.op = "trash"  -> Visible(r.id) /\ place[r.id].name = r.name
      [] OTHER           -> Visible(r.id)

\* Where request r puts its object.
Destination(r) ==
    CASE r.op = "create" -> PlaceOf(r.dir, r.name)
      [] r.op = "trash"  -> Trash
      [] r.op = "rename" -> PlaceOf(place[r.id].dir, r.name)
      [] r.op = "move"   -> PlaceOf(r.dir, place[r.id].name)

Perform(r) == place' = IF Applicable(r) THEN [place EXCEPT ![r.id] = Destination(r)] ELSE place

\* One attempt to have r done.
Attempt(r) ==
    \/ Perform(r) /\ UNCHANGED late
    \/ UNCHANGED <<place, late>>
    \/ Late /\ late' = late \cup {r} /\ UNCHANGED place

\* A request that was given up takes effect after all.
TakeEffect(r) ==
    /\ r \in late
    /\ Perform(r)
    /\ late' = late \ {r}

\* The ID the service gives to the next object: any unused one, and as IDs
\* are opaque it does not matter which.
Unused == {i \in Object : place[i] = Nowhere /\ \A r \in late : r.id # i}
FreshObjects == IF Unused = {} THEN {} ELSE {CHOOSE i \in Unused : TRUE}
=============================================================================
