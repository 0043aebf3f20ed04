-------------------------- MODULE MoveTransaction --------------------------
(***************************************************************************)
(* Move and DirMove: the server-side move of mutations.go.  Each client is *)
(* one call that moves an object it saw at some place to another directory *)
(* and/or name.  Only a change of both needs more than one request: the    *)
(* object gets a random name, changes its parent, gets its final name, and *)
(* failures undo the steps by ID.  Requests may be lost before or after    *)
(* their effect, listings may fail (when flaky holds), and the process may *)
(* crash.                                                                  *)
(***************************************************************************)
EXTENDS LockedCalls

CONSTANT Initially   \* where the objects are in the beginning

ASSUME MoveAssumption ==
    /\ Initially \in [Object -> [dir : Dir, name : Name] \cup {Nowhere}]
    /\ \A i, j \in Object : i # j /\ Initially[i] # Nowhere => Initially[i] # Initially[j]

VARIABLES item,     \* the object to move (source.id)
          from,     \* the place the client saw it at
          to,       \* the place it is to get
          returned, \* moveBackErr == nil: the object is in its old directory again
          flaky     \* may listings fail in this run? never changes

vars == <<place, late, control, item, from, to, returned, flaky>>

\* X_Suffix is a deliberate mistake in X, used to show that a property can
\* fail; no action of the specification uses it.

\* The steps that send a request and check it by a listing.
Requesting == {"rename", "move", "hide", "carry", "unhide", "settle", "carryBack", "unhideBack"}

Phase == {"idle", "lock", "refresh", "conflict", "final", "done"} \cup Requesting

TypeOK ==
    /\ place \in [Object -> Place \cup {Nowhere}]
    /\ ControlTypeOK(Phase)
    /\ item \in [Client -> Object \cup {Nil}]
    /\ from \in [Client -> Place \cup {Nil}]
    /\ to \in [Client -> Place \cup {Nil}]
    /\ returned \in [Client -> BOOLEAN]
    /\ flaky \in BOOLEAN

Init ==
    /\ place = Initially
    /\ late = {}
    /\ ControlInit
    /\ item = [c \in Client |-> Nil]
    /\ from = [c \in Client |-> Nil]
    /\ to = [c \in Client |-> Nil]
    /\ returned = [c \in Client |-> FALSE]
    /\ flaky \in BOOLEAN

-----------------------------------------------------------------------------
\* Both parents and both paths.
Keys_SourceOnly(c) == {Parent(from[c].dir), from[c], to[c]}
Keys(c) == {Parent(from[c].dir), Parent(to[c].dir), from[c], to[c]}

Hidden(c) == TempName("move", c)

-----------------------------------------------------------------------------
\* Move of an object that NewObject or List saw at its place some time ago.
Begin(c) ==
    /\ pc[c] = "idle"
    /\ \E i \in Object, d \in Dir, n \in Name :
        /\ Visible(i)
        /\ item' = [item EXCEPT ![c] = i]
        /\ from' = [from EXCEPT ![c] = place[i]]
        /\ to' = [to EXCEPT ![c] = PlaceOf(d, n)]
    /\ Goto(c, "lock")
    /\ UNCHANGED <<place, late, sent, returned, flaky>>

TakeLocks(c) ==
    /\ Lock(c, Keys(c), "refresh")
    /\ UNCHANGED <<place, late, item, from, to, returned, flaky>>

\* verifyDirectoryPathID of both parents and refreshExact; then moveItem,
\* which has nothing to do when neither parent nor name change.
AfterRefresh(c) ==
    IF place[item[c]] # from[c] THEN "error"
    ELSE IF from[c] = to[c] THEN "ok"
    ELSE "conflict"

\* moveItem: findChild at the target; then one request is enough if only the
\* name or only the parent changes.
AfterConflict(c) ==
    IF ~(ObjectsAt(to[c]) \subseteq {item[c]}) THEN "error"
    ELSE IF from[c].dir = to[c].dir THEN "rename"
    ELSE IF from[c].name = to[c].name THEN "move"
    ELSE "hide"

\* fileByIDRequired, the last look at the moved object.
AfterFinal(c) == IF place[item[c]] = to[c] THEN "ok" ELSE "error"

\* One step that only reads; a listing that fails ends the call with an error.
Look(c, step, next) ==
    /\ pc[c] = step
    /\ \/ Continue(c, next)
       \/ flaky /\ Return(c, "error")
    /\ UNCHANGED <<place, late, sent, item, from, to, returned, flaky>>

LookUp(c) ==
    \/ Look(c, "refresh", AfterRefresh(c))
    \/ Look(c, "conflict", AfterConflict(c))
    \/ Look(c, "final", AfterFinal(c))

-----------------------------------------------------------------------------
\* The request of a step: renameByID or moveByID of the exact ID.  Neither
\* names the directory the object is in.
Request(c) ==
    CASE pc[c] \in {"rename", "settle"}     -> Rename(item[c], to[c].name)
      [] pc[c] = "hide"                     -> Rename(item[c], Hidden(c))
      [] pc[c] \in {"unhide", "unhideBack"} -> Rename(item[c], from[c].name)
      [] pc[c] \in {"move", "carry"}        -> Relocate(item[c], to[c].dir)
      [] pc[c] = "carryBack"                -> Relocate(item[c], from[c].dir)

\* The directory that is listed afterwards.
Listed(c) ==
    IF pc[c] \in {"rename", "move", "carry", "settle"} THEN to[c].dir ELSE from[c].dir

\* What the listing has to show: renameByID wants the new name, moveByID just
\* the ID (moveItem compares the name of a plain move with the target's).
Achieved(c, r) ==
    /\ Visible(item[c])
    /\ place[item[c]].dir = Listed(c)
    /\ r.op = "rename" => place[item[c]].name = r.name
    /\ pc[c] = "move" => place[item[c]].name = to[c].name

Success(c) ==
    CASE pc[c] \in {"rename", "settle"} -> "final"
      [] pc[c] = "move"                 -> "ok"
      [] pc[c] = "hide"                 -> "carry"
      [] pc[c] = "carry"                -> "settle"
      [] pc[c] = "unhide"               -> "error"
      [] pc[c] = "carryBack"            -> "unhideBack"
      [] pc[c] = "unhideBack"           -> IF returned[c] THEN "error" ELSE "recovery"

Failure_NoUndo(c) ==
    CASE pc[c] \in {"rename", "move", "hide", "carry"} -> "error"
      [] pc[c] = "settle"                              -> "carryBack"
      [] pc[c] = "carryBack"                           -> "unhideBack"
      [] pc[c] \in {"unhide", "unhideBack"}            -> "recovery"
Failure(c) ==
    CASE pc[c] \in {"rename", "move", "hide"} -> "error"
      [] pc[c] = "carry"                      -> "unhide"
      [] pc[c] = "settle"                     -> "carryBack"
      [] pc[c] = "carryBack"                  -> "unhideBack"
      [] pc[c] \in {"unhide", "unhideBack"}   -> "recovery"

Send(c) ==
    /\ pc[c] \in Requesting
    /\ ~sent[c]
    /\ Attempt(Request(c))
    /\ sent' = [sent EXCEPT ![c] = TRUE]
    /\ UNCHANGED <<held, pc, item, from, to, returned, result, flaky>>

\* The listing after the request; when it fails the step counts as failed.
Check(c) ==
    /\ pc[c] \in Requesting
    /\ sent[c]
    /\ \E seen \in BOOLEAN :
        /\ seen => Achieved(c, Request(c))
        /\ ~seen => flaky \/ ~Achieved(c, Request(c))
        /\ Continue(c, IF seen THEN Success(c) ELSE Failure(c))
        /\ returned' = [returned EXCEPT ![c] = IF pc[c] = "carryBack" THEN seen ELSE @]
    /\ sent' = [sent EXCEPT ![c] = FALSE]
    /\ UNCHANGED <<place, late, item, from, to, flaky>>

Crash == Die /\ UNCHANGED <<place, late, item, from, to, returned, flaky>>

Finished == AllReturned /\ UNCHANGED vars

Step(c) == TakeLocks(c) \/ LookUp(c) \/ Send(c) \/ Check(c)

Next == (\E c \in Client : Begin(c) \/ Step(c)) \/ Crash \/ Finished

Spec == Init /\ [][Next]_vars

-----------------------------------------------------------------------------
(***************************************************************************)
(* A move that reports success has put its object at the target, and       *)
(* nothing else is there, whatever the other calls do meanwhile.           *)
(***************************************************************************)
SuccessIsExclusive ==
    [][\A c \in Client : pc[c] # "done" /\ from[c] # to[c] /\ result'[c] = "ok" =>
        ObjectsAt(to[c])' = {item[c]}]_vars

(***************************************************************************)
(* An object that changed its directory and is at neither end of the move  *)
(* was announced by a RecoveryError, or its process was killed: after the  *)
(* parent has changed, a plain error means the undoing was verified.       *)
(***************************************************************************)
StrandedIsReported ==
    \A c \in Client :
        /\ pc[c] = "done" /\ from[c].dir # to[c].dir
        /\ \A d \in Client \ {c} : item[d] # item[c]
        /\ place[item[c]].dir = to[c].dir /\ place[item[c]].name # to[c].name
        => result[c] \in {"recovery", "crashed"}

(***************************************************************************)
(* As long as listings work, losing requests and responses cannot confuse  *)
(* a move: a plain error means that the object is where it was.            *)
(***************************************************************************)
ErrorMeansUnmoved ==
    [][\A c \in Client :
        ~flaky /\ pc[c] \in Requesting \cup {"final"} /\ result'[c] = "error"
            => place'[item[c]] = from[c]]_vars

(***************************************************************************)
(* docs/123pan.md: a combined move and rename uses a random temporary name *)
(* and rolls back in reverse order when it fails.  An object is left under *)
(* its temporary name only by a call that reported an incomplete rollback, *)
(* or that was killed.                                                     *)
(***************************************************************************)
HiddenIsReported ==
    \A c \in Client :
        pc[c] = "done" /\ (\E i \in Object : Visible(i) /\ place[i].name = Hidden(c))
            => result[c] \in {"recovery", "crashed"}
=============================================================================
