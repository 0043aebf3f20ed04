-------------------------- MODULE CopyTransaction --------------------------
(***************************************************************************)
(* Copy: the server-side copy of copy.go.  The service copies a file only  *)
(* into a directory and under its own name, perhaps later, as a task.  So  *)
(* each client, one call of Copy, makes a staging directory in the target  *)
(* directory, has the file copied there, waits until one faithful copy is  *)
(* listed, moves it out under a temporary name (moveItem), renames an old  *)
(* target to a backup name, promotes the copy, verifies it, and trashes    *)
(* the backup and the empty staging directory.                             *)
(*                                                                         *)
(* Requests may be lost before or after their effect, listings may fail,   *)
(* the process may crash, and another device, which knows nothing of the   *)
(* locks, may create or trash the target until the copy is verified there. *)
(***************************************************************************)
EXTENDS LockedCalls

CONSTANT Initially   \* where the objects are in the beginning

\* The staging directory of c's copy: a fresh directory with a random name.
StageDir(c) == [stage |-> c]
UserDir == {d \in Dir : \A c \in Client : d # StageDir(c)}
UserPlace == [dir : UserDir, name : Name]

ASSUME CopyAssumption ==
    /\ \A c \in Client : StageDir(c) \in Dir
    /\ Initially \in [Object -> UserPlace \cup {Nowhere}]
    /\ \A i, j \in Object : i # j /\ Initially[i] # Nowhere => Initially[i] # Initially[j]

VARIABLES source,   \* the object to copy
          from,     \* the place the client saw it at
          to,       \* the place of the copy
          old,      \* the object at that place (existing), Nil if there is none
          copied,   \* the copy found in the staging directory, Nil before
          stage,    \* the staging directories: "none", "there" or "trashed"
          task,     \* the service still has to make the copy
          faulty    \* copies that differ from what they were made from

copies == <<source, from, to, old, copied>>
provider == <<stage, task, faulty>>
vars == <<place, late, control, copies, provider>>

\* The steps that send a request and check it by a listing.
Requesting == {"mkstage", "hide", "carry", "unhide", "settle", "carryBack", "unhideBack",
               "backup", "promote", "aside", "restore", "discard", "rmstage"}

Phase == {"idle", "lock", "refresh", "find", "start", "await", "recheck", "final",
          "verify", "empty", "done"} \cup Requesting

TypeOK ==
    /\ place \in [Object -> Place \cup {Nowhere, Trash}]
    /\ Late \/ late = {}
    /\ ControlTypeOK(Phase)
    /\ source \in [Client -> Object \cup {Nil}]
    /\ from \in [Client -> UserPlace \cup {Nil}]
    /\ to \in [Client -> UserPlace \cup {Nil}]
    /\ old \in [Client -> Object \cup {Nil}]
    /\ copied \in [Client -> Object \cup {Nil}]
    /\ stage \in [Client -> {"none", "there", "trashed"}]
    /\ task \in [Client -> BOOLEAN]
    /\ faulty \subseteq {i \in Object : place[i] # Nowhere}

Init ==
    /\ place = Initially
    /\ late = {}
    /\ ControlInit
    /\ source = [c \in Client |-> Nil]
    /\ from = [c \in Client |-> Nil]
    /\ to = [c \in Client |-> Nil]
    /\ old = [c \in Client |-> Nil]
    /\ copied = [c \in Client |-> Nil]
    /\ stage = [c \in Client |-> "none"]
    /\ task = [c \in Client |-> FALSE]
    /\ faulty = {}

-----------------------------------------------------------------------------
\* X_Suffix is a deliberate mistake in X, used to show that a property can
\* fail; no action of the specification uses it.

\* Both parents and both paths.
Keys(c) == {Parent(from[c].dir), Parent(to[c].dir), from[c], to[c]}

\* The objects in c's staging directory.
Staged(c) == {i \in Object : Visible(i) /\ place[i].dir = StageDir(c)}

\* Copy of an object that NewObject or List saw at its place some time ago.
Begin(c) ==
    /\ pc[c] = "idle"
    /\ \E i \in Object, p \in UserPlace :
        /\ place[i] \in UserPlace
        /\ source' = [source EXCEPT ![c] = i]
        /\ from' = [from EXCEPT ![c] = place[i]]
        /\ to' = [to EXCEPT ![c] = p]
    /\ Goto(c, "lock")
    /\ UNCHANGED <<place, late, sent, old, copied, provider>>

TakeLocks(c) == Lock(c, Keys(c), "refresh") /\ UNCHANGED <<place, late, copies, provider>>

\* verifyDirectoryPathID of both parents and refreshExact of the source.
Refresh(c) ==
    /\ pc[c] = "refresh"
    /\ \/ place[source[c]] = from[c] /\ Goto(c, "find")
       \/ Return(c, "error")
    /\ UNCHANGED <<place, late, sent, copies, provider>>

\* findChild at the target.  A copy of a file onto itself has nothing to do.
AfterFind_Itself(c) == "mkstage"
AfterFind(c) == IF ObjectsAt(to[c]) = {source[c]} THEN "ok" ELSE "mkstage"

Find(c) ==
    /\ pc[c] = "find"
    /\ \/ /\ \E o \in Object \cup {Nil} :
                /\ ObjectsAt(to[c]) = {o} \ {Nil}
                /\ old' = [old EXCEPT ![c] = o]
          /\ Continue(c, AfterFind(c))
       \/ Return(c, "error") /\ UNCHANGED old
    /\ UNCHANGED <<place, late, sent, source, from, to, copied, provider>>

-----------------------------------------------------------------------------
\* The copy request, sent once.  It is lost, or carried out at once, or
\* becomes a task; waitCopiedFile follows whatever the response says, after
\* waitCopyTask if there is a task to ask about.
Start(c) ==
    /\ pc[c] = "start"
    /\ task' = [task EXCEPT ![c] = TRUE] \/ UNCHANGED task
    /\ Goto(c, "await")
    /\ UNCHANGED <<place, late, sent, copies, stage, faulty>>

\* The service makes the copy, in a staging directory that is still there ...
Materialize(c) ==
    /\ task[c]
    /\ task' = [task EXCEPT ![c] = FALSE]
    /\ \E i \in FreshObjects :
        /\ stage[c] = "there"
        /\ Perform(Create(i, PlaceOf(StageDir(c), from[c].name)))
        /\ faulty' \in {faulty, faulty \cup {i}}
    /\ UNCHANGED <<late, control, copies, stage>>

\* ... or gives the task up.
FailTask(c) ==
    /\ task[c]
    /\ task' = [task EXCEPT ![c] = FALSE]
    /\ UNCHANGED <<place, late, control, copies, stage, faulty>>

\* inspectCopiedFile: one object with the identity of the source.
Acceptable(c, i) == Staged(c) = {i} /\ i \notin faulty

\* waitCopiedFile returns the copy, or ends because of a listing that fails, a
\* wrong object in the staging directory, or verify_timeout.
Await(c) ==
    /\ pc[c] = "await"
    /\ \/ \E i \in Object :
            /\ Acceptable(c, i)
            /\ copied' = [copied EXCEPT ![c] = i]
            /\ Goto(c, "recheck")
       \/ Return(c, "recovery") /\ UNCHANGED copied
    /\ UNCHANGED <<place, late, sent, source, from, to, old, provider>>

\* Another device creates or trashes the target before it has been verified.
Exposed == {"start", "await", "recheck", "hide", "carry", "settle", "final", "backup",
            "promote", "verify"}

Interfere(c) ==
    /\ pc[c] \in Exposed
    /\ \/ \E i \in FreshObjects : ObjectsAt(to[c]) = {} /\ Perform(Create(i, to[c]))
       \/ \E i \in ObjectsAt(to[c]) : Perform(Discard(i, to[c].name))
    /\ UNCHANGED <<late, control, copies, provider>>

-----------------------------------------------------------------------------
\* temporaryName, the name of the copy between the directories.
CopyName(c) == TempName("copy", c)

\* The request of a step: moveItem, renameByID or trashExact of an exact ID.
Request(c) ==
    CASE pc[c] = "hide"                     -> Rename(copied[c], TempName("move", c))
      [] pc[c] = "carry"                    -> Relocate(copied[c], to[c].dir)
      [] pc[c] = "settle"                   -> Rename(copied[c], CopyName(c))
      [] pc[c] = "carryBack"                -> Relocate(copied[c], StageDir(c))
      [] pc[c] \in {"unhide", "unhideBack"} -> Rename(copied[c], from[c].name)
      [] pc[c] = "backup"                   -> Rename(old[c], TempName("backup", c))
      [] pc[c] = "promote"                  -> Rename(copied[c], to[c].name)
      [] pc[c] = "aside"                    -> Rename(copied[c], CopyName(c))
      [] pc[c] = "restore"                  -> Rename(old[c], to[c].name)
      [] pc[c] = "discard"                  -> Discard(old[c], TempName("backup", c))

\* The directory that is listed afterwards.
Listed(c) == IF pc[c] \in {"hide", "unhide", "carryBack", "unhideBack"} THEN StageDir(c) ELSE to[c].dir

\* What the listing after the request has to show.
Achieved(c) ==
    CASE pc[c] = "mkstage" -> stage[c] = "there"
      [] pc[c] = "rmstage" -> stage[c] # "there"
      [] pc[c] = "discard" -> ~Visible(old[c])
      [] OTHER -> LET r == Request(c) IN
            /\ Visible(r.id)
            /\ place[r.id].dir = Listed(c)
            /\ r.op = "rename" => place[r.id].name = r.name

Replacing(c) == old[c] # Nil

Success_DiscardFirst(c) ==
    CASE pc[c] = "mkstage" -> "start"
      [] pc[c] = "hide"    -> "carry"
      [] pc[c] = "carry"   -> "settle"
      [] pc[c] = "settle"  -> "final"
      [] pc[c] = "backup"  -> "discard"
      [] pc[c] = "discard" -> "promote"
      [] pc[c] = "promote" -> "verify"
      [] pc[c] = "aside"   -> "restore"
      [] pc[c] = "rmstage" -> "ok"
      [] pc[c] = "carryBack" -> "unhideBack"
      [] OTHER -> "recovery"
Success(c) ==
    CASE pc[c] = "mkstage"   -> "start"
      [] pc[c] = "hide"      -> "carry"
      [] pc[c] = "carry"     -> "settle"
      [] pc[c] = "settle"    -> "final"
      [] pc[c] = "backup"    -> "promote"
      [] pc[c] = "promote"   -> "verify"
      [] pc[c] = "discard"   -> "empty"
      [] pc[c] = "rmstage"   -> "ok"
      [] pc[c] = "carryBack" -> "unhideBack"
      [] pc[c] = "aside"     -> "restore"
      [] OTHER               -> "recovery"

\* From the copy request on every failure is a CopyRecoveryError, after what
\* can be undone was tried.
Failure_Promoted(c) ==
    CASE pc[c] = "mkstage"   -> "error"
      [] pc[c] = "promote" /\ Replacing(c) -> "empty"
      [] pc[c] = "carry"     -> "unhide"
      [] pc[c] = "settle"    -> "carryBack"
      [] pc[c] = "carryBack" -> "unhideBack"
      [] pc[c] = "aside"     -> "restore"
      [] OTHER               -> "recovery"
Failure(c) ==
    CASE pc[c] = "mkstage"   -> "error"
      [] pc[c] = "carry"     -> "unhide"
      [] pc[c] = "settle"    -> "carryBack"
      [] pc[c] = "carryBack" -> "unhideBack"
      [] pc[c] = "promote" /\ Replacing(c) -> "restore"
      [] pc[c] = "aside"     -> "restore"
      [] OTHER               -> "recovery"

\* The requests that concern the staging directory itself.
AttemptStage(c) ==
    /\ \/ stage' = [stage EXCEPT ![c] = IF pc[c] = "mkstage" THEN "there" ELSE "trashed"]
       \/ UNCHANGED stage
    /\ UNCHANGED <<place, late>>

Send(c) ==
    /\ pc[c] \in Requesting
    /\ ~sent[c]
    /\ IF pc[c] \in {"mkstage", "rmstage"}
       THEN AttemptStage(c)
       ELSE Attempt(Request(c)) /\ UNCHANGED stage
    /\ sent' = [sent EXCEPT ![c] = TRUE]
    /\ UNCHANGED <<held, pc, result, copies, task, faulty>>

\* The listing after the request; when it fails the step counts as failed.
Check(c) ==
    /\ pc[c] \in Requesting
    /\ sent[c]
    /\ \/ Achieved(c) /\ Continue(c, Success(c))
       \/ Continue(c, Failure(c))
    /\ sent' = [sent EXCEPT ![c] = FALSE]
    /\ UNCHANGED <<place, late, copies, provider>>

-----------------------------------------------------------------------------
\* A step that only reads: if good holds it may go on, else or when the
\* listing fails it continues with bad.
Look(c, step, good, next, bad) ==
    /\ pc[c] = step
    /\ \/ good /\ Continue(c, next)
       \/ Continue(c, bad)
    /\ UNCHANGED <<place, late, sent, copies, provider>>

\* The target must be what it was before the copy was awaited.
Unchanged(c) == ObjectsAt(to[c]) = {old[c]} \ {Nil}

\* verifyFinalCopy: the copy, and nothing else, is at the target.
Verified_Seen(c) == copied[c] \in ObjectsAt(to[c])
Verified(c) == ObjectsAt(to[c]) = {copied[c]} /\ copied[c] \notin faulty

Inspect(c) ==
    \/ Look(c, "recheck", Unchanged(c), "hide", "recovery")
    \/ Look(c, "final", place[copied[c]] = PlaceOf(to[c].dir, CopyName(c)),
            IF Replacing(c) THEN "backup" ELSE "promote", "recovery")
    \/ Look(c, "verify", Verified(c), IF Replacing(c) THEN "discard" ELSE "empty",
            IF Replacing(c) THEN "aside" ELSE "recovery")
    \/ Look(c, "empty", Staged(c) = {}, IF stage[c] = "there" THEN "rmstage" ELSE "ok", "recovery")

Crash == Die /\ UNCHANGED <<place, late, copies, provider>>

Finished == AllReturned /\ UNCHANGED vars

Step(c) ==
    \/ TakeLocks(c) \/ Refresh(c) \/ Find(c) \/ Start(c) \/ Await(c)
    \/ Send(c) \/ Check(c) \/ Inspect(c)

Service(c) == Materialize(c) \/ FailTask(c) \/ Interfere(c)

Next == (\E c \in Client : Begin(c) \/ Step(c) \/ Service(c)) \/ Crash \/ Finished

Spec == Init /\ [][Next]_vars

-----------------------------------------------------------------------------
(***************************************************************************)
(* The objects a copy begins with are safe in it.  Nobody moves, renames   *)
(* or trashes the source, not even a copy of a file onto itself; and the   *)
(* known old ID goes to the recycle bin only after the new target passed   *)
(* its verification (docs/123pan.md): then a faithful copy is there.       *)
(***************************************************************************)
OriginalsAreSafe ==
    [][\A c \in Client : held[c] # {} =>
        /\ place'[source[c]] = place[source[c]]
        /\ pc[c] \notin Exposed /\ Replacing(c) /\ Visible(old[c]) /\ ~Visible(old[c])'
            => place[copied[c]] = to[c] /\ copied[c] \notin faulty]_vars

(***************************************************************************)
(* A copy that reports success is faithful and the only object at its      *)
(* path; the old one is in the recycle bin and nothing is left over.       *)
(***************************************************************************)
SuccessIsTrue ==
    [][\A c \in Client : Active(c) /\ from[c] # to[c] /\ result'[c] = "ok" =>
        /\ ObjectsAt(to[c])' = {copied[c]} /\ copied[c] \notin faulty
        /\ Replacing(c) => place'[old[c]] = Trash
        /\ stage'[c] = "trashed" /\ Staged(c)' = {}]_vars

(***************************************************************************)
(* A copy, or a late copy still to be made, in the staging directory, an   *)
(* object under one of the call's temporary names, and old and new object  *)
(* at one path are left only by calls that returned a CopyRecoveryError or *)
(* were killed.                                                            *)
(***************************************************************************)
LeftoversAreReported ==
    \A c \in Client : pc[c] = "done" /\ result[c] \in {"ok", "error"} =>
        /\ Staged(c) = {} /\ ~task[c]
        /\ \A i \in Object : Visible(i) /\ place[i].name \in TempNames => place[i].name.by # c
        /\ ~({copied[c], old[c]} \subseteq ObjectsAt(to[c]) /\ copied[c] # old[c])
=============================================================================
