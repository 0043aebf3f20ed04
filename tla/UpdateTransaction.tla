------------------------- MODULE UpdateTransaction -------------------------
(***************************************************************************)
(* Put and Update: creating an object, and replacing one through the       *)
(* staging/backup transaction of update.go.  Each client is one call of    *)
(* Put or Object.Update.  It takes the locks of its path, uploads, renames *)
(* the old object to a backup name, promotes the new one, verifies it and  *)
(* moves the backup to the recycle bin; any failure on the way starts      *)
(* rollbackUpdate.  Every request may be lost before or after it had its   *)
(* effect, every listing may fail, and the process may crash between any   *)
(* two steps; the clients that have not begun then run in the next         *)
(* process.                                                                *)
(***************************************************************************)
EXTENDS LockedCalls

CONSTANTS Initially,   \* where the objects are in the beginning
          LateClient   \* bound: who takes part when requests may be late

ASSUME InitiallyAssumption ==
    /\ Initially \in [Object -> [dir : Dir, name : Name] \cup {Nowhere}]
    /\ \A i, j \in Object : i # j /\ Initially[i] # Nowhere => Initially[i] # Initially[j]
    /\ LateClient \subseteq Client

VARIABLES path,     \* the place the client writes to
          old,      \* the object it replaces (o.id), Nil while there is none
          new,      \* the object uploadNew returned, Nil before
          tardy     \* may requests be late in this run? never changes

vars == <<place, late, control, path, old, new, tardy>>

\* X_Suffix is a deliberate mistake in X, used to show that a property can
\* fail; no action of the specification uses it.

\* The steps that send a mutating request and check it by a listing.
Requesting == {"backup", "promote", "discard", "aside", "restore", "drop"}

\* The steps of rollbackUpdate.
RollingBack == {"inspect", "inspectNew", "aside", "restore", "confirm", "confirmNew", "drop"}

Phase == {"idle", "lock", "find", "create", "refresh", "upload", "verify", "done"}
            \cup Requesting \cup RollingBack

TypeOK ==
    /\ place \in [Object -> Place \cup {Nowhere, Trash}]
    /\ late \subseteq [op : {"rename", "trash", "create"}, id : Object,
                       name : AnyName, dir : Dir \cup {Nil}]
    /\ ControlTypeOK(Phase)
    /\ path \in [Client -> [dir : Dir, name : Name] \cup {Nil}]
    /\ old \in [Client -> Object \cup {Nil}]
    /\ new \in [Client -> Object \cup {Nil}]
    /\ tardy \in {FALSE, Late}
    /\ late # {} => tardy

Init ==
    /\ place = Initially
    /\ late = {}
    /\ ControlInit
    /\ path = [c \in Client |-> Nil]
    /\ old = [c \in Client |-> Nil]
    /\ new = [c \in Client |-> Nil]
    /\ tardy \in {FALSE, Late}

-----------------------------------------------------------------------------
\* The keys of a write to p: its parent directory and the path itself.
Keys_Private(c, p) == {PlaceOf(p.dir, TempName("stage", c))}
Keys(c, p) == {Parent(p.dir), p}

StagePlace(c)  == PlaceOf(path[c].dir, TempName("stage", c))
BackupPlace(c) == PlaceOf(path[c].dir, TempName("backup", c))

-----------------------------------------------------------------------------
\* Put, or Update of an object that NewObject or List saw at p some time ago.
Begin(c) ==
    /\ pc[c] = "idle"
    /\ tardy => c \in LateClient
    /\ \E d \in Dir, n \in Name :
        /\ path' = [path EXCEPT ![c] = PlaceOf(d, n)]
        /\ \E o \in ObjectsAt(PlaceOf(d, n)) \cup {Nil} : old' = [old EXCEPT ![c] = o]
    /\ Goto(c, "lock")
    /\ UNCHANGED <<place, late, sent, new, tardy>>

TakeLocks(c) ==
    /\ Lock(c, Keys(c, path[c]), IF old[c] = Nil THEN "find" ELSE "refresh")
    /\ UNCHANGED <<place, late, path, old, new, tardy>>

\* Put: verifyDirectoryPathID, then findChild decides between uploadNew and
\* updateLocked.  A listing that fails and two objects of one name are errors.
Find(c) ==
    /\ pc[c] = "find"
    /\ \/ Return(c, "error") /\ UNCHANGED old
       \/ ObjectsAt(path[c]) = {} /\ Goto(c, "create") /\ UNCHANGED old
       \/ \E o \in Object :
            /\ ObjectsAt(path[c]) = {o}
            /\ old' = [old EXCEPT ![c] = o]
            /\ Goto(c, "refresh")
    /\ UNCHANGED <<place, late, sent, path, new, tardy>>

\* updateLocked: verifyDirectoryPathID and refreshExact, which insists on the
\* ID still having the name.
Refresh(c) ==
    /\ pc[c] = "refresh"
    /\ \/ Return(c, "error")
       \/ place[old[c]] = path[c] /\ Goto(c, "upload")
    /\ UNCHANGED <<place, late, sent, path, old, new, tardy>>

\* uploadNew returns the object it uploaded and verified, or fails and leaves
\* behind no object, an unverified one, or a completion still under way.
Upload(c, p, next) ==
    /\ \E i \in FreshObjects :
        \/ /\ Perform(Create(i, p)) /\ UNCHANGED late
           /\ new' = [new EXCEPT ![c] = i]
           /\ Continue(c, next)
        \/ /\ Attempt(Create(i, p)) /\ (late' # late => tardy)
           /\ UNCHANGED new
           /\ Return(c, "error")
    /\ UNCHANGED <<sent, path, old, tardy>>

UploadTarget(c) == pc[c] = "create" /\ Upload(c, path[c], "ok")
UploadStage(c)  == pc[c] = "upload" /\ Upload(c, StagePlace(c), "backup")

-----------------------------------------------------------------------------
\* The request of a step: renameByID or trashExact of an exact ID.
Request(c) ==
    CASE pc[c] = "backup"  -> Rename(old[c], TempName("backup", c))
      [] pc[c] = "promote" -> Rename(new[c], path[c].name)
      [] pc[c] = "discard" -> Discard(old[c], TempName("backup", c))
      [] pc[c] = "aside"   -> Rename(new[c], TempName("stage", c))
      [] pc[c] = "restore" -> Rename(old[c], path[c].name)
      [] pc[c] = "drop"    -> Discard(new[c], TempName("stage", c))

\* What the listing after the request has to show.
Achieved(c, r) ==
    IF r.op = "trash" THEN ~Visible(r.id) ELSE place[r.id] = PlaceOf(path[c].dir, r.name)

\* Where updateLocked and rollbackUpdate go when a step has succeeded, and
\* when it has failed or could not be checked.
Success_DropFirst(step) ==
    CASE step = "backup"  -> "promote"
      [] step = "promote" -> "verify"
      [] step = "discard" -> "ok"
      [] step = "aside"   -> "drop"
      [] OTHER            -> "error"
Success_DiscardFirst(step) ==
    CASE step = "backup"  -> "discard"
      [] step = "discard" -> "promote"
      [] step = "promote" -> "ok"
      [] step = "aside"   -> "restore"
      [] step = "restore" -> "confirm"
      [] step = "drop"    -> "error"
Success(step) ==
    CASE step = "backup"  -> "promote"
      [] step = "promote" -> "verify"
      [] step = "discard" -> "ok"
      [] step = "aside"   -> "restore"
      [] step = "restore" -> "confirm"
      [] step = "drop"    -> "error"

Failure_NoRollback(step) == IF step \in RollingBack THEN "recovery" ELSE "error"
Failure_IgnoreDrop(step) ==
    IF step = "drop" THEN "error" ELSE IF step \in RollingBack THEN "recovery" ELSE "inspect"
Failure(step) == IF step \in RollingBack THEN "recovery" ELSE "inspect"

Send(c) ==
    /\ pc[c] \in Requesting
    /\ ~sent[c]
    /\ Attempt(Request(c)) /\ (late' # late => tardy)
    /\ sent' = [sent EXCEPT ![c] = TRUE]
    /\ UNCHANGED <<held, pc, path, old, new, result, tardy>>

\* The listing after the request; when it fails the step counts as failed.
Check(c) ==
    /\ pc[c] \in Requesting
    /\ sent[c]
    /\ \/ Achieved(c, Request(c)) /\ Continue(c, Success(pc[c]))
       \/ Continue(c, Failure(pc[c]))
    /\ sent' = [sent EXCEPT ![c] = FALSE]
    /\ UNCHANGED <<place, late, path, old, new, tardy>>

\* verifyUpload of the promoted object, until it succeeds or its deadline
\* passes with listings that fail or do not show the object.
Verify(c) ==
    /\ pc[c] = "verify"
    /\ \/ place[new[c]] = path[c] /\ Goto(c, "discard")
       \/ Goto(c, "inspect")
    /\ UNCHANGED <<place, late, sent, path, old, new, tardy>>

-----------------------------------------------------------------------------
\* rollbackUpdate, first listing: the old object must still be there, under
\* one of its two names, before the replacement is touched.
AfterInspect(c) ==
    IF place[old[c]] = path[c] THEN "confirm"
    ELSE IF place[old[c]] = BackupPlace(c) THEN "inspectNew"
    ELSE "recovery"

\* Second listing: which name the replacement has.
AfterInspectNew(c) ==
    IF ~Visible(new[c]) \/ place[new[c]] = StagePlace(c) THEN "restore"
    ELSE IF place[new[c]] = path[c] THEN "aside"
    ELSE "recovery"

\* After the old object was restored: it must be seen at the target ...
AfterConfirm(c) == IF place[old[c]] = path[c] THEN "confirmNew" ELSE "recovery"

\* ... before the replacement, under its staging name, goes to the recycle bin.
AfterConfirmNew(c) ==
    IF ~Visible(new[c]) THEN "error"
    ELSE IF place[new[c]] = StagePlace(c) THEN "drop"
    ELSE "recovery"

\* One listing of rollbackUpdate.  If it fails, the rollback is incomplete.
Look(c, step, next) ==
    /\ pc[c] = step
    /\ Continue(c, next) \/ Return(c, "recovery")
    /\ UNCHANGED <<place, late, sent, path, old, new, tardy>>

Rollback(c) ==
    \/ Look(c, "inspect", AfterInspect(c))
    \/ Look(c, "inspectNew", AfterInspectNew(c))
    \/ Look(c, "confirm", AfterConfirm(c))
    \/ Look(c, "confirmNew", AfterConfirmNew(c))

-----------------------------------------------------------------------------
Crash == Die /\ UNCHANGED <<place, late, path, old, new, tardy>>

Finished ==
    /\ \A c \in Client : pc[c] = "done" \/ (tardy /\ c \notin LateClient)
    /\ UNCHANGED vars

Step(c) ==
    \/ TakeLocks(c) \/ Find(c) \/ Refresh(c)
    \/ UploadTarget(c) \/ UploadStage(c)
    \/ Send(c) \/ Check(c) \/ Verify(c) \/ Rollback(c)

Next ==
    \/ \E c \in Client : Begin(c) \/ Step(c)
    \/ \E r \in late : TakeEffect(r) /\ UNCHANGED <<held, pc, sent, path, old, new, result, tardy>>
    \/ Crash
    \/ Finished

Spec == Init /\ [][Next]_vars

\* Every call the process has begun goes on: requests and listings return or
\* fail, verifyUpload has its deadline, and the locks are granted (see
\* EveryCallerEnters of KeyedLocks).
FairSpec == Spec /\ \A c \in Client : WF_vars(Step(c))

-----------------------------------------------------------------------------
\* What path p held in the beginning or was given by a verified upload.
Versions(p) == {i \in Object : Initially[i] = p} \cup {new[c] : c \in {d \in Client : path[d] = p}}

(***************************************************************************)
(* Whatever fails and whenever the process dies, a path that had content   *)
(* never loses all of it: some version of it, the original or one that     *)
(* uploadNew verified, is still visible under the path, the backup or the  *)
(* staging name.                                                           *)
(***************************************************************************)
ContentSurvives ==
    \A p \in Place :
        (\E i \in Object : Initially[i] = p) =>
            \E i \in Versions(p) \ {Nil} : Visible(i)

(***************************************************************************)
(* The old object goes to the recycle bin only while its replacement is at *)
(* the target path, the replacement only while the old object is.  This    *)
(* and what follows, but for the last, needs requests that are not late:   *)
(* one that is given up has had its effect or will never have it.          *)
(***************************************************************************)
GivesUpOnlyTheLoser ==
    [][\A c \in Client : ~tardy /\ new[c] # Nil /\ Active(c) =>
        /\ Visible(old[c]) /\ ~Visible(old[c])' => place[new[c]] = path[c]
        /\ Visible(new[c]) /\ ~Visible(new[c])' => place[old[c]] = path[c]]_vars

(***************************************************************************)
(* A call never misreports: when it returns success its new object is the  *)
(* only one at the path and the old one is gone.  When it returns a plain  *)
(* error from the upload of a replacement or later, the old object is      *)
(* alone at the path, and the replacement, if it had been verified, is in  *)
(* the recycle bin.  The failed upload of a first object is left out: it   *)
(* may leave an unverified one at the path.                                *)
(***************************************************************************)
ReturnsTheTruth ==
    [][\A c \in Client : ~tardy /\ pc[c] # "done" /\ pc'[c] = "done" =>
        /\ result'[c] = "ok" =>
            /\ ObjectsAt(path[c])' = {new'[c]}
            /\ old[c] # Nil => place'[old[c]] = Trash
        /\ result'[c] = "error" /\ (pc[c] = "upload" \/ new[c] # Nil) =>
            /\ ObjectsAt(path[c])' = {old[c]}
            /\ new[c] # Nil => place'[new[c]] = Trash]_vars

(***************************************************************************)
(* An object is left under the backup name of a call, or under its staging *)
(* name once the upload there has been verified, only by a call that said  *)
(* so with a RecoveryError, or that was killed.  (An upload that could not *)
(* be verified may stay under the staging name with a plain error.)        *)
(***************************************************************************)
ResidueIsReported ==
    \A c \in Client :
        /\ ~tardy /\ pc[c] = "done"
        /\ \E i \in Object :
              place[i] = BackupPlace(c) \/ (place[i] = StagePlace(c) /\ new[c] # Nil)
        => result[c] \in {"recovery", "crashed"}

(***************************************************************************)
(* No two visible objects have one path: the identity model every other    *)
(* operation rests on (findChild refuses ambiguous paths).                 *)
(***************************************************************************)
UniquePaths ==
    ~tardy => \A i, j \in Object : i # j /\ Visible(i) => place[i] # place[j]

(***************************************************************************)
(* Every Put and Update returns, with the locks given back: no call is     *)
(* stuck in its rollback or keeps the others out for good.                 *)
(***************************************************************************)
EveryCallReturns == \A c \in Client : pc[c] = "lock" ~> pc[c] = "done" /\ held[c] = {}

(***************************************************************************)
(* update.go, rollbackUpdate: "an ambiguous backup-trash response must     *)
(* never turn a valid new target into an empty path".  Once the new object *)
(* has been verified at the target and only the backup's removal is open,  *)
(* the call does not end with nothing at the path.                         *)
(***************************************************************************)
TargetNotEmptied ==
    \A c \in Client :
        [](pc[c] = "discard" /\ place[new[c]] = path[c] =>
            [](result[c] = "recovery" => ObjectsAt(path[c]) # {}))
=============================================================================
