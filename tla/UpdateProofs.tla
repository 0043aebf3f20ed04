---------------------------- MODULE UpdateProofs ----------------------------
(***************************************************************************)
(* Put and Update never lose the content of a path, whatever is lost, late *)
(* or interrupted; and unless requests are late no two objects share a     *)
(* path, a call returns the truth and reports what it leaves behind: for   *)
(* any number of calls, objects, directories and names.                    *)
(*                                                                         *)
(* The first argument: an object is in danger only under a temporary name  *)
(* whose owner throws it away or has a late request to do so (Doomed).  No *)
(* late rename brings an object into that danger again (Ordered), and a    *)
(* call puts one of its two objects in danger only after it has seen the   *)
(* other one out of it.  So one version of a path is always safe (Kept).   *)
(*                                                                         *)
(* The second: without late requests what a call has done is all that      *)
(* happens in its directory, so at each step its two objects are at a few  *)
(* pairs of places (Standing), and nothing else is at its path (Alone).    *)
(***************************************************************************)
EXTENDS UpdateTransaction, LockedCallsProofs

UserPlace == [dir : Dir, name : Name]

\* The steps before there is a new object, those with an old and a new one,
\* and those under the locks.
Early == {"idle", "lock", "find", "create", "refresh", "upload"}
Having == {"verify"} \cup Requesting \cup RollingBack
Locked == Phase \ {"idle", "lock", "done"}

Backup(c) == TempName("backup", c)
Stage(c) == TempName("stage", c)

\* Object i is visible under the name n.
Named(i, n) == Visible(i) /\ place[i].name = n

\* A late request of this kind, with this name, is still under way.
Pending(op, n) == \E r \in late : r.op = op /\ r.name = n

\* What a call has at each step; it has no result before it returns.
Begun(c) ==
    /\ pc[c] # "idle" => path[c] \in UserPlace
    /\ pc[c] = "idle" => path[c] = Nil
    /\ pc[c] \in {"idle", "find", "create"} => old[c] = Nil
    /\ pc[c] \in Having \cup {"refresh", "upload"} => old[c] # Nil
    /\ pc[c] \in Early => new[c] = Nil
    /\ pc[c] \in Having => new[c] # Nil
    /\ pc[c] # "done" => result[c] = "none"
    /\ sent[c] => pc[c] \in Requesting

Holds(c) == held[c] = IF pc[c] \in Locked THEN Keys(c, path[c]) ELSE {}

\* The new object is one that was never there before.
Uploaded(c) ==
    new[c] # Nil =>
        /\ place[new[c]] # Nowhere /\ Initially[new[c]] = Nowhere /\ new[c] # old[c]
        /\ \A d \in Client \ {c} : new[d] # new[c]

\* The old object was found at the path of the call, so it is a version of no
\* other path.
Known(c) ==
    old[c] # Nil =>
        /\ place[old[c]] # Nowhere
        /\ \A p \in UserPlace : old[c] \in Versions(p) => p = path[c]

\* A late rename to the backup name comes before the call removes the backup,
\* and one to the staging name before it drops the new object, or never.
Ordered(c) ==
    /\ pc[c] \in Early \/ (pc[c] = "backup" /\ ~sent[c]) => \A i \in Object : ~Named(i, Backup(c))
    /\ Pending("rename", Backup(c)) =>
          /\ pc[c] \notin Early \cup {"promote", "verify", "discard"}
          /\ pc[c] = "backup" => sent[c]
          /\ ~Pending("trash", Backup(c)) /\ ~Named(old[c], Backup(c))
    /\ Pending("trash", Backup(c)) => pc[c] \notin Early \cup {"backup", "promote", "verify"}
    /\ pc[c] = "aside" /\ ~sent[c] => ~Named(new[c], Stage(c))
    /\ Pending("rename", Stage(c)) =>
          /\ pc[c] = "done" \/ (pc[c] = "aside" /\ sent[c])
          /\ ~Pending("trash", Stage(c)) /\ ~Named(new[c], Stage(c))
    /\ Pending("trash", Stage(c)) => pc[c] = "done" \/ (pc[c] = "drop" /\ sent[c])

\* The owner of the temporary name of i throws it away, or has asked for it.
DoomedBy(c, i) ==
    \/ i = old[c] /\ Named(i, Backup(c)) /\ (pc[c] = "discard" \/ Pending("trash", Backup(c)))
    \/ i = new[c] /\ Named(i, Stage(c)) /\ (pc[c] = "drop" \/ Pending("trash", Stage(c)))
Safe(i) == Visible(i) /\ \A c \in Client : ~DoomedBy(c, i)

\* Before a call drops its new object it has seen the old one out of danger.
Confirmed(c) == pc[c] \in {"confirmNew", "drop"} /\ old[c] \in Versions(path[c]) => Safe(old[c])

\* An object of the users is never without a place again.
Lasting == \A i \in Object : Initially[i] # Nowhere => place[i] # Nowhere

\* A version of a path is there, or under a temporary name in its directory.
Fits ==
    \A p \in UserPlace : \A i \in Versions(p) \ {Nil} :
        Visible(i) => place[i].dir = p.dir /\ place[i].name \in {p.name} \cup TempNames

\* The requests a call makes of its two objects.
Orders(c) ==
    {Rename(old[c], Backup(c)), Discard(old[c], Backup(c)), Rename(old[c], path[c].name),
     Rename(new[c], Stage(c)), Discard(new[c], Stage(c)), Rename(new[c], path[c].name)}
Filed ==
    \A r \in late :
        \/ r.op = "create" /\ r.dir \in Dir /\ \A c \in Client : r.name # Backup(c)
        \/ \E c \in Client : new[c] # Nil /\ old[c] # Nil /\ r \in Orders(c)

\* A safe version, and not one that a call may still drop for an old object
\* which is no version (an upload that was never verified).
Keeper(i, p) ==
    /\ Safe(i)
    /\ \A c \in Client : i = new[c] /\ pc[c] \in Locked => old[c] \in Versions(p)
Kept ==
    \A p \in UserPlace :
        (\E i \in Object : Initially[i] = p) => \E i \in Versions(p) \ {Nil} : Keeper(i, p)

\* The inductive invariant.
Sound(c) == Begun(c) /\ Holds(c) /\ Uploaded(c) /\ Known(c) /\ Ordered(c) /\ Confirmed(c)
IInv == TypeOK /\ Locks!Exclusive /\ Lasting /\ Fits /\ Filed /\ Kept /\ \A c \in Client : Sound(c)

-----------------------------------------------------------------------------
\* Where the two objects of a call may be: as in the beginning; the old one
\* backed up; replaced by the new one; thrown away; or the new one dropped.
At(c) == <<place[old[c]], place[new[c]]>>
Staged(c) == At(c) = <<path[c], StagePlace(c)>>
BackedUp(c) == At(c) = <<BackupPlace(c), StagePlace(c)>>
Swapped(c) == At(c) = <<BackupPlace(c), path[c]>>
Replaced(c) == At(c) = <<Trash, path[c]>>
Undone(c) == At(c) = <<path[c], Trash>>

Standing(c) ==
    /\ pc[c] = "backup" => Staged(c) \/ (sent[c] /\ BackedUp(c))
    /\ pc[c] = "promote" => BackedUp(c) \/ (sent[c] /\ Swapped(c))
    /\ pc[c] = "verify" => Swapped(c)
    /\ pc[c] = "discard" => Swapped(c) \/ (sent[c] /\ Replaced(c))
    /\ pc[c] = "inspect" => Staged(c) \/ BackedUp(c) \/ Swapped(c) \/ Replaced(c)
    /\ pc[c] = "inspectNew" => BackedUp(c) \/ Swapped(c)
    /\ pc[c] = "aside" => Swapped(c) \/ (sent[c] /\ BackedUp(c))
    /\ pc[c] = "restore" => BackedUp(c) \/ (sent[c] /\ Staged(c))
    /\ pc[c] \in {"confirm", "confirmNew"} => Staged(c)
    /\ pc[c] = "drop" => Staged(c) \/ (sent[c] /\ Undone(c))

\* What is at the path of a call under its locks.
Alone(c) ==
    /\ pc[c] = "create" => ObjectsAt(path[c]) = {}
    /\ pc[c] = "upload" => ObjectsAt(path[c]) = {old[c]}
    /\ pc[c] \in Having => ObjectsAt(path[c]) \subseteq {old[c], new[c]}

\* Only the objects of a call have its temporary names.
Veiled(c) ==
    \A i \in Object :
        /\ Named(i, Backup(c)) => i = old[c] /\ pc[c] \notin Early
        /\ Named(i, Stage(c)) => pc[c] \notin Early /\ new[c] \in {i, Nil}

\* What a call that returned without a RecoveryError leaves.
Clean(c) ==
    pc[c] = "done" =>
        /\ result[c] # "none"
        /\ result[c] \in {"ok", "error"} =>
              \A i \in Object : ~Named(i, Backup(c)) /\ (new[c] # Nil => ~Named(i, Stage(c)))

OneEach == \A i, j \in Object : i # j /\ Visible(i) => place[i] # place[j]

\* The inductive invariant of runs without late requests.
Settled(c) == Standing(c) /\ Alone(c) /\ Veiled(c) /\ Clean(c)
Punctual == ~tardy => OneEach /\ \A c \in Client : Settled(c)

-----------------------------------------------------------------------------
(***************************************************************************)
(* The types in the form the lemmas about all calls have them.             *)
(***************************************************************************)
LEMMA Types ==
    ASSUME IInv
    PROVE  /\ place \in Places /\ held \in Keyrings
           /\ pc \in [Client -> Phase] /\ sent \in [Client -> BOOLEAN]
           /\ result \in [Client -> Result]
           /\ path \in [Client -> UserPlace \cup {Nil}]
           /\ old \in [Client -> Object \cup {Nil}]
           /\ new \in [Client -> Object \cup {Nil}]
           /\ late # {} => tardy
BY DEF IInv, TypeOK, ControlTypeOK, Keyrings, Places, UserPlace

\* No name of a step is one of a result.
LEMMA StepsAreNotResults == Phase \cap Result = {}
BY DEF Phase, Requesting, RollingBack, Result

\* The places of users have names that are not temporary.
LEMMA UserPlacesAre ==
    /\ UserPlace \subseteq Place
    /\ \A p \in UserPlace :
          p.dir \in Dir /\ p.name \in Name /\ p.name \in AnyName /\ p.name \notin TempNames
    /\ \A d \in Dir, n \in Name : PlaceOf(d, n) \in UserPlace
BY DriveAssumption DEF UserPlace, Place, AnyName, PlaceOf

(***************************************************************************)
(* The temporary names of the calls are different from each other and from *)
(* those of users.                                                         *)
(***************************************************************************)
LEMMA NamesAre ==
    /\ \A c \in Client :
          /\ Backup(c) \in AnyName /\ Backup(c) \in TempNames /\ Backup(c) \notin Name
          /\ Stage(c) \in AnyName /\ Stage(c) \in TempNames /\ Stage(c) \notin Name
    /\ \A c, d \in Client :
          /\ Backup(c) # Stage(d)
          /\ Backup(c) = Backup(d) => c = d
          /\ Stage(c) = Stage(d) => c = d
<1>1. ASSUME NEW c \in Client
      PROVE  /\ Backup(c) \in AnyName /\ Backup(c) \in TempNames /\ Backup(c) \notin Name
             /\ Stage(c) \in AnyName /\ Stage(c) \in TempNames /\ Stage(c) \notin Name
  BY TempNamesAre DEF Backup, Stage, TempName, TempNames
<1>2. ASSUME NEW c \in Client, NEW d \in Client
      PROVE  /\ Backup(c) # Stage(d)
             /\ Backup(c) = Backup(d) => c = d
             /\ Stage(c) = Stage(d) => c = d
  BY DEF Backup, Stage, TempName
<1> QED
  BY <1>1, <1>2

\* A call that has begun has a path of users and temporary places next to it.
LEMMA CallsHave ==
    ASSUME IInv, NEW c \in Client, pc[c] # "idle"
    PROVE  /\ path[c] \in UserPlace /\ path[c] \in Place
           /\ path[c].dir \in Dir /\ path[c].name \in Name /\ path[c].name \in AnyName
           /\ Keys(c, path[c]) \in SUBSET LockKey /\ Keys(c, path[c]) # {}
           /\ StagePlace(c) \in Place /\ StagePlace(c).dir = path[c].dir /\ StagePlace(c).name = Stage(c)
           /\ BackupPlace(c) \in Place /\ BackupPlace(c).dir = path[c].dir
           /\ BackupPlace(c).name = Backup(c)
<1>1. path[c] \in UserPlace
  BY DEF IInv, Sound, Begun
<1>2. path[c] \in Place /\ path[c].dir \in Dir /\ path[c].name \in Name /\ path[c].name \in AnyName
  BY <1>1, UserPlacesAre
<1>3. Keys(c, path[c]) \in SUBSET LockKey /\ Keys(c, path[c]) # {}
  BY <1>2, KeysAre DEF Keys
<1> QED
  BY <1>1, <1>2, <1>3, PlacesAre, NamesAre DEF StagePlace, BackupPlace, Stage, Backup

(***************************************************************************)
(* Calls under their locks write to different directories.                 *)
(***************************************************************************)
LEMMA Apart ==
    ASSUME IInv, NEW c \in Client, NEW d \in Client, c # d, pc[c] \in Locked, pc[d] \in Locked
    PROVE  path[c] # path[d] /\ path[c].dir # path[d].dir
<1>1. held[c] \cap held[d] = {}
  BY DEF IInv, Locks!Exclusive
<1>2. Parent(path[c].dir) \in held[c] /\ Parent(path[d].dir) \in held[d]
  BY DEF IInv, Sound, Holds, Keys
<1> QED
  BY <1>1, <1>2

-----------------------------------------------------------------------------
(***************************************************************************)
(* In the beginning only the files of users are there.                     *)
(***************************************************************************)
LEMMA InitIInv == Init => IInv
<1> SUFFICES ASSUME Init PROVE IInv
  OBVIOUS
<1>0. /\ \A i \in Object : Initially[i] \in UserPlace \cup {Nowhere}
      /\ \A i \in Object : place[i] = Initially[i]
      /\ Nowhere \notin Place /\ UserPlace \subseteq Place
  BY InitiallyAssumption, PlacesAre, UserPlacesAre DEF Init, UserPlace
<1>1. TypeOK
  <2>1. place \in [Object -> Place \cup {Nowhere, Trash}]
    BY <1>0, InitiallyAssumption, UserPlacesAre DEF Init, UserPlace
  <2> QED
    BY <2>1, DriveAssumption DEF Init, ControlInit, TypeOK, ControlTypeOK, Phase, Result
<1>2. Locks!Exclusive
  BY DEF Init, ControlInit, Locks!Exclusive
<1>3. Lasting
  BY <1>0 DEF Lasting
<1>4. \A p \in UserPlace : Versions(p) \ {Nil} \subseteq {i \in Object : Initially[i] = p}
  BY DEF Versions, Init
<1>5. Fits
  BY <1>0, <1>4 DEF Fits
<1>6. Filed
  BY DEF Filed, Init
<1>7. \A c \in Client : /\ pc[c] = "idle" /\ held[c] = {} /\ ~sent[c] /\ result[c] = "none"
                        /\ old[c] = Nil /\ new[c] = Nil /\ path[c] = Nil
  BY DEF Init, ControlInit
<1>8. Kept
  <2> SUFFICES ASSUME NEW p \in UserPlace, NEW i \in Object, Initially[i] = p
               PROVE  i \in Versions(p) \ {Nil} /\ Keeper(i, p)
    BY DEF Kept
  <2>1. i \in Versions(p) \ {Nil}
    BY PlacesAre DEF Versions
  <2>2. Visible(i)
    BY <1>0 DEF Visible
  <2>3. \A c \in Client : ~DoomedBy(c, i)
    BY <1>7, PlacesAre DEF DoomedBy
  <2> QED
    BY <1>7, <2>1, <2>2, <2>3, PlacesAre DEF Keeper, Safe
<1>9. ASSUME NEW c \in Client PROVE Sound(c)
  <2>1. Begun(c) /\ Holds(c) /\ Uploaded(c) /\ Known(c) /\ Confirmed(c)
    BY <1>7 DEF Begun, Holds, Uploaded, Known, Confirmed, Locked, Having, Requesting, RollingBack
  <2>2. \A op, n : ~Pending(op, n)
    BY DEF Pending, Init
  <2>3. \A i \in Object : ~Named(i, Backup(c))
    BY <1>0, UserPlacesAre, NamesAre DEF Named, Visible
  <2> QED
    BY <1>7, <2>1, <2>2, <2>3 DEF Sound, Ordered
<1> QED
  BY <1>1, <1>2, <1>3, <1>5, <1>6, <1>8, <1>9 DEF IInv

-----------------------------------------------------------------------------
(***************************************************************************)
(* A new object is a version of its own path only, and so is an old one.   *)
(***************************************************************************)
LEMMA VersionsAre ==
    ASSUME IInv, NEW c \in Client, NEW p \in UserPlace
    PROVE  /\ new[c] # Nil /\ path[c] = p => new[c] \in Versions(p)
           /\ new[c] # Nil /\ new[c] \in Versions(p) => p = path[c]
           /\ old[c] # Nil /\ old[c] \in Versions(p) => p = path[c]
<1>1. ASSUME new[c] # Nil, path[c] = p PROVE new[c] \in Versions(p)
  BY <1>1 DEF Versions
<1>2. ASSUME new[c] # Nil, new[c] \in Versions(p) PROVE p = path[c]
  <2>1. Initially[new[c]] # p
    BY <1>2, PlacesAre, UserPlacesAre DEF IInv, Sound, Uploaded
  <2>2. PICK d \in Client : path[d] = p /\ new[d] = new[c]
    BY <1>2, <2>1 DEF Versions
  <2> QED
    BY <1>2, <2>2 DEF IInv, Sound, Uploaded
<1>3. ASSUME old[c] # Nil, old[c] \in Versions(p) PROVE p = path[c]
  BY <1>3 DEF IInv, Sound, Known
<1> QED
  BY <1>1, <1>2, <1>3

\* The versions of a path are objects that exist.
LEMMA VersionsAreThere ==
    ASSUME IInv, NEW p \in UserPlace, NEW i \in Versions(p) \ {Nil}
    PROVE  i \in Object /\ place[i] # Nowhere
<1>1. CASE i \in Object /\ Initially[i] = p
  BY <1>1, PlacesAre, UserPlacesAre DEF IInv, Lasting
<1>2. CASE \E d \in Client : i = new[d]
  BY <1>2, Types DEF IInv, Sound, Uploaded
<1> QED
  BY <1>1, <1>2 DEF Versions

(***************************************************************************)
(* What a step that sends no request leaves as it is.                      *)
(***************************************************************************)
LEMMA SameDrive ==
    ASSUME IInv, UNCHANGED <<place, late, new>>,
           \A d \in Client : path'[d] = path[d] \/ new[d] = Nil
    PROVE  /\ \A i : Visible(i)' <=> Visible(i)
           /\ \A i, n : Named(i, n)' <=> Named(i, n)
           /\ \A op, n : Pending(op, n)' <=> Pending(op, n)
           /\ \A p : Versions(p)' \ {Nil} = Versions(p) \ {Nil}
           /\ \A p : ObjectsAt(p)' = ObjectsAt(p)
BY Types DEF Visible, Named, Pending, Versions, ObjectsAt

\* A step of call c that only reads or decides; it may find its old object.
Decides(c) ==
    /\ UNCHANGED <<place, late, new>>
    /\ \A d \in Client : path'[d] = path[d] \/ new[d] = Nil
    /\ \A d \in Client : old'[d] = old[d] \/ pc[d] \in Early
    /\ \A d \in Client : pc'[d] \in Locked => pc[d] \in Locked \/ new[d] = Nil
    /\ \A d \in Client \ {c} : pc'[d] \in {"discard", "drop"} => pc[d] = pc'[d]
    /\ pc'[c] = "discard" => pc[c] = "discard" \/ (pc[c] = "verify" /\ place[new[c]] = path[c])
    /\ pc'[c] = "drop" => pc[c] \in {"drop", "confirmNew"}

(***************************************************************************)
(* It puts only its own two objects in danger.                             *)
(***************************************************************************)
LEMMA DecidingIsSafe ==
    ASSUME IInv, NEW c \in Client, Decides(c), NEW i \in Object, Safe(i),
           pc'[c] = "discard" => pc[c] = "discard" \/ i # old[c],
           pc'[c] = "drop" => pc[c] = "drop" \/ i # new[c]
    PROVE  Safe(i)'
<1>1. ASSUME NEW d \in Client PROVE ~DoomedBy(d, i)'
  <2>1. ~DoomedBy(d, i) /\ (Named(i, Backup(d))' <=> Named(i, Backup(d)))
        /\ (Named(i, Stage(d))' <=> Named(i, Stage(d)))
        /\ (Pending("trash", Backup(d))' <=> Pending("trash", Backup(d)))
        /\ (Pending("trash", Stage(d))' <=> Pending("trash", Stage(d)))
    BY SameDrive DEF Safe, Decides
  <2>2. pc[d] \in Early => ~Named(i, Backup(d))
    BY DEF IInv, Sound, Ordered
  <2>3. new'[d] = new[d] /\ (old'[d] = old[d] \/ pc[d] \in Early)
        /\ (pc'[d] = "discard" => pc[d] = "discard" \/ i # old[d] \/ old'[d] # old[d])
        /\ (pc'[d] = "drop" => pc[d] = "drop" \/ i # new[d])
    BY DEF Decides
  <2> QED
    BY <2>1, <2>2, <2>3 DEF DoomedBy
<1>2. Visible(i)'
  BY SameDrive DEF Safe, Decides
<1> QED
  BY <1>1, <1>2 DEF Safe

(***************************************************************************)
(* One version of each path stays safe: the other one of its two.          *)
(***************************************************************************)
LEMMA DecidingKeeps == ASSUME IInv, NEW c \in Client, Decides(c) PROVE Kept'
<1> SUFFICES ASSUME NEW p \in UserPlace, \E i \in Object : Initially[i] = p
             PROVE  \E i \in Versions(p)' \ {Nil} : Keeper(i, p)'
  BY DEF Kept
<1>0. Versions(p)' \ {Nil} = Versions(p) \ {Nil}
  BY SameDrive DEF Decides
<1>1. PICK w \in Versions(p) \ {Nil} : Keeper(w, p)
  BY DEF IInv, Kept
<1>2. w \in Object /\ Safe(w)
  BY <1>1, VersionsAreThere DEF Keeper
<1>3. ASSUME NEW i \in Versions(p) \ {Nil}, Safe(i)',
             \A d \in Client : i = new[d] /\ pc[d] \in Locked => old[d] \in Versions(p) /\ old[d] # Nil
      PROVE  Keeper(i, p)'
  <2>1. ASSUME NEW d \in Client, i = new'[d], pc'[d] \in Locked PROVE old'[d] \in Versions(p)'
    <3>1. i = new[d] /\ pc[d] \in Locked /\ pc[d] \notin Early
      BY <1>3, <2>1 DEF IInv, Sound, Begun, Decides
    <3>2. old[d] \in Versions(p) \ {Nil} /\ old'[d] = old[d]
      BY <1>3, <3>1 DEF Decides
    <3> QED
      BY <1>0, <3>2
  <2> QED
    BY <1>3, <2>1 DEF Keeper
<1>4. \A d \in Client : pc[d] \in Locked /\ new[d] # Nil => old[d] # Nil /\ path[d] \in UserPlace
  BY Types DEF IInv, Sound, Begun, Having, Early, Locked, Phase, Requesting, RollingBack
<1>5. CASE pc'[c] = "discard" /\ pc[c] # "discard" /\ w = old[c]
  <2>1. path[c] = p /\ new[c] # Nil /\ place[new[c]] = p /\ pc[c] = "verify"
    BY <1>1, <1>5, VersionsAre DEF Decides, IInv, Sound, Begun, Having
  <2>2. PICK i \in Object : i = new[c] /\ i \in Versions(p) \ {Nil}
    BY <2>1, VersionsAre, Types
  <2>3. Safe(i)
    BY <2>1, <2>2, UserPlacesAre, NamesAre DEF Safe, Visible, DoomedBy, Named
  <2>4. i # old[c] /\ \A d \in Client : i = new[d] => d = c
    BY <2>1, <2>2 DEF IInv, Sound, Uploaded
  <2>5. Safe(i)'
    BY <1>5, <2>3, <2>4, DecidingIsSafe
  <2>6. \A d \in Client : i = new[d] => old[d] \in Versions(p) /\ old[d] # Nil
    BY <1>1, <1>5, <2>4
  <2> QED
    BY <1>0, <1>3, <2>2, <2>5, <2>6
<1>6. CASE pc'[c] = "drop" /\ pc[c] # "drop" /\ w = new[c]
  <2>1. path[c] = p /\ pc[c] = "confirmNew"
    BY <1>1, <1>6, VersionsAre DEF Decides
  <2>2. PICK i \in Object : i = old[c] /\ i \in Versions(p) \ {Nil} /\ Safe(i) /\ i # new[c]
    BY <1>1, <1>4, <1>6, <2>1, VersionsAreThere
       DEF IInv, Sound, Confirmed, Keeper, Uploaded, Locked, Phase, RollingBack
  <2>3. \A d \in Client : i = new[d] /\ pc[d] \in Locked => FALSE
    BY <2>1, <2>2, VersionsAre, Apart DEF Locked, Phase, RollingBack
  <2>4. Safe(i)'
    BY <1>6, <2>2, DecidingIsSafe
  <2> QED
    BY <1>0, <1>3, <2>2, <2>3, <2>4
<1>7. CASE ~(pc'[c] = "discard" /\ pc[c] # "discard" /\ w = old[c])
           /\ ~(pc'[c] = "drop" /\ pc[c] # "drop" /\ w = new[c])
  <2>1. Safe(w)'
    BY <1>2, <1>7, DecidingIsSafe
  <2>2. \A d \in Client : w = new[d] /\ pc[d] \in Locked => old[d] \in Versions(p) /\ old[d] # Nil
    BY <1>1, <1>4 DEF Keeper
  <2> QED
    BY <1>0, <1>3, <2>1, <2>2
<1> QED
  BY <1>5, <1>6, <1>7

(***************************************************************************)
(* And it is no concern of the other calls.                                *)
(***************************************************************************)
LEMMA DecidingIInv ==
    ASSUME IInv, NEW c \in Client, Decides(c),
           \A d \in Client \ {c} :
              UNCHANGED <<pc[d], sent[d], result[d], held[d], old[d], path[d]>>
    PROVE  /\ Lasting' /\ Fits' /\ Filed' /\ Kept'
           /\ \A d \in Client \ {c} : Sound(d)'
<1>0. /\ \A i : Visible(i)' <=> Visible(i)
      /\ \A i, n : Named(i, n)' <=> Named(i, n)
      /\ \A op, n : Pending(op, n)' <=> Pending(op, n)
      /\ \A p : Versions(p)' \ {Nil} = Versions(p) \ {Nil}
      /\ UNCHANGED <<place, late, new>>
  BY SameDrive DEF Decides
<1>1. Lasting' /\ Fits'
  BY <1>0 DEF IInv, Lasting, Fits
<1>2. Filed'
  <2>1. ASSUME NEW d \in Client, new[d] # Nil PROVE Orders(d)' = Orders(d) /\ old'[d] = old[d]
    <3>1. pc[d] \notin Early
      BY <2>1 DEF IInv, Sound, Begun
    <3> QED
      BY <2>1, <3>1 DEF Orders, Decides, Rename, Discard
  <2> QED
    BY <1>0, <2>1 DEF IInv, Filed
<1>3. ASSUME NEW d \in Client \ {c} PROVE Sound(d)'
  <2>1. Begun(d)'
    BY <1>0, <1>3 DEF IInv, Sound, Begun
  <2>2. Holds(d)'
    BY <1>3 DEF IInv, Sound, Holds, Keys
  <2>3. Uploaded(d)'
    BY <1>0, <1>3 DEF IInv, Sound, Uploaded
  <2>4. Known(d)'
    BY <1>0, <1>3 DEF IInv, Sound, Known
  <2>5. Ordered(d)'
    BY <1>0, <1>3 DEF IInv, Sound, Ordered
  <2>6. Confirmed(d)'
    <3> SUFFICES ASSUME pc[d] \in {"confirmNew", "drop"}, old[d] \in Versions(path[d])' PROVE Safe(old[d])'
      BY <1>3 DEF Confirmed
    <3>1. /\ pc[d] \in Locked /\ path[d] \in UserPlace /\ old[d] # Nil
          /\ old[d] \in Object
      BY Types DEF IInv, Sound, Begun, Having, RollingBack, Locked, Phase, Requesting
    <3>2. PICK i \in Object : i = old[d] /\ i \in Versions(path[d]) /\ Safe(i)
      <4>1. old[d] \in Versions(path[d])
        BY <1>0, <1>3, <3>1
      <4> QED
        BY <3>1, <4>1 DEF IInv, Sound, Confirmed
    <3>3. pc[c] \in Locked => i # old[c] /\ i # new[c]
      BY <1>3, <3>1, <3>2, VersionsAre, Apart
    <3>4. /\ pc'[c] = "discard" => pc[c] \in Locked
          /\ pc'[c] = "drop" => pc[c] \in Locked
      BY DEF Decides, Locked, Phase, Requesting, RollingBack
    <3>5. Safe(i)'
      BY <3>2, <3>3, <3>4, DecidingIsSafe
    <3> QED
      BY <1>3, <3>2, <3>5
  <2> QED
    BY <2>1, <2>2, <2>3, <2>4, <2>5, <2>6 DEF Sound
<1> QED
  BY <1>1, <1>2, <1>3, DecidingKeeps

-----------------------------------------------------------------------------
(***************************************************************************)
(* A call begins with a path, and perhaps with the object there.           *)
(***************************************************************************)
LEMMA BeginIInv == ASSUME IInv, NEW c \in Client, Begin(c) PROVE IInv'
<1>1. PICK p \in UserPlace, o \in Object \cup {Nil} :
        /\ path' = [path EXCEPT ![c] = p] /\ old' = [old EXCEPT ![c] = o]
        /\ o # Nil => place[o] = p
  BY UserPlacesAre DEF Begin, ObjectsAt
<1>2. /\ pc[c] = "idle" /\ pc' = [pc EXCEPT ![c] = "lock"]
      /\ UNCHANGED <<held, result, place, late, sent, new, tardy>>
  BY DEF Begin, Goto
<1>4. /\ new[c] = Nil /\ ~sent[c] /\ held[c] = {} /\ result[c] = "none" /\ pc[c] \in Early
      /\ pc'[c] = "lock" /\ path'[c] = p /\ old'[c] = o
  BY <1>1, <1>2, Types DEF IInv, Sound, Begun, Holds, Early, Requesting, Locked, Phase
<1>5. TypeOK'
  <2>1. pc' \in [Client -> Phase]
    BY <1>2, Types DEF Phase
  <2> QED
    BY <1>1, <1>2, <2>1 DEF IInv, TypeOK, ControlTypeOK, UserPlace
<1>6. Locks!Exclusive'
  BY <1>2, KeysKept DEF IInv
<1>7. \A d \in Client \ {c} : UNCHANGED <<pc[d], sent[d], result[d], held[d], old[d], path[d]>>
  BY <1>1, <1>2, Types
<1>8. Decides(c)
  BY <1>2, <1>4, <1>7 DEF Decides
<1>9. Sound(c)'
  <2>0. /\ \A i, n : Named(i, n)' <=> Named(i, n)
        /\ \A op, n : Pending(op, n)' <=> Pending(op, n)
        /\ \A q : Versions(q)' \ {Nil} = Versions(q) \ {Nil}
    BY <1>8, SameDrive DEF Decides
  <2>1. Begun(c)' /\ Holds(c)' /\ Uploaded(c)' /\ Confirmed(c)'
    BY <1>2, <1>4 DEF Begun, Holds, Uploaded, Confirmed, Early, Having, Requesting, RollingBack, Locked
  <2>2. Known(c)'
    <3> SUFFICES ASSUME o # Nil PROVE Known(c)'
      BY <1>4 DEF Known
    <3>1. Visible(o) /\ place[o] # Nowhere
      BY <1>1, UserPlacesAre, PlacesAre DEF Visible
    <3>2. ASSUME NEW q \in UserPlace, o \in Versions(q) PROVE q = p
      <4>1. place[o].dir = q.dir /\ place[o].name = q.name
        BY <1>1, <3>1, <3>2, UserPlacesAre DEF IInv, Fits
      <4> QED
        BY <1>1, <4>1, UserPlacesAre, PlacesAre
    <3> QED
      BY <1>2, <1>4, <2>0, <3>1, <3>2 DEF Known
  <2>3. Ordered(c)'
    BY <1>2, <1>4, <2>0 DEF IInv, Sound, Ordered, Early
  <2> QED
    BY <2>1, <2>2, <2>3 DEF Sound
<1> QED
  BY <1>5, <1>6, <1>7, <1>8, <1>9, DecidingIInv DEF IInv

(***************************************************************************)
(* A call gets its keys at once, none of them held by another call.        *)
(***************************************************************************)
LEMMA TakeLocksIInv == ASSUME IInv, NEW c \in Client, TakeLocks(c) PROVE IInv'
<1>1. /\ pc[c] = "lock" /\ Locks!Enter(c, Keys(c, path[c]))
      /\ UNCHANGED <<sent, result, place, late, path, old, new, tardy>>
  BY DEF TakeLocks, Lock
<1>2. PICK next \in {"find", "refresh"} :
        pc' = [pc EXCEPT ![c] = next] /\ next = IF old[c] = Nil THEN "find" ELSE "refresh"
  BY DEF TakeLocks, Lock
<1>3. held' = [held EXCEPT ![c] = Keys(c, path[c])] /\ held' \in Keyrings /\ Locks!Exclusive'
  BY <1>1, KeysTaken, CallsHave, Types DEF IInv
<1>4. TypeOK'
  <2>1. pc' \in [Client -> Phase]
    BY <1>2, Types DEF Phase
  <2> QED
    BY <1>1, <1>3, <2>1 DEF IInv, TypeOK, ControlTypeOK, Keyrings
<1>5. /\ pc'[c] = next /\ held'[c] = Keys(c, path[c]) /\ pc[c] \in Early /\ next \in Early
      /\ new[c] = Nil /\ ~sent[c] /\ result[c] = "none"
  BY <1>1, <1>2, <1>3, Types DEF IInv, Sound, Begun, Keyrings, Early, Requesting
<1>6. \A d \in Client \ {c} : UNCHANGED <<pc[d], sent[d], result[d], held[d], old[d], path[d]>>
  BY <1>1, <1>2, <1>3, Types DEF Keyrings
<1>7. Decides(c)
  BY <1>1, <1>2, <1>5, <1>6 DEF Decides
<1>8. Sound(c)'
  <2>0. /\ \A i, n : Named(i, n)' <=> Named(i, n)
        /\ \A op, n : Pending(op, n)' <=> Pending(op, n)
        /\ \A q : Versions(q)' \ {Nil} = Versions(q) \ {Nil}
    BY <1>7, SameDrive DEF Decides
  <2>1. Begun(c)' /\ Uploaded(c)' /\ Confirmed(c)'
    BY <1>1, <1>2, <1>5 DEF IInv, Sound, Begun, Uploaded, Confirmed, Early, Having, Requesting, RollingBack
  <2>2. Holds(c)' /\ Known(c)'
    BY <1>1, <1>2, <1>5, <2>0 DEF IInv, Sound, Holds, Known, Keys, Locked, Phase
  <2>3. Ordered(c)'
    BY <1>1, <1>2, <1>5, <2>0 DEF IInv, Sound, Ordered, Early
  <2> QED
    BY <2>1, <2>2, <2>3 DEF Sound
<1> QED
  BY <1>3, <1>4, <1>6, <1>7, <1>8, DecidingIInv DEF IInv

(***************************************************************************)
(* The control of a call that decides, and what the others notice of it.   *)
(***************************************************************************)
LEMMA DecideIInv ==
    ASSUME IInv, NEW c \in Client, pc[c] \in Locked,
           NEW next \in Locked \cup Result, Continue(c, next),
           sent' = [sent EXCEPT ![c] = FALSE],
           UNCHANGED <<place, late, path, new, tardy>>,
           old' \in [Client -> Object \cup {Nil}],
           old' = old \/ (pc[c] = "find" /\ \A d \in Client \ {c} : old'[d] = old[d]),
           next = "discard" => pc[c] = "verify" /\ place[new[c]] = path[c],
           next = "drop" => pc[c] = "confirmNew"
    PROVE  /\ TypeOK' /\ Locks!Exclusive' /\ Decides(c) /\ ~sent'[c]
           /\ \A d \in Client \ {c} : UNCHANGED <<pc[d], sent[d], result[d], held[d], old[d], path[d]>>
           /\ next \in Result => pc'[c] = "done" /\ result'[c] = next /\ held'[c] = {}
           /\ next \notin Result => /\ pc'[c] = next /\ next \in Locked /\ next \in Phase
                                  /\ result'[c] = "none" /\ Holds(c)'
<1>1. pc[c] # "idle" /\ pc[c] # "done" /\ pc[c] # "lock"
  BY DEF Locked
<1>2. /\ held' \in Keyrings /\ Locks!Exclusive'
      /\ next \in Result => /\ pc' = [pc EXCEPT ![c] = "done"]
                            /\ result' = [result EXCEPT ![c] = next]
                            /\ held' = [held EXCEPT ![c] = {}]
      /\ next \notin Result => pc' = [pc EXCEPT ![c] = next] /\ UNCHANGED <<result, held>>
  BY Continued, Types DEF IInv
<1>3. next \notin Result => next \in Phase /\ next \in Locked
  BY DEF Locked
<1>4. /\ pc' \in [Client -> Phase] /\ result' \in [Client -> Result]
      /\ sent' \in [Client -> BOOLEAN]
  BY <1>2, <1>3, Types DEF Phase
<1>5. TypeOK'
  BY <1>2, <1>4 DEF IInv, TypeOK, ControlTypeOK, Keyrings
<1>6. \A d \in Client \ {c} : UNCHANGED <<pc[d], sent[d], result[d], held[d], old[d], path[d]>>
  BY <1>2, Types DEF Keyrings
<1>7. /\ next \in Result => pc'[c] = "done" /\ result'[c] = next /\ held'[c] = {}
      /\ next \notin Result => pc'[c] = next /\ result'[c] = result[c] /\ held'[c] = held[c]
      /\ ~sent'[c]
  BY <1>2, Types DEF Keyrings
<1>8. next \notin Result => result'[c] = "none" /\ Holds(c)'
  <2>1. Keys(c, path[c])' = Keys(c, path[c])
    BY DEF Keys
  <2> QED
    BY <1>1, <1>3, <1>7, <2>1 DEF IInv, Sound, Begun, Holds
<1>9. Decides(c)
  <2>1. pc'[c] = "discard" => next = "discard"
    BY <1>7
  <2>2. pc'[c] = "drop" => next = "drop"
    BY <1>7
  <2> QED
    BY <1>6, <2>1, <2>2 DEF Decides, Early
<1> QED
  BY <1>2, <1>3, <1>5, <1>6, <1>7, <1>8, <1>9

\* A call that returns gives its keys back and promises nothing more.
LEMMA EndIInv ==
    ASSUME IInv, NEW c \in Client, pc[c] \in Locked, NEW r \in Result, Continue(c, r),
           sent' = [sent EXCEPT ![c] = FALSE],
           UNCHANGED <<place, late, path, old, new, tardy>>
    PROVE  IInv'
<1>1. /\ TypeOK' /\ Locks!Exclusive' /\ Decides(c) /\ ~sent'[c] /\ pc'[c] = "done" /\ held'[c] = {}
      /\ \A d \in Client \ {c} : UNCHANGED <<pc[d], sent[d], result[d], held[d], old[d], path[d]>>
  BY DecideIInv, Types DEF Result
<1>2. Sound(c)'
  <2>0. /\ \A i, n : Named(i, n)' <=> Named(i, n)
        /\ \A op, n : Pending(op, n)' <=> Pending(op, n)
        /\ \A q : Versions(q)' \ {Nil} = Versions(q) \ {Nil}
    BY <1>1, SameDrive DEF Decides
  <2>1. pc[c] # "idle" /\ pc[c] # "done"
    BY DEF Locked
  <2>2. Begun(c)' /\ Holds(c)' /\ Uploaded(c)' /\ Confirmed(c)'
    BY <1>1, <2>1 DEF IInv, Sound, Begun, Holds, Uploaded, Confirmed, Early, Having, Requesting,
                      RollingBack, Locked
  <2>3. Known(c)' /\ Ordered(c)'
    BY <1>1, <2>0 DEF IInv, Sound, Known, Ordered, Early
  <2> QED
    BY <2>2, <2>3 DEF Sound
<1> QED
  BY <1>1, <1>2, DecidingIInv DEF IInv

(***************************************************************************)
(* A call that goes on: what it must have seen before each step.           *)
(***************************************************************************)
LEMMA GoOnIInv ==
    ASSUME IInv, NEW c \in Client, pc[c] \in Having, NEW next \in Having \ {"backup"}, Continue(c, next),
           sent' = [sent EXCEPT ![c] = FALSE],
           UNCHANGED <<place, late, path, old, new, tardy>>,
           next = "promote" => pc[c] = "backup" /\ Named(old[c], Backup(c)),
           next = "verify" => pc[c] = "promote",
           next = "discard" => pc[c] = "verify" /\ place[new[c]] = path[c],
           next = "aside" => ~Named(new[c], Stage(c)),
           pc[c] = "aside" => Named(new[c], Stage(c)),
           pc[c] # "drop",
           next = "confirmNew" => place[old[c]] = path[c],
           next = "drop" => pc[c] = "confirmNew"
    PROVE  IInv'
<1>0. /\ next \in Locked /\ next \notin Result /\ pc[c] \in Locked /\ next \notin Early /\ pc[c] \notin Early
      /\ pc[c] # "idle" /\ pc[c] # "done" /\ next # "done" /\ next # "idle"
      /\ next \notin {"find", "create", "refresh", "upload"}
  BY StepsAreNotResults DEF Locked, Phase, Having, Early, Requesting, RollingBack
<1>1. /\ TypeOK' /\ Locks!Exclusive' /\ Decides(c) /\ ~sent'[c] /\ pc'[c] = next /\ Holds(c)'
      /\ result'[c] = "none"
      /\ \A d \in Client \ {c} : UNCHANGED <<pc[d], sent[d], result[d], held[d], old[d], path[d]>>
  BY <1>0, DecideIInv, Types
<1>2. Sound(c)'
  <2>0. /\ \A i, n : Named(i, n)' <=> Named(i, n)
        /\ \A op, n : Pending(op, n)' <=> Pending(op, n)
        /\ \A q : Versions(q)' \ {Nil} = Versions(q) \ {Nil}
    BY <1>1, SameDrive DEF Decides
  <2>2. Begun(c)' /\ Uploaded(c)' /\ Known(c)'
    BY <1>0, <1>1, <2>0 DEF IInv, Sound, Begun, Uploaded, Known
  <2>3. Ordered(c)'
    BY <1>0, <1>1, <2>0 DEF IInv, Sound, Ordered, Having, Requesting, RollingBack
  <2>4. Confirmed(c)'
    <3> SUFFICES ASSUME next \in {"confirmNew", "drop"}, old[c] \in Versions(path[c])'
                 PROVE  Safe(old[c])'
      BY <1>1 DEF Confirmed
    <3>1. old[c] # Nil /\ old[c] \in Object /\ new[c] # old[c] /\ path[c] \in UserPlace
      BY <1>0, Types, CallsHave DEF IInv, Sound, Begun, Uploaded
    <3>2. PICK i \in Object : i = old[c] /\ i \in Versions(path[c]) /\ i # new[c]
      <4>1. old[c] \in Versions(path[c])
        BY <2>0, <3>1
      <4> QED
        BY <3>1, <4>1
    <3>3. Safe(i)
      <4>1. CASE next = "drop"
        BY <3>2, <4>1 DEF IInv, Sound, Confirmed
      <4>2. CASE next = "confirmNew"
        BY <3>1, <3>2, <4>2, UserPlacesAre, NamesAre DEF Safe, Visible, DoomedBy, Named
      <4> QED
        BY <4>1, <4>2
    <3>4. Safe(i)'
      BY <1>1, <3>2, <3>3, DecidingIsSafe
    <3> QED
      BY <3>2, <3>4
  <2> QED
    BY <1>1, <2>2, <2>3, <2>4 DEF Sound
<1> QED
  BY <1>1, <1>2, DecidingIInv DEF IInv

-----------------------------------------------------------------------------
(***************************************************************************)
(* findChild: the path is free, or its only object is the old one.         *)
(***************************************************************************)
LEMMA FindIInv == ASSUME IInv, NEW c \in Client, Find(c) PROVE IInv'
<1>1. pc[c] = "find" /\ UNCHANGED <<place, late, sent, path, new, tardy>> /\ pc[c] \in Locked
  BY DEF Find, Locked, Phase
<1>2. /\ sent' = [sent EXCEPT ![c] = FALSE] /\ ~sent[c] /\ old[c] = Nil /\ new[c] = Nil
      /\ path[c] \in UserPlace
  BY <1>1, Types DEF IInv, Sound, Begun, Requesting, Early
<1>3. CASE Return(c, "error") /\ UNCHANGED old
  <2>1. Continue(c, "error")
    BY <1>3 DEF Continue, Result
  <2> QED
    BY <1>1, <1>2, <1>3, <2>1, EndIInv DEF Result
<1>4. ASSUME NEW next \in {"create", "refresh"}, Goto(c, next), NEW o \in Object \cup {Nil},
             old' = [old EXCEPT ![c] = o], o # Nil => place[o] = path[c],
             next = "create" <=> o = Nil
      PROVE  IInv'
  <2>1. next \in Locked /\ next \notin Result /\ Continue(c, next)
    BY <1>4 DEF Continue, Result, Locked, Phase
  <2>2. /\ TypeOK' /\ Locks!Exclusive' /\ Decides(c) /\ ~sent'[c] /\ pc'[c] = next /\ Holds(c)'
        /\ result'[c] = "none"
        /\ \A d \in Client \ {c} : UNCHANGED <<pc[d], sent[d], result[d], held[d], old[d], path[d]>>
    BY <1>1, <1>2, <1>4, <2>1, DecideIInv, Types
  <2>3. old'[c] = o
    BY <1>4, Types
  <2>4. /\ \A i, n : Named(i, n)' <=> Named(i, n)
        /\ \A op, n : Pending(op, n)' <=> Pending(op, n)
        /\ \A q : Versions(q)' \ {Nil} = Versions(q) \ {Nil}
    BY <2>2, SameDrive DEF Decides
  <2>5. Begun(c)' /\ Uploaded(c)' /\ Confirmed(c)'
    BY <1>1, <1>2, <1>4, <2>2, <2>3 DEF IInv, Sound, Begun, Uploaded, Confirmed, Early, Having, Requesting,
       RollingBack
  <2>6. Known(c)'
    <3> SUFFICES ASSUME o # Nil PROVE Known(c)'
      BY <2>3 DEF Known
    <3>1. Visible(o) /\ place[o] # Nowhere
      BY <1>2, <1>4, UserPlacesAre, PlacesAre DEF Visible
    <3>2. ASSUME NEW q \in UserPlace, o \in Versions(q) PROVE q = path[c]
      <4>1. place[o].dir = q.dir /\ place[o].name = q.name
        BY <1>2, <1>4, <3>1, <3>2, UserPlacesAre DEF IInv, Fits
      <4> QED
        BY <1>2, <1>4, <4>1, UserPlacesAre, PlacesAre
    <3> QED
      BY <1>1, <2>3, <2>4, <3>1, <3>2 DEF Known
  <2>7. Ordered(c)'
    BY <1>1, <1>2, <1>4, <2>2, <2>4 DEF IInv, Sound, Ordered, Early
  <2> QED
    BY <2>2, <2>5, <2>6, <2>7, DecidingIInv DEF IInv, Sound
<1>5. CASE Goto(c, "create") /\ UNCHANGED old
  <2>1. old' = [old EXCEPT ![c] = Nil]
    BY <1>2, <1>5, Types
  <2> QED
    BY <1>4, <1>5, <2>1
<1>6. CASE \E o \in Object : ObjectsAt(path[c]) = {o} /\ old' = [old EXCEPT ![c] = o] /\ Goto(c, "refresh")
  <2>1. PICK o \in Object : ObjectsAt(path[c]) = {o} /\ old' = [old EXCEPT ![c] = o] /\ Goto(c, "refresh")
    BY <1>6
  <2>2. place[o] = path[c] /\ o # Nil
    BY <2>1, PlacesAre DEF ObjectsAt
  <2> QED
    BY <1>4, <2>1, <2>2
<1> QED
  BY <1>3, <1>5, <1>6 DEF Find

(***************************************************************************)
(* refreshExact of the old object.                                         *)
(***************************************************************************)
LEMMA RefreshIInv == ASSUME IInv, NEW c \in Client, Refresh(c) PROVE IInv'
<1>1. pc[c] = "refresh" /\ UNCHANGED <<place, late, sent, path, old, new, tardy>> /\ pc[c] \in Locked
  BY DEF Refresh, Locked, Phase
<1>2. sent' = [sent EXCEPT ![c] = FALSE] /\ ~sent[c] /\ old[c] # Nil /\ new[c] = Nil
  BY <1>1, Types DEF IInv, Sound, Begun, Requesting, Early
<1>3. CASE Return(c, "error")
  <2>1. Continue(c, "error")
    BY <1>3 DEF Continue, Result
  <2> QED
    BY <1>1, <1>2, <2>1, EndIInv DEF Result
<1>4. CASE Goto(c, "upload")
  <2>1. Continue(c, "upload") /\ "upload" \in Locked /\ "upload" \notin Result
    BY <1>4 DEF Continue, Result, Locked, Phase
  <2>2. /\ TypeOK' /\ Locks!Exclusive' /\ Decides(c) /\ ~sent'[c] /\ pc'[c] = "upload" /\ Holds(c)'
        /\ result'[c] = "none"
        /\ \A d \in Client \ {c} : UNCHANGED <<pc[d], sent[d], result[d], held[d], old[d], path[d]>>
    BY <1>1, <1>2, <2>1, DecideIInv, Types
  <2>3. /\ \A i, n : Named(i, n)' <=> Named(i, n)
        /\ \A op, n : Pending(op, n)' <=> Pending(op, n)
        /\ \A q : Versions(q)' \ {Nil} = Versions(q) \ {Nil}
    BY <2>2, SameDrive DEF Decides
  <2>4. Begun(c)' /\ Uploaded(c)' /\ Confirmed(c)' /\ Known(c)' /\ Ordered(c)'
    BY <1>1, <1>2, <2>2, <2>3 DEF IInv, Sound, Begun, Uploaded, Confirmed, Known, Ordered, Early, Having,
       Requesting, RollingBack
  <2> QED
    BY <2>2, <2>4, DecidingIInv DEF IInv, Sound
<1> QED
  BY <1>3, <1>4 DEF Refresh

(***************************************************************************)
(* The listing after a rename has shown the object under its new name.     *)
(***************************************************************************)
LEMMA AchievedMeans ==
    ASSUME IInv, NEW c \in Client, pc[c] \in Requesting, Achieved(c, Request(c))
    PROVE  /\ pc[c] = "backup" => place[old[c]] = BackupPlace(c) /\ Named(old[c], Backup(c))
           /\ pc[c] = "promote" => place[new[c]] = path[c]
           /\ pc[c] = "discard" => ~Visible(old[c])
           /\ pc[c] = "aside" => place[new[c]] = StagePlace(c) /\ Named(new[c], Stage(c))
           /\ pc[c] = "restore" => place[old[c]] = path[c]
           /\ pc[c] = "drop" => ~Visible(new[c])
<1>0. /\ pc[c] # "idle"
      /\ StagePlace(c) \in Place /\ StagePlace(c).name = Stage(c)
      /\ BackupPlace(c) \in Place /\ BackupPlace(c).name = Backup(c)
      /\ PlaceOf(path[c].dir, path[c].name) = path[c]
  <2>1. pc[c] # "idle"
    BY DEF Requesting
  <2> QED
    BY <2>1, CallsHave, PlacesAre
<1>1. ASSUME NEW i, NEW n, Request(c) = Rename(i, n) PROVE place[i] = PlaceOf(path[c].dir, n)
  BY <1>1, Effects DEF Achieved
<1>2. ASSUME NEW i, NEW n, Request(c) = Discard(i, n) PROVE ~Visible(i)
  BY <1>2, Effects DEF Achieved
<1>3. CASE pc[c] = "backup"
  BY <1>0, <1>1, <1>3 DEF Request, BackupPlace, Named, Visible, Backup
<1>4. CASE pc[c] = "promote"
  BY <1>0, <1>1, <1>4 DEF Request
<1>5. CASE pc[c] = "discard"
  BY <1>2, <1>5 DEF Request
<1>6. CASE pc[c] = "aside"
  BY <1>0, <1>1, <1>6 DEF Request, StagePlace, Named, Visible, Stage
<1>7. CASE pc[c] = "restore"
  BY <1>0, <1>1, <1>7 DEF Request
<1>8. CASE pc[c] = "drop"
  BY <1>2, <1>8 DEF Request
<1> QED
  BY <1>3, <1>4, <1>5, <1>6, <1>7, <1>8 DEF Requesting

\* The listing after a request: success, or what Failure makes of it.
LEMMA CheckIInv == ASSUME IInv, NEW c \in Client, Check(c) PROVE IInv'
<1>1. /\ pc[c] \in Requesting /\ UNCHANGED <<place, late, path, old, new, tardy>>
      /\ sent' = [sent EXCEPT ![c] = FALSE]
      /\ pc[c] \in Locked /\ pc[c] \in Having
  BY DEF Check, Locked, Phase, Having, Requesting
<1>2. CASE Continue(c, Failure(pc[c]))
  <2>1. CASE pc[c] \in RollingBack
    <3>1. Continue(c, "recovery")
      BY <1>2, <2>1 DEF Failure
    <3> QED
      BY <1>1, <3>1, EndIInv DEF Result
  <2>2. CASE pc[c] \notin RollingBack
    <3>1. Continue(c, "inspect")
      BY <1>2, <2>2 DEF Failure
    <3>2. pc[c] # "drop" /\ pc[c] # "aside" /\ "inspect" \in Having \ {"backup"}
      BY <2>2 DEF RollingBack, Having
    <3> QED
      BY <1>1, <3>1, <3>2, GoOnIInv
  <2> QED
    BY <2>1, <2>2
<1>3. CASE Achieved(c, Request(c)) /\ Continue(c, Success(pc[c]))
  <2>1. CASE pc[c] = "backup"
    <3>1. Continue(c, "promote") /\ Named(old[c], Backup(c)) /\ "promote" \in Having \ {"backup"}
      BY <1>1, <1>3, <2>1, AchievedMeans DEF Success, Having, Requesting
    <3> QED
      BY <1>1, <2>1, <3>1, GoOnIInv
  <2>2. CASE pc[c] = "promote"
    <3>1. Continue(c, "verify") /\ "verify" \in Having \ {"backup"}
      BY <1>3, <2>2 DEF Success, Having, Requesting
    <3> QED
      BY <1>1, <2>2, <3>1, GoOnIInv
  <2>3. CASE pc[c] = "discard"
    <3>1. Continue(c, "ok")
      BY <1>3, <2>3 DEF Success
    <3> QED
      BY <1>1, <3>1, EndIInv DEF Result
  <2>4. CASE pc[c] = "aside"
    <3>1. Continue(c, "restore") /\ Named(new[c], Stage(c)) /\ "restore" \in Having \ {"backup"}
      BY <1>1, <1>3, <2>4, AchievedMeans DEF Success, Having, Requesting
    <3> QED
      BY <1>1, <2>4, <3>1, GoOnIInv
  <2>5. CASE pc[c] = "restore"
    <3>1. Continue(c, "confirm") /\ "confirm" \in Having \ {"backup"}
      BY <1>3, <2>5 DEF Success, Having, RollingBack
    <3> QED
      BY <1>1, <2>5, <3>1, GoOnIInv
  <2>6. CASE pc[c] = "drop"
    <3>1. Continue(c, "error")
      BY <1>3, <2>6 DEF Success
    <3> QED
      BY <1>1, <3>1, EndIInv DEF Result
  <2> QED
    BY <1>1, <2>1, <2>2, <2>3, <2>4, <2>5, <2>6 DEF Requesting
<1> QED
  BY <1>2, <1>3 DEF Check

(***************************************************************************)
(* verifyUpload has seen the new object at the target, or gives up.        *)
(***************************************************************************)
LEMMA VerifyIInv == ASSUME IInv, NEW c \in Client, Verify(c) PROVE IInv'
<1>1. /\ pc[c] = "verify" /\ UNCHANGED <<place, late, sent, path, old, new, tardy>>
      /\ pc[c] \in Having /\ "inspect" \in Having \ {"backup"} /\ "discard" \in Having \ {"backup"}
  BY DEF Verify, Having, RollingBack, Requesting
<1>2. sent' = [sent EXCEPT ![c] = FALSE]
  BY <1>1, Types DEF IInv, Sound, Begun, Requesting
<1>3. CASE place[new[c]] = path[c] /\ Goto(c, "discard")
  <2>1. Continue(c, "discard")
    BY <1>3 DEF Continue, Result
  <2> QED
    BY <1>1, <1>2, <1>3, <2>1, GoOnIInv
<1>4. CASE Goto(c, "inspect")
  <2>1. Continue(c, "inspect")
    BY <1>4 DEF Continue, Result
  <2> QED
    BY <1>1, <1>2, <2>1, GoOnIInv
<1> QED
  BY <1>3, <1>4 DEF Verify

(***************************************************************************)
(* rollbackUpdate: each listing decides about the next step.               *)
(***************************************************************************)
LEMMA RollbackIInv == ASSUME IInv, NEW c \in Client, Rollback(c) PROVE IInv'
<1>1. /\ pc[c] \in {"inspect", "inspectNew", "confirm", "confirmNew"}
      /\ UNCHANGED <<place, late, sent, path, old, new, tardy>>
      /\ pc[c] \in Having /\ pc[c] \in Locked
  BY DEF Rollback, Look, Having, RollingBack, Locked, Phase
<1>2. sent' = [sent EXCEPT ![c] = FALSE]
  BY <1>1, Types DEF IInv, Sound, Begun, Requesting
<1>3. \A r \in {"recovery", "error"} : Continue(c, r) => IInv'
  BY <1>1, <1>2, EndIInv DEF Result
<1>4. ~Return(c, "recovery") \/ IInv'
  BY <1>3 DEF Continue, Result
<1>5. {"inspectNew", "aside", "restore", "confirm", "confirmNew", "drop"} \subseteq Having \ {"backup"}
  BY DEF Having, RollingBack
<1>6. CASE Look(c, "inspect", AfterInspect(c))
  <2>1. /\ AfterInspect(c) \in {"confirm", "inspectNew", "recovery"} /\ pc[c] = "inspect"
        /\ Continue(c, AfterInspect(c)) \/ Return(c, "recovery")
    BY <1>6 DEF Look, AfterInspect
  <2>2. \A x \in {"confirm", "inspectNew"} : Continue(c, x) => IInv'
    BY <1>1, <1>2, <1>5, <2>1, GoOnIInv
  <2> QED
    BY <1>3, <1>4, <2>1, <2>2
<1>7. CASE Look(c, "inspectNew", AfterInspectNew(c))
  <2>1. /\ AfterInspectNew(c) \in {"restore", "aside", "recovery"} /\ pc[c] = "inspectNew"
        /\ Continue(c, AfterInspectNew(c)) \/ Return(c, "recovery")
    BY <1>7 DEF Look, AfterInspectNew
  <2>2. AfterInspectNew(c) = "aside" => ~Named(new[c], Stage(c))
    <3>1. AfterInspectNew(c) = "aside" => place[new[c]] = path[c]
      BY DEF AfterInspectNew
    <3>2. path[c].name \in Name
      BY <1>1, CallsHave
    <3> QED
      BY <3>1, <3>2, NamesAre DEF Named
  <2>3. Continue(c, "restore") => IInv'
    BY <1>1, <1>2, <1>5, <2>1, GoOnIInv
  <2>4. Continue(c, "aside") /\ AfterInspectNew(c) = "aside" => IInv'
    BY <1>1, <1>2, <1>5, <2>1, <2>2, GoOnIInv
  <2> QED
    BY <1>3, <1>4, <2>1, <2>3, <2>4
<1>8. CASE Look(c, "confirm", AfterConfirm(c))
  <2>1. /\ AfterConfirm(c) \in {"confirmNew", "recovery"} /\ pc[c] = "confirm"
        /\ Continue(c, AfterConfirm(c)) \/ Return(c, "recovery")
        /\ AfterConfirm(c) = "confirmNew" => place[old[c]] = path[c]
    BY <1>8 DEF Look, AfterConfirm
  <2>2. Continue(c, "confirmNew") /\ AfterConfirm(c) = "confirmNew" => IInv'
    BY <1>1, <1>2, <1>5, <2>1, GoOnIInv
  <2> QED
    BY <1>3, <1>4, <2>1, <2>2
<1>9. CASE Look(c, "confirmNew", AfterConfirmNew(c))
  <2>1. /\ AfterConfirmNew(c) \in {"error", "drop", "recovery"} /\ pc[c] = "confirmNew"
        /\ Continue(c, AfterConfirmNew(c)) \/ Return(c, "recovery")
    BY <1>9 DEF Look, AfterConfirmNew
  <2>2. Continue(c, "drop") => IInv'
    BY <1>1, <1>2, <1>5, <2>1, GoOnIInv
  <2> QED
    BY <1>3, <1>4, <2>1, <2>2
<1> QED
  BY <1>6, <1>7, <1>8, <1>9 DEF Rollback

(***************************************************************************)
(* The process dies: no call goes on, and late requests are still late.    *)
(***************************************************************************)
LEMMA CrashIInv == ASSUME IInv, Crash PROVE IInv'
<1>1. /\ UNCHANGED <<place, late, path, old, new, tardy>>
      /\ pc' = [c \in Client |-> IF Active(c) THEN "done" ELSE pc[c]]
      /\ result' = [c \in Client |-> IF Active(c) THEN "crashed" ELSE result[c]]
      /\ held' = [c \in Client |-> {}] /\ sent' = [c \in Client |-> FALSE]
  BY DEF Crash, Die
<1>2. TypeOK' /\ Locks!Exclusive'
  <2>1. /\ pc' \in [Client -> Phase] /\ result' \in [Client -> Result]
        /\ held' \in [Client -> SUBSET LockKey] /\ sent' \in [Client -> BOOLEAN]
    BY <1>1, Types DEF Phase, Result
  <2> QED
    BY <1>1, <2>1, KeysLost DEF IInv, TypeOK, ControlTypeOK
<1>3. \A c \in Client : pc'[c] \in {"idle", "done"} /\ (pc'[c] = "idle" => pc[c] = "idle")
                       /\ ~sent'[c] /\ held'[c] = {}
                       /\ (pc'[c] = "idle" => result'[c] = result[c])
  BY <1>1 DEF Active
<1>4. \A c \in Client : Decides(c)
  BY <1>1, <1>3 DEF Decides, Locked
<1>5. ASSUME NEW c \in Client PROVE Sound(c)'
  <2>0. /\ \A i, n : Named(i, n)' <=> Named(i, n)
        /\ \A op, n : Pending(op, n)' <=> Pending(op, n)
        /\ \A q : Versions(q)' \ {Nil} = Versions(q) \ {Nil}
    BY <1>1, SameDrive
  <2>1. (pc[c] = "idle" /\ pc'[c] = "idle") \/ pc'[c] = "done"
    BY <1>3
  <2>2. Begun(c)' /\ Holds(c)' /\ Uploaded(c)' /\ Confirmed(c)'
    <3>1. pc[c] # "idle" => path[c] \in UserPlace
      BY DEF IInv, Sound, Begun
    <3>2. pc'[c] = "done" => pc[c] # "idle"
      BY <1>1 DEF Active
    <3> QED
      BY <1>1, <1>3, <2>1, <3>1, <3>2 DEF IInv, Sound, Begun, Holds, Uploaded, Confirmed, Early, Having,
         Requesting, RollingBack, Locked
  <2>3. Known(c)' /\ Ordered(c)'
    BY <1>1, <1>3, <2>0, <2>1 DEF IInv, Sound, Known, Ordered, Early
  <2> QED
    BY <2>2, <2>3 DEF Sound
<1>6. Lasting' /\ Fits' /\ Filed' /\ Kept'
  <2>1. CASE Client = {}
    BY <1>1, <2>1 DEF Crash, Die
  <2>2. ASSUME NEW c \in Client PROVE Kept'
    BY <1>4, DecidingKeeps
  <2>3. Kept'
    BY <2>1, <2>2 DEF Crash, Die
  <2>4. /\ \A i : Visible(i)' <=> Visible(i)
        /\ \A q : Versions(q)' \ {Nil} = Versions(q) \ {Nil}
    BY <1>1, SameDrive
  <2>5. Lasting' /\ Fits' /\ Filed'
    BY <1>1, <2>4 DEF IInv, Lasting, Fits, Filed, Orders, Rename, Discard
  <2> QED
    BY <2>3, <2>5
<1> QED
  BY <1>2, <1>5, <1>6 DEF IInv

-----------------------------------------------------------------------------
(***************************************************************************)
(* An object stays out of danger if it is not trashed, nobody begins to    *)
(* throw it away, and it does not come under a name it may be thrown away  *)
(* by.                                                                     *)
(***************************************************************************)
LEMMA StaysSafe ==
    ASSUME NEW j \in Object, Safe(j), Visible(j)', UNCHANGED old,
           \A d \in Client : /\ pc'[d] = "discard" => pc[d] = "discard"
                             /\ pc'[d] = "drop" => pc[d] = "drop"
                             /\ new'[d] = j => new[d] = j,
           \A d \in Client : /\ Pending("trash", Backup(d))' => Pending("trash", Backup(d)) \/ pc[d] = "discard"
                             /\ Pending("trash", Stage(d))' => Pending("trash", Stage(d)) \/ pc[d] = "drop",
           \A d \in Client :
              /\ j = old[d] /\ Named(j, Backup(d))' =>
                    Named(j, Backup(d)) \/ (pc[d] # "discard" /\ ~Pending("trash", Backup(d)))
              /\ j = new[d] /\ Named(j, Stage(d))' =>
                    Named(j, Stage(d)) \/ (pc[d] # "drop" /\ ~Pending("trash", Stage(d)))
    PROVE  Safe(j)'
BY DEF Safe, DoomedBy

(***************************************************************************)
(* Then one version of each path stays safe, and what was confirmed is so. *)
(***************************************************************************)
LEMMA KeptStays ==
    ASSUME IInv, UNCHANGED <<old, path>>,
           \A j \in Object : Safe(j) => Safe(j)',
           \A p \in UserPlace : Versions(p) \ {Nil} \subseteq Versions(p)',
           \A d \in Client : pc'[d] \in Locked => pc[d] \in Locked,
           \A d \in Client : new'[d] = new[d] \/ (new'[d] \in Object /\ place[new'[d]] = Nowhere)
    PROVE  Kept'
<1> SUFFICES ASSUME NEW p \in UserPlace, \E i \in Object : Initially[i] = p
             PROVE  \E i \in Versions(p)' \ {Nil} : Keeper(i, p)'
  BY DEF Kept
<1>1. PICK w \in Versions(p) \ {Nil} : Keeper(w, p)
  BY DEF IInv, Kept
<1>2. w \in Object /\ Safe(w) /\ place[w] # Nowhere /\ w \in Versions(p)' \ {Nil}
  <2>1. \A i \in Versions(p) \ {Nil} : i \in Object /\ place[i] # Nowhere
    BY VersionsAreThere
  <2> QED
    BY <1>1, <2>1 DEF Keeper
<1>3. ASSUME NEW d \in Client, w = new'[d], pc'[d] \in Locked PROVE old'[d] \in Versions(p)'
  <2>1. w = new[d] /\ pc[d] \in Locked
    BY <1>2, <1>3
  <2>2. old[d] \in Versions(p)
    BY <1>1, <2>1 DEF Keeper
  <2>3. old[d] # Nil
    <3>1. new[d] # Nil
      BY <1>1, <2>1
    <3> QED
      BY <2>1, <3>1 DEF IInv, Sound, Begun, Locked, Phase, Having, Early
  <2> QED
    BY <2>2, <2>3
<1> QED
  BY <1>2, <1>3 DEF Keeper

\* An old object seen out of danger stays out of it.
LEMMA ConfirmedStays ==
    ASSUME IInv, NEW d \in Client, UNCHANGED <<old, path>>,
           \A j \in Object : Safe(j) => Safe(j)',
           pc'[d] \in {"confirmNew", "drop"} => pc'[d] = pc[d],
           old[d] # Nil /\ old[d] \in Versions(path[d])' => old[d] \in Versions(path[d])
    PROVE  Confirmed(d)'
<1> SUFFICES ASSUME pc[d] \in {"confirmNew", "drop"}, old[d] \in Versions(path[d])' PROVE Safe(old[d])'
  BY DEF Confirmed
<1>1. old[d] \in Object /\ old[d] # Nil
  BY Types DEF IInv, Sound, Begun, Having, RollingBack
<1>2. PICK j \in Object : j = old[d] /\ Safe(j)
  BY <1>1 DEF IInv, Sound, Confirmed
<1> QED
  BY <1>2

(***************************************************************************)
(* Which request a temporary name in it tells of.                          *)
(***************************************************************************)
LEMMA OrdersAre ==
    ASSUME IInv, NEW c \in Client, new[c] # Nil, NEW r \in Orders(c)
    PROVE  /\ r.op \in {"rename", "trash"} /\ r.name \in {Backup(c), Stage(c), path[c].name}
           /\ path[c] \in UserPlace /\ path[c].name \notin TempNames
           /\ r.op = "rename" /\ r.name = Backup(c) => r = Rename(old[c], Backup(c))
           /\ r.op = "trash" /\ r.name = Backup(c) => r = Discard(old[c], Backup(c))
           /\ r.op = "rename" /\ r.name = Stage(c) => r = Rename(new[c], Stage(c))
           /\ r.op = "trash" /\ r.name = Stage(c) => r = Discard(new[c], Stage(c))
           /\ r.op = "rename" /\ r.name = path[c].name =>
                 r \in {Rename(old[c], path[c].name), Rename(new[c], path[c].name)}
           /\ r.op = "trash" => r.name # path[c].name
<1>1. path[c] \in UserPlace /\ path[c].name \notin TempNames
  BY UserPlacesAre DEF IInv, Sound, Begun, Early
<1>2. path[c].name # Backup(c) /\ path[c].name # Stage(c) /\ Backup(c) # Stage(c)
  <2>1. Backup(c) \in TempNames /\ Stage(c) \in TempNames /\ Backup(c) # Stage(c)
    BY NamesAre
  <2> QED
    BY <1>1, <2>1
<1> QED
  BY <1>1, <1>2, Effects DEF Orders

\* Late requests for temporary names are for the two objects of their call.
LEMMA PendingIs ==
    ASSUME IInv, NEW c \in Client, NEW r \in late
    PROVE  /\ r.op = "rename" /\ r.name = Backup(c) => r = Rename(old[c], Backup(c))
           /\ r.op = "rename" /\ r.name = Stage(c) => r = Rename(new[c], Stage(c))
           /\ r.op = "trash" /\ r.name = Backup(c) => r = Discard(old[c], Backup(c))
           /\ r.op = "trash" /\ r.name = Stage(c) => r = Discard(new[c], Stage(c))
           /\ r.op \in {"rename", "trash"} /\ r.name \in {Backup(c), Stage(c)} => new[c] # Nil /\ old[c] # Nil
<1> SUFFICES ASSUME r.op \in {"rename", "trash"}, r.name \in {Backup(c), Stage(c)}
             PROVE  r \in Orders(c) /\ new[c] # Nil /\ old[c] # Nil
  BY OrdersAre, NamesAre
<1>1. PICK d \in Client : new[d] # Nil /\ old[d] # Nil /\ r \in Orders(d)
  BY DEF IInv, Filed
<1>2. /\ Backup(c) \in TempNames /\ Stage(c) \in TempNames
      /\ Backup(c) # Stage(d) /\ Backup(d) # Stage(c)
      /\ Backup(c) = Backup(d) \/ Stage(c) = Stage(d) => c = d
  BY NamesAre
<1>3. r.name \in {Backup(d), Stage(d), path[d].name} /\ path[d].name \notin TempNames
  BY <1>1, OrdersAre
<1>4. d = c
  BY <1>2, <1>3
<1> QED
  BY <1>1, <1>4

(***************************************************************************)
(* A rename to a temporary name comes before the object may be thrown away *)
(* under that name, and nobody asks to throw it away before.               *)
(***************************************************************************)
LEMMA InOrder ==
    ASSUME IInv, NEW c \in Client, new[c] # Nil, NEW r \in Orders(c),
           r \in late \/ (pc[c] \in Requesting /\ ~sent[c] /\ r = Request(c))
    PROVE  /\ r = Rename(old[c], Backup(c)) =>
                 pc[c] # "discard" /\ ~Pending("trash", Backup(c)) /\ (pc[c] = "backup" => sent[c] \/ r \notin late)
           /\ r = Rename(new[c], Stage(c)) => pc[c] # "drop" /\ ~Pending("trash", Stage(c))
           /\ r = Discard(old[c], Backup(c)) => pc[c] = "discard" \/ Pending("trash", Backup(c))
           /\ r = Discard(new[c], Stage(c)) => pc[c] = "drop" \/ Pending("trash", Stage(c))
<1>1. /\ r.op \in {"rename", "trash"} /\ path[c].name # Backup(c) /\ path[c].name # Stage(c)
      /\ Backup(c) # Stage(c)
  <2>1. Backup(c) \in TempNames /\ Stage(c) \in TempNames /\ Backup(c) # Stage(c)
    BY NamesAre
  <2>2. r.op \in {"rename", "trash"} /\ path[c].name \notin TempNames
    BY OrdersAre
  <2> QED
    BY <2>1, <2>2
<1>2. Ordered(c)
  BY DEF IInv, Sound
<1>3. CASE r \in late
  <2>1. Pending(r.op, r.name)
    BY <1>3 DEF Pending
  <2>2. /\ r = Rename(old[c], Backup(c)) => Pending("rename", Backup(c))
        /\ r = Rename(new[c], Stage(c)) => Pending("rename", Stage(c))
        /\ r = Discard(old[c], Backup(c)) => Pending("trash", Backup(c))
        /\ r = Discard(new[c], Stage(c)) => Pending("trash", Stage(c))
    BY <2>1, Effects
  <2>3. pc[c] = "drop" => ~Pending("rename", Stage(c))
    BY <1>2 DEF Ordered
  <2> QED
    BY <1>2, <2>2, <2>3 DEF Ordered
<1>4. CASE r \notin late /\ pc[c] \in Requesting /\ ~sent[c] /\ r = Request(c)
  <2>1. /\ r = Rename(old[c], Backup(c)) => pc[c] = "backup"
        /\ r = Rename(new[c], Stage(c)) => pc[c] = "aside"
        /\ r = Discard(old[c], Backup(c)) => pc[c] = "discard"
        /\ r = Discard(new[c], Stage(c)) => pc[c] = "drop"
    BY <1>1, <1>4, Effects DEF Request, Requesting, Backup, Stage
  <2>2. /\ pc[c] = "backup" => ~Pending("trash", Backup(c))
        /\ pc[c] = "aside" => ~Pending("trash", Stage(c))
    BY <1>2 DEF Ordered
  <2> QED
    BY <1>4, <2>1, <2>2
<1> QED
  BY <1>3, <1>4

(***************************************************************************)
(* What an order does, if anything: it puts one of the two objects of its  *)
(* call under the path or a temporary name, in its directory, or into the  *)
(* recycle bin when it is in danger.                                       *)
(***************************************************************************)
OrderMoves(c, r, i, q) ==
    /\ place' = [place EXCEPT ![i] = q] /\ Visible(i)
    /\ \/ q = Trash /\ DoomedBy(c, i)
       \/ /\ q \in Place /\ q.dir = place[i].dir
          /\ \/ q.name = path[c].name
             \/ i = old[c] /\ q.name = Backup(c) /\ r = Rename(old[c], Backup(c))
             \/ i = new[c] /\ q.name = Stage(c) /\ r = Rename(new[c], Stage(c))

\* A request of a call moves its old or its new object, to where the step says.
LEMMA OrderDoes ==
    ASSUME IInv, NEW c \in Client, new[c] # Nil, old[c] # Nil, NEW r \in Orders(c), Perform(r),
           r \in late \/ (pc[c] \in Requesting /\ ~sent[c] /\ r = Request(c))
    PROVE  UNCHANGED place \/ \E i \in {old[c], new[c]}, q \in Place \cup {Trash} : OrderMoves(c, r, i, q)
<1>1. path[c].name \in AnyName /\ Backup(c) \in AnyName /\ Stage(c) \in AnyName
  <2>1. path[c] \in UserPlace
    BY OrdersAre
  <2> QED
    BY <2>1, UserPlacesAre, NamesAre
<1>2. ASSUME NEW i \in {old[c], new[c]}, NEW n \in {path[c].name, Backup(c), Stage(c)}, r = Rename(i, n),
             \/ n = path[c].name
             \/ i = old[c] /\ n = Backup(c)
             \/ i = new[c] /\ n = Stage(c),
             place' # place
      PROVE  \E q \in Place \cup {Trash} : OrderMoves(c, r, i, q)
  <2>1. Visible(i) /\ place' = [place EXCEPT ![i] = PlaceOf(place[i].dir, n)]
    BY <1>2, Performed, Effects
  <2>2. PICK q \in Place : q = PlaceOf(place[i].dir, n) /\ q.dir = place[i].dir /\ q.name = n
    BY <1>1, <2>1, PlacesAre DEF Visible
  <2>3. OrderMoves(c, r, i, q)
    BY <1>2, <2>1, <2>2 DEF OrderMoves
  <2> QED
    BY <2>3
<1>3. ASSUME NEW i \in {old[c], new[c]}, NEW n \in {Backup(c), Stage(c)}, r = Discard(i, n),
             \/ i = old[c] /\ n = Backup(c)
             \/ i = new[c] /\ n = Stage(c),
             place' # place
      PROVE  \E q \in Place \cup {Trash} : OrderMoves(c, r, i, q)
  <2>1. Visible(i) /\ place[i].name = n /\ place' = [place EXCEPT ![i] = Trash]
    BY <1>3, Performed, Effects
  <2>2. DoomedBy(c, i)
    BY <1>3, <2>1, InOrder DEF DoomedBy, Named
  <2>3. OrderMoves(c, r, i, Trash)
    BY <2>1, <2>2 DEF OrderMoves
  <2> QED
    BY <2>3
<1> QED
  BY <1>2, <1>3 DEF Orders

(***************************************************************************)
(* A step with one order: it is carried out, or it becomes late, or it was *)
(* late and is dropped.                                                    *)
(***************************************************************************)
LEMMA OrderIInv ==
    ASSUME IInv, NEW c \in Client, new[c] # Nil, old[c] # Nil, NEW r \in Orders(c),
           UNCHANGED <<held, pc, path, old, new, result, tardy>>,
           \/ r \in late /\ late' = late \ {r} /\ UNCHANGED sent /\ Perform(r)
           \/ /\ pc[c] \in Requesting /\ ~sent[c] /\ r = Request(c)
              /\ sent' = [sent EXCEPT ![c] = TRUE]
              /\ \/ Perform(r) /\ UNCHANGED late
                 \/ UNCHANGED <<place, late>>
                 \/ tardy /\ late' = late \cup {r} /\ UNCHANGED place
    PROVE  IInv'
<1>0. /\ late' \subseteq late \cup {r}
      /\ old[c] \in Object /\ new[c] \in Object /\ old[c] # new[c]
      /\ r \in late \/ (pc[c] \in Requesting /\ ~sent[c] /\ r = Request(c))
      /\ r \in Orders(c)
  BY Types DEF IInv, Sound, Uploaded
<1>1. UNCHANGED place \/ (Perform(r) /\ \E i \in {old[c], new[c]}, q \in Place \cup {Trash} : OrderMoves(c, r, i, q))
  BY <1>0, OrderDoes
<1>2. /\ r = Rename(old[c], Backup(c)) => pc[c] # "discard" /\ ~Pending("trash", Backup(c))
      /\ r = Rename(new[c], Stage(c)) => pc[c] # "drop" /\ ~Pending("trash", Stage(c))
      /\ path[c].name \notin TempNames /\ path[c] \in UserPlace
  BY <1>0, InOrder, OrdersAre
<1>3. \A j \in Object : Visible(j)' => Visible(j)
  BY <1>0, <1>1, Types DEF OrderMoves, Visible, Places
<1>4. ASSUME NEW j \in Object, NEW d \in Client
      PROVE  /\ Named(j, Backup(d))' => \/ Named(j, Backup(d))
                                        \/ /\ Perform(r) /\ d = c /\ j = old[c]
                                           /\ r = Rename(old[c], Backup(c))
             /\ Named(j, Stage(d))' => \/ Named(j, Stage(d))
                                       \/ /\ Perform(r) /\ d = c /\ j = new[c]
                                          /\ r = Rename(new[c], Stage(c))
  <2>1. /\ Backup(d) # path[c].name /\ Stage(d) # path[c].name
        /\ Backup(d) # Stage(c) /\ Backup(c) # Stage(d)
        /\ Backup(d) = Backup(c) \/ Stage(d) = Stage(c) => d = c
    BY <1>2, NamesAre
  <2>2. CASE UNCHANGED place
    BY <2>2 DEF Named, Visible
  <2>3. ASSUME NEW i \in {old[c], new[c]}, NEW q \in Place \cup {Trash}, OrderMoves(c, r, i, q), Perform(r)
        PROVE  /\ Named(j, Backup(d))' => \/ Named(j, Backup(d))
                                          \/ /\ Perform(r) /\ d = c /\ j = old[c]
                                             /\ r = Rename(old[c], Backup(c))
               /\ Named(j, Stage(d))' => \/ Named(j, Stage(d))
                                         \/ /\ Perform(r) /\ d = c /\ j = new[c]
                                            /\ r = Rename(new[c], Stage(c))
    <3>1. place'[j] = IF j = i THEN q ELSE place[j]
      BY <2>3, Types DEF OrderMoves, Places
    <3>2. CASE j # i \/ q = Trash
      BY <3>1, <3>2, PlacesAre DEF Named, Visible
    <3>3. CASE j = i /\ q # Trash
      BY <2>1, <2>3, <3>1, <3>3 DEF OrderMoves, Named
    <3> QED
      BY <3>2, <3>3
  <2> QED
    BY <1>1, <2>2, <2>3
<1>5. ASSUME NEW d \in Client
      PROVE  /\ Pending("trash", Backup(d))' =>
                   Pending("trash", Backup(d)) \/ (d = c /\ pc[c] = "discard" /\ sent'[c])
             /\ Pending("trash", Stage(d))' =>
                   Pending("trash", Stage(d)) \/ (d = c /\ pc[c] = "drop" /\ sent'[c])
             /\ Pending("rename", Backup(d))' =>
                   Pending("rename", Backup(d)) \/ (d = c /\ pc[c] = "backup" /\ sent'[c] /\ UNCHANGED place)
             /\ Pending("rename", Stage(d))' =>
                   Pending("rename", Stage(d)) \/ (d = c /\ pc[c] = "aside" /\ sent'[c] /\ UNCHANGED place)
  <2>1. CASE late' \subseteq late
    BY <2>1 DEF Pending
  <2>2. CASE late' = late \cup {r} /\ UNCHANGED place /\ sent' = [sent EXCEPT ![c] = TRUE]
             /\ r = Request(c) /\ pc[c] \in Requesting
    <3>1. /\ Backup(d) # path[c].name /\ Stage(d) # path[c].name
          /\ Backup(d) # Stage(c) /\ Backup(c) # Stage(d)
          /\ Backup(d) = Backup(c) \/ Stage(d) = Stage(c) => d = c
      BY <1>2, NamesAre
    <3>2. /\ r.op = "rename" /\ r.name = Backup(d) => d = c /\ pc[c] = "backup"
          /\ r.op = "trash" /\ r.name = Backup(d) => d = c /\ pc[c] = "discard"
          /\ r.op = "rename" /\ r.name = Stage(d) => d = c /\ pc[c] = "aside"
          /\ r.op = "trash" /\ r.name = Stage(d) => d = c /\ pc[c] = "drop"
      BY <2>2, <3>1, Effects DEF Request, Requesting, Backup, Stage
    <3>3. sent'[c]
      BY <2>2, Types
    <3>4. \A op, n : Pending(op, n)' => Pending(op, n) \/ (r.op = op /\ r.name = n)
      BY <2>2 DEF Pending
    <3> QED
      BY <2>2, <3>2, <3>3, <3>4
  <2> QED
    BY <2>1, <2>2
<1>6. TypeOK'
  <2>1. place' \in Places
    BY <1>0, <1>1, Types DEF OrderMoves, Places
  <2>2. r \in [op : {"rename", "trash", "create"}, id : Object, name : AnyName, dir : Dir \cup {Nil}]
    <3>1. path[c].name \in AnyName /\ Backup(c) \in AnyName /\ Stage(c) \in AnyName
      BY <1>2, UserPlacesAre, NamesAre
    <3> QED
      BY <1>0, <3>1 DEF Orders, Rename, Discard
  <2>3. sent' \in [Client -> BOOLEAN] /\ (late' # {} => tardy)
    BY Types
  <2> QED
    BY <1>0, <2>1, <2>2, <2>3 DEF IInv, TypeOK, ControlTypeOK, Places
<1>7. ASSUME NEW j \in Object, Safe(j) PROVE Safe(j)'
  <2>1. Visible(j)'
    <3>1. CASE UNCHANGED place
      BY <1>7, <3>1 DEF Safe, Visible
    <3>2. ASSUME NEW i \in {old[c], new[c]}, NEW q \in Place \cup {Trash}, OrderMoves(c, r, i, q)
          PROVE  place'[j] \in Place
      <4>1. place'[j] = IF j = i THEN q ELSE place[j]
        BY <3>2, Types DEF OrderMoves, Places
      <4>2. j = i => q \in Place
        BY <1>7, <3>2 DEF OrderMoves, Safe
      <4> QED
        BY <1>7, <4>1, <4>2 DEF Safe, Visible
    <3> QED
      BY <1>1, <3>1, <3>2 DEF Visible
  <2> QED
    BY <1>2, <1>4, <1>5, <1>7, <2>1, StaysSafe
<1>8. \A p : Versions(p)' = Versions(p)
  BY DEF Versions
<1>9. Kept'
  BY <1>7, <1>8, KeptStays
<1>10. /\ \A j \in Object : place[j] # Nowhere => place'[j] # Nowhere
       /\ Lasting'
  <2>1. \A j \in Object : place[j] # Nowhere => place'[j] # Nowhere
    BY <1>0, <1>1, Types, PlacesAre, DriveAssumption DEF OrderMoves, Places
  <2> QED
    BY <2>1 DEF IInv, Lasting
<1>11. Fits'
  <2> SUFFICES ASSUME NEW p \in UserPlace, NEW j \in Versions(p) \ {Nil}, Visible(j)'
               PROVE  place'[j].dir = p.dir /\ place'[j].name \in {p.name} \cup TempNames
    BY <1>8 DEF Fits
  <2>1. j \in Object /\ Visible(j)
    BY <1>3, VersionsAreThere
  <2>2. place[j].dir = p.dir /\ place[j].name \in {p.name} \cup TempNames
    BY <2>1 DEF IInv, Fits
  <2>3. CASE UNCHANGED place
    BY <2>2, <2>3
  <2>4. ASSUME NEW i \in {old[c], new[c]}, NEW q \in Place \cup {Trash}, OrderMoves(c, r, i, q), j = i
        PROVE  place'[j].dir = p.dir /\ place'[j].name \in {p.name} \cup TempNames
    <3>1. p = path[c] /\ place'[j] = q
      BY <2>1, <2>4, VersionsAre, Types DEF OrderMoves, Places
    <3>2. q # Trash
      BY <3>1, PlacesAre DEF Visible
    <3> QED
      BY <2>2, <2>4, <3>1, <3>2, NamesAre DEF OrderMoves
  <2>5. ASSUME NEW i \in {old[c], new[c]}, NEW q \in Place \cup {Trash}, OrderMoves(c, r, i, q), j # i
        PROVE  place'[j] = place[j]
    BY <2>1, <2>5, Types DEF OrderMoves, Places
  <2> QED
    BY <1>1, <2>2, <2>3, <2>4, <2>5
<1>12. Filed'
  <2>1. \A d \in Client : Orders(d)' = Orders(d)
    BY DEF Orders, Rename, Discard
  <2> QED
    BY <1>0, <2>1 DEF IInv, Filed
<1>13. Locks!Exclusive'
  BY KeysKept DEF IInv
<1>14. ASSUME NEW d \in Client PROVE Begun(d)' /\ Holds(d)' /\ Uploaded(d)' /\ Known(d)' /\ Confirmed(d)'
  <2>1. sent'[d] => pc[d] \in Requesting
    BY <1>0, Types DEF IInv, Sound, Begun
  <2>2. Begun(d)' /\ Holds(d)'
    BY <2>1 DEF IInv, Sound, Begun, Holds, Keys
  <2>3. Uploaded(d)' /\ Known(d)'
    BY <1>8, <1>10, Types DEF IInv, Sound, Uploaded, Known
  <2>4. Confirmed(d)'
    BY <1>7, <1>8, ConfirmedStays
  <2> QED
    BY <2>2, <2>3, <2>4
<1>15. ASSUME NEW d \in Client, d # c PROVE Ordered(d)'
  <2>1. sent'[d] = sent[d] /\ pc'[d] = pc[d] /\ old'[d] = old[d] /\ new'[d] = new[d]
        /\ (old[d] # Nil => old[d] \in Object) /\ (new[d] # Nil => new[d] \in Object)
    BY <1>15, Types
  <2>2. \A j \in Object : (Named(j, Backup(d))' => Named(j, Backup(d))) /\ (Named(j, Stage(d))' => Named(j, Stage(d)))
    BY <1>4, <1>15
  <2>3. /\ Pending("trash", Backup(d))' => Pending("trash", Backup(d))
        /\ Pending("trash", Stage(d))' => Pending("trash", Stage(d))
        /\ Pending("rename", Backup(d))' => Pending("rename", Backup(d)) /\ old[d] # Nil
        /\ Pending("rename", Stage(d))' => Pending("rename", Stage(d)) /\ new[d] # Nil
    <3>1. /\ Pending("rename", Backup(d)) => old[d] # Nil
          /\ Pending("rename", Stage(d)) => new[d] # Nil
      BY PendingIs DEF Pending
    <3> QED
      BY <1>5, <1>15, <3>1
  <2>4. Ordered(d) /\ (pc[d] = "aside" => new[d] \in Object)
    BY <2>1 DEF IInv, Sound, Begun, Having, Requesting
  <2>5. /\ pc[d] = "aside" /\ ~sent[d] => ~Named(new[d], Stage(d))'
        /\ Pending("rename", Backup(d))' => ~Named(old[d], Backup(d))'
        /\ Pending("rename", Stage(d))' => ~Named(new[d], Stage(d))'
    <3>1. /\ \A j \in Object : old[d] = j => (Named(old[d], Backup(d))' => Named(old[d], Backup(d)))
          /\ \A j \in Object : new[d] = j => (Named(new[d], Stage(d))' => Named(new[d], Stage(d)))
      BY <2>1, <2>2 DEF Named, Visible
    <3> QED
      BY <2>1, <2>3, <2>4, <3>1 DEF Ordered
  <2> QED
    BY <2>1, <2>2, <2>3, <2>4, <2>5 DEF Ordered
<1>16. Ordered(c)'
  <2>1. Ordered(c) /\ pc[c] \notin Early /\ (sent[c] => sent'[c]) /\ UNCHANGED <<pc, old, new>>
    BY Types DEF IInv, Sound, Begun
  <2>2. /\ r \in late /\ r = Rename(old[c], Backup(c)) => Pending("rename", Backup(c))
        /\ r \in late /\ r = Rename(new[c], Stage(c)) => Pending("rename", Stage(c))
    BY Effects DEF Pending
  <2>3. CASE r \in late /\ late' = late \ {r} /\ UNCHANGED sent /\ Perform(r)
    <3>1. /\ Pending("rename", Backup(c))' => Pending("rename", Backup(c)) /\ r # Rename(old[c], Backup(c))
          /\ Pending("rename", Stage(c))' => Pending("rename", Stage(c)) /\ r # Rename(new[c], Stage(c))
          /\ Pending("trash", Backup(c))' => Pending("trash", Backup(c))
          /\ Pending("trash", Stage(c))' => Pending("trash", Stage(c))
      BY <2>3, PendingIs DEF Pending
    <3>2. pc[c] = "backup" /\ ~sent[c] => \A j \in Object : ~Named(j, Backup(c))'
      BY <1>4, <2>1, <2>2, <2>3 DEF Ordered
    <3>3. pc[c] = "aside" /\ ~sent[c] => ~Named(new[c], Stage(c))'
      BY <1>0, <1>4, <2>1, <2>2, <2>3 DEF Ordered
    <3>4. /\ Pending("rename", Backup(c))' => ~Named(old[c], Backup(c))'
          /\ Pending("rename", Stage(c))' => ~Named(new[c], Stage(c))'
      BY <1>0, <1>4, <2>1, <3>1 DEF Ordered
    <3> QED
      BY <2>1, <2>3, <3>1, <3>2, <3>3, <3>4 DEF Ordered
  <2>4. CASE pc[c] \in Requesting /\ ~sent[c] /\ r = Request(c) /\ sent' = [sent EXCEPT ![c] = TRUE]
    <3>1. sent'[c]
      BY <2>4, Types
    <3>2. /\ r = Rename(old[c], Backup(c)) => pc[c] = "backup"
          /\ r = Rename(new[c], Stage(c)) => pc[c] = "aside"
      <4>1. path[c].name # Backup(c) /\ path[c].name # Stage(c) /\ Backup(c) # Stage(c)
        BY <1>2, NamesAre
      <4> QED
        BY <2>4, <4>1, Effects DEF Request, Requesting, Backup, Stage
    <3>3. /\ Pending("rename", Backup(c))' => ~Named(old[c], Backup(c))'
          /\ Pending("rename", Stage(c))' => ~Named(new[c], Stage(c))'
      <4>1. ASSUME UNCHANGED place
            PROVE  /\ Named(old[c], Backup(c))' <=> Named(old[c], Backup(c))
                   /\ Named(new[c], Stage(c))' <=> Named(new[c], Stage(c))
        BY <4>1 DEF Named, Visible
      <4>2. /\ Pending("rename", Backup(c)) => ~Named(old[c], Backup(c)) /\ pc[c] # "backup"
            /\ Pending("rename", Stage(c)) => ~Named(new[c], Stage(c)) /\ pc[c] # "aside"
        BY <2>1, <2>4 DEF Ordered
      <4>3. /\ pc[c] = "backup" => ~Named(old[c], Backup(c))
            /\ pc[c] = "aside" => ~Named(new[c], Stage(c))
        BY <1>0, <2>1, <2>4 DEF Ordered
      <4>4. Pending("rename", Backup(c)) => ~Named(old[c], Backup(c))'
        BY <1>0, <1>4, <3>2, <4>2
      <4>5. Pending("rename", Stage(c)) => ~Named(new[c], Stage(c))'
        BY <1>0, <1>4, <3>2, <4>2
      <4>6. /\ Pending("rename", Backup(c))' => Pending("rename", Backup(c)) \/ (pc[c] = "backup" /\ UNCHANGED place)
            /\ Pending("rename", Stage(c))' => Pending("rename", Stage(c)) \/ (pc[c] = "aside" /\ UNCHANGED place)
        BY <1>5
      <4>7. CASE UNCHANGED place
        BY <4>1, <4>2, <4>3, <4>6, <4>7
      <4>8. CASE ~UNCHANGED place
        BY <4>4, <4>5, <4>6, <4>8
      <4> QED
        BY <4>7, <4>8
    <3> QED
      BY <1>5, <2>1, <2>4, <3>1, <3>3 DEF Ordered
  <2> QED
    BY <2>3, <2>4
<1> QED
  BY <1>6, <1>9, <1>10, <1>11, <1>12, <1>13, <1>14, <1>15, <1>16 DEF IInv, Sound

(***************************************************************************)
(* A request of a step, sent once.                                         *)
(***************************************************************************)
LEMMA SendIInv == ASSUME IInv, NEW c \in Client, Send(c) PROVE IInv'
<1>1. /\ pc[c] \in Requesting /\ ~sent[c] /\ Attempt(Request(c)) /\ (late' # late => tardy)
      /\ sent' = [sent EXCEPT ![c] = TRUE]
      /\ UNCHANGED <<held, pc, path, old, new, result, tardy>>
  BY DEF Send
<1>2. new[c] # Nil /\ old[c] # Nil
  BY <1>1 DEF IInv, Sound, Begun, Having
<1>3. PICK r \in Orders(c) : r = Request(c)
  BY <1>1 DEF Request, Requesting, Orders, Backup, Stage
<1>4. \/ Perform(r) /\ UNCHANGED late
      \/ UNCHANGED <<place, late>>
      \/ tardy /\ late' = late \cup {r} /\ UNCHANGED place
  BY <1>1, <1>3 DEF Attempt
<1> QED
  BY <1>1, <1>2, <1>3, <1>4, OrderIInv

-----------------------------------------------------------------------------
(***************************************************************************)
(* A new object appears, under the path or the staging name of a call when *)
(* it is one that uploadNew returns: no other object is concerned.         *)
(***************************************************************************)
LEMMA CreateIInv ==
    ASSUME IInv, NEW i \in Object, place[i] = Nowhere, NEW q \in Place,
           \A d \in Client : q.name # Backup(d),
           place' \in {place, [place EXCEPT ![i] = q]},
           \A r \in late' \ late : r.op = "create" /\ r.dir = q.dir /\ r.name = q.name,
           \A r \in late \ late' : r.op = "create",
           UNCHANGED <<old, path>>,
           \/ UNCHANGED new
           \/ \E c \in Client : /\ new[c] = Nil /\ new' = [new EXCEPT ![c] = i]
                                /\ place' = [place EXCEPT ![i] = q]
                                /\ path[c] \in UserPlace /\ q \in {path[c], StagePlace(c)},
           \A d \in Client :
              \/ UNCHANGED <<pc[d], sent[d]>>
              \/ pc[d] \in {"create", "upload"} /\ pc'[d] \in {"backup", "done"} /\ ~sent'[d]
    PROVE  Lasting' /\ Fits' /\ Filed' /\ Kept' /\ \A d \in Client :
              Uploaded(d)' /\ Known(d)' /\ Ordered(d)' /\ Confirmed(d)'
<1>1. /\ \A j \in Object \ {i} : place'[j] = place[j] /\ (Visible(j)' <=> Visible(j))
      /\ place'[i] = Nowhere \/ place'[i] = q
      /\ ~Visible(i) /\ Nowhere \notin Place
      /\ \A j \in Object : \A n : j # i => (Named(j, n)' <=> Named(j, n))
      /\ \A n : Named(i, n)' => n = q.name
  BY Types, PlacesAre DEF Places, Visible, Named
<1>2. \A op, n : op \in {"rename", "trash"} => (Pending(op, n)' <=> Pending(op, n))
  BY DEF Pending
<1>3. \A d \in Client : /\ old[d] # Nil => old[d] \in Object /\ old[d] # i
                        /\ new[d] # Nil => new[d] \in Object /\ new[d] # i /\ new'[d] = new[d]
                        /\ new'[d] # new[d] => new'[d] = i /\ new[d] = Nil
  BY Types DEF IInv, Sound, Known, Uploaded
<1>4. Initially[i] = Nowhere
  BY DEF IInv, Lasting
<1>5. \A p : /\ Versions(p) \ {Nil} \subseteq Versions(p)'
             /\ Versions(p)' \subseteq Versions(p) \cup {i}
  BY <1>3 DEF Versions
<1>6. Lasting'
  BY <1>1, <1>4 DEF IInv, Lasting
<1>7. Fits'
  <2> SUFFICES ASSUME NEW p \in UserPlace, NEW j \in Versions(p)' \ {Nil}, Visible(j)'
               PROVE  place'[j].dir = p.dir /\ place'[j].name \in {p.name} \cup TempNames
    BY DEF Fits
  <2>1. CASE j # i
    <3>1. j \in Versions(p) \ {Nil} /\ j \in Object
      BY <1>5, <2>1, VersionsAreThere
    <3> QED
      BY <1>1, <2>1, <3>1 DEF IInv, Fits
  <2>2. CASE j = i
    <3>1. PICK c \in Client : path[c] = p /\ new'[c] = i
      BY <1>4, <2>2, PlacesAre, UserPlacesAre DEF Versions
    <3>2. new'[c] # new[c] /\ place'[i] = q
      BY <1>1, <1>3, <2>2, <3>1 DEF Visible
    <3>3. q \in {path[c], StagePlace(c)}
      <4>1. PICK d \in Client : new' = [new EXCEPT ![d] = i] /\ q \in {path[d], StagePlace(d)}
        BY <3>2
      <4>2. d = c
        BY <3>2, <4>1, Types
      <4> QED
        BY <4>1, <4>2
    <3>4. StagePlace(c).dir = p.dir /\ StagePlace(c).name \in TempNames
      BY <3>1, NamesAre DEF StagePlace, PlaceOf, Stage
    <3> QED
      BY <2>2, <3>1, <3>2, <3>3, <3>4
  <2> QED
    BY <2>1, <2>2
<1>8. Filed'
  <2>1. \A d \in Client : new[d] # Nil => Orders(d)' = Orders(d) /\ new'[d] # Nil
    BY <1>3 DEF Orders, Rename, Discard
  <2> QED
    BY <2>1, PlacesAre DEF IInv, Filed, Backup
<1>9. \A d \in Client : /\ pc'[d] \in Locked => pc[d] \in Locked
                        /\ pc'[d] \in {"discard", "drop", "confirmNew", "aside"} => pc'[d] = pc[d]
                        /\ pc'[d] \in Early => pc'[d] = pc[d]
  BY DEF Locked, Phase, Early
<1>10. ASSUME NEW j \in Object, Safe(j) PROVE Safe(j)'
  <2>1. j # i /\ Visible(j)'
    BY <1>1, <1>10 DEF Safe
  <2>2. \A d \in Client : /\ new'[d] = j => new[d] = j
                          /\ Named(j, Backup(d))' => Named(j, Backup(d))
                          /\ Named(j, Stage(d))' => Named(j, Stage(d))
    BY <1>1, <1>3, <2>1 DEF Backup, Stage
  <2>3. \A d \in Client : /\ Pending("trash", Backup(d))' => Pending("trash", Backup(d))
                          /\ Pending("trash", Stage(d))' => Pending("trash", Stage(d))
    BY <1>2 DEF Backup, Stage
  <2> QED
    BY <1>9, <1>10, <2>1, <2>2, <2>3, StaysSafe
<1>11. Kept'
  <2>1. \A d \in Client : new'[d] = new[d] \/ (new'[d] \in Object /\ place[new'[d]] = Nowhere)
    BY <1>3
  <2> QED
    BY <1>5, <1>9, <1>10, <2>1, KeptStays
<1>12. ASSUME NEW d \in Client PROVE Uploaded(d)' /\ Known(d)' /\ Confirmed(d)'
  <2>1. Uploaded(d)'
    <3>1. CASE new'[d] = new[d]
      BY <1>1, <1>3, <3>1, PlacesAre DEF IInv, Sound, Uploaded
    <3>2. CASE new'[d] # new[d]
      <4>1. new'[d] = i /\ place'[i] = q
        BY <1>1, <1>3, <3>2, Types DEF Places
      <4>2. \A e \in Client \ {d} : new'[e] # i
        BY <1>3, <3>2, <4>1, Types, PlacesAre
      <4> QED
        BY <1>1, <1>3, <1>4, <4>1, <4>2, PlacesAre DEF Uploaded
    <3> QED
      BY <3>1, <3>2
  <2>2. Known(d)'
    BY <1>1, <1>3, <1>5 DEF IInv, Sound, Known
  <2>3. Confirmed(d)'
    BY <1>3, <1>5, <1>9, <1>10, ConfirmedStays
  <2> QED
    BY <2>1, <2>2, <2>3
<1>13. ASSUME NEW d \in Client PROVE Ordered(d)'
  <2>1. /\ \A j \in Object : Named(j, Backup(d))' => Named(j, Backup(d))
        /\ \A j \in Object : j # i => (Named(j, Stage(d))' => Named(j, Stage(d)))
    BY <1>1 DEF Backup, Stage
  <2>2. /\ Pending("rename", Backup(d))' => Pending("rename", Backup(d))
        /\ Pending("rename", Stage(d))' => Pending("rename", Stage(d))
        /\ Pending("trash", Backup(d))' => Pending("trash", Backup(d))
        /\ Pending("trash", Stage(d))' => Pending("trash", Stage(d))
    BY <1>2 DEF Backup, Stage
  <2>3. /\ Pending("rename", Backup(d)) => old[d] # Nil
        /\ Pending("rename", Stage(d)) => new[d] # Nil
        /\ pc[d] = "aside" => new[d] # Nil
    BY PendingIs DEF Pending, IInv, Sound, Begun, Having, Requesting
  <2>4. Ordered(d)
    BY DEF IInv, Sound
  <2>5. /\ Pending("rename", Backup(d)) => (Named(old[d], Backup(d))' => Named(old[d], Backup(d)))
        /\ Pending("rename", Stage(d)) \/ pc[d] = "aside" => (Named(new[d], Stage(d))' => Named(new[d], Stage(d)))
    <3>1. \A j \in Object : old[d] = j => (Named(old[d], Backup(d))' => Named(old[d], Backup(d)))
      BY <2>1 DEF Named, Visible
    <3>2. ASSUME new[d] # Nil PROVE Named(new[d], Stage(d))' => Named(new[d], Stage(d))
      <4>1. PICK j \in Object : j = new[d] /\ j = new'[d] /\ j # i
        BY <1>3, <3>2
      <4> QED
        BY <2>1, <4>1 DEF Named, Visible
    <3> QED
      BY <1>3, <2>3, <3>1, <3>2
  <2>6. CASE UNCHANGED <<pc[d], sent[d]>>
    BY <2>1, <2>2, <2>4, <2>5, <2>6 DEF Ordered
  <2>7. CASE pc[d] \in {"create", "upload"} /\ pc'[d] \in {"backup", "done"} /\ ~sent'[d]
    BY <2>1, <2>2, <2>4, <2>7 DEF Ordered, Early
  <2> QED
    BY <2>6, <2>7
<1> QED
  BY <1>6, <1>7, <1>8, <1>11, <1>12, <1>13

(***************************************************************************)
(* A late request, of a call that has another one by now or has returned.  *)
(***************************************************************************)
LEMMA TakeEffectIInv ==
    ASSUME IInv, NEW r \in late, TakeEffect(r),
           UNCHANGED <<held, pc, sent, path, old, new, result, tardy>>
    PROVE  IInv'
<1>1. Perform(r) /\ late' = late \ {r}
  BY DEF TakeEffect
<1>2. ASSUME NEW c \in Client, new[c] # Nil, old[c] # Nil, r \in Orders(c) PROVE IInv'
  BY <1>1, <1>2, OrderIInv
<1>3. ASSUME r.op = "create", r.dir \in Dir, \A c \in Client : r.name # Backup(c) PROVE IInv'
  <2>1. r.id \in Object /\ r.name \in AnyName
    BY DEF IInv, TypeOK
  <2>2. PICK q \in Place : q = PlaceOf(r.dir, r.name) /\ q.name = r.name
    BY <1>3, <2>1, PlacesAre
  <2>3. /\ place' \in {place, [place EXCEPT ![r.id] = q]}
        /\ place[r.id] # Nowhere => place' = place
    BY <1>1, <1>3, <2>2, Performed DEF Applicable, Destination
  <2>4. /\ Locks!Exclusive'
        /\ \A d \in Client : Begun(d)' /\ Holds(d)'
    BY KeysKept DEF IInv, Sound, Begun, Holds, Keys
  <2>5. TypeOK'
    BY <1>1, <2>1, <2>3, Types DEF IInv, TypeOK, ControlTypeOK, Places
  <2>6. CASE place[r.id] = Nowhere
    <3>1. Lasting' /\ Fits' /\ Filed' /\ Kept' /\ \A d \in Client :
             Uploaded(d)' /\ Known(d)' /\ Ordered(d)' /\ Confirmed(d)'
      BY <1>1, <1>3, <2>1, <2>2, <2>3, <2>6, CreateIInv
    <3> QED
      BY <2>4, <2>5, <3>1 DEF IInv, Sound
  <2>7. CASE place[r.id] # Nowhere
    <3>1. place' = place /\ \A op \in {"rename", "trash"} : \A n : Pending(op, n)' <=> Pending(op, n)
      BY <1>1, <1>3, <2>3, <2>7 DEF Pending
    <3>2. /\ \A i : Visible(i)' <=> Visible(i)
          /\ \A i, n : Named(i, n)' <=> Named(i, n)
          /\ \A p : Versions(p)' = Versions(p)
          /\ \A d : Orders(d)' = Orders(d)
      BY <3>1 DEF Visible, Named, Versions, Orders, Rename, Discard
    <3>3. \A j : Safe(j)' <=> Safe(j)
      BY <3>1, <3>2 DEF Safe, DoomedBy, Backup, Stage
    <3>4. Lasting' /\ Fits' /\ Filed' /\ Kept'
      BY <1>1, <3>1, <3>2, <3>3 DEF IInv, Lasting, Fits, Filed, Kept, Keeper, Backup
    <3>5. ASSUME NEW d \in Client PROVE Uploaded(d)' /\ Known(d)' /\ Ordered(d)' /\ Confirmed(d)'
      <4>1. Uploaded(d)' /\ Known(d)' /\ Confirmed(d)'
        BY <3>1, <3>2, <3>3 DEF IInv, Sound, Uploaded, Known, Confirmed, Safe
      <4>2. Ordered(d)'
        BY <3>1, <3>2 DEF IInv, Sound, Ordered, Backup, Stage
      <4> QED
        BY <4>1, <4>2
    <3> QED
      BY <2>4, <2>5, <3>4, <3>5 DEF IInv, Sound
  <2> QED
    BY <2>6, <2>7
<1> QED
  BY <1>2, <1>3 DEF IInv, Filed

(***************************************************************************)
(* uploadNew returns a new object or fails, perhaps leaving one behind.    *)
(***************************************************************************)
LEMMA FreshIs ==
    ASSUME NEW i \in FreshObjects
    PROVE  i \in Object /\ place[i] = Nowhere
<1>1. i \in Unused
  BY DEF FreshObjects
<1> QED
  BY <1>1 DEF Unused

\* The object i appears at q, at once or later or never, and call c goes on to
\* next with it or returns an error without it.
Uploads(c, i, q, step) ==
    /\ place[i] = Nowhere
    /\ step = "backup" => pc[c] = "upload"
    /\ step = "ok" => pc[c] = "create" /\ q = path[c]
    /\ step = "error" => UNCHANGED new
    /\ step # "error" => new' = [new EXCEPT ![c] = i] /\ place' = [place EXCEPT ![i] = q]
    /\ place' \in {place, [place EXCEPT ![i] = q]}
    /\ late' \in {late, late \cup {Create(i, q)}}
    /\ late' # late => tardy
    /\ pc' \in [Client -> Phase] /\ result' \in [Client -> Result] /\ held' \in Keyrings
    /\ pc'[c] = IF step = "backup" THEN "backup" ELSE "done"
    /\ result'[c] = IF step = "backup" THEN "none" ELSE step
    /\ held'[c] = IF step = "backup" THEN held[c] ELSE {}
    /\ \A d \in Client \ {c} : UNCHANGED <<pc[d], result[d], held[d]>>

\* uploadNew makes a new object at the place it was asked for, or none.
LEMMA UploadDoes ==
    ASSUME IInv, NEW c \in Client, NEW q, NEW next, Upload(c, q, next),
           \/ pc[c] = "create" /\ q = path[c] /\ next = "ok"
           \/ pc[c] = "upload" /\ q = StagePlace(c) /\ next = "backup"
    PROVE  /\ Locks!Exclusive' /\ UNCHANGED <<sent, path, old, tardy>>
           /\ path[c] \in UserPlace /\ q \in Place /\ q.dir \in Dir /\ q.name \in AnyName
           /\ q \in {path[c], StagePlace(c)} /\ q.dir = path[c].dir /\ q.name \in {path[c].name, Stage(c)}
           /\ \A d \in Client : q.name # Backup(d)
           /\ ~sent[c] /\ new[c] = Nil /\ result[c] = "none" /\ pc[c] \in Locked
           /\ pc[c] = "upload" => old[c] # Nil
           /\ \E i \in Object, step \in {"ok", "backup", "error"} : Uploads(c, i, q, step)
<1>1. PICK i \in FreshObjects :
        \/ /\ Perform(Create(i, q)) /\ UNCHANGED late
           /\ new' = [new EXCEPT ![c] = i]
           /\ Continue(c, next)
        \/ /\ Attempt(Create(i, q)) /\ (late' # late => tardy)
           /\ UNCHANGED new
           /\ Return(c, "error")
  BY DEF Upload
<1>2. UNCHANGED <<sent, path, old, tardy>>
  BY DEF Upload
<1>3. i \in Object /\ place[i] = Nowhere
  BY FreshIs
<1>4. /\ path[c] \in UserPlace /\ q \in Place /\ PlaceOf(q.dir, q.name) = q /\ q.dir \in Dir /\ q.name \in AnyName
      /\ \A d \in Client : q.name # Backup(d)
      /\ q.dir = path[c].dir /\ q.name \in {path[c].name, Stage(c)}
  <2>1. /\ path[c] \in UserPlace /\ path[c] \in Place /\ StagePlace(c) \in Place
        /\ path[c].name \in Name /\ StagePlace(c).name = Stage(c) /\ StagePlace(c).dir = path[c].dir
    BY CallsHave
  <2> QED
    BY <2>1, PlacesAre, NamesAre
<1>5. /\ ~sent[c] /\ new[c] = Nil /\ result[c] = "none" /\ pc[c] \in Locked
      /\ pc[c] = "upload" => old[c] # Nil
  BY DEF IInv, Sound, Begun, Early, Requesting, Locked, Phase
<1>6. PICK step \in {"ok", "backup", "error"} :
        /\ Continue(c, step)
        /\ step = "backup" => pc[c] = "upload"
        /\ step = "ok" => pc[c] = "create" /\ q = path[c]
        /\ step = "error" => UNCHANGED new
        /\ step # "error" => new' = [new EXCEPT ![c] = i] /\ place' = [place EXCEPT ![i] = q]
  <2>1. CASE Perform(Create(i, q)) /\ new' = [new EXCEPT ![c] = i] /\ Continue(c, next)
    <3>1. place' = [place EXCEPT ![i] = q]
      BY <1>3, <1>4, <2>1, Performed, Effects
    <3> QED
      BY <2>1, <3>1
  <2>2. CASE UNCHANGED new /\ Return(c, "error")
    BY <2>2 DEF Continue, Result
  <2> QED
    BY <1>1, <2>1, <2>2
<1>7. /\ place' \in {place, [place EXCEPT ![i] = q]}
      /\ late' \in {late, late \cup {Create(i, q)}} /\ (late' # late => tardy)
  <2>1. ASSUME Perform(Create(i, q)) PROVE place' \in {place, [place EXCEPT ![i] = q]}
    BY <1>4, <2>1, Performed, Effects
  <2> QED
    BY <1>1, <2>1 DEF Attempt
<1>8. /\ held' \in Keyrings /\ Locks!Exclusive'
      /\ step \in Result => /\ pc' = [pc EXCEPT ![c] = "done"]
                            /\ result' = [result EXCEPT ![c] = step]
                            /\ held' = [held EXCEPT ![c] = {}]
      /\ step \notin Result => /\ pc' = [pc EXCEPT ![c] = step]
                               /\ UNCHANGED <<result, held>>
  BY <1>6, Continued, Types DEF IInv
<1>9. /\ step = "backup" => step \notin Result
      /\ step # "backup" => step \in Result
  BY DEF Result
<1>10. /\ pc' \in [Client -> Phase] /\ result' \in [Client -> Result]
       /\ pc'[c] = IF step = "backup" THEN "backup" ELSE "done"
       /\ result'[c] = IF step = "backup" THEN "none" ELSE step
       /\ held'[c] = IF step = "backup" THEN held[c] ELSE {}
       /\ \A d \in Client \ {c} : UNCHANGED <<pc[d], result[d], held[d]>>
  BY <1>5, <1>8, <1>9, Types DEF Phase, Requesting, Result, Keyrings
<1>11. Uploads(c, i, q, step)
  BY <1>3, <1>6, <1>7, <1>8, <1>10 DEF Uploads
<1> QED
  BY <1>2, <1>3, <1>4, <1>5, <1>8, <1>11

\* uploadNew keeps the invariant, whatever it returns.
LEMMA UploadIInv ==
    ASSUME IInv, NEW c \in Client, NEW q, NEW next, Upload(c, q, next),
           \/ pc[c] = "create" /\ q = path[c] /\ next = "ok"
           \/ pc[c] = "upload" /\ q = StagePlace(c) /\ next = "backup"
    PROVE  IInv'
<1>1. /\ Locks!Exclusive' /\ UNCHANGED <<sent, path, old, tardy>>
      /\ path[c] \in UserPlace /\ q \in Place /\ q.dir \in Dir /\ q.name \in AnyName
      /\ q \in {path[c], StagePlace(c)} /\ \A d \in Client : q.name # Backup(d)
      /\ ~sent[c] /\ new[c] = Nil /\ result[c] = "none" /\ pc[c] \in Locked
      /\ pc[c] = "upload" => old[c] # Nil
  BY UploadDoes
<1>2. PICK i \in Object, step \in {"ok", "backup", "error"} : Uploads(c, i, q, step)
  BY UploadDoes
<1>3. /\ place[i] = Nowhere
      /\ step = "backup" => pc[c] = "upload"
      /\ step = "error" => UNCHANGED new
      /\ step # "error" => new' = [new EXCEPT ![c] = i] /\ place' = [place EXCEPT ![i] = q]
      /\ place' \in {place, [place EXCEPT ![i] = q]}
      /\ late' \in {late, late \cup {Create(i, q)}}
      /\ late' # late => tardy
  BY <1>2 DEF Uploads
<1>4. /\ pc' \in [Client -> Phase] /\ result' \in [Client -> Result] /\ held' \in Keyrings
      /\ pc'[c] = IF step = "backup" THEN "backup" ELSE "done"
      /\ result'[c] = IF step = "backup" THEN "none" ELSE step
      /\ held'[c] = IF step = "backup" THEN held[c] ELSE {}
      /\ \A d \in Client \ {c} : UNCHANGED <<pc[d], result[d], held[d]>>
  BY <1>2 DEF Uploads
<1>5. Lasting' /\ Fits' /\ Filed' /\ Kept' /\ \A d \in Client :
          Uploaded(d)' /\ Known(d)' /\ Ordered(d)' /\ Confirmed(d)'
  <2>1. /\ \A r \in late' \ late : r.op = "create" /\ r.dir = q.dir /\ r.name = q.name
        /\ \A r \in late \ late' : r.op = "create"
    BY <1>3 DEF Create
  <2>2. \/ UNCHANGED new
        \/ \E d \in Client : /\ new[d] = Nil /\ new' = [new EXCEPT ![d] = i]
                             /\ place' = [place EXCEPT ![i] = q]
                             /\ path[d] \in UserPlace /\ q \in {path[d], StagePlace(d)}
    BY <1>1, <1>3
  <2>3. \A d \in Client :
           \/ UNCHANGED <<pc[d], sent[d]>>
           \/ pc[d] \in {"create", "upload"} /\ pc'[d] \in {"backup", "done"} /\ ~sent'[d]
    BY <1>1, <1>4
  <2> QED
    BY <1>1, <1>3, <2>1, <2>2, <2>3, CreateIInv
<1>6. TypeOK'
  <2>1. Create(i, q) \in [op : {"rename", "trash", "create"}, id : Object, name : AnyName, dir : Dir \cup {Nil}]
    BY <1>1, <1>3 DEF Create
  <2>2. place' \in Places /\ new' \in [Client -> Object \cup {Nil}]
    BY <1>1, <1>3, Types DEF Places
  <2> QED
    BY <1>1, <1>3, <1>4, <2>1, <2>2 DEF IInv, TypeOK, ControlTypeOK, Keyrings, Places
<1>7. ASSUME NEW d \in Client PROVE Begun(d)' /\ Holds(d)'
  <2>1. CASE d # c
    <3>1. new'[d] = new[d] /\ UNCHANGED <<pc[d], sent[d], result[d], held[d], old[d], path[d]>>
      BY <1>1, <1>3, <1>4, <2>1, Types
    <3> QED
      BY <1>1, <2>1, <3>1 DEF IInv, Sound, Begun, Holds, Keys
  <2>2. CASE d = c
    <3>1. step = "backup" => new'[c] # Nil /\ old[c] # Nil
      BY <1>1, <1>3, PlacesAre, Types
    <3>2. Holds(c)
      BY DEF IInv, Sound
    <3>3. Holds(c)'
      BY <1>1, <1>4, <3>2 DEF Holds, Keys, Locked, Phase, Requesting
    <3>4. Begun(c)'
      <4>1. path'[c] \in UserPlace /\ ~sent'[c] /\ old'[c] = old[c]
        BY <1>1
      <4>2. CASE step = "backup"
        BY <1>4, <3>1, <4>1, <4>2 DEF Begun, Early, Having, Requesting, RollingBack
      <4>3. CASE step # "backup"
        BY <1>4, <4>1, <4>3 DEF Begun, Early, Having, Requesting, RollingBack
      <4> QED
        BY <4>2, <4>3
    <3> QED
      BY <2>2, <3>3, <3>4
  <2> QED
    BY <2>1, <2>2
<1> QED
  BY <1>1, <1>4, <1>5, <1>6, <1>7 DEF IInv, Sound

-----------------------------------------------------------------------------
(***************************************************************************)
(* The invariant is kept by every step, and by none.                       *)
(***************************************************************************)
LEMMA StutterIInv == ASSUME IInv, UNCHANGED vars PROVE IInv'
<1>1. /\ \A i : Visible(i)' <=> Visible(i)
      /\ \A i, n : Named(i, n)' <=> Named(i, n)
      /\ \A op, n : Pending(op, n)' <=> Pending(op, n)
      /\ \A p : Versions(p)' = Versions(p)
      /\ \A c : Orders(c)' = Orders(c)
      /\ UNCHANGED <<place, late, held, pc, sent, result, path, old, new, tardy>>
  BY DEF vars, control, Visible, Named, Pending, Versions, Orders, Rename, Discard
<1>2. \A j : Safe(j)' <=> Safe(j)
  BY <1>1 DEF Safe, DoomedBy, Backup, Stage
<1>3. TypeOK' /\ Locks!Exclusive' /\ Lasting'
  BY <1>1, KeysKept DEF IInv, TypeOK, ControlTypeOK, Lasting
<1>4. Fits' /\ Filed' /\ Kept'
  BY <1>1, <1>2 DEF IInv, Fits, Filed, Kept, Keeper, Backup
<1>5. ASSUME NEW c \in Client PROVE Sound(c)'
  <2>1. Begun(c)' /\ Holds(c)' /\ Uploaded(c)' /\ Known(c)' /\ Confirmed(c)'
    BY <1>1, <1>2 DEF IInv, Sound, Begun, Holds, Keys, Uploaded, Known, Confirmed, Safe
  <2>2. Ordered(c)'
    BY <1>1 DEF IInv, Sound, Ordered, Backup, Stage
  <2> QED
    BY <2>1, <2>2 DEF Sound
<1> QED
  BY <1>3, <1>4, <1>5 DEF IInv

(***************************************************************************)
(* Every state of any Puts and Updates, with late requests and crashes,    *)
(* satisfies IInv: it is inductive.                                        *)
(***************************************************************************)
THEOREM Inductive == Spec => []IInv
<1>1. ASSUME IInv, [Next]_vars PROVE IInv'
  <2>1. ASSUME NEW c \in Client, Begin(c) \/ Step(c) PROVE IInv'
    <3>1. ASSUME UploadTarget(c) PROVE IInv'
      BY <1>1, <3>1, UploadIInv DEF UploadTarget
    <3>2. ASSUME UploadStage(c) PROVE IInv'
      BY <1>1, <3>2, UploadIInv DEF UploadStage
    <3> QED
      BY <1>1, <2>1, <3>1, <3>2, BeginIInv, TakeLocksIInv, FindIInv, RefreshIInv, SendIInv, CheckIInv, VerifyIInv,
         RollbackIInv DEF Step
  <2>2. CASE Finished
    BY <1>1, <2>2, StutterIInv DEF Finished
  <2>3. CASE UNCHANGED vars
    BY <1>1, <2>3, StutterIInv
  <2> QED
    BY <1>1, <2>1, <2>2, <2>3, TakeEffectIInv, CrashIInv DEF Next
<1> QED
  BY <1>1, InitIInv, PTL DEF Spec

-----------------------------------------------------------------------------
(***************************************************************************)
(* TypeOK holds of every call of Put and Update.                           *)
(***************************************************************************)
THEOREM UpdateTyped == Spec => []TypeOK
<1>1. IInv => TypeOK
  BY DEF IInv
<1> QED
  BY <1>1, Inductive, PTL

(***************************************************************************)
(* A path that had content never loses all of it, whatever request is      *)
(* lost or late, whatever listing fails and whenever the process dies.     *)
(***************************************************************************)
THEOREM ContentIsKept == Spec => []ContentSurvives
<1>1. ASSUME IInv PROVE ContentSurvives
  <2> SUFFICES ASSUME NEW p \in Place, NEW i \in Object, Initially[i] = p
               PROVE  \E j \in Versions(p) \ {Nil} : Visible(j)
    BY DEF ContentSurvives
  <2>1. p \in UserPlace
    BY InitiallyAssumption, PlacesAre DEF UserPlace
  <2> QED
    BY <1>1, <2>1 DEF IInv, Kept, Keeper, Safe
<1> QED
  BY <1>1, Inductive, PTL

-----------------------------------------------------------------------------
(***************************************************************************)
(* The places a call uses are different ones.                              *)
(***************************************************************************)
LEMMA PlacesDiffer ==
    ASSUME IInv, NEW c \in Client, pc[c] # "idle"
    PROVE  /\ path[c] # StagePlace(c) /\ path[c] # BackupPlace(c) /\ BackupPlace(c) # StagePlace(c)
           /\ Trash \notin {path[c], StagePlace(c), BackupPlace(c)}
           /\ {path[c], StagePlace(c), BackupPlace(c)} \subseteq Place
           /\ \A i : place[i] = BackupPlace(c) => Named(i, Backup(c))
           /\ \A i : place[i] = StagePlace(c) => Named(i, Stage(c))
           /\ \A i : place[i] = path[c] => Visible(i) /\ ~Named(i, Backup(c)) /\ ~Named(i, Stage(c))
BY CallsHave, NamesAre, PlacesAre DEF Visible, Named

(***************************************************************************)
(* The two objects of a call under way are in its directory, or gone.      *)
(***************************************************************************)
LEMMA StandsThere ==
    ASSUME IInv, NEW c \in Client, Standing(c), pc[c] \in Having, NEW i \in {old[c], new[c]}
    PROVE  place[i] = Trash \/ (Visible(i) /\ place[i].dir = path[c].dir)
<1>1. pc[c] # "idle"
  BY DEF Having, Requesting, RollingBack
<1>2. place[i] \in {path[c], StagePlace(c), BackupPlace(c), Trash}
  BY DEF Standing, Having, Requesting, RollingBack, At, Staged, BackedUp, Swapped, Replaced, Undone
<1> QED
  BY <1>1, <1>2, CallsHave DEF Visible

(***************************************************************************)
(* Another call is not concerned by an object that moves in the directory  *)
(* of call c, or appears in it, under one of the names c uses.             *)
(***************************************************************************)
LEMMA Bystander ==
    ASSUME IInv, NEW c \in Client, pc[c] \in Locked, NEW d \in Client, d # c, Settled(d),
           NEW i \in Object, NEW q \in Place \cup {Trash},
           place' \in {place, [place EXCEPT ![i] = q]},
           place[i] = Nowhere \/ (Visible(i) /\ place[i].dir = path[c].dir),
           q # Trash => q.dir = path[c].dir /\ q.name \in {path[c].name, Backup(c), Stage(c)},
           UNCHANGED <<pc[d], sent[d], result[d], old[d], new[d], path[d]>>
    PROVE  Settled(d)'
<1>1. \A j \in Object : place'[j] = place[j] \/ (j = i /\ place'[j] = q)
  BY Types DEF Places
<1>2. /\ path[c].name \notin TempNames /\ Backup(c) \in TempNames /\ Stage(c) \in TempNames
      /\ Backup(d) \in TempNames /\ Stage(d) \in TempNames
      /\ Backup(c) # Stage(d) /\ Stage(c) # Backup(d) /\ Backup(c) # Backup(d) /\ Stage(c) # Stage(d)
  <2>1. path[c].name \in Name
    BY CallsHave DEF Locked
  <2> QED
    BY <2>1, NamesAre, DriveAssumption
<1>3. \A j \in Object : /\ Named(j, Backup(d))' => Named(j, Backup(d))
                        /\ Named(j, Stage(d))' => Named(j, Stage(d))
  BY <1>1, <1>2, PlacesAre DEF Named, Visible, Backup, Stage
<1>4. Veiled(d)' /\ Clean(d)'
  BY <1>3 DEF Settled, Veiled, Clean
<1>5. ASSUME pc[d] \in Having PROVE UNCHANGED <<At(d), StagePlace(d), BackupPlace(d)>>
  <2>1. pc[d] \in Locked /\ path[d].dir # path[c].dir
    BY <1>5, Apart DEF Having, Requesting, RollingBack, Locked, Phase
  <2>2. old[d] # i /\ new[d] # i
    <3>1. \A j \in {old[d], new[d]} : place[j] = Trash \/ (Visible(j) /\ place[j].dir = path[d].dir)
      BY <1>5, StandsThere DEF Settled
    <3> QED
      BY <2>1, <3>1, PlacesAre, DriveAssumption DEF Visible
  <2>3. old[d] \in Object /\ new[d] \in Object
    BY <1>5, Types DEF IInv, Sound, Begun
  <2> QED
    BY <1>1, <2>2, <2>3 DEF At, StagePlace, BackupPlace
<1>6. Standing(d)'
  <2>1. CASE pc[d] \in Having
    BY <1>5, <2>1 DEF Settled, Standing, Staged, BackedUp, Swapped, Replaced, Undone
  <2>2. CASE pc[d] \notin Having
    BY <2>2 DEF Standing, Having, Requesting, RollingBack
  <2> QED
    BY <2>1, <2>2
<1>7. ASSUME pc[d] \in Having \cup {"create", "upload"} PROVE ObjectsAt(path[d])' = ObjectsAt(path[d])
  <2>1. pc[d] \in Locked /\ path[d].dir # path[c].dir /\ path[d] \in Place
    BY <1>7, Apart, CallsHave DEF Having, Requesting, RollingBack, Locked, Phase
  <2>2. \A j \in Object : place'[j] = path[d] <=> place[j] = path[d]
    BY <1>1, <2>1, PlacesAre
  <2> QED
    BY <2>2 DEF ObjectsAt
<1>8. Alone(d)'
  BY <1>7 DEF Settled, Alone
<1> QED
  BY <1>4, <1>6, <1>8 DEF Settled

(***************************************************************************)
(* Nothing changes for a call when nothing moves.                          *)
(***************************************************************************)
LEMMA Onlooker ==
    ASSUME IInv, NEW d \in Client, Settled(d), UNCHANGED place,
           UNCHANGED <<pc[d], sent[d], result[d], old[d], new[d], path[d]>>
    PROVE  Settled(d)'
<1>1. /\ \A i, n : Named(i, n)' <=> Named(i, n)
      /\ UNCHANGED <<At(d), StagePlace(d), BackupPlace(d), ObjectsAt(path[d])>>
  BY DEF Named, Visible, At, StagePlace, BackupPlace, ObjectsAt
<1>2. Standing(d)'
  BY <1>1 DEF Settled, Standing, Staged, BackedUp, Swapped, Replaced, Undone
<1>3. Alone(d)' /\ Veiled(d)' /\ Clean(d)'
  BY <1>1 DEF Settled, Alone, Veiled, Clean, Backup, Stage
<1> QED
  BY <1>2, <1>3 DEF Settled

(***************************************************************************)
(* Where a step leaves the places of a call if it moves nothing.           *)
(***************************************************************************)
LEMMA SamePlaces ==
    ASSUME NEW c \in Client, UNCHANGED <<place, path, old, new>>
    PROVE  /\ Staged(c)' <=> Staged(c)
           /\ BackedUp(c)' <=> BackedUp(c)
           /\ Swapped(c)' <=> Swapped(c)
           /\ Replaced(c)' <=> Replaced(c)
           /\ Undone(c)' <=> Undone(c)
           /\ \A i, n : Named(i, n)' <=> Named(i, n)
           /\ ObjectsAt(path[c])' = ObjectsAt(path[c])
BY DEF At, Staged, BackedUp, Swapped, Replaced, Undone, StagePlace, BackupPlace, Named, Visible, ObjectsAt

\* What the property ReturnsTheTruth says of a step of call c.
Truth(c) ==
    pc[c] # "done" /\ pc'[c] = "done" =>
        /\ result'[c] = "ok" =>
            /\ ObjectsAt(path[c])' = {new'[c]}
            /\ old[c] # Nil => place'[old[c]] = Trash
        /\ result'[c] = "error" /\ (pc[c] = "upload" \/ new[c] # Nil) =>
            /\ ObjectsAt(path[c])' = {old[c]}
            /\ new[c] # Nil => place'[new[c]] = Trash

(***************************************************************************)
(* A step that moves nothing leaves all other calls as they are.           *)
(***************************************************************************)
LEMMA QuietPunctual ==
    ASSUME IInv, Punctual, ~tardy, NEW c \in Client, UNCHANGED <<place, new>>,
           \A d \in Client \ {c} : UNCHANGED <<pc[d], sent[d], result[d], old[d], path[d]>>,
           old'[c] = old[c] \/ pc[c] \in Early, pc'[c] \in Early => pc[c] \in Early,
           Standing(c)', Alone(c)', Clean(c)', Truth(c)
    PROVE  Punctual' /\ \A d \in Client : Truth(d)
<1>1. OneEach /\ \A d \in Client : Settled(d)
  BY DEF Punctual
<1>2. OneEach'
  BY <1>1 DEF OneEach, Visible
<1>3. ASSUME NEW d \in Client, d # c PROVE Settled(d)' /\ Truth(d)
  BY <1>1, <1>3, Onlooker DEF Truth
<1>4. Veiled(c)'
  <2>1. Veiled(c) /\ \A i, n : Named(i, n)' <=> Named(i, n)
    BY <1>1 DEF Settled, Named, Visible
  <2> QED
    BY <2>1 DEF Veiled, Backup, Stage
<1> QED
  BY <1>2, <1>3, <1>4 DEF Punctual, Settled

\* What going on and returning do to positions and results.
LEMMA Goes ==
    ASSUME IInv, NEW c \in Client, NEW next, Continue(c, next)
    PROVE  /\ next \in Result => pc'[c] = "done" /\ result'[c] = next
           /\ next \notin Result => (pc'[c] = next /\ result'[c] = result[c]) \/ next \notin Phase
           /\ \A d \in Client \ {c} : UNCHANGED <<pc[d], result[d]>>
BY Continued, Types DEF IInv

\* A step that goes on keeps the second layer if the pair of places fits the
\* next step.
LEMMA GoOnPunctual ==
    ASSUME IInv, Punctual, ~tardy, NEW c \in Client, pc[c] \in Having,
           NEW next \in (Having \ {"backup"}) \cup {"ok", "error", "recovery"}, Continue(c, next),
           sent' = [sent EXCEPT ![c] = FALSE],
           UNCHANGED <<place, late, path, old, new, tardy>>,
           next \in {"promote", "restore"} => BackedUp(c),
           next \in {"verify", "discard", "aside"} => Swapped(c),
           next = "inspect" => Staged(c) \/ BackedUp(c) \/ Swapped(c) \/ Replaced(c),
           next = "inspectNew" => BackedUp(c) \/ Swapped(c),
           next \in {"confirm", "confirmNew", "drop"} => Staged(c),
           next = "ok" => Replaced(c),
           next = "error" => Undone(c)
    PROVE  Punctual' /\ \A d \in Client : Truth(d)
<1>1. /\ next \in Having => next \notin Result /\ next \in Phase /\ next # "done" /\ next \notin {"create", "upload"}
      /\ next \notin Having => next \in Result
      /\ pc[c] # "idle" /\ pc[c] # "done" /\ pc[c] \notin Early /\ old[c] # Nil /\ new[c] # Nil
  BY DEF IInv, Sound, Begun, Having, Requesting, RollingBack, Phase, Result, Early
<1>2. /\ next \in Having => pc'[c] = next
      /\ next \notin Having => pc'[c] = "done" /\ result'[c] = next
      /\ \A d \in Client \ {c} : UNCHANGED <<pc[d], sent[d], result[d], old[d], path[d]>>
      /\ ~sent'[c]
  BY <1>1, Goes, Types
<1>3. Standing(c)'
  <2>1. CASE next \in Having
    BY <1>2, <2>1, SamePlaces DEF Standing
  <2>2. CASE next \notin Having
    BY <1>2, <2>2 DEF Standing
  <2> QED
    BY <2>1, <2>2
<1>4. ObjectsAt(path[c]) \subseteq {old[c], new[c]}
  BY DEF Punctual, Settled, Alone
<1>5. Alone(c)'
  BY <1>1, <1>2, <1>4, SamePlaces DEF Alone
<1>6. ASSUME pc'[c] = "done", result'[c] \in {"ok", "error"}
      PROVE  \/ result'[c] = "ok" /\ Replaced(c)
             \/ result'[c] = "error" /\ Undone(c)
  BY <1>1, <1>2, <1>6
<1>7. Clean(c)'
  <2> SUFFICES ASSUME pc'[c] = "done", result'[c] \in {"ok", "error"}, NEW i \in Object
               PROVE  ~Named(i, Backup(c)) /\ ~Named(i, Stage(c))
    <3>1. pc'[c] = "done" => result'[c] # "none"
      BY <1>1, <1>2
    <3> QED
      BY <3>1, SamePlaces DEF Clean, Backup, Stage
  <2>1. /\ Named(i, Backup(c)) => i = old[c]
        /\ Named(i, Stage(c)) => i = new[c]
    BY <1>1 DEF Punctual, Settled, Veiled
  <2>2. \A j \in {old[c], new[c]} : place[j] \in {path[c], Trash}
    BY <1>6 DEF Replaced, Undone, At
  <2>3. \A j \in {old[c], new[c]} : ~Named(j, Backup(c)) /\ ~Named(j, Stage(c))
    BY <1>1, <2>2, PlacesDiffer, PlacesAre DEF Named, Visible
  <2> QED
    BY <2>1, <2>3
<1>8. Truth(c)
  <2>1. ASSUME Replaced(c) PROVE ObjectsAt(path[c]) = {new[c]} /\ place[old[c]] = Trash
    BY <1>1, <1>4, <2>1, PlacesDiffer, Types DEF Replaced, At, ObjectsAt
  <2>2. ASSUME Undone(c) PROVE ObjectsAt(path[c]) = {old[c]} /\ place[new[c]] = Trash
    BY <1>1, <1>4, <2>2, PlacesDiffer, Types DEF Undone, At, ObjectsAt
  <2> QED
    BY <1>6, <2>1, <2>2, SamePlaces DEF Truth
<1>9. pc'[c] \notin Early
  BY <1>1, <1>2 DEF Having, Requesting, RollingBack, Early
<1> QED
  BY <1>1, <1>2, <1>3, <1>5, <1>7, <1>8, <1>9, QuietPunctual

(***************************************************************************)
(* Beginning, locking and looking for the old object.                      *)
(***************************************************************************)
LEMMA EarlyPunctual ==
    ASSUME IInv, Punctual, ~tardy, NEW c \in Client, Begin(c) \/ TakeLocks(c) \/ Find(c) \/ Refresh(c)
    PROVE  Punctual' /\ \A d \in Client : Truth(d)
<1>1. pc[c] \in Early /\ new[c] = Nil /\ pc[c] # "done" /\ UNCHANGED <<place, new>>
  BY DEF IInv, Sound, Begun, Begin, TakeLocks, Lock, Find, Refresh, Early
<1>2. /\ \A d \in Client \ {c} : UNCHANGED <<pc[d], result[d]>>
      /\ pc'[c] \in {"lock", "find", "refresh", "create", "upload", "done"}
      /\ pc'[c] = "done" => result'[c] = "error"
  <2>1. CASE Begin(c)
    BY <2>1, Types DEF Begin, Goto
  <2>2. CASE TakeLocks(c)
    BY <2>2, Types DEF TakeLocks, Lock
  <2>3. CASE Find(c) \/ Refresh(c)
    BY <2>3, Types DEF Find, Refresh, Goto, Return
  <2> QED
    BY <2>1, <2>2, <2>3
<1>3. /\ \A d \in Client \ {c} : UNCHANGED <<sent[d], old[d], path[d]>>
      /\ sent'[c] = sent[c]
  BY Types DEF Begin, TakeLocks, Lock, Find, Refresh
<1>4. Standing(c)' /\ Clean(c)' /\ Truth(c)
  <2>1. Standing(c)' /\ pc[c] # "upload"
    BY <1>1, <1>2 DEF Standing, Begin, TakeLocks, Lock, Find, Refresh
  <2>2. \A i \in Object : ~Named(i, Backup(c))'
    BY <1>1 DEF Punctual, Settled, Veiled, Named, Visible, Backup
  <2> QED
    BY <1>1, <1>2, <2>1, <2>2 DEF Clean, Truth, Backup
<1>5. Alone(c)'
  <2>1. pc'[c] \notin Having
    BY <1>2 DEF Having, Requesting, RollingBack
  <2>2. pc'[c] = "create" => ObjectsAt(path[c])' = {}
    <3>1. ASSUME pc'[c] = "create" PROVE Find(c) /\ ObjectsAt(path[c]) = {}
      BY <3>1, Types DEF Begin, TakeLocks, Lock, Find, Refresh, Goto, Return
    <3> QED
      BY <3>1 DEF Find, ObjectsAt
  <2>3. pc'[c] = "upload" => ObjectsAt(path[c])' = {old'[c]}
    <3> SUFFICES ASSUME pc'[c] = "upload" PROVE ObjectsAt(path[c])' = {old'[c]}
      OBVIOUS
    <3>1. Refresh(c) /\ place[old[c]] = path[c] /\ UNCHANGED <<path, old>>
      BY Types DEF Begin, TakeLocks, Lock, Find, Refresh, Goto, Return
    <3>2. old[c] \in Object /\ Visible(old[c]) /\ pc[c] = "refresh"
      <4>1. pc[c] = "refresh" /\ old[c] # Nil
        BY <3>1 DEF Refresh, IInv, Sound, Begun
      <4> QED
        BY <3>1, <4>1, Types, PlacesDiffer
    <3>3. OneEach
      BY DEF Punctual
    <3>4. \A j \in Object : place[j] = path[c] <=> j = old[c]
      BY <3>1, <3>2, <3>3 DEF OneEach
    <3> QED
      BY <1>1, <3>1, <3>2, <3>4 DEF ObjectsAt
  <2> QED
    BY <2>1, <2>2, <2>3 DEF Alone
<1> QED
  BY <1>1, <1>2, <1>3, <1>4, <1>5, QuietPunctual

(***************************************************************************)
(* Listings: each tells where the two objects are.                         *)
(***************************************************************************)
LEMMA StandsAt ==
    ASSUME IInv, Punctual, ~tardy, NEW c \in Client, pc[c] \in Having
    PROVE  /\ pc[c] \in Having /\ Standing(c)
           /\ Staged(c) => place[old[c]] = path[c] /\ place[new[c]] = StagePlace(c)
           /\ BackedUp(c) => place[old[c]] = BackupPlace(c) /\ place[new[c]] = StagePlace(c)
           /\ Swapped(c) => place[old[c]] = BackupPlace(c) /\ place[new[c]] = path[c]
           /\ Replaced(c) => place[old[c]] = Trash /\ place[new[c]] = path[c]
           /\ Undone(c) => place[old[c]] = path[c] /\ place[new[c]] = Trash
           /\ path[c] # StagePlace(c) /\ path[c] # BackupPlace(c) /\ BackupPlace(c) # StagePlace(c)
           /\ Trash \notin {path[c], StagePlace(c), BackupPlace(c)}
           /\ \A i : place[i] \in {path[c], StagePlace(c), BackupPlace(c)} => Visible(i)
<1>1. pc[c] # "idle"
  BY DEF Having, Requesting, RollingBack
<1> QED
  BY <1>1, PlacesDiffer DEF Punctual, Settled, Staged, BackedUp, Swapped, Replaced, Undone, At, Visible

\* The listing after a request keeps the second layer, and results tell the
\* truth.
LEMMA CheckPunctual ==
    ASSUME IInv, Punctual, ~tardy, NEW c \in Client, Check(c)
    PROVE  Punctual' /\ \A d \in Client : Truth(d)
<1>1. /\ pc[c] \in Requesting /\ UNCHANGED <<place, late, path, old, new, tardy>>
      /\ sent' = [sent EXCEPT ![c] = FALSE] /\ pc[c] \in Having
  BY DEF Check, Having
<1>2. CASE Continue(c, Failure(pc[c]))
  <2>1. CASE pc[c] \in RollingBack
    <3>1. Continue(c, "recovery") /\ "recovery" \notin Having
      BY <1>2, <2>1 DEF Failure, Having, Requesting, RollingBack
    <3> QED
      BY <1>1, <3>1, GoOnPunctual
  <2>2. CASE pc[c] \notin RollingBack
    <3>1. Continue(c, "inspect") /\ "inspect" \in Having \ {"backup"}
      BY <1>2, <2>2 DEF Failure, RollingBack, Having
    <3>2. Staged(c) \/ BackedUp(c) \/ Swapped(c) \/ Replaced(c)
      BY <1>1, <2>2, StandsAt DEF Standing, Requesting, RollingBack
    <3> QED
      BY <1>1, <3>1, <3>2, GoOnPunctual
  <2> QED
    BY <2>1, <2>2
<1>3. CASE Achieved(c, Request(c)) /\ Continue(c, Success(pc[c]))
  <2>0. /\ {"promote", "verify", "restore", "confirm"} \subseteq Having \ {"backup"}
        /\ {"ok", "error"} \cap Having = {}
    BY DEF Having, Requesting, RollingBack
  <2>1. CASE pc[c] = "backup"
    <3>1. Continue(c, "promote") /\ BackedUp(c)
      BY <1>1, <1>3, <2>1, AchievedMeans, StandsAt DEF Success, Standing
    <3> QED
      BY <1>1, <2>0, <3>1, GoOnPunctual
  <2>2. CASE pc[c] = "promote"
    <3>1. Continue(c, "verify") /\ Swapped(c)
      BY <1>1, <1>3, <2>2, AchievedMeans, StandsAt DEF Success, Standing
    <3> QED
      BY <1>1, <2>0, <3>1, GoOnPunctual
  <2>3. CASE pc[c] = "discard"
    <3>1. Continue(c, "ok") /\ Replaced(c)
      BY <1>1, <1>3, <2>3, AchievedMeans, StandsAt DEF Success, Standing
    <3> QED
      BY <1>1, <2>0, <3>1, GoOnPunctual
  <2>4. CASE pc[c] = "aside"
    <3>1. Continue(c, "restore") /\ BackedUp(c)
      BY <1>1, <1>3, <2>4, AchievedMeans, StandsAt DEF Success, Standing
    <3> QED
      BY <1>1, <2>0, <3>1, GoOnPunctual
  <2>5. CASE pc[c] = "restore"
    <3>1. Continue(c, "confirm") /\ Staged(c)
      BY <1>1, <1>3, <2>5, AchievedMeans, StandsAt DEF Success, Standing
    <3> QED
      BY <1>1, <2>0, <3>1, GoOnPunctual
  <2>6. CASE pc[c] = "drop"
    <3>1. Continue(c, "error") /\ Undone(c)
      BY <1>1, <1>3, <2>6, AchievedMeans, StandsAt DEF Success, Standing
    <3> QED
      BY <1>1, <2>0, <3>1, GoOnPunctual
  <2> QED
    BY <1>1, <2>1, <2>2, <2>3, <2>4, <2>5, <2>6 DEF Requesting
<1> QED
  BY <1>2, <1>3 DEF Check

\* The verification keeps the second layer, and results tell the truth.
LEMMA VerifyPunctual ==
    ASSUME IInv, Punctual, ~tardy, NEW c \in Client, Verify(c)
    PROVE  Punctual' /\ \A d \in Client : Truth(d)
<1>1. /\ pc[c] = "verify" /\ UNCHANGED <<place, late, sent, path, old, new, tardy>>
      /\ pc[c] \in Having /\ {"inspect", "discard"} \subseteq Having \ {"backup"}
  BY DEF Verify, Having, RollingBack, Requesting
<1>2. sent' = [sent EXCEPT ![c] = FALSE]
  BY <1>1, Types DEF IInv, Sound, Begun, Requesting
<1>3. Swapped(c)
  BY <1>1, StandsAt DEF Standing
<1>4. PICK next \in {"inspect", "discard"} : Continue(c, next)
  <2>1. Goto(c, "inspect") \/ Goto(c, "discard")
    BY DEF Verify
  <2> QED
    BY <2>1 DEF Continue, Result
<1> QED
  BY <1>1, <1>2, <1>3, <1>4, GoOnPunctual

\* The listings of rollbackUpdate keep the second layer, and results tell the
\* truth.
LEMMA RollbackPunctual ==
    ASSUME IInv, Punctual, ~tardy, NEW c \in Client, Rollback(c)
    PROVE  Punctual' /\ \A d \in Client : Truth(d)
<1>1. /\ pc[c] \in {"inspect", "inspectNew", "confirm", "confirmNew"}
      /\ UNCHANGED <<place, late, sent, path, old, new, tardy>>
      /\ pc[c] \in Having
  BY DEF Rollback, Look, Having, RollingBack
<1>2. sent' = [sent EXCEPT ![c] = FALSE]
  BY <1>1, Types DEF IInv, Sound, Begun, Requesting
<1>3. PICK next \in {AfterInspect(c), AfterInspectNew(c), AfterConfirm(c), AfterConfirmNew(c), "recovery"} :
        /\ Continue(c, next)
        /\ \/ next = "recovery"
           \/ pc[c] = "inspect" /\ next = AfterInspect(c)
           \/ pc[c] = "inspectNew" /\ next = AfterInspectNew(c)
           \/ pc[c] = "confirm" /\ next = AfterConfirm(c)
           \/ pc[c] = "confirmNew" /\ next = AfterConfirmNew(c)
  <2>1. Return(c, "recovery") => Continue(c, "recovery")
    BY DEF Continue, Result
  <2> QED
    BY <2>1 DEF Rollback, Look
<1>4. {"confirm", "inspectNew", "restore", "aside", "confirmNew", "drop"} \subseteq Having \ {"backup"}
      /\ "recovery" \notin Having
  BY DEF Having, Requesting, RollingBack
<1>5. CASE next = "recovery"
  BY <1>1, <1>2, <1>3, <1>4, <1>5, GoOnPunctual
<1>6. CASE pc[c] = "inspect" /\ next = AfterInspect(c) /\ next # "recovery"
  <2>1. \/ next = "confirm" /\ Staged(c)
        \/ next = "inspectNew" /\ (BackedUp(c) \/ Swapped(c))
    BY <1>1, <1>6, StandsAt DEF Standing, AfterInspect
  <2> QED
    BY <1>1, <1>2, <1>3, <1>4, <2>1, GoOnPunctual
<1>7. CASE pc[c] = "inspectNew" /\ next = AfterInspectNew(c) /\ next # "recovery"
  <2>1. \/ next = "restore" /\ BackedUp(c)
        \/ next = "aside" /\ Swapped(c)
    BY <1>1, <1>7, StandsAt DEF Standing, AfterInspectNew
  <2> QED
    BY <1>1, <1>2, <1>3, <1>4, <2>1, GoOnPunctual
<1>8. CASE pc[c] = "confirm" /\ next = AfterConfirm(c) /\ next # "recovery"
  <2>1. next = "confirmNew" /\ Staged(c)
    BY <1>1, <1>8, StandsAt DEF Standing, AfterConfirm
  <2> QED
    BY <1>1, <1>2, <1>3, <1>4, <2>1, GoOnPunctual
<1>9. CASE pc[c] = "confirmNew" /\ next = AfterConfirmNew(c) /\ next # "recovery"
  <2>1. next = "drop" /\ Staged(c)
    BY <1>1, <1>9, StandsAt DEF Standing, AfterConfirmNew
  <2> QED
    BY <1>1, <1>2, <1>3, <1>4, <2>1, GoOnPunctual
<1> QED
  BY <1>3, <1>5, <1>6, <1>7, <1>8, <1>9

\* So does a crash: a call that died has returned nothing.
LEMMA CrashPunctual ==
    ASSUME IInv, Punctual, ~tardy, Crash
    PROVE  Punctual' /\ \A d \in Client : Truth(d)
<1>1. /\ UNCHANGED <<place, late, path, old, new, tardy>>
      /\ \A c \in Client : /\ Active(c) => pc'[c] = "done" /\ result'[c] = "crashed"
                           /\ ~Active(c) => pc'[c] = pc[c] /\ result'[c] = result[c] /\ sent'[c] = sent[c]
  <2> SUFFICES ASSUME NEW c \in Client
               PROVE  /\ Active(c) => pc'[c] = "done" /\ result'[c] = "crashed"
                      /\ ~Active(c) => pc'[c] = pc[c] /\ result'[c] = result[c] /\ sent'[c] = sent[c]
    BY DEF Crash
  <2>1. ~Active(c) => ~sent[c]
    BY DEF Active, IInv, Sound, Begun, Requesting
  <2>2. ~Active(c) => sent'[c] = sent[c]
    BY <2>1, Types DEF Crash, Die
  <2> QED
    BY <2>2 DEF Crash, Die
<1>2. OneEach /\ \A d \in Client : Settled(d)
  BY DEF Punctual
<1>3. OneEach'
  BY <1>1, <1>2 DEF OneEach, Visible
<1>4. ASSUME NEW d \in Client PROVE Settled(d)' /\ Truth(d)
  <2>1. CASE ~Active(d)
    BY <1>1, <1>2, <2>1, Onlooker DEF Truth
  <2>2. CASE Active(d)
    <3>1. pc'[d] = "done" /\ result'[d] = "crashed" /\ pc'[d] \notin Early
      BY <1>1, <2>2 DEF Early
    <3>2. Veiled(d) /\ \A i, n : Named(i, n)' <=> Named(i, n)
      BY <1>1, <1>2, SamePlaces DEF Settled
    <3> QED
      BY <1>1, <3>1, <3>2 DEF Settled, Standing, Alone, Having, Requesting, RollingBack, Veiled, Clean,
         Truth, Backup, Stage
  <2> QED
    BY <2>1, <2>2
<1> QED
  BY <1>3, <1>4 DEF Punctual

(***************************************************************************)
(* A request moves one object from one of its places to the next one.      *)
(***************************************************************************)
Moves(c, i, q) ==
    /\ place' = [place EXCEPT ![i] = q]
    /\ \/ pc[c] = "backup" /\ Staged(c) /\ i = old[c] /\ q = BackupPlace(c)
       \/ pc[c] = "promote" /\ BackedUp(c) /\ i = new[c] /\ q = path[c]
       \/ pc[c] = "discard" /\ Swapped(c) /\ i = old[c] /\ q = Trash
       \/ pc[c] = "aside" /\ Swapped(c) /\ i = new[c] /\ q = StagePlace(c)
       \/ pc[c] = "restore" /\ BackedUp(c) /\ i = old[c] /\ q = path[c]
       \/ pc[c] = "drop" /\ Staged(c) /\ i = new[c] /\ q = Trash

\* A request moves one object of its call from one pair of places to the next.
LEMMA SendMoves ==
    ASSUME IInv, Punctual, ~tardy, NEW c \in Client, Send(c)
    PROVE  UNCHANGED place \/ \E i \in {old[c], new[c]}, q \in Place \cup {Trash} : Moves(c, i, q)
<1>1. /\ pc[c] \in Requesting /\ ~sent[c] /\ pc[c] \in Having /\ pc[c] # "idle"
      /\ UNCHANGED place \/ Perform(Request(c))
  BY DEF Send, Attempt, Having, Requesting
<1>2. /\ path[c].dir = BackupPlace(c).dir /\ path[c].dir = StagePlace(c).dir
      /\ PlaceOf(path[c].dir, Backup(c)) = BackupPlace(c)
      /\ PlaceOf(path[c].dir, Stage(c)) = StagePlace(c)
      /\ PlaceOf(path[c].dir, path[c].name) = path[c]
      /\ {path[c], BackupPlace(c), StagePlace(c)} \subseteq Place
  BY <1>1, CallsHave, PlacesAre DEF BackupPlace, StagePlace, Backup, Stage
<1>3. /\ pc[c] = "backup" => Staged(c)
      /\ pc[c] = "promote" => BackedUp(c)
      /\ pc[c] = "discard" => Swapped(c)
      /\ pc[c] = "aside" => Swapped(c)
      /\ pc[c] = "restore" => BackedUp(c)
      /\ pc[c] = "drop" => Staged(c)
  BY <1>1, StandsAt DEF Standing
<1>4. ASSUME NEW i \in {old[c], new[c]}, NEW n, Request(c) = Rename(i, n), place[i].dir = path[c].dir
      PROVE  UNCHANGED place \/ place' = [place EXCEPT ![i] = PlaceOf(path[c].dir, n)]
  BY <1>1, <1>4, Performed, Effects
<1>5. ASSUME NEW i \in {old[c], new[c]}, NEW n, Request(c) = Discard(i, n)
      PROVE  UNCHANGED place \/ place' = [place EXCEPT ![i] = Trash]
  BY <1>1, <1>5, Performed, Effects
<1>6. /\ Staged(c) => place[old[c]].dir = path[c].dir /\ place[new[c]].dir = path[c].dir
      /\ BackedUp(c) => place[old[c]].dir = path[c].dir /\ place[new[c]].dir = path[c].dir
      /\ Swapped(c) => place[old[c]].dir = path[c].dir /\ place[new[c]].dir = path[c].dir
  BY <1>1, <1>2, StandsAt
<1>7. CASE pc[c] = "backup"
  <2>1. Request(c) = Rename(old[c], Backup(c))
    BY <1>7 DEF Request, Backup
  <2>2. UNCHANGED place \/ Moves(c, old[c], BackupPlace(c))
    BY <1>2, <1>3, <1>4, <1>6, <1>7, <2>1 DEF Moves
  <2> QED
    BY <1>2, <2>2
<1>8. CASE pc[c] = "promote"
  <2>1. Request(c) = Rename(new[c], path[c].name)
    BY <1>8 DEF Request
  <2>2. UNCHANGED place \/ Moves(c, new[c], path[c])
    BY <1>2, <1>3, <1>4, <1>6, <1>8, <2>1 DEF Moves
  <2> QED
    BY <1>2, <2>2
<1>9. CASE pc[c] = "discard"
  <2>1. Request(c) = Discard(old[c], Backup(c))
    BY <1>9 DEF Request, Backup
  <2>2. UNCHANGED place \/ Moves(c, old[c], Trash)
    BY <1>3, <1>5, <1>9, <2>1 DEF Moves
  <2> QED
    BY <2>2
<1>10. CASE pc[c] = "aside"
  <2>1. Request(c) = Rename(new[c], Stage(c))
    BY <1>10 DEF Request, Stage
  <2>2. UNCHANGED place \/ Moves(c, new[c], StagePlace(c))
    BY <1>2, <1>3, <1>4, <1>6, <1>10, <2>1 DEF Moves
  <2> QED
    BY <1>2, <2>2
<1>11. CASE pc[c] = "restore"
  <2>1. Request(c) = Rename(old[c], path[c].name)
    BY <1>11 DEF Request
  <2>2. UNCHANGED place \/ Moves(c, old[c], path[c])
    BY <1>2, <1>3, <1>4, <1>6, <1>11, <2>1 DEF Moves
  <2> QED
    BY <1>2, <2>2
<1>12. CASE pc[c] = "drop"
  <2>1. Request(c) = Discard(new[c], Stage(c))
    BY <1>12 DEF Request, Stage
  <2>2. UNCHANGED place \/ Moves(c, new[c], Trash)
    BY <1>3, <1>5, <1>12, <2>1 DEF Moves
  <2> QED
    BY <2>2
<1> QED
  BY <1>1, <1>7, <1>8, <1>9, <1>10, <1>11, <1>12 DEF Requesting

\* A request keeps the second layer.
LEMMA SendPunctual ==
    ASSUME IInv, Punctual, ~tardy, NEW c \in Client, Send(c)
    PROVE  Punctual' /\ \A d \in Client : Truth(d)
<1>1. /\ pc[c] \in Requesting /\ ~sent[c] /\ sent' = [sent EXCEPT ![c] = TRUE]
      /\ UNCHANGED <<held, pc, path, old, new, result, tardy>>
      /\ pc[c] \in Having /\ pc[c] \in Locked /\ pc[c] \notin Early
      /\ pc[c] \notin {"idle", "done", "create", "upload"}
  BY DEF Send, Having, Requesting, Locked, Phase, Early
<1>2. OneEach /\ \A d \in Client : Settled(d)
  BY DEF Punctual
<1>3. /\ sent'[c] /\ \A d \in Client \ {c} : UNCHANGED <<pc[d], sent[d], result[d], old[d], new[d], path[d]>>
      /\ old[c] \in Object /\ new[c] \in Object /\ old[c] # new[c]
  BY <1>1, Types DEF IInv, Sound, Begun, Uploaded
<1>4. \A d \in Client : Truth(d)
  BY <1>1 DEF Truth
<1>5. CASE UNCHANGED place
  <2>1. Standing(c)' /\ Alone(c)' /\ Clean(c)'
    BY <1>1, <1>2, <1>3, <1>5, SamePlaces DEF Settled, Standing, Alone, Clean
  <2> QED
    BY <1>1, <1>3, <1>4, <1>5, <2>1, QuietPunctual
<1>6. ASSUME NEW i \in {old[c], new[c]}, NEW q \in Place \cup {Trash}, Moves(c, i, q) PROVE Punctual'
  <2>1. /\ place[old[c]] = path[c] \/ place[old[c]] = BackupPlace(c)
        /\ place[new[c]] = path[c] \/ place[new[c]] = StagePlace(c)
        /\ Visible(i) /\ place[i].dir = path[c].dir
    BY <1>1, <1>6, StandsAt, CallsHave DEF Moves
  <2>2. /\ \A j \in Object : place'[j] = IF j = i THEN q ELSE place[j]
        /\ place' = [place EXCEPT ![i] = q] /\ i \in Object
    BY <1>3, <1>6, Types DEF Moves, Places
  <2>3. /\ UNCHANGED <<path[c], StagePlace(c), BackupPlace(c)>>
        /\ q # Trash => q.dir = path[c].dir /\ q.name \in {path[c].name, Backup(c), Stage(c)}
        /\ q = Trash \/ q = path[c] \/ (q = BackupPlace(c) /\ i = old[c]) \/ (q = StagePlace(c) /\ i = new[c])
    BY <1>1, <1>6, CallsHave DEF Moves, StagePlace, BackupPlace
  <2>4. /\ ObjectsAt(path[c]) \subseteq {old[c], new[c]}
        /\ \A j \in Object : /\ Named(j, Backup(c)) => j = old[c]
                             /\ Named(j, Stage(c)) => j = new[c]
    BY <1>1, <1>2, <1>3, PlacesAre DEF Settled, Alone, Veiled
  <2>5. ASSUME NEW j \in Object, j # i PROVE place[j] # q \/ q = Trash
    <3>1. CASE q = path[c]
      <4>1. place[old[c]] # path[c] /\ place[new[c]] # path[c]
        BY <1>1, <1>6, <3>1, StandsAt DEF Moves
      <4> QED
        BY <2>4, <2>5, <3>1, <4>1 DEF ObjectsAt
    <3>2. CASE q # path[c] /\ q # Trash
      BY <1>1, <2>3, <2>4, <2>5, <3>2, PlacesDiffer
    <3> QED
      BY <3>1, <3>2
  <2>6. OneEach'
    <3> SUFFICES ASSUME NEW j \in Object, NEW k \in Object, j # k, place'[j] \in Place PROVE place'[j] # place'[k]
      BY DEF OneEach, Visible
    <3>1. \A l \in Object : l # i /\ place[l] \in Place => \A m \in Object : m # l => place[m] # place[l]
      BY <1>2 DEF OneEach, Visible
    <3>2. q = Trash => q \notin Place
      BY PlacesAre
    <3> QED
      BY <2>2, <2>5, <3>1, <3>2
  <2>7. \A d \in Client \ {c} : Settled(d)'
    BY <1>1, <1>2, <1>3, <2>1, <2>2, <2>3, Bystander
  <2>8. Standing(c)'
    <3>1. At(c)' = <<place'[old[c]], place'[new[c]]>> /\ sent'[c] /\ pc'[c] = pc[c]
      BY <1>1, <1>3 DEF At
    <3>2. /\ pc[c] \in {"backup", "aside"} => BackedUp(c)'
          /\ pc[c] = "promote" => Swapped(c)'
          /\ pc[c] = "discard" => Replaced(c)'
          /\ pc[c] = "restore" => Staged(c)'
          /\ pc[c] = "drop" => Undone(c)'
      BY <1>3, <1>6, <2>2, <2>3, <3>1 DEF Moves, At, Staged, BackedUp, Swapped, Replaced, Undone
    <3> QED
      BY <1>1, <3>1, <3>2 DEF Standing, Requesting
  <2>9. Alone(c)' /\ Clean(c)'
    BY <1>1, <2>2, <2>3, <2>4 DEF Alone, Clean, ObjectsAt
  <2>10. Veiled(c)'
    <3>1. \A j \in Object : j # i => /\ Named(j, Backup(c))' <=> Named(j, Backup(c))
                                     /\ Named(j, Stage(c))' <=> Named(j, Stage(c))
      BY <2>2 DEF Named, Visible, Backup, Stage
    <3>2. /\ Named(i, Backup(c))' => i = old[c]
          /\ Named(i, Stage(c))' => i = new[c]
      <4>1. /\ Named(i, Backup(c))' => q \in Place /\ q.name = Backup(c)
            /\ Named(i, Stage(c))' => q \in Place /\ q.name = Stage(c)
        BY <2>2 DEF Named, Visible, Backup, Stage
      <4>2. path[c].name # Backup(c) /\ path[c].name # Stage(c) /\ Backup(c) # Stage(c)
        BY <1>1, CallsHave, NamesAre
      <4> QED
        BY <1>1, <2>3, <4>1, <4>2, CallsHave, PlacesAre
    <3> QED
      BY <1>1, <2>4, <3>1, <3>2 DEF Veiled, Backup, Stage
  <2> QED
    BY <2>6, <2>7, <2>8, <2>9, <2>10 DEF Punctual, Settled
<1> QED
  BY <1>4, <1>5, <1>6, SendMoves

(***************************************************************************)
(* An upload appears where nothing was.                                    *)
(***************************************************************************)
LEMMA UploadPunctual ==
    ASSUME IInv, Punctual, ~tardy, NEW c \in Client, NEW q, NEW next, Upload(c, q, next),
           \/ pc[c] = "create" /\ q = path[c] /\ next = "ok"
           \/ pc[c] = "upload" /\ q = StagePlace(c) /\ next = "backup"
    PROVE  Punctual' /\ \A d \in Client : Truth(d)
<1>1. /\ UNCHANGED <<sent, path, old>> /\ q \in Place /\ q.dir = path[c].dir
      /\ q.name \in {path[c].name, Stage(c)} /\ q.name # Backup(c)
      /\ ~sent[c] /\ new[c] = Nil /\ pc[c] \in Locked /\ pc[c] \in Early
      /\ pc[c] = "upload" => old[c] # Nil
  BY UploadDoes DEF Early
<1>2. PICK i \in Object, step \in {"ok", "backup", "error"} : Uploads(c, i, q, step)
  BY UploadDoes
<1>3. /\ place[i] = Nowhere
      /\ step = "backup" => pc[c] = "upload"
      /\ step = "ok" => pc[c] = "create" /\ q = path[c]
      /\ step = "error" => UNCHANGED new
      /\ step # "error" => new' = [new EXCEPT ![c] = i] /\ place' = [place EXCEPT ![i] = q]
      /\ place' \in {place, [place EXCEPT ![i] = q]}
  BY <1>2 DEF Uploads
<1>4. /\ pc'[c] = IF step = "backup" THEN "backup" ELSE "done"
      /\ result'[c] = IF step = "backup" THEN "none" ELSE step
      /\ \A d \in Client \ {c} : UNCHANGED <<pc[d], result[d]>>
  BY <1>2 DEF Uploads
<1>5. /\ \A j \in Object : place'[j] = IF j = i THEN place'[i] ELSE place[j]
      /\ place'[i] = q \/ (place'[i] = Nowhere /\ step = "error")
      /\ new'[c] = IF step = "error" THEN Nil ELSE i
      /\ \A d \in Client \ {c} : new'[d] = new[d]
      /\ ~Visible(i) /\ i # Nil
  BY <1>1, <1>3, Types, PlacesAre DEF Places, Visible
<1>6. OneEach /\ \A d \in Client : Settled(d)
  BY DEF Punctual
<1>7. pc[c] # "idle" /\ (pc[c] = "create" \/ pc[c] = "upload")
  OBVIOUS
<1>8. \A j \in Object : ~Named(j, Backup(c)) /\ ~Named(j, Stage(c))
  BY <1>1, <1>6 DEF Settled, Veiled
<1>9. \A j \in Object : place[j] # q
  <2>1. CASE pc[c] = "create"
    BY <1>6, <2>1 DEF Settled, Alone, ObjectsAt
  <2>2. CASE pc[c] = "upload"
    BY <1>8, <2>2, PlacesDiffer
  <2> QED
    BY <1>7, <2>1, <2>2
<1>10. OneEach'
  <2> SUFFICES ASSUME NEW j \in Object, NEW k \in Object, j # k, place'[j] \in Place PROVE place'[j] # place'[k]
    BY DEF OneEach, Visible
  <2>1. Nowhere \notin Place /\ \A l, m \in Object : l # m /\ place[l] \in Place => place[m] # place[l]
    BY <1>6, PlacesAre DEF OneEach, Visible
  <2> QED
    BY <1>5, <1>9, <2>1
<1>11. ASSUME NEW d \in Client, d # c PROVE Settled(d)' /\ Truth(d)
  <2>1. UNCHANGED <<pc[d], sent[d], result[d], old[d], new[d], path[d]>>
    BY <1>1, <1>4, <1>5, <1>11
  <2>2. q \in Place \cup {Trash} /\ q.name \in {path[c].name, Backup(c), Stage(c)}
    BY <1>1
  <2>3. Settled(d)'
    BY <1>1, <1>3, <1>6, <1>11, <2>1, <2>2, Bystander
  <2> QED
    BY <2>1, <2>3 DEF Truth
<1>12. /\ UNCHANGED <<path[c], StagePlace(c), BackupPlace(c)>>
       /\ \A j \in Object : ~Named(j, Backup(c))'
       /\ \A j \in Object : Named(j, Stage(c))' => j = i /\ q.name = Stage(c)
  <2>1. \A j \in Object : \A n : Named(j, n)' => Named(j, n) \/ (j = i /\ q.name = n)
    BY <1>5, PlacesAre DEF Named, Visible
  <2> QED
    BY <1>1, <1>8, <2>1 DEF StagePlace, BackupPlace, Backup, Stage
<1>13. Veiled(c)'
  <2>1. pc'[c] \notin Early /\ new'[c] \in {i, Nil}
    BY <1>4, <1>5 DEF Early
  <2> QED
    BY <1>12, <2>1 DEF Veiled, Backup, Stage
<1>14. CASE step = "backup"
  <2>1. /\ pc'[c] = "backup" /\ ~sent'[c] /\ pc[c] = "upload" /\ old[c] \in Object /\ old'[c] = old[c]
        /\ ObjectsAt(path[c]) = {old[c]} /\ q = StagePlace(c)
    BY <1>1, <1>3, <1>4, <1>6, <1>14, Types DEF Settled, Alone
  <2>2. place[old[c]] = path[c] /\ old[c] # i
    BY <1>7, <1>5, <2>1, PlacesDiffer DEF ObjectsAt
  <2>3. Standing(c)'
    BY <1>5, <1>12, <1>14, <2>1, <2>2 DEF Standing, Staged, At
  <2>4. ObjectsAt(path[c])' = {old[c]}
    BY <1>5, <1>7, <1>12, <1>14, <2>1, PlacesDiffer DEF ObjectsAt
  <2>5. Alone(c)' /\ Clean(c)' /\ Truth(c)
    BY <2>1, <2>4 DEF Alone, Clean, Truth
  <2> QED
    BY <1>10, <1>11, <1>13, <2>3, <2>5 DEF Punctual, Settled
<1>15. CASE step # "backup"
  <2>1. pc'[c] = "done" /\ result'[c] = step
    BY <1>4, <1>15
  <2>2. Standing(c)' /\ Alone(c)'
    BY <2>1 DEF Standing, Alone, Having, Requesting, RollingBack
  <2>3. Clean(c)'
    <3>1. step = "ok" => q.name # Stage(c)
      BY <1>3, <1>7, CallsHave, NamesAre
    <3> QED
      BY <1>1, <1>5, <1>12, <1>15, <2>1, <3>1 DEF Clean, Backup, Stage
  <2>4. Truth(c)
    <3>1. CASE step = "error"
      <4>1. ASSUME pc[c] = "upload" PROVE ObjectsAt(path[c])' = {old[c]}
        <5>1. ObjectsAt(path[c]) = {old[c]} /\ q = StagePlace(c) /\ q # path[c] /\ path[c] \in Place
          BY <1>1, <1>6, <1>7, <4>1, PlacesDiffer, CallsHave DEF Settled, Alone
        <5>2. \A j \in Object : place'[j] = path[c] <=> place[j] = path[c]
          BY <1>3, <1>5, <5>1, PlacesAre
        <5> QED
          BY <1>12, <5>1, <5>2 DEF ObjectsAt
      <4> QED
        BY <1>1, <2>1, <3>1, <4>1 DEF Truth
    <3>2. CASE step = "ok"
      <4>1. old[c] = Nil
        BY <1>3, <3>2 DEF IInv, Sound, Begun
      <4>2. ObjectsAt(path[c])' = {i}
        BY <1>3, <1>5, <1>9, <1>12, <3>2 DEF ObjectsAt
      <4> QED
        BY <1>5, <2>1, <3>2, <4>1, <4>2 DEF Truth
    <3> QED
      BY <1>15, <3>1, <3>2
  <2> QED
    BY <1>10, <1>11, <1>13, <2>2, <2>3, <2>4 DEF Punctual, Settled
<1> QED
  BY <1>14, <1>15

-----------------------------------------------------------------------------
(***************************************************************************)
(* The second invariant is kept as well, and each step tells the truth.    *)
(***************************************************************************)
LEMMA InitPunctual == ASSUME Init PROVE Punctual
<1>1. IInv
  BY InitIInv
<1>2. /\ \A c \in Client : pc[c] = "idle" /\ old[c] = Nil /\ new[c] = Nil
      /\ \A i \in Object : place[i] = Initially[i]
      /\ \A i, j \in Object : i # j /\ Initially[i] # Nowhere => Initially[i] # Initially[j]
      /\ \A i \in Object : Initially[i] \in UserPlace \cup {Nowhere}
      /\ Nowhere \notin Place
  BY InitiallyAssumption, PlacesAre DEF Init, ControlInit, UserPlace
<1>3. OneEach
  BY <1>2 DEF OneEach, Visible
<1>4. ASSUME NEW c \in Client PROVE Settled(c)
  <2>1. \A i \in Object : ~Named(i, Backup(c)) /\ ~Named(i, Stage(c))
    BY <1>2, UserPlacesAre, NamesAre DEF Named, Visible
  <2> QED
    BY <1>2, <2>1 DEF Settled, Standing, Alone, Veiled, Clean, Having, Requesting, RollingBack
<1> QED
  BY <1>3, <1>4 DEF Punctual

\* Every step of a call keeps the second layer.
LEMMA StepPunctual ==
    ASSUME IInv, Punctual, ~tardy, NEW c \in Client, Begin(c) \/ Step(c)
    PROVE  Punctual' /\ \A d \in Client : Truth(d)
<1>1. ASSUME UploadTarget(c) PROVE Punctual' /\ \A d \in Client : Truth(d)
  BY <1>1, UploadPunctual DEF UploadTarget
<1>2. ASSUME UploadStage(c) PROVE Punctual' /\ \A d \in Client : Truth(d)
  BY <1>2, UploadPunctual DEF UploadStage
<1> QED
  BY <1>1, <1>2, EarlyPunctual, SendPunctual, CheckPunctual, VerifyPunctual, RollbackPunctual DEF Step

\* Every step keeps it; late requests make it hold by themselves.
LEMMA NextPunctual ==
    ASSUME IInv, Punctual, [Next]_vars
    PROVE  Punctual' /\ (~tardy => \A d \in Client : Truth(d))
<1>1. tardy' = tardy
  BY DEF Next, Begin, Step, TakeLocks, Find, Refresh, UploadTarget, UploadStage, Upload, Send, Check, Verify,
         Rollback, Look, Crash, Finished, vars
<1>2. CASE tardy
  BY <1>1, <1>2 DEF Punctual
<1>3. CASE ~tardy
  <2>1. late = {}
    BY <1>3, Types
  <2>2. ASSUME UNCHANGED vars PROVE Punctual' /\ \A d \in Client : Truth(d)
    <3>1. \A d \in Client : Settled(d)' /\ Truth(d)
      BY <1>3, <2>2, Onlooker DEF Punctual, vars, control, Truth
    <3>2. OneEach'
      BY <1>3, <2>2 DEF Punctual, OneEach, Visible, vars
    <3> QED
      BY <3>1, <3>2 DEF Punctual
  <2> QED
    BY <1>3, <2>1, <2>2, StepPunctual, CrashPunctual DEF Next, Finished
<1> QED
  BY <1>2, <1>3

(***************************************************************************)
(* As long as no request has taken effect late, every object is where the  *)
(* position of its call says, and every path has one object: the second    *)
(* layer of the invariant, inductive given the first.                      *)
(***************************************************************************)
THEOREM PunctualInductive == Spec => [](IInv /\ Punctual)
<1>1. Init => Punctual
  BY InitPunctual
<1>2. IInv /\ Punctual /\ [Next]_vars => Punctual'
  BY NextPunctual
<1> QED
  BY <1>1, <1>2, Inductive, PTL DEF Spec

(***************************************************************************)
(* No two visible objects have one path, unless requests are late.         *)
(***************************************************************************)
THEOREM PathsStayUnique == Spec => []UniquePaths
<1>1. Punctual => UniquePaths
  BY DEF Punctual, OneEach, UniquePaths
<1> QED
  BY <1>1, PunctualInductive, PTL

(***************************************************************************)
(* Whatever is under the backup name of a call that has returned, and,     *)
(* when its upload was verified, under its staging name, the call reported *)
(* with a RecoveryError, or it was killed.  An upload that was never       *)
(* verified may stay under the staging name with a plain error.            *)
(***************************************************************************)
THEOREM ResidueIsAnnounced == Spec => []ResidueIsReported
<1>1. ASSUME IInv, Punctual PROVE ResidueIsReported
  <2> SUFFICES ASSUME NEW c \in Client, ~tardy, pc[c] = "done", NEW i \in Object,
                      place[i] = BackupPlace(c) \/ (place[i] = StagePlace(c) /\ new[c] # Nil),
                      result[c] \notin {"recovery", "crashed"}
               PROVE  FALSE
    BY DEF ResidueIsReported
  <2>1. Named(i, Backup(c)) \/ (Named(i, Stage(c)) /\ new[c] # Nil)
    BY <1>1, Types, PlacesDiffer
  <2>2. result[c] \notin {"ok", "error"}
    BY <1>1, <2>1 DEF Punctual, Settled, Clean
  <2>3. result[c] \in Result /\ result[c] # "none"
    BY <1>1, Types DEF Punctual, Settled, Clean
  <2> QED
    BY <2>2, <2>3 DEF Result
<1> QED
  BY <1>1, PunctualInductive, PTL

(***************************************************************************)
(* A call that returns success has its new object alone at the path and    *)
(* the old one in the recycle bin.  One that returns a plain error from    *)
(* the upload of a replacement or later has the old object alone at the    *)
(* path, and a replacement that was verified in the recycle bin.  Nothing  *)
(* is said of the failed upload of a first object, which may leave an      *)
(* unverified one at the path.                                             *)
(***************************************************************************)
THEOREM TruthIsReturned == Spec => ReturnsTheTruth
<1>1. IInv /\ Punctual /\ [Next]_vars =>
        [\A c \in Client : ~tardy /\ pc[c] # "done" /\ pc'[c] = "done" =>
           /\ result'[c] = "ok" =>
               /\ ObjectsAt(path[c])' = {new'[c]}
               /\ old[c] # Nil => place'[old[c]] = Trash
           /\ result'[c] = "error" /\ (pc[c] = "upload" \/ new[c] # Nil) =>
               /\ ObjectsAt(path[c])' = {old[c]}
               /\ new[c] # Nil => place'[new[c]] = Trash]_vars
  BY NextPunctual DEF Truth
<1> QED
  BY <1>1, PunctualInductive, PTL DEF Spec, ReturnsTheTruth

(***************************************************************************)
(* An object disappears only when its call removes the backup of a path it *)
(* has replaced, or drops the upload of one it has restored.               *)
(***************************************************************************)
LEMMA OnlyDiscards ==
    ASSUME IInv, Punctual, ~tardy, [Next]_vars, NEW j \in Object, Visible(j), ~Visible(j)'
    PROVE  \E d \in Client : /\ pc[d] \in Having
                             /\ \/ j = old[d] /\ Swapped(d)
                                \/ j = new[d] /\ Staged(d)
<1>1. place' # place /\ late = {}
  BY Types DEF Visible
<1>2. ASSUME NEW d \in Client, NEW q, NEW next, Upload(d, q, next),
             \/ pc[d] = "create" /\ q = path[d] /\ next = "ok"
             \/ pc[d] = "upload" /\ q = StagePlace(d) /\ next = "backup"
      PROVE  FALSE
  <2>1. PICK i \in Object : place[i] = Nowhere /\ place' \in {place, [place EXCEPT ![i] = q]}
    BY <1>2, UploadDoes DEF Uploads
  <2> QED
    BY <2>1, Types, PlacesAre DEF Visible, Places
<1>3. ASSUME NEW d \in Client, Begin(d) \/ Step(d) PROVE Send(d)
  <2>1. ~UploadTarget(d) /\ ~UploadStage(d)
    BY <1>2 DEF UploadTarget, UploadStage
  <2> QED
    BY <1>1, <1>3, <2>1 DEF Step, Begin, TakeLocks, Find, Refresh, Check, Verify, Rollback, Look
<1>4. PICK d \in Client : Send(d)
  BY <1>1, <1>3 DEF Next, Crash, Finished, vars
<1>5. PICK i \in {old[d], new[d]}, q \in Place \cup {Trash} : Moves(d, i, q)
  BY <1>1, <1>4, SendMoves
<1>6. j = i /\ q \notin Place
  BY <1>5, Types DEF Moves, Visible, Places
<1>7. pc[d] \in Having /\ pc[d] # "idle"
  BY <1>4 DEF Send, Having, Requesting
<1> QED
  BY <1>5, <1>6, <1>7, PlacesDiffer DEF Moves

(***************************************************************************)
(* So of the two objects of a call only the one is given up that has lost  *)
(* its path to the other one.                                              *)
(***************************************************************************)
THEOREM LoserIsGivenUp == Spec => GivesUpOnlyTheLoser
<1>1. ASSUME IInv, Punctual, [Next]_vars, NEW c \in Client, ~tardy, new[c] # Nil, Active(c)
      PROVE  /\ Visible(old[c]) /\ ~Visible(old[c])' => place[new[c]] = path[c]
             /\ Visible(new[c]) /\ ~Visible(new[c])' => place[old[c]] = path[c]
  <2>1. pc[c] \in Having /\ pc[c] \in Locked /\ pc[c] \notin Early \cup {"idle", "find"} /\ Standing(c)
    BY <1>1 DEF IInv, Sound, Begun, Active, Early, Having, Locked, Phase, Requesting, RollingBack, TypeOK,
                ControlTypeOK, Punctual, Settled
  <2>2. old[c] \in Object /\ new[c] \in Object /\ old[c] # new[c]
    BY <1>1, <2>1, Types DEF IInv, Sound, Begun, Uploaded
  <2>3. UNCHANGED <<old[c], new[c]>>
    <3>1. ASSUME NEW d \in Client, Begin(d) \/ Step(d) PROVE UNCHANGED <<old[c], new[c]>>
      <4>1. CASE d # c \/ Send(d) \/ Check(d) \/ Verify(d) \/ Rollback(d)
        BY <1>1, <3>1, <4>1, Types DEF Begin, Step, TakeLocks, Find, Refresh, UploadTarget, UploadStage, Upload,
           Send, Check, Verify, Rollback, Look
      <4>2. CASE d = c /\ ~Send(d) /\ ~Check(d) /\ ~Verify(d) /\ ~Rollback(d)
        BY <2>1, <3>1, <4>2 DEF Begin, Step, TakeLocks, Lock, Find, Refresh, UploadTarget, UploadStage, Early
      <4> QED
        BY <4>1, <4>2
    <3> QED
      BY <1>1, <3>1 DEF Next, Crash, Finished, vars
  <2>4. ASSUME NEW j \in {old[c], new[c]}, Visible(j), ~Visible(j)'
        PROVE  (j = old[c] /\ Swapped(c)) \/ (j = new[c] /\ Staged(c))
    <3>1. PICK d \in Client : /\ pc[d] \in Having
                              /\ \/ j = old[d] /\ Swapped(d)
                                 \/ j = new[d] /\ Staged(d)
      BY <1>1, <2>2, <2>4, OnlyDiscards
    <3>2. d = c
      <4>1. place[j].dir = path[c].dir
        BY <1>1, <2>1, <2>4, StandsThere, PlacesAre DEF Visible
      <4>2. Standing(d) /\ pc[d] \in Locked
        BY <1>1, <3>1 DEF Punctual, Settled, Having, Locked, Phase, Requesting, RollingBack
      <4>3. place[j].dir = path[d].dir
        BY <1>1, <2>4, <3>1, <4>2, StandsThere, PlacesAre DEF Visible
      <4> QED
        BY <1>1, <2>1, <4>1, <4>2, <4>3, Apart
    <3> QED
      BY <3>1, <3>2
  <2>5. /\ Swapped(c) => place[new[c]] = path[c]
        /\ Staged(c) => place[old[c]] = path[c]
    BY DEF Swapped, Staged, At
  <2>6. ASSUME Visible(old[c]), ~Visible(old[c])' PROVE place[new[c]] = path[c]
    <3>1. PICK j \in Object : j = old[c] /\ Visible(j) /\ ~Visible(j)'
      BY <2>2, <2>3, <2>6 DEF Visible
    <3> QED
      BY <2>2, <2>4, <2>5, <3>1
  <2>7. ASSUME Visible(new[c]), ~Visible(new[c])' PROVE place[old[c]] = path[c]
    <3>1. PICK j \in Object : j = new[c] /\ Visible(j) /\ ~Visible(j)'
      BY <2>2, <2>3, <2>7 DEF Visible
    <3> QED
      BY <2>2, <2>4, <2>5, <3>1
  <2> QED
    BY <2>6, <2>7
<1>2. IInv /\ Punctual /\ [Next]_vars =>
        [\A c \in Client : ~tardy /\ new[c] # Nil /\ Active(c) =>
           /\ Visible(old[c]) /\ ~Visible(old[c])' => place[new[c]] = path[c]
           /\ Visible(new[c]) /\ ~Visible(new[c])' => place[old[c]] = path[c]]_vars
  BY <1>1
<1> QED
  BY <1>2, PunctualInductive, PTL DEF Spec, GivesUpOnlyTheLoser
=============================================================================
