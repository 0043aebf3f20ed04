----------------------------- MODULE CopyProofs -----------------------------
(***************************************************************************)
(* The originals of a copy are safe, its success is true and what it       *)
(* leaves behind was reported: for any number of calls, objects,           *)
(* directories and names, with another device at work.                     *)
(*                                                                         *)
(* The argument: a call works in its staging directory, which is its own,  *)
(* and in two directories whose keys it holds, so calls never meet         *)
(* (OthersAreSound).  Its source, its old target and its copy are three    *)
(* objects (Distinct), only the last two are ever moved, and the service   *)
(* makes one copy at most (Staging).  What is left in the end follows from *)
(* where each step has brought these three.                                *)
(***************************************************************************)
EXTENDS CopyTransaction, LockedCallsProofs

\* The steps under the locks; those after the source and the target were
\* looked up; and those that have a copy of their own.
Locked == Phase \ {"idle", "lock", "done"}
Later == Locked \ {"refresh", "find"}
Having == Later \ {"mkstage", "start", "await"}

\* The directories a call works in.
Region(c) ==
    {StageDir(c)} \cup (IF pc[c] \in Later THEN {from[c].dir, to[c].dir} ELSE {})

\* Gone or in one of these directories.
Within(i, D) == place[i] = Trash \/ (Visible(i) /\ place[i].dir \in D)

\* The visible objects under a temporary name of c.
Hidden(c) == {i \in Object : Visible(i) /\ place[i].name \in TempNames /\ place[i].name.by = c}

\* What a call has at each step; it has no result before it returns.
Begun(c) ==
    /\ pc[c] # "idle" => source[c] \in Object /\ from[c] \in UserPlace /\ to[c] \in UserPlace
    /\ pc[c] # "done" => result[c] = "none"
    /\ sent[c] => pc[c] \in Requesting
    /\ pc[c] \in Having => copied[c] # Nil
    /\ pc[c] \in Phase \ (Having \cup {"done"}) => copied[c] = Nil
    /\ pc[c] \in Phase \ (Later \cup {"done"}) => old[c] = Nil
    /\ pc[c] \in {"backup", "aside", "restore", "discard"} => Replacing(c)

Holds(c) == held[c] = IF pc[c] \in Locked THEN Keys(c) ELSE {}

\* The source never leaves its directory, nor its place once it was checked.
Anchored(c) ==
    /\ pc[c] # "idle" => Within(source[c], {from[c].dir})
    /\ pc[c] \in Later \cup {"find"} => place[source[c]] = from[c]
    /\ pc[c] \in Later => from[c] # to[c]

\* The old target and the copy are objects of their own in the directories
\* of the call, and the copy is faithful.
Distinct(c) ==
    /\ old[c] # Nil => /\ place[old[c]] # Nowhere
                       /\ pc[c] \in Later => old[c] # source[c] /\ Within(old[c], {to[c].dir})
    /\ copied[c] # Nil => /\ place[copied[c]] # Nowhere /\ copied[c] \notin faulty
                          /\ pc[c] \in Later => /\ copied[c] # source[c] /\ copied[c] # old[c]
                                                /\ Within(copied[c], {StageDir(c), to[c].dir})

\* A copy that is still on its way is nobody's source.
OnItsWay(c) ==
    pc[c] \in {"recheck", "hide", "carry", "settle", "carryBack"} =>
        /\ Visible(copied[c])
        /\ pc[c] \in {"recheck", "hide"} => place[copied[c]].dir = StageDir(c)
        /\ pc[c] \in {"carry", "settle", "carryBack"} => place[copied[c]].name \in TempNames
        /\ \A d \in Client : pc[d] # "idle" => source[d] # copied[c]

\* The service makes at most one copy, while there is none.
Staging(c) ==
    /\ task[c] => /\ Staged(c) = {}
                  /\ pc[c] = "await" \/ (pc[c] = "done" /\ result[c] \notin {"ok", "error"})
    /\ pc[c] \in {"idle", "lock", "refresh", "find", "mkstage", "start", "rmstage"} => Staged(c) = {}
    /\ pc[c] \in Having => Staged(c) \subseteq {copied[c]}
    /\ pc[c] \in Later \ {"mkstage", "rmstage"} => stage[c] = "there"
    /\ pc[c] = "rmstage" => stage[c] # "none"

\* Only the copy and the old target get temporary names.
Veiled(c) ==
    /\ Hidden(c) \subseteq {copied[c], old[c]}
    /\ pc[c] \in (Phase \ (Having \cup {"done"})) \cup {"recheck"} => Hidden(c) = {}

\* After the verification the copy is alone at the target.
Settled(c) ==
    /\ pc[c] \in {"discard", "empty", "rmstage"} => ObjectsAt(to[c]) = {copied[c]}
    /\ pc[c] \in {"empty", "rmstage"} /\ Replacing(c) => place[old[c]] = Trash

\* What a call that returned without a CopyRecoveryError leaves.
Clean(c) ==
    pc[c] = "done" /\ result[c] \in {"ok", "error"} =>
        /\ Staged(c) = {} /\ Hidden(c) = {}
        /\ copied[c] = Nil \/ old[c] = Nil \/ place[old[c]] = Trash

\* The inductive invariant.
Sound(c) ==
    /\ Begun(c) /\ Holds(c) /\ Anchored(c) /\ Distinct(c) /\ OnItsWay(c) /\ Staging(c)
    /\ Veiled(c) /\ Settled(c) /\ Clean(c)
IInv == TypeOK /\ Locks!Exclusive /\ \A c \in Client : Sound(c)

-----------------------------------------------------------------------------
(***************************************************************************)
(* The types in the form the lemmas about all calls have them.             *)
(***************************************************************************)
LEMMA Types ==
    ASSUME IInv
    PROVE  /\ place \in Places /\ held \in Keyrings
           /\ pc \in [Client -> Phase] /\ sent \in [Client -> BOOLEAN]
           /\ result \in [Client -> Result]
           /\ source \in [Client -> Object \cup {Nil}]
           /\ from \in [Client -> UserPlace \cup {Nil}]
           /\ to \in [Client -> UserPlace \cup {Nil}]
           /\ old \in [Client -> Object \cup {Nil}]
           /\ copied \in [Client -> Object \cup {Nil}]
           /\ stage \in [Client -> {"none", "there", "trashed"}]
           /\ task \in [Client -> BOOLEAN]
           /\ faulty \subseteq {i \in Object : place[i] # Nowhere}
BY DEF IInv, TypeOK, ControlTypeOK, Keyrings, Places

\* No name of a step is one of a result.
LEMMA StepsAreNotResults == Phase \cap Result = {}
BY DEF Phase, Requesting, Result

(***************************************************************************)
(* The places of users are not in staging directories, of which each call  *)
(* has its own, and their names are not temporary.                         *)
(***************************************************************************)
LEMMA UserPlacesAre ==
    /\ UserPlace \subseteq Place
    /\ \A p \in UserPlace : p.dir \in Dir /\ p.dir \in UserDir /\ p.name \in Name
                           /\ p.name \notin TempNames
    /\ \A c \in Client : StageDir(c) \in Dir /\ StageDir(c) \notin UserDir
    /\ \A c, d \in Client : StageDir(c) = StageDir(d) => c = d
<1>1. UserPlace \subseteq Place
  BY DEF UserPlace, UserDir, Place, AnyName
<1>2. \A p \in UserPlace : p.dir \in Dir /\ p.dir \in UserDir /\ p.name \in Name
                         /\ p.name \notin TempNames
  BY DriveAssumption DEF UserPlace, UserDir
<1>3. \A c \in Client : StageDir(c) \in Dir /\ StageDir(c) \notin UserDir
  BY CopyAssumption DEF UserDir
<1>4. \A c, d \in Client : StageDir(c) = StageDir(d) => c = d
  BY DEF StageDir
<1> QED
  BY <1>1, <1>2, <1>3, <1>4

\* A call that has begun has a source, a path it leads from and one it leads
\* to.
LEMMA CallsHave ==
    ASSUME IInv, NEW c \in Client, pc[c] # "idle"
    PROVE  /\ source[c] \in Object /\ from[c] \in UserPlace /\ to[c] \in UserPlace
           /\ from[c].dir \in UserDir /\ to[c].dir \in UserDir
           /\ from[c].name \in Name /\ to[c].name \in Name
           /\ Keys(c) \in SUBSET LockKey
<1>1. source[c] \in Object /\ from[c] \in UserPlace /\ to[c] \in UserPlace
  BY DEF IInv, Sound, Begun
<1> QED
  BY <1>1, KeysAre, UserPlacesAre DEF Keys

(***************************************************************************)
(* Calls under their locks work in different directories.                  *)
(***************************************************************************)
LEMMA Apart ==
    ASSUME IInv, NEW c \in Client, NEW d \in Client, c # d, pc[d] # "idle"
    PROVE  /\ StageDir(d) \notin Region(c)
           /\ pc[d] \in Locked => from[d].dir \notin Region(c) /\ to[d].dir \notin Region(c)
<1>1. /\ StageDir(d) # StageDir(c)
      /\ from[d].dir # StageDir(c) /\ to[d].dir # StageDir(c)
      /\ pc[c] # "idle" => from[c].dir # StageDir(d) /\ to[c].dir # StageDir(d)
  BY CallsHave, UserPlacesAre
<1>2. ASSUME pc[c] \in Later, pc[d] \in Locked
      PROVE  {from[c].dir, to[c].dir} \cap {from[d].dir, to[d].dir} = {}
  <2>1. held[c] \cap held[d] = {}
    BY DEF IInv, Locks!Exclusive
  <2>2. /\ Parent(from[c].dir) \in held[c] /\ Parent(to[c].dir) \in held[c]
        /\ Parent(from[d].dir) \in held[d] /\ Parent(to[d].dir) \in held[d]
    BY <1>2 DEF IInv, Sound, Holds, Keys, Later
  <2> QED
    BY <2>1, <2>2
<1>3. pc[c] \in Later => pc[c] # "idle"
  BY DEF Later, Locked
<1> QED
  BY <1>1, <1>2, <1>3 DEF Region

-----------------------------------------------------------------------------
\* What a step of call c, or on its behalf, may do to the drive.
OwnWork(c) ==
    \A i \in Object : place'[i] # place[i] =>
        /\ place[i] = Nowhere \/ (Visible(i) /\ place[i].dir \in Region(c))
        /\ \/ place'[i] = Trash
           \/ /\ place'[i] \in Place /\ place'[i].dir \in Region(c)
              /\ place'[i].name \in TempNames =>
                    place'[i].name.by = c \/ (Visible(i) /\ place'[i].name = place[i].name)
              /\ Visible(i) /\ place'[i].dir # place[i].dir =>
                    i = copied[c] /\ pc[c] \in {"carry", "carryBack"}

(***************************************************************************)
(* It means nothing to another call.                                       *)
(***************************************************************************)
LEMMA OthersAreSound ==
    ASSUME IInv, NEW c \in Client, NEW d \in Client, c # d, pc[c] # "idle",
           UNCHANGED <<source, from, to>>,
           UNCHANGED <<pc[d], sent[d], result[d], held[d], old[d], copied[d], stage[d], task[d]>>,
           \A e \in Client : pc'[e] # "idle" => pc[e] # "idle",
           place' \in Places, OwnWork(c),
           \A i \in faulty' \ faulty : place[i] = Nowhere
    PROVE  Sound(d)'
<1>0. /\ Nowhere # Trash /\ Nowhere \notin Place /\ Trash \notin Place /\ Nil \notin Object
      /\ place \in Places
  BY PlacesAre, Types, DriveAssumption
<1>1. \A i \in Object :
         place'[i] = place[i] \/ place[i] = Nowhere \/ (Visible(i) /\ place[i].dir \in Region(c))
  BY DEF OwnWork
<1>2. \A i \in Object : place[i] # Nowhere => place'[i] # Nowhere
  BY <1>0, <1>1 DEF OwnWork
<1>3. \A i \in Object : \A D : Within(i, D) /\ D \cap Region(c) = {} =>
                            place'[i] = place[i] /\ Within(i, D)'
  BY <1>0, <1>1 DEF Within, Visible
<1>4. Begun(d)' /\ Holds(d)'
  BY DEF IInv, Sound, Begun, Holds, Keys, Replacing
<1>5. Anchored(d)'
  <2> SUFFICES ASSUME pc[d] # "idle" PROVE Anchored(d)'
    BY DEF Anchored, Later, Locked
  <2>1. source[d] \in Object /\ from[d] \in Place
    BY CallsHave, UserPlacesAre
  <2>2. Within(source[d], {from[d].dir})'
    <3>1. Within(source[d], {from[d].dir})
      BY DEF IInv, Sound, Anchored
    <3>2. pc[c] \in {"carry", "carryBack"} => source[d] # copied[c]
      BY DEF IInv, Sound, OnItsWay
    <3> QED
      BY <1>0, <2>1, <3>1, <3>2 DEF OwnWork, Within, Visible
  <2>3. pc[d] \in Later \cup {"find"} => place'[source[d]] = from[d]
    <3>1. pc[d] \in Later \cup {"find"} => from[d].dir \notin Region(c) /\ place[source[d]] = from[d]
      BY Apart DEF IInv, Sound, Anchored, Later, Locked, Phase
    <3> QED
      BY <1>0, <1>1, <2>1, <3>1
  <2> QED
    BY <2>2, <2>3 DEF IInv, Sound, Anchored
<1>6. \A i \in Object : \A D \in SUBSET {StageDir(d), to[d].dir} :
         pc[d] \in Later /\ Within(i, D) => place'[i] = place[i] /\ Within(i, D)'
  BY <1>3, Apart DEF Later, Locked
<1>7. Distinct(d)'
  <2>1. /\ old[d] # Nil => old[d] \in Object
        /\ copied[d] # Nil => copied[d] \in Object
    BY Types
  <2>2. old[d] # Nil =>
          /\ place'[old[d]] # Nowhere
          /\ pc[d] \in Later => old[d] # source[d] /\ Within(old[d], {to[d].dir})'
    BY <1>2, <1>6, <2>1 DEF IInv, Sound, Distinct
  <2>3. copied[d] # Nil =>
          /\ place'[copied[d]] # Nowhere /\ copied[d] \notin faulty'
          /\ pc[d] \in Later => /\ copied[d] # source[d] /\ copied[d] # old[d]
                                /\ Within(copied[d], {StageDir(d), to[d].dir})'
    BY <1>2, <1>6, <2>1 DEF IInv, Sound, Distinct
  <2> QED
    BY <2>2, <2>3 DEF Distinct
<1>8. OnItsWay(d)'
  <2> SUFFICES ASSUME pc[d] \in {"recheck", "hide", "carry", "settle", "carryBack"}
               PROVE  OnItsWay(d)'
    BY DEF OnItsWay
  <2>1. pc[d] \in Later /\ copied[d] \in Object /\ copied[d] # Nil
    BY Types DEF IInv, Sound, Begun, Having, Later, Locked, Phase, Requesting
  <2>2. place'[copied[d]] = place[copied[d]]
    BY <1>6, <2>1 DEF IInv, Sound, Distinct
  <2> QED
    BY <2>2 DEF IInv, Sound, OnItsWay, Visible
<1>9. Staged(d)' = Staged(d)
  <2>1. ASSUME NEW i \in Object
        PROVE  place'[i] = place[i] \/ (i \notin Staged(d) /\ i \notin Staged(d)')
    <3>1. StageDir(d) \notin Region(c)
      BY Apart, CallsHave, UserPlacesAre DEF Region, Later, Locked
    <3> QED
      BY <1>0, <2>1, <3>1 DEF OwnWork, Staged, Visible
  <2> QED
    BY <2>1 DEF Staged, Visible
<1>10. Staging(d)'
  BY <1>9 DEF IInv, Sound, Staging
<1>11. Hidden(d)' \subseteq Hidden(d)
  <2>1. ASSUME NEW i \in Hidden(d)' PROVE i \in Hidden(d)
    BY <1>0, <2>1 DEF OwnWork, Hidden, Visible
  <2> QED
    BY <2>1
<1>12. Veiled(d)'
  BY <1>11 DEF IInv, Sound, Veiled
<1>13. Settled(d)'
  <2> SUFFICES ASSUME pc[d] \in {"discard", "empty", "rmstage"} PROVE Settled(d)'
    BY DEF Settled
  <2>1. to[d].dir \notin Region(c) /\ to[d] \in Place /\ pc[d] \in Later
    BY Apart, CallsHave, UserPlacesAre DEF Later, Locked, Phase, Requesting
  <2>2. ASSUME NEW i \in Object PROVE place'[i] = to[d] <=> place[i] = to[d]
    BY <1>0, <1>1, <2>1 DEF OwnWork
  <2>3. ObjectsAt(to[d])' = ObjectsAt(to[d])
    BY <2>2 DEF ObjectsAt
  <2>4. old[d] # Nil /\ place[old[d]] = Trash => place'[old[d]] = Trash
    BY <1>0, <1>1, Types DEF Visible
  <2> QED
    BY <2>3, <2>4 DEF IInv, Sound, Settled, Replacing
<1>14. Clean(d)'
  <2>1. old[d] # Nil /\ place[old[d]] = Trash => place'[old[d]] = Trash
    BY <1>0, <1>1, Types DEF Visible
  <2> QED
    BY <1>9, <1>11, <2>1 DEF IInv, Sound, Clean
<1> QED
  BY <1>4, <1>5, <1>7, <1>8, <1>10, <1>12, <1>13, <1>14 DEF Sound

-----------------------------------------------------------------------------
(***************************************************************************)
(* In the beginning no call has begun, and the drive is the users'.        *)
(***************************************************************************)
LEMMA InitIInv == Init => IInv
<1> SUFFICES ASSUME Init PROVE IInv
  OBVIOUS
<1>0. UserPlace \subseteq Place
  BY UserPlacesAre
<1>1. TypeOK
  BY <1>0, CopyAssumption DEF Init, ControlInit, TypeOK, ControlTypeOK, Phase, Result
<1>2. Locks!Exclusive
  BY DEF Init, ControlInit, Locks!Exclusive
<1>3. ASSUME NEW c \in Client PROVE Sound(c)
  <2>1. /\ pc[c] = "idle" /\ held[c] = {} /\ ~sent[c] /\ result[c] = "none"
        /\ old[c] = Nil /\ copied[c] = Nil /\ ~task[c]
    BY DEF Init, ControlInit
  <2>2. \A i \in Object : Visible(i) => place[i] \in UserPlace
    BY CopyAssumption, DriveAssumption DEF Init, Visible
  <2>3. Staged(c) = {}
    BY <2>2, UserPlacesAre DEF Staged
  <2>4. Hidden(c) = {}
    BY <2>2, UserPlacesAre DEF Hidden
  <2>5. Begun(c) /\ Holds(c) /\ Anchored(c) /\ Distinct(c) /\ OnItsWay(c)
    BY <2>1 DEF Begun, Holds, Anchored, Distinct, OnItsWay, Having, Later, Locked, Phase, Requesting
  <2>6. Staging(c) /\ Veiled(c) /\ Settled(c) /\ Clean(c)
    BY <2>1, <2>3, <2>4 DEF Staging, Veiled, Settled, Clean, Having, Later, Locked
  <2> QED
    BY <2>5, <2>6 DEF Sound
<1> QED
  BY <1>1, <1>2, <1>3 DEF IInv

(***************************************************************************)
(* A call that begins saw its source where users keep their files: that is *)
(* no copy that is still on its way.                                       *)
(***************************************************************************)
LEMMA BeginIInv == ASSUME IInv, NEW c \in Client, Begin(c) PROVE IInv'
<1>1. PICK i \in Object, p \in UserPlace :
        /\ place[i] \in UserPlace
        /\ source' = [source EXCEPT ![c] = i]
        /\ from' = [from EXCEPT ![c] = place[i]]
        /\ to' = [to EXCEPT ![c] = p]
  BY DEF Begin
<1>2. /\ pc[c] = "idle" /\ pc' = [pc EXCEPT ![c] = "lock"]
      /\ UNCHANGED <<held, result, place, late, sent, old, copied, stage, task, faulty>>
  BY DEF Begin, Goto, provider
<1>3. TypeOK'
  <2>1. pc' \in [Client -> Phase]
    BY <1>2, Types DEF Phase
  <2> QED
    BY <1>1, <1>2, <2>1 DEF IInv, TypeOK, ControlTypeOK
<1>4. Locks!Exclusive'
  BY <1>2, KeysKept DEF IInv
<1>5. Sound(c)'
  <2>1. source'[c] = i /\ from'[c] = place[i] /\ to'[c] = p /\ pc'[c] = "lock"
    BY <1>1, <1>2, Types
  <2>2. /\ held[c] = {} /\ result[c] = "none" /\ ~sent[c] /\ ~task[c]
        /\ old[c] = Nil /\ copied[c] = Nil
        /\ Staged(c) = {} /\ Hidden(c) = {}
    BY <1>2, Types DEF IInv, Sound, Begun, Holds, Staging, Veiled, Having, Later, Locked, Requesting,
       Phase
  <2>3. Staged(c)' = {} /\ Hidden(c)' = {}
    BY <1>2, <2>2 DEF Staged, Hidden, Visible
  <2>4. Begun(c)' /\ Holds(c)' /\ Distinct(c)' /\ OnItsWay(c)'
    BY <1>1, <1>2, <2>1, <2>2 DEF Begun, Holds, Distinct, OnItsWay, Having, Later,
       Locked, Phase, Requesting
  <2>5. Anchored(c)'
    <3>1. place'[i] \in Place /\ place'[i].dir = from'[c].dir
      BY <1>1, <1>2, <2>1, UserPlacesAre
    <3> QED
      BY <1>2, <2>1, <3>1 DEF Anchored, Within, Visible, Later, Locked
  <2>6. Staging(c)' /\ Veiled(c)' /\ Settled(c)' /\ Clean(c)'
    BY <1>2, <2>1, <2>2, <2>3 DEF Staging, Veiled, Settled, Clean, Having, Later, Locked, Requesting
  <2> QED
    BY <2>4, <2>5, <2>6 DEF Sound
<1>6. ASSUME NEW d \in Client, d # c PROVE Sound(d)'
  <2>1. source'[d] = source[d] /\ from'[d] = from[d] /\ to'[d] = to[d] /\ pc'[d] = pc[d]
    BY <1>1, <1>2, <1>6, Types
  <2>2. /\ Staged(d)' = Staged(d) /\ Hidden(d)' = Hidden(d)
        /\ \A j, D : Within(j, D)' <=> Within(j, D)
    BY <1>2 DEF Staged, Hidden, Within, Visible
  <2>3. Begun(d)' /\ Holds(d)'
    BY <1>2, <2>1 DEF IInv, Sound, Begun, Holds, Keys, Replacing
  <2>4. Anchored(d)' /\ Distinct(d)'
    BY <1>2, <2>1, <2>2 DEF IInv, Sound, Anchored, Distinct
  <2>5. OnItsWay(d)'
    <3>1. pc[d] \in {"recheck", "hide", "carry", "settle", "carryBack"} => place[copied[d]] \notin UserPlace
      BY UserPlacesAre DEF IInv, Sound, OnItsWay
    <3>2. \A e \in Client : pc'[e] # "idle" => (source'[e] = source[e] /\ pc[e] # "idle") \/ source'[e] = i
      BY <1>1, <1>2, Types
    <3> QED
      BY <1>1, <1>2, <2>1, <3>1, <3>2 DEF IInv, Sound, OnItsWay, Visible
  <2>6. Staging(d)' /\ Veiled(d)' /\ Clean(d)'
    BY <1>2, <2>1, <2>2 DEF IInv, Sound, Staging, Veiled, Clean
  <2>7. Settled(d)'
    BY <1>2, <2>1 DEF IInv, Sound, Settled, Replacing, ObjectsAt
  <2> QED
    BY <2>3, <2>4, <2>5, <2>6, <2>7 DEF Sound
<1> QED
  BY <1>3, <1>4, <1>5, <1>6 DEF IInv

(***************************************************************************)
(* A step that changes nothing on the drive is no concern of other calls.  *)
(***************************************************************************)
LEMMA NothingDone ==
    ASSUME IInv, UNCHANGED place
    PROVE  place' \in Places /\ \A c : OwnWork(c)
BY Types DEF OwnWork

(***************************************************************************)
(* A call gets its keys at once, none of them held by another call.        *)
(***************************************************************************)
LEMMA TakeLocksIInv == ASSUME IInv, NEW c \in Client, TakeLocks(c) PROVE IInv'
<1>1. /\ pc[c] = "lock" /\ pc' = [pc EXCEPT ![c] = "refresh"]
      /\ Locks!Enter(c, Keys(c))
      /\ UNCHANGED <<sent, result, place, late, source, from, to, old, copied, stage, task, faulty>>
  BY DEF TakeLocks, Lock, copies, provider
<1>2. held' = [held EXCEPT ![c] = Keys(c)] /\ held' \in Keyrings /\ Locks!Exclusive'
  BY <1>1, KeysTaken, CallsHave, Types DEF IInv
<1>3. TypeOK'
  <2>1. pc' \in [Client -> Phase]
    BY <1>1, Types DEF Phase
  <2> QED
    BY <1>1, <1>2, <2>1 DEF IInv, TypeOK, ControlTypeOK, Keyrings
<1>4. pc'[c] = "refresh" /\ held'[c] = Keys(c)
  BY <1>1, <1>2, Types DEF Keyrings
<1>5. Sound(c)'
  <2>1. Keys(c)' = Keys(c) /\ Staged(c)' = Staged(c) /\ Hidden(c)' = Hidden(c)
    BY <1>1 DEF Keys, Staged, Hidden, Visible
  <2>2. Begun(c)' /\ Holds(c)' /\ Distinct(c)' /\ OnItsWay(c)'
    BY <1>1, <1>4, <2>1, Types DEF IInv, Sound, Begun, Holds, Distinct, OnItsWay, Having, Later,
       Locked, Phase, Requesting
  <2>3. Anchored(c)'
    BY <1>1, <1>4 DEF IInv, Sound, Anchored, Within, Visible, Having, Later, Locked
  <2>4. Staging(c)' /\ Veiled(c)' /\ Settled(c)' /\ Clean(c)'
    BY <1>1, <1>4, <2>1 DEF IInv, Sound, Staging, Veiled, Settled, Clean, Having, Later, Locked,
       Phase, Requesting
  <2> QED
    BY <2>2, <2>3, <2>4 DEF Sound
<1>6. ASSUME NEW d \in Client, d # c PROVE Sound(d)'
  <2>1. UNCHANGED <<pc[d], held[d], sent[d], result[d]>>
    BY <1>1, <1>2, <1>6, Types DEF Keyrings
  <2>2. \A e \in Client : pc'[e] # "idle" => pc[e] # "idle"
    BY <1>1, Types
  <2> QED
    BY <1>1, <1>6, <2>1, <2>2, NothingDone, OthersAreSound
<1> QED
  BY <1>2, <1>3, <1>5, <1>6 DEF IInv

-----------------------------------------------------------------------------
(***************************************************************************)
(* A step that reads or decides keeps the invariant of the other calls,    *)
(* and is where its decision says.                                         *)
(***************************************************************************)
LEMMA DecideIInv ==
    ASSUME IInv, NEW c \in Client, pc[c] \in Locked,
           NEW next \in Later \cup {"find"} \cup Result, Continue(c, next),
           sent' = [sent EXCEPT ![c] = FALSE],
           UNCHANGED <<place, late, source, from, to, stage, faulty>>,
           old' \in [Client -> Object \cup {Nil}], copied' \in [Client -> Object \cup {Nil}],
           task' \in [Client -> BOOLEAN],
           \A d \in Client \ {c} : UNCHANGED <<old[d], copied[d], task[d]>>
    PROVE  /\ TypeOK' /\ Locks!Exclusive' /\ \A d \in Client \ {c} : Sound(d)'
           /\ ~sent'[c]
           /\ next \in Result => pc'[c] = "done" /\ result'[c] = next /\ held'[c] = {}
           /\ next \notin Result => /\ pc'[c] = next /\ next \in Locked
                                  /\ result'[c] = "none" /\ Holds(c)'
<1>1. pc[c] # "idle" /\ pc[c] # "done" /\ pc[c] # "lock"
  BY DEF Locked
<1>2. /\ held' \in Keyrings /\ Locks!Exclusive'
      /\ next \in Result => /\ pc' = [pc EXCEPT ![c] = "done"]
                            /\ result' = [result EXCEPT ![c] = next]
                            /\ held' = [held EXCEPT ![c] = {}]
      /\ next \notin Result => pc' = [pc EXCEPT ![c] = next] /\ UNCHANGED <<result, held>>
  BY Continued, Types DEF IInv
<1>3. next \notin Result => next \in Phase /\ next \in Locked
  BY DEF Later, Locked, Phase
<1>4. /\ pc' \in [Client -> Phase] /\ result' \in [Client -> Result]
      /\ sent' \in [Client -> BOOLEAN]
  BY <1>2, <1>3, Types DEF Phase
<1>5. TypeOK'
  BY <1>2, <1>4 DEF IInv, TypeOK, ControlTypeOK, Keyrings
<1>6. ASSUME NEW d \in Client \ {c} PROVE Sound(d)'
  <2>1. UNCHANGED <<pc[d], held[d], sent[d], result[d]>>
    BY <1>2, <1>6, Types DEF Keyrings
  <2>2. \A e \in Client : pc'[e] # "idle" => pc[e] # "idle"
    BY <1>1, <1>2, Types
  <2> QED
    BY <1>1, <1>6, <2>1, <2>2, NothingDone, OthersAreSound
<1>7. /\ next \in Result => pc'[c] = "done" /\ result'[c] = next /\ held'[c] = {}
      /\ next \notin Result => pc'[c] = next /\ result'[c] = result[c] /\ held'[c] = held[c]
      /\ ~sent'[c]
  BY <1>2, Types DEF Keyrings
<1>8. next \notin Result => result'[c] = "none" /\ Holds(c)'
  <2>1. Keys(c)' = Keys(c)
    BY DEF Keys
  <2> QED
    BY <1>1, <1>3, <1>7, <2>1 DEF IInv, Sound, Begun, Holds
<1> QED
  BY <1>2, <1>3, <1>5, <1>6, <1>7, <1>8

(***************************************************************************)
(* What the invariant reads of the drive has not changed.                  *)
(***************************************************************************)
LEMMA SameDrive ==
    ASSUME UNCHANGED <<place, to>>, NEW c
    PROVE  /\ Staged(c)' = Staged(c) /\ Hidden(c)' = Hidden(c)
           /\ ObjectsAt(to[c])' = ObjectsAt(to[c])
           /\ \A i, D : Within(i, D)' <=> Within(i, D)
           /\ \A i : Visible(i)' <=> Visible(i)
BY DEF Staged, Hidden, ObjectsAt, Within, Visible

(***************************************************************************)
(* A call that returns without a CopyRecoveryError has cleaned up.         *)
(***************************************************************************)
LEMMA EndIInv ==
    ASSUME IInv, NEW c \in Client, pc[c] \in Locked, NEW r \in Result, Continue(c, r),
           sent' = [sent EXCEPT ![c] = FALSE],
           UNCHANGED <<place, late, source, from, to, old, copied, stage, task, faulty>>,
           r \in {"ok", "error"} =>
              /\ ~task[c] /\ Staged(c) = {} /\ Hidden(c) = {}
              /\ copied[c] = Nil \/ old[c] = Nil \/ place[old[c]] = Trash
    PROVE  IInv'
<1>1. /\ TypeOK' /\ Locks!Exclusive' /\ \A d \in Client \ {c} : Sound(d)'
      /\ pc'[c] = "done" /\ result'[c] = r /\ held'[c] = {} /\ ~sent'[c]
  BY DecideIInv, Types
<1>2. Sound(c)'
  <2>1. pc[c] # "idle"
    BY DEF Locked
  <2>2. Begun(c)' /\ Holds(c)' /\ Distinct(c)' /\ OnItsWay(c)'
    BY <1>1, <2>1 DEF IInv, Sound, Begun, Holds, Distinct, OnItsWay, Having, Later, Locked
  <2>3. Anchored(c)' /\ Staging(c)' /\ Veiled(c)' /\ Settled(c)' /\ Clean(c)'
    BY <1>1, <2>1, SameDrive DEF IInv, Sound, Anchored, Staging, Veiled, Settled, Clean, Having,
       Later, Locked
  <2> QED
    BY <2>2, <2>3 DEF Sound
<1> QED
  BY <1>1, <1>2 DEF IInv

(***************************************************************************)
(* A call that has its copy goes on with it.                               *)
(***************************************************************************)
LEMMA GoOnIInv ==
    ASSUME IInv, NEW c \in Client, pc[c] \in Having \ {"rmstage"},
           NEW next \in Having \ {"recheck"}, Continue(c, next),
           sent' = [sent EXCEPT ![c] = FALSE],
           UNCHANGED <<place, late, source, from, to, old, copied, stage, task, faulty>>,
           next = "hide" => pc[c] = "recheck",
           next \in {"backup", "aside", "restore", "discard"} => Replacing(c),
           next \in {"carry", "settle", "carryBack"} =>
              pc[c] \in {"hide", "carry", "settle"} /\ place[copied[c]].name \in TempNames,
           next \in {"discard", "empty", "rmstage"} => ObjectsAt(to[c]) = {copied[c]},
           next \in {"empty", "rmstage"} /\ Replacing(c) => place[old[c]] = Trash,
           next = "rmstage" => Staged(c) = {}
    PROVE  IInv'
<1>1. /\ pc[c] \in Locked /\ pc[c] \in Later /\ next \in Locked /\ next \in Later
      /\ next \notin Result /\ pc[c] # "idle" /\ next \notin {"idle", "lock", "done"}
      /\ pc[c] \notin {"await", "mkstage", "start", "find", "refresh", "done"}
      /\ next \notin {"await", "mkstage", "start", "find", "refresh"}
  BY StepsAreNotResults DEF Having, Later, Locked
<1>2. /\ TypeOK' /\ Locks!Exclusive' /\ \A d \in Client \ {c} : Sound(d)'
      /\ pc'[c] = next /\ result'[c] = "none" /\ ~sent'[c] /\ Holds(c)'
  BY <1>1, DecideIInv, Types
<1>3. Begun(c)'
  BY <1>1, <1>2 DEF IInv, Sound, Begun, Replacing
<1>4. Anchored(c)' /\ Distinct(c)'
  BY <1>1, <1>2, SameDrive DEF IInv, Sound, Anchored, Distinct
<1>5. OnItsWay(c)'
  <2>1. \A d \in Client : pc'[d] # "idle" => pc[d] # "idle"
    BY <1>1, Continued, Types DEF IInv
  <2> QED
    BY <1>2, <2>1, SameDrive DEF IInv, Sound, OnItsWay
<1>6. Staging(c)'
  BY <1>1, <1>2, SameDrive DEF IInv, Sound, Staging, Having
<1>7. Veiled(c)'
  BY <1>1, <1>2, SameDrive DEF IInv, Sound, Veiled
<1>8. Settled(c)' /\ Clean(c)'
  BY <1>1, <1>2, SameDrive DEF Settled, Clean, Replacing
<1> QED
  BY <1>2, <1>3, <1>4, <1>5, <1>6, <1>7, <1>8 DEF IInv, Sound

(***************************************************************************)
(* What a call that has no copy yet leaves is nothing.                     *)
(***************************************************************************)
LEMMA NothingYet ==
    ASSUME IInv, NEW c \in Client, pc[c] \in {"refresh", "find", "mkstage", "start"}
    PROVE  /\ pc[c] \in Locked /\ ~task[c] /\ Staged(c) = {} /\ Hidden(c) = {} /\ copied[c] = Nil
           /\ pc[c] \in Phase \ (Having \cup {"done"})
BY Types DEF IInv, Sound, Begun, Staging, Veiled, Having, Later, Locked, Phase, Requesting

-----------------------------------------------------------------------------
(***************************************************************************)
(* refreshExact shows that the source is where it was seen.                *)
(***************************************************************************)
LEMMA RefreshIInv == ASSUME IInv, NEW c \in Client, Refresh(c) PROVE IInv'
<1>1. /\ pc[c] = "refresh"
      /\ UNCHANGED <<place, late, sent, source, from, to, old, copied, stage, task, faulty>>
  BY DEF Refresh, copies, provider
<1>2. sent' = [sent EXCEPT ![c] = FALSE]
  BY <1>1, Types DEF IInv, Sound, Begun, Requesting
<1>3. CASE Return(c, "error")
  BY <1>1, <1>2, <1>3, NothingYet, EndIInv DEF Continue, Result
<1>4. ASSUME place[source[c]] = from[c], Goto(c, "find") PROVE IInv'
  <2>1. Continue(c, "find") /\ "find" \notin Result
    BY <1>4 DEF Continue, Result
  <2>2. /\ TypeOK' /\ Locks!Exclusive' /\ \A d \in Client \ {c} : Sound(d)'
        /\ pc'[c] = "find" /\ result'[c] = "none" /\ ~sent'[c] /\ Holds(c)'
    BY <1>1, <1>2, <2>1, NothingYet, DecideIInv, Types
  <2>3. /\ ~task[c] /\ Staged(c)' = {} /\ Hidden(c)' = {} /\ copied[c] = Nil /\ old[c] = Nil
    BY <1>1, NothingYet, SameDrive DEF IInv, Sound, Begun, Later, Locked, Phase, Requesting
  <2>4. Begun(c)' /\ Distinct(c)' /\ OnItsWay(c)'
    BY <1>1, <2>2, <2>3 DEF IInv, Sound, Begun, Distinct, OnItsWay, Having, Later, Locked
  <2>5. Anchored(c)'
    BY <1>1, <1>4, <2>2, SameDrive DEF IInv, Sound, Anchored, Later, Locked
  <2>6. Staging(c)' /\ Veiled(c)' /\ Settled(c)' /\ Clean(c)'
    BY <1>1, <2>2, <2>3 DEF Staging, Veiled, Settled, Clean, Having, Later, Locked
  <2> QED
    BY <2>2, <2>4, <2>5, <2>6 DEF IInv, Sound
<1> QED
  BY <1>3, <1>4 DEF Refresh

(***************************************************************************)
(* findChild finds the old target, if any: no other object is there, and   *)
(* the source is elsewhere unless the copy has nothing to do.              *)
(***************************************************************************)
LEMMA FindIInv == ASSUME IInv, NEW c \in Client, Find(c) PROVE IInv'
<1>1. /\ pc[c] = "find"
      /\ UNCHANGED <<place, late, sent, source, from, to, copied, stage, task, faulty>>
  BY DEF Find, provider
<1>2. sent' = [sent EXCEPT ![c] = FALSE]
  BY <1>1, Types DEF IInv, Sound, Begun, Requesting
<1>3. CASE Return(c, "error") /\ UNCHANGED old
  BY <1>1, <1>2, <1>3, NothingYet, EndIInv DEF Continue, Result
<1>4. ASSUME NEW o \in Object \cup {Nil}, ObjectsAt(to[c]) = {o} \ {Nil},
             old' = [old EXCEPT ![c] = o], Continue(c, AfterFind(c))
      PROVE  IInv'
  <2>1. /\ AfterFind(c) \in {"ok", "mkstage"}
        /\ AfterFind(c) = "mkstage" => ObjectsAt(to[c]) # {source[c]}
    BY DEF AfterFind
  <2>2. AfterFind(c) \in Later \cup {"find"} \cup Result /\ "mkstage" \notin Result
    BY <2>1 DEF Later, Locked, Phase, Requesting, Result
  <2>3. /\ old' \in [Client -> Object \cup {Nil}] /\ old'[c] = o
        /\ \A d \in Client \ {c} : UNCHANGED <<old[d], copied[d], task[d]>>
    BY <1>1, <1>4, Types
  <2>4. /\ TypeOK' /\ Locks!Exclusive' /\ ~sent'[c] /\ \A d \in Client \ {c} : Sound(d)'
        /\ AfterFind(c) = "ok" => pc'[c] = "done" /\ result'[c] = "ok" /\ held'[c] = {}
        /\ AfterFind(c) = "mkstage" => pc'[c] = "mkstage" /\ result'[c] = "none" /\ Holds(c)'
    BY <1>1, <1>2, <1>4, <2>2, <2>3, NothingYet, DecideIInv, Types DEF Result
  <2>5. ~task[c] /\ Staged(c)' = {} /\ Hidden(c)' = {} /\ copied[c] = Nil
    BY <1>1, NothingYet, SameDrive
  <2>6. /\ source[c] \in Object /\ from[c] \in UserPlace /\ to[c] \in UserPlace
        /\ place[source[c]] = from[c]
    BY <1>1, CallsHave DEF IInv, Sound, Anchored
  <2>7. o # Nil => place[o] = to[c] /\ Within(o, {to[c].dir}) /\ place[o] # Nowhere
    BY <1>4, <2>6, PlacesAre, UserPlacesAre DEF ObjectsAt, Within, Visible
  <2>8. Begun(c)' /\ Holds(c)' /\ OnItsWay(c)'
    <3>1. Begun(c)'
      BY <1>1, <2>1, <2>4, <2>5, <2>6 DEF Begun, Having, Later, Locked, Phase, Requesting
    <3>2. Holds(c)'
      BY <2>1, <2>4 DEF Holds, Locked
    <3>3. OnItsWay(c)'
      BY <2>1, <2>4 DEF OnItsWay
    <3> QED
      BY <3>1, <3>2, <3>3
  <2>9. Staging(c)' /\ Veiled(c)' /\ Settled(c)' /\ Clean(c)'
    BY <1>1, <2>1, <2>4, <2>5 DEF Staging, Veiled, Settled, Clean, Having, Later, Locked
  <2>10. from[c] = to[c] => ObjectsAt(to[c]) = {source[c]}
    BY <1>4, <2>6 DEF ObjectsAt
  <2>11. Anchored(c)'
    BY <1>1, <2>1, <2>4, <2>6, <2>10, SameDrive DEF IInv, Sound, Anchored, Later, Locked
  <2>12. Distinct(c)'
    <3>1. AfterFind(c) = "mkstage" => o # source[c]
      BY <2>1, <2>6, <2>7, <2>10, PlacesAre
    <3> QED
      BY <1>1, <2>1, <2>3, <2>4, <2>5, <2>7, <3>1, SameDrive DEF Distinct, Later, Locked
  <2> QED
    BY <2>4, <2>8, <2>9, <2>11, <2>12 DEF IInv, Sound
<1> QED
  BY <1>3, <1>4 DEF Find

(***************************************************************************)
(* The copy request leaves at most a task behind, while there is no copy.  *)
(***************************************************************************)
LEMMA StartIInv == ASSUME IInv, NEW c \in Client, Start(c) PROVE IInv'
<1>1. /\ pc[c] = "start" /\ Goto(c, "await")
      /\ task' = [task EXCEPT ![c] = TRUE] \/ UNCHANGED task
      /\ UNCHANGED <<place, late, sent, source, from, to, old, copied, stage, faulty>>
  BY DEF Start, copies
<1>2. Continue(c, "await") /\ "await" \notin Result
  BY <1>1 DEF Continue, Result
<1>3. sent' = [sent EXCEPT ![c] = FALSE]
  BY <1>1, Types DEF IInv, Sound, Begun, Requesting
<1>4. task' \in [Client -> BOOLEAN] /\ \A d \in Client \ {c} : UNCHANGED task[d]
  BY <1>1, Types
<1>5. /\ TypeOK' /\ Locks!Exclusive' /\ ~sent'[c] /\ \A d \in Client \ {c} : Sound(d)'
      /\ pc'[c] = "await" /\ result'[c] = "none" /\ Holds(c)'
  BY <1>1, <1>2, <1>3, <1>4, NothingYet, DecideIInv, Types DEF Later, Locked, Phase
<1>6. Staged(c)' = {} /\ Hidden(c)' = {} /\ copied[c] = Nil /\ stage[c] = "there"
  BY <1>1, NothingYet, SameDrive DEF IInv, Sound, Staging, Later, Locked, Phase
<1>7. Begun(c)' /\ Distinct(c)' /\ OnItsWay(c)'
  BY <1>1, <1>5, <1>6, SameDrive DEF IInv, Sound, Begun, Distinct, OnItsWay, Having, Later, Locked,
     Phase
<1>8. Anchored(c)'
  BY <1>1, <1>5, SameDrive DEF IInv, Sound, Anchored, Later, Locked, Phase
<1>9. Staging(c)' /\ Veiled(c)' /\ Settled(c)' /\ Clean(c)'
  BY <1>1, <1>5, <1>6 DEF Staging, Veiled, Settled, Clean, Having, Later, Locked
<1> QED
  BY <1>5, <1>7, <1>8, <1>9 DEF IInv, Sound

(***************************************************************************)
(* An acceptable copy is the one object in the call's staging directory,   *)
(* so it is no source and no old target.                                   *)
(***************************************************************************)
LEMMA AwaitIInv == ASSUME IInv, NEW c \in Client, Await(c) PROVE IInv'
<1>1. /\ pc[c] = "await" /\ pc[c] \in Locked /\ pc[c] \in Later
      /\ UNCHANGED <<place, late, sent, source, from, to, old, stage, task, faulty>>
  BY DEF Await, provider, Later, Locked, Phase
<1>2. sent' = [sent EXCEPT ![c] = FALSE]
  BY <1>1, Types DEF IInv, Sound, Begun, Requesting
<1>3. CASE Return(c, "recovery") /\ UNCHANGED copied
  BY <1>1, <1>2, <1>3, EndIInv DEF Continue, Result
<1>4. ASSUME NEW i \in Object, Acceptable(c, i), copied' = [copied EXCEPT ![c] = i],
             Goto(c, "recheck")
      PROVE  IInv'
  <2>1. Continue(c, "recheck") /\ "recheck" \notin Result
    BY <1>4 DEF Continue, Result
  <2>2. /\ copied' \in [Client -> Object \cup {Nil}] /\ copied'[c] = i
        /\ \A d \in Client \ {c} : UNCHANGED copied[d]
    BY <1>4, Types
  <2>3. /\ TypeOK' /\ Locks!Exclusive' /\ ~sent'[c] /\ \A d \in Client \ {c} : Sound(d)'
        /\ pc'[c] = "recheck" /\ result'[c] = "none" /\ Holds(c)'
    BY <1>1, <1>2, <2>1, <2>2, DecideIInv, Types DEF Later, Locked, Phase
  <2>4. /\ Staged(c) = {i} /\ i \notin faulty /\ Visible(i) /\ place[i].dir = StageDir(c)
        /\ place[i] # Nowhere /\ place[i] # Trash /\ StageDir(c) \notin UserDir
    BY <1>4, PlacesAre, UserPlacesAre DEF Acceptable, Staged, Visible
  <2>5. \A d \in Client : pc[d] # "idle" => source[d] # i
    BY <2>4, CallsHave DEF IInv, Sound, Anchored, Within
  <2>6. old[c] # i /\ ~task[c] /\ stage[c] = "there" /\ Hidden(c)' = {}
    <3>1. old[c] # Nil => Within(old[c], {to[c].dir}) /\ to[c].dir \in UserDir
      BY <1>1, CallsHave DEF IInv, Sound, Distinct
    <3>2. old[c] # i
      BY <2>4, <3>1, PlacesAre DEF Within
    <3> QED
      BY <1>1, <2>4, <3>2, SameDrive, Types
         DEF IInv, Sound, Staging, Veiled, Having, Later, Locked, Phase
  <2>7. Begun(c)'
    BY <1>1, <2>2, <2>3, PlacesAre DEF IInv, Sound, Begun, Having, Later, Locked, Phase
  <2>8. Anchored(c)'
    BY <1>1, <2>3, SameDrive DEF IInv, Sound, Anchored, Later, Locked, Phase
  <2>9. Distinct(c)'
    <3>1. Within(i, {StageDir(c), to[c].dir})'
      BY <2>4, SameDrive, <1>1 DEF Within
    <3>2. i # source[c]
      BY <1>1, <2>5
    <3>3. old[c] # Nil => /\ place[old[c]] # Nowhere /\ old[c] # source[c]
                          /\ Within(old[c], {to[c].dir})'
      BY <1>1, SameDrive DEF IInv, Sound, Distinct
    <3> QED
      BY <1>1, <2>2, <2>4, <2>6, <3>1, <3>2, <3>3 DEF Distinct
  <2>10. OnItsWay(c)'
    <3>1. \A d \in Client : pc'[d] # "idle" => pc[d] # "idle"
      BY <1>1, <2>1, Continued, Types DEF IInv
    <3> QED
      BY <1>1, <2>2, <2>3, <2>4, <2>5, <3>1, SameDrive DEF OnItsWay
  <2>11. Staging(c)'
    BY <1>1, <2>2, <2>3, <2>4, <2>6, SameDrive DEF Staging, Having, Later, Locked
  <2>12. Veiled(c)' /\ Settled(c)' /\ Clean(c)'
    BY <2>3, <2>6 DEF Veiled, Settled, Clean
  <2> QED
    BY <2>3, <2>7, <2>8, <2>9, <2>10, <2>11, <2>12 DEF IInv, Sound
<1> QED
  BY <1>3, <1>4 DEF Await

-----------------------------------------------------------------------------
(***************************************************************************)
(* When the copy is alone at the target and the old one in the recycle     *)
(* bin, no object has a temporary name of the call any more.               *)
(***************************************************************************)
LEMMA NothingHidden ==
    ASSUME IInv, NEW c \in Client, pc[c] # "idle",
           ObjectsAt(to[c]) = {copied[c]}, Replacing(c) => place[old[c]] = Trash
    PROVE  Hidden(c) = {}
<1>1. Hidden(c) \subseteq {copied[c], old[c]}
  BY DEF IInv, Sound, Veiled
<1>2. copied[c] \notin Hidden(c)
  BY CallsHave, UserPlacesAre DEF Hidden, ObjectsAt
<1>3. old[c] \notin Hidden(c)
  BY PlacesAre DEF Hidden, Replacing, Visible
<1> QED
  BY <1>1, <1>2, <1>3

(***************************************************************************)
(* The steps after a listing has shown a request's effect, or has not.     *)
(***************************************************************************)
LEMMA CheckIInv == ASSUME IInv, NEW c \in Client, Check(c) PROVE IInv'
<1>1. /\ pc[c] \in Requesting /\ sent' = [sent EXCEPT ![c] = FALSE]
      /\ UNCHANGED <<place, late, source, from, to, old, copied, stage, task, faulty>>
      /\ pc[c] \in Locked /\ pc[c] # "idle"
      /\ (Achieved(c) /\ Continue(c, Success(c))) \/ Continue(c, Failure(c))
  BY DEF Check, copies, provider, Requesting, Locked, Phase
<1>2. ASSUME Continue(c, "recovery") PROVE IInv'
  BY <1>1, <1>2, EndIInv DEF Result
<1>3. ASSUME pc[c] = "mkstage" PROVE IInv'
  <2>1. CASE Continue(c, Failure(c))
    <3>1. Failure(c) = "error"
      BY <1>3 DEF Failure
    <3> QED
      BY <1>1, <1>3, <2>1, <3>1, NothingYet, EndIInv DEF Result
  <2>2. ASSUME Achieved(c), Continue(c, Success(c)) PROVE IInv'
    <3>1. Success(c) = "start" /\ stage[c] = "there"
      BY <1>3, <2>2 DEF Success, Achieved
    <3>2. /\ TypeOK' /\ Locks!Exclusive' /\ ~sent'[c] /\ \A d \in Client \ {c} : Sound(d)'
          /\ pc'[c] = "start" /\ result'[c] = "none" /\ Holds(c)'
      BY <1>1, <2>2, <3>1, DecideIInv, Types DEF Later, Locked, Phase, Result
    <3>3. ~task[c] /\ Staged(c)' = {} /\ Hidden(c)' = {} /\ copied[c] = Nil
      BY <1>1, <1>3, NothingYet, SameDrive
    <3>4. Begun(c)' /\ Distinct(c)' /\ OnItsWay(c)'
      BY <1>1, <1>3, <3>2, <3>3, SameDrive DEF IInv, Sound, Begun, Distinct, OnItsWay, Having, Later,
         Locked, Phase, Requesting
    <3>5. Anchored(c)'
      BY <1>1, <1>3, <3>2, SameDrive DEF IInv, Sound, Anchored, Later, Locked, Phase, Requesting
    <3>6. Staging(c)' /\ Veiled(c)' /\ Settled(c)' /\ Clean(c)'
      BY <1>1, <3>1, <3>2, <3>3 DEF Staging, Veiled, Settled, Clean, Having, Later, Locked
    <3> QED
      BY <3>2, <3>4, <3>5, <3>6 DEF IInv, Sound
  <2> QED
    BY <1>1, <2>1, <2>2
<1>4. ASSUME pc[c] = "rmstage" PROVE IInv'
  <2>1. Failure(c) = "recovery" /\ Success(c) = "ok"
    BY <1>4 DEF Failure, Success
  <2>2. ~task[c] /\ Staged(c) = {} /\ Hidden(c) = {} /\ (old[c] = Nil \/ place[old[c]] = Trash)
    BY <1>4, NothingHidden DEF IInv, Sound, Staging, Settled, Replacing
  <2>3. ASSUME Continue(c, "ok") PROVE IInv'
    BY <1>1, <2>2, <2>3, EndIInv DEF Result
  <2> QED
    BY <1>1, <1>2, <2>1, <2>3
<1>5. ASSUME pc[c] \notin {"mkstage", "rmstage"} PROVE IInv'
  <2>1. pc[c] \in Having \ {"rmstage"}
    BY <1>1, <1>5 DEF Having, Later, Locked, Phase, Requesting
  <2>2. ASSUME NEW next \in {"final", "promote", "verify", "unhide", "unhideBack", "restore"},
               Continue(c, next), next = "restore" => Replacing(c)
        PROVE  IInv'
    <3>1. next \in Having \ {"recheck"}
      BY DEF Having, Later, Locked, Phase, Requesting
    <3> QED
      BY <1>1, <2>1, <2>2, <3>1, GoOnIInv
  <2>3. ASSUME NEW next \in {"carry", "settle", "carryBack"}, Continue(c, next),
               pc[c] \in {"hide", "carry", "settle"}, pc[c] = "hide" => Achieved(c)
        PROVE  IInv'
    <3>1. next \in Having \ {"recheck"}
      BY DEF Having, Later, Locked, Phase, Requesting
    <3>2. place[copied[c]].name \in TempNames
      <4>1. CASE pc[c] = "hide"
        <5>1. Request(c) = Rename(copied[c], TempName("move", c))
          BY <4>1 DEF Request
        <5>2. place[copied[c]].name = TempName("move", c)
          BY <2>3, <4>1, <5>1, Effects DEF Achieved
        <5> QED
          BY <5>2 DEF TempName, TempNames
      <4>2. CASE pc[c] # "hide"
        BY <2>3, <4>2 DEF IInv, Sound, OnItsWay
      <4> QED
        BY <4>1, <4>2
    <3> QED
      BY <1>1, <2>1, <2>3, <3>1, <3>2, GoOnIInv
  <2>4. ASSUME pc[c] = "discard", Achieved(c), Continue(c, "empty") PROVE IInv'
    <3>1. "empty" \in Having \ {"recheck"}
      BY DEF Having, Later, Locked, Phase
    <3>2. ObjectsAt(to[c]) = {copied[c]}
      BY <2>4 DEF IInv, Sound, Settled
    <3>3. Replacing(c) => place[old[c]] = Trash
      BY <2>4, Types DEF Achieved, Replacing, Visible, Places, IInv, Sound, Distinct
    <3> QED
      BY <1>1, <2>1, <2>4, <3>1, <3>2, <3>3, GoOnIInv
  <2>5. CASE Achieved(c) /\ Continue(c, Success(c))
    <3>1. /\ pc[c] = "hide" => Success(c) = "carry"
          /\ pc[c] = "carry" => Success(c) = "settle"
          /\ pc[c] = "discard" => Success(c) = "empty"
          /\ pc[c] \notin {"hide", "carry", "discard"} =>
                /\ Success(c) \in {"final", "promote", "verify", "unhideBack", "restore", "recovery"}
                /\ Success(c) = "restore" => pc[c] = "aside"
      BY <1>1, <1>5 DEF Success, Requesting
    <3>2. pc[c] = "aside" => Replacing(c)
      BY DEF IInv, Sound, Begun
    <3> QED
      BY <1>2, <2>2, <2>3, <2>4, <2>5, <3>1, <3>2
  <2>6. CASE Continue(c, Failure(c))
    <3>1. /\ pc[c] = "settle" => Failure(c) = "carryBack"
          /\ pc[c] # "settle" => /\ Failure(c) \in {"unhide", "unhideBack", "restore", "recovery"}
                                 /\ Failure(c) = "restore" => pc[c] = "aside" \/ Replacing(c)
      BY <1>1, <1>5 DEF Failure, Requesting
    <3>2. pc[c] = "aside" => Replacing(c)
      BY DEF IInv, Sound, Begun
    <3> QED
      BY <1>2, <2>2, <2>3, <2>6, <3>1, <3>2
  <2> QED
    BY <1>1, <2>5, <2>6
<1> QED
  BY <1>3, <1>4, <1>5

(***************************************************************************)
(* The reads after the copy was found.                                     *)
(***************************************************************************)
LEMMA InspectIInv == ASSUME IInv, NEW c \in Client, Inspect(c) PROVE IInv'
<1>1. /\ pc[c] \in {"recheck", "final", "verify", "empty"}
      /\ UNCHANGED <<place, late, sent, source, from, to, old, copied, stage, task, faulty>>
  BY DEF Inspect, Look, copies, provider
<1>2. pc[c] \in Locked /\ pc[c] \in Having \ {"rmstage"} /\ pc[c] # "idle"
  BY <1>1 DEF Having, Later, Locked, Phase
<1>3. sent' = [sent EXCEPT ![c] = FALSE]
  BY <1>1, Types DEF IInv, Sound, Begun, Requesting
<1>4. ASSUME Continue(c, "recovery") PROVE IInv'
  BY <1>1, <1>2, <1>3, <1>4, EndIInv DEF Result
<1>5. ASSUME NEW x \in {"hide", "backup", "promote", "aside"}, Continue(c, x),
             x = "hide" => pc[c] = "recheck", x \in {"backup", "aside"} => Replacing(c)
      PROVE  IInv'
  <2>1. x \in Having \ {"recheck"}
    BY DEF Having, Later, Locked, Phase, Requesting
  <2> QED
    BY <1>1, <1>2, <1>3, <1>5, <2>1, GoOnIInv
<1>6. ASSUME Verified(c), Continue(c, IF Replacing(c) THEN "discard" ELSE "empty") PROVE IInv'
  <2> DEFINE next == IF Replacing(c) THEN "discard" ELSE "empty"
  <2>1. next \in Having \ {"recheck"} /\ next \in {"discard", "empty"}
    BY DEF Having, Later, Locked, Phase, Requesting
  <2>2. ObjectsAt(to[c]) = {copied[c]} /\ (next = "empty" <=> ~Replacing(c))
    BY <1>6 DEF Verified
  <2>3. Continue(c, next)
    BY <1>6
  <2> HIDE DEF next
  <2> QED
    BY <1>1, <1>2, <1>3, <2>1, <2>2, <2>3, GoOnIInv
<1>7. ASSUME pc[c] = "empty", Staged(c) = {}, Continue(c, "rmstage") PROVE IInv'
  <2>1. ObjectsAt(to[c]) = {copied[c]} /\ (Replacing(c) => place[old[c]] = Trash)
    BY <1>7 DEF IInv, Sound, Settled
  <2>2. "rmstage" \in Having \ {"recheck"}
    BY DEF Having, Later, Locked, Phase, Requesting
  <2> QED
    BY <1>1, <1>2, <1>3, <1>7, <2>1, <2>2, GoOnIInv
<1>8. CASE Look(c, "recheck", Unchanged(c), "hide", "recovery")
  BY <1>4, <1>5, <1>8 DEF Look
<1>9. CASE Look(c, "final", place[copied[c]] = PlaceOf(to[c].dir, CopyName(c)),
                IF Replacing(c) THEN "backup" ELSE "promote", "recovery")
  BY <1>4, <1>5, <1>9 DEF Look
<1>10. CASE Look(c, "verify", Verified(c), IF Replacing(c) THEN "discard" ELSE "empty",
                 IF Replacing(c) THEN "aside" ELSE "recovery")
  BY <1>4, <1>5, <1>6, <1>10 DEF Look
<1>11. CASE Look(c, "empty", Staged(c) = {}, IF stage[c] = "there" THEN "rmstage" ELSE "ok", "recovery")
  <2>1. pc[c] = "empty" /\ stage[c] = "there"
    BY <1>2, <1>11 DEF Look, IInv, Sound, Staging, Having
  <2> QED
    BY <1>4, <1>7, <1>11, <2>1 DEF Look
<1> QED
  BY <1>8, <1>9, <1>10, <1>11 DEF Inspect

-----------------------------------------------------------------------------
(***************************************************************************)
(* A request to the drive moves the copy or the old target, within the     *)
(* directories of the call or into the recycle bin, or has no effect.      *)
(***************************************************************************)
LEMMA RequestMoves ==
    ASSUME IInv, NEW c \in Client, pc[c] \in Requesting \ {"mkstage", "rmstage"}, Attempt(Request(c)),
           place' # place
    PROVE  \E i \in Object, q \in Place \cup {Trash} :
              /\ place' = [place EXCEPT ![i] = q]
              /\ Visible(i) /\ i # source[c] /\ place[i].dir \in {StageDir(c), to[c].dir}
              /\ i = copied[c] =>
                    /\ q \in Place /\ q.dir \in {StageDir(c), to[c].dir}
                    /\ pc[c] \in {"carry", "carryBack"} => q.name = place[i].name
                    /\ pc[c] \notin {"carry", "carryBack"} => q.dir = place[i].dir
                    /\ pc[c] = "settle" => q.name \in TempNames
                    /\ pc[c] \notin {"backup", "restore", "discard"}
              /\ i # copied[c] =>
                    /\ i = old[c] /\ pc[c] \in {"backup", "restore", "discard"}
                    /\ pc[c] = "discard" <=> q = Trash
                    /\ q = Trash \/ (q \in Place /\ q.dir = place[i].dir)
              /\ q # Trash /\ q.name \in TempNames => q.name.by = c \/ q.name = place[i].name
<1>1. pc[c] \in Having /\ pc[c] \in Later
  BY DEF Having, Later, Locked, Phase, Requesting
<1>2. /\ copied[c] \in Object /\ copied[c] # source[c] /\ copied[c] # old[c]
      /\ Within(copied[c], {StageDir(c), to[c].dir})
      /\ old[c] # Nil => old[c] \in Object /\ old[c] # source[c] /\ Within(old[c], {to[c].dir})
      /\ pc[c] \in {"backup", "restore", "discard"} => old[c] # Nil
  BY <1>1, Types DEF IInv, Sound, Begun, Distinct, Replacing
<1>3. /\ to[c].dir \in Dir /\ from[c].name \in Name /\ to[c].name \in Name /\ StageDir(c) \in Dir
      /\ \A n \in Name : n \in AnyName /\ n \notin TempNames
  <2>1. pc[c] # "idle"
    BY DEF Requesting
  <2>2. to[c].dir \in UserDir /\ from[c].name \in Name /\ to[c].name \in Name
    BY <2>1, CallsHave
  <2> QED
    BY <2>2, UserPlacesAre, DriveAssumption DEF AnyName, UserDir
<1>4. \A kind \in {"stage", "backup", "move", "copy"} :
         /\ TempName(kind, c) \in AnyName /\ TempName(kind, c) \in TempNames
         /\ TempName(kind, c).by = c
  BY TempNamesAre DEF TempName, TempNames
<1>5. ASSUME NEW i \in Object, NEW n \in AnyName, Request(c) = Rename(i, n),
             n \in TempNames => n.by = c,
             i = copied[c] \/ (i = old[c] /\ pc[c] \in {"backup", "restore"}),
             pc[c] = "settle" => n \in TempNames
      PROVE  /\ place' = [place EXCEPT ![i] = PlaceOf(place[i].dir, n)] /\ Visible(i)
             /\ PlaceOf(place[i].dir, n) \in Place
             /\ PlaceOf(place[i].dir, n).dir = place[i].dir /\ PlaceOf(place[i].dir, n).name = n
  <2>1. Visible(i) /\ place' = [place EXCEPT ![i] = PlaceOf(place[i].dir, n)]
    <3>1. Attempt(Rename(i, n))
      BY <1>5
    <3> QED
      BY <3>1, Attempted, Effects
  <2> QED
    BY <2>1, PlacesAre DEF Visible
<1>6. CASE pc[c] \in {"hide", "settle", "aside", "unhide", "unhideBack", "promote"}
  <2>1. PICK n \in AnyName :
          /\ Request(c) = Rename(copied[c], n) /\ (n \in TempNames => n.by = c)
          /\ pc[c] = "settle" => n \in TempNames
    BY <1>3, <1>4, <1>6 DEF Request, CopyName
  <2> DEFINE q == PlaceOf(place[copied[c]].dir, n)
  <2>2. place' = [place EXCEPT ![copied[c]] = q] /\ Visible(copied[c])
        /\ q \in Place /\ q.dir = place[copied[c]].dir /\ q.name = n
    BY <1>2, <1>5, <2>1
  <2>3. place[copied[c]].dir \in {StageDir(c), to[c].dir}
    BY <1>2, <2>2, PlacesAre DEF Within, Visible
  <2>4. q # Trash
    BY <2>2, PlacesAre
  <2>5. pc[c] \notin {"carry", "carryBack", "backup", "restore", "discard"}
    BY <1>6
  <2> HIDE DEF q
  <2> QED
    BY <1>2, <2>1, <2>2, <2>3, <2>4, <2>5
<1>7. CASE pc[c] \in {"backup", "restore"}
  <2>1. PICK n \in AnyName :
          Request(c) = Rename(old[c], n) /\ (n \in TempNames => n.by = c)
    BY <1>3, <1>4, <1>7 DEF Request
  <2> DEFINE q == PlaceOf(place[old[c]].dir, n)
  <2>2. place' = [place EXCEPT ![old[c]] = q] /\ Visible(old[c])
        /\ q \in Place /\ q.dir = place[old[c]].dir /\ q.name = n
    BY <1>2, <1>5, <1>7, <2>1
  <2>3. place[old[c]].dir = to[c].dir
    BY <1>2, <1>7, <2>2, PlacesAre DEF Within, Visible
  <2>4. q # Trash
    BY <2>2, PlacesAre
  <2> HIDE DEF q
  <2> QED
    BY <1>2, <1>7, <2>1, <2>2, <2>3, <2>4
<1>8. CASE pc[c] \in {"carry", "carryBack"}
  <2>1. PICK d \in {StageDir(c), to[c].dir} : Request(c) = Relocate(copied[c], d)
    BY <1>8 DEF Request
  <2> DEFINE q == PlaceOf(d, place[copied[c]].name)
  <2>2. place' = [place EXCEPT ![copied[c]] = q] /\ Visible(copied[c])
    <3>1. Attempt(Relocate(copied[c], d))
      BY <2>1
    <3> QED
      BY <3>1, Attempted, Effects
  <2>3. q \in Place /\ q.dir = d /\ q.name = place[copied[c]].name /\ q # Trash
    BY <1>3, <2>2, PlacesAre DEF Visible
  <2>4. place[copied[c]].dir \in {StageDir(c), to[c].dir}
    BY <1>2, <2>2, PlacesAre DEF Within, Visible
  <2>5. q.dir \in {StageDir(c), to[c].dir} /\ copied[c] # old[c] /\ copied[c] \in Object
    BY <1>2, <2>1, <2>3
  <2> HIDE DEF q
  <2> QED
    BY <1>2, <1>8, <2>2, <2>3, <2>4, <2>5
<1>9. CASE pc[c] = "discard"
  <2>1. Request(c) = Discard(old[c], TempName("backup", c))
    BY <1>9 DEF Request
  <2>2. place' = [place EXCEPT ![old[c]] = Trash] /\ Visible(old[c])
    <3>1. Attempt(Discard(old[c], TempName("backup", c)))
      BY <2>1
    <3> QED
      BY <3>1, Attempted, Effects
  <2>3. place[old[c]].dir = to[c].dir
    BY <1>2, <1>9, <2>2, PlacesAre DEF Within, Visible
  <2> QED
    BY <1>2, <1>9, <2>2, <2>3
<1> QED
  BY <1>6, <1>7, <1>8, <1>9 DEF Requesting

(***************************************************************************)
(* A step that changes the drive for a call, but neither its control nor   *)
(* its objects, is no concern of other calls.                              *)
(***************************************************************************)
LEMMA ElsewhereIInv ==
    ASSUME IInv, NEW c \in Client, pc[c] # "idle",
           UNCHANGED <<held, pc, result, source, from, to, old, copied>>,
           sent' \in [Client -> BOOLEAN], stage' \in [Client -> {"none", "there", "trashed"}],
           task' \in [Client -> BOOLEAN], Late \/ late' = {},
           \A d \in Client \ {c} : UNCHANGED <<sent[d], stage[d], task[d]>>,
           place' \in Places, OwnWork(c),
           \A i \in faulty' \ faulty : i \in Object /\ place[i] = Nowhere /\ place'[i] # Nowhere
    PROVE  /\ TypeOK' /\ Locks!Exclusive' /\ \A d \in Client \ {c} : Sound(d)'
           /\ Holds(c)' /\ \A i \in Object : place[i] # Nowhere => place'[i] # Nowhere
<1>1. \A i \in Object : place[i] # Nowhere => place'[i] # Nowhere
  BY PlacesAre, DriveAssumption DEF OwnWork
<1>2. TypeOK'
  <2>1. faulty' \subseteq {i \in Object : place'[i] # Nowhere}
    BY <1>1, Types
  <2> QED
    BY <2>1 DEF IInv, TypeOK, ControlTypeOK, Places
<1>3. Locks!Exclusive'
  BY KeysKept DEF IInv
<1>4. ASSUME NEW d \in Client \ {c} PROVE Sound(d)'
  <2>1. UNCHANGED <<pc[d], sent[d], result[d], held[d], old[d], copied[d], stage[d], task[d]>>
    OBVIOUS
  <2> QED
    BY <2>1, OthersAreSound
<1>5. Holds(c)'
  BY DEF IInv, Sound, Holds, Keys
<1> QED
  BY <1>1, <1>2, <1>3, <1>4, <1>5

(***************************************************************************)
(* A request to the drive.                                                 *)
(***************************************************************************)
LEMMA SendIInv == ASSUME IInv, NEW c \in Client, Send(c) PROVE IInv'
<1>1. /\ pc[c] \in Requesting /\ ~sent[c] /\ sent' = [sent EXCEPT ![c] = TRUE]
      /\ UNCHANGED <<held, pc, result, source, from, to, old, copied, task, faulty>>
      /\ IF pc[c] \in {"mkstage", "rmstage"}
         THEN AttemptStage(c)
         ELSE Attempt(Request(c)) /\ UNCHANGED stage
      /\ pc[c] \in Later /\ pc[c] # "idle" /\ pc[c] # "done"
  BY DEF Send, copies, Later, Locked, Phase, Requesting
<1>2. sent' \in [Client -> BOOLEAN] /\ \A d \in Client \ {c} : UNCHANGED sent[d]
  BY <1>1, Types
<1>3. Late \/ late' = {}
  <2>1. Late \/ late = {}
    BY DEF IInv, TypeOK
  <2> QED
    BY <1>1, <2>1 DEF AttemptStage, Attempt
<1>4. CASE pc[c] \in {"mkstage", "rmstage"}
  <2>1. place' = place
    BY <1>1, <1>4 DEF AttemptStage
  <2>2. stage' \in [Client -> {"none", "there", "trashed"}] /\ \A d \in Client \ {c} : UNCHANGED stage[d]
    BY <1>1, <1>4, Types DEF AttemptStage
  <2>3. pc[c] = "rmstage" => stage'[c] # "none"
    BY <1>1, <1>4, Types DEF AttemptStage, IInv, Sound, Staging
  <2>4. TypeOK' /\ Locks!Exclusive' /\ Holds(c)' /\ \A d \in Client \ {c} : Sound(d)'
    BY <1>1, <1>2, <1>3, <2>1, <2>2, NothingDone, ElsewhereIInv, Types
  <2>5. Begun(c)' /\ Anchored(c)' /\ Distinct(c)'
    BY <1>1, <2>1, SameDrive DEF IInv, Sound, Begun, Anchored, Distinct, Replacing
  <2>6. OnItsWay(c)' /\ Clean(c)'
    BY <1>1, <1>4 DEF OnItsWay, Clean
  <2>7. Staging(c)' /\ Veiled(c)' /\ Settled(c)'
    BY <1>1, <1>4, <2>1, <2>3, SameDrive DEF IInv, Sound, Staging, Veiled, Settled, Replacing
  <2> QED
    BY <2>4, <2>5, <2>6, <2>7 DEF IInv, Sound
<1>5. CASE pc[c] \notin {"mkstage", "rmstage"} /\ place' = place
  <2>1. stage' = stage
    BY <1>1, <1>5
  <2>2. TypeOK' /\ Locks!Exclusive' /\ Holds(c)' /\ \A d \in Client \ {c} : Sound(d)'
    BY <1>1, <1>2, <1>3, <1>5, <2>1, NothingDone, ElsewhereIInv, Types
  <2>3. Begun(c)' /\ Anchored(c)' /\ Distinct(c)'
    BY <1>1, <1>5, SameDrive DEF IInv, Sound, Begun, Anchored, Distinct, Replacing
  <2>4. OnItsWay(c)' /\ Clean(c)'
    BY <1>1, <1>5, SameDrive DEF IInv, Sound, OnItsWay, Clean
  <2>5. Staging(c)' /\ Veiled(c)' /\ Settled(c)'
    BY <1>1, <1>5, <2>1, SameDrive DEF IInv, Sound, Staging, Veiled, Settled, Replacing
  <2> QED
    BY <2>2, <2>3, <2>4, <2>5 DEF IInv, Sound
<1>6. CASE pc[c] \notin {"mkstage", "rmstage"} /\ place' # place
  <2>1. PICK i \in Object, q \in Place \cup {Trash} :
          /\ place' = [place EXCEPT ![i] = q]
          /\ Visible(i) /\ i # source[c] /\ place[i].dir \in {StageDir(c), to[c].dir}
          /\ i = copied[c] =>
                /\ q \in Place /\ q.dir \in {StageDir(c), to[c].dir}
                /\ pc[c] \in {"carry", "carryBack"} => q.name = place[i].name
                /\ pc[c] \notin {"carry", "carryBack"} => q.dir = place[i].dir
                /\ pc[c] = "settle" => q.name \in TempNames
                /\ pc[c] \notin {"backup", "restore", "discard"}
          /\ i # copied[c] =>
                /\ i = old[c] /\ pc[c] \in {"backup", "restore", "discard"}
                /\ pc[c] = "discard" <=> q = Trash
                /\ q = Trash \/ (q \in Place /\ q.dir = place[i].dir)
          /\ q # Trash /\ q.name \in TempNames => q.name.by = c \/ q.name = place[i].name
    BY <1>1, <1>6, RequestMoves
  <2>2. /\ \A j \in Object : place'[j] = IF j = i THEN q ELSE place[j]
        /\ place' \in Places /\ stage' = stage /\ pc[c] \in Having
        /\ Trash \notin Place /\ Nowhere # Trash /\ Nowhere \notin Place
    BY <1>1, <1>6, <2>1, PlacesAre, DriveAssumption, Types DEF Places, Having, Requesting
  <2>3. OwnWork(c)
    BY <1>1, <2>1, <2>2 DEF OwnWork, Region, Visible
  <2>4. /\ TypeOK' /\ Locks!Exclusive' /\ Holds(c)' /\ \A d \in Client \ {c} : Sound(d)'
    BY <1>1, <1>2, <1>3, <2>2, <2>3, ElsewhereIInv, Types
  <2>5. Begun(c)' /\ Clean(c)'
    BY <1>1 DEF IInv, Sound, Begun, Clean, Replacing
  <2>6. /\ copied[c] \in Object /\ copied[c] # source[c] /\ copied[c] # old[c]
        /\ copied[c] # Nil /\ copied[c] \notin faulty
        /\ Within(copied[c], {StageDir(c), to[c].dir})
        /\ old[c] # Nil => old[c] \in Object /\ old[c] # source[c] /\ Within(old[c], {to[c].dir})
        /\ source[c] \in Object /\ to[c] \in Place /\ to[c].dir # StageDir(c)
        /\ Nil \notin Object
    <3>1. copied[c] # Nil
      BY <2>2 DEF IInv, Sound, Begun
    <3>2. source[c] \in Object /\ to[c] \in Place /\ to[c].dir # StageDir(c)
      BY <1>1, CallsHave, UserPlacesAre
    <3>3. /\ copied[c] # source[c] /\ copied[c] # old[c] /\ copied[c] \notin faulty
          /\ Within(copied[c], {StageDir(c), to[c].dir})
      BY <1>1, <3>1 DEF IInv, Sound, Distinct
    <3>4. old[c] # Nil => old[c] # source[c] /\ Within(old[c], {to[c].dir})
      BY <1>1 DEF IInv, Sound, Distinct
    <3> QED
      BY <3>1, <3>2, <3>3, <3>4, PlacesAre, Types
  <2>7. Anchored(c)'
    BY <1>1, <2>1, <2>2, <2>6 DEF IInv, Sound, Anchored, Within, Visible
  <2>8. Distinct(c)'
    <3>1. place'[copied[c]] # Nowhere /\ Within(copied[c], {StageDir(c), to[c].dir})'
      BY <1>1, <2>1, <2>2, <2>6 DEF Within, Visible
    <3>2. old[c] # Nil => place'[old[c]] # Nowhere /\ Within(old[c], {to[c].dir})'
      <4>1. old[c] = i => place[i].dir = to[c].dir
        BY <2>1, <2>2, <2>6 DEF Within, Visible
      <4> QED
        BY <1>1, <2>1, <2>2, <2>6, <4>1 DEF Within, Visible
    <3> QED
      BY <1>1, <2>6, <3>1, <3>2 DEF Distinct
  <2>9. OnItsWay(c)'
    <3> SUFFICES ASSUME pc[c] \in {"hide", "carry", "settle", "carryBack"} PROVE OnItsWay(c)'
      BY <1>1 DEF OnItsWay, Requesting
    <3>1. i = copied[c]
      BY <2>1
    <3>2. place'[i] = q /\ q \in Place
      BY <2>1, <2>2, <3>1
    <3>3. pc[c] = "hide" => q.dir = StageDir(c)
      BY <2>1, <3>1 DEF IInv, Sound, OnItsWay
    <3>4. pc[c] # "hide" => q.name \in TempNames
      <4>1. pc[c] # "hide" => place[i].name \in TempNames
        BY <3>1 DEF IInv, Sound, OnItsWay
      <4> QED
        BY <2>1, <3>1, <4>1
    <3> QED
      BY <1>1, <3>1, <3>2, <3>3, <3>4 DEF IInv, Sound, OnItsWay, Visible
  <2>10. Staged(c)' \subseteq {copied[c]}
    <3>1. Staged(c) \subseteq {copied[c]}
      BY <2>2 DEF IInv, Sound, Staging
    <3>2. i # copied[c] => i \notin Staged(c)'
      <4>1. i # copied[c] => place[i].dir = to[c].dir
        BY <2>1, <2>2, <2>6 DEF Within, Visible
      <4> QED
        BY <2>1, <2>2, <2>6, <4>1 DEF Staged, Visible
    <3> QED
      BY <2>2, <3>1, <3>2 DEF Staged, Visible
  <2>11. Staging(c)'
    BY <1>1, <1>6, <2>2, <2>10 DEF IInv, Sound, Staging, Having, Later, Locked
  <2>12. Veiled(c)'
    <3>1. Hidden(c) \subseteq {copied[c], old[c]}
      BY DEF IInv, Sound, Veiled
    <3>2. Hidden(c)' \subseteq {copied[c], old[c]}
      BY <2>1, <2>2, <3>1 DEF Hidden, Visible
    <3> QED
      BY <1>1, <2>2, <3>2 DEF Veiled, Requesting
  <2>13. Settled(c)'
    <3> SUFFICES ASSUME pc[c] = "discard" PROVE ObjectsAt(to[c])' = {copied[c]}
      BY <1>1, <1>6 DEF Settled, Requesting
    <3>1. i = old[c] /\ i # copied[c] /\ q = Trash /\ ObjectsAt(to[c]) = {copied[c]}
      BY <2>1, <2>2, <2>6 DEF IInv, Sound, Settled
    <3> QED
      BY <1>1, <2>2, <2>6, <3>1 DEF ObjectsAt
  <2> QED
    BY <2>4, <2>5, <2>7, <2>8, <2>9, <2>11, <2>12, <2>13 DEF IInv, Sound
<1> QED
  BY <1>4, <1>5, <1>6

-----------------------------------------------------------------------------
(***************************************************************************)
(* The service makes the copy, a new object in the staging directory.      *)
(***************************************************************************)
LEMMA MaterializeIInv == ASSUME IInv, NEW c \in Client, Materialize(c) PROVE IInv'
<1>1. PICK i \in FreshObjects :
        /\ stage[c] = "there"
        /\ Perform(Create(i, PlaceOf(StageDir(c), from[c].name)))
        /\ faulty' \in {faulty, faulty \cup {i}}
  BY DEF Materialize
<1>2. /\ task[c] /\ task' = [task EXCEPT ![c] = FALSE]
      /\ UNCHANGED <<late, held, pc, sent, result, source, from, to, old, copied, stage>>
  BY DEF Materialize, control, copies
<1>3. /\ pc[c] = "await" \/ (pc[c] = "done" /\ result[c] \notin {"ok", "error"})
      /\ Staged(c) = {} /\ pc[c] # "idle" /\ pc[c] \notin Having
  BY <1>2 DEF IInv, Sound, Staging, Having, Later, Locked
<1>4. i \in Object /\ place[i] = Nowhere
  BY DEF FreshObjects, Unused
<1> DEFINE q == PlaceOf(StageDir(c), from[c].name)
<1>5. /\ q \in Place /\ q.dir = StageDir(c) /\ q.name \notin TempNames
      /\ q # Trash /\ q # Nowhere /\ Nowhere # Trash /\ Nowhere \notin Place
  <2>1. from[c].name \in Name /\ from[c].name \notin TempNames
    BY <1>3, CallsHave, UserPlacesAre
  <2>2. StageDir(c) \in Dir /\ from[c].name \in AnyName
    BY <2>1, UserPlacesAre DEF AnyName
  <2> QED
    BY <2>1, <2>2, PlacesAre, DriveAssumption
<1>6. place' = [place EXCEPT ![i] = q]
  <2>1. PlaceOf(q.dir, q.name) = q
    BY DEF PlaceOf
  <2>2. Perform(Create(i, q))
    BY <1>1
  <2> HIDE DEF q
  <2> QED
    BY <1>4, <2>1, <2>2, Performed, Effects
<1> HIDE DEF q
<1>7. /\ \A j \in Object : place'[j] = IF j = i THEN q ELSE place[j]
      /\ place' \in Places
  BY <1>5, <1>6, Types DEF Places
<1>8. OwnWork(c)
  BY <1>4, <1>5, <1>7 DEF OwnWork, Region, Visible
<1>9. /\ TypeOK' /\ Locks!Exclusive' /\ Holds(c)' /\ \A d \in Client \ {c} : Sound(d)'
  <2>1. \A j \in faulty' \ faulty : j \in Object /\ place[j] = Nowhere /\ place'[j] # Nowhere
    BY <1>1, <1>4, <1>5, <1>7
  <2>2. task' \in [Client -> BOOLEAN] /\ (Late \/ late' = {})
        /\ \A d \in Client \ {c} : UNCHANGED <<sent[d], stage[d], task[d]>>
    BY <1>2, Types DEF IInv, TypeOK
  <2> QED
    BY <1>2, <1>3, <1>7, <1>8, <2>1, <2>2, ElsewhereIInv, Types
<1>10. \A j \in Object : place[j] # Nowhere => place'[j] = place[j]
  BY <1>4, <1>7
<1>11. Begun(c)' /\ OnItsWay(c)' /\ Settled(c)' /\ Clean(c)'
  BY <1>2, <1>3 DEF IInv, Sound, Begun, OnItsWay, Settled, Clean, Replacing
<1>12. Anchored(c)'
  BY <1>2, <1>3, <1>5, <1>10, CallsHave, DriveAssumption DEF IInv, Sound, Anchored, Within, Visible
<1>13. Distinct(c)'
  <2>1. ASSUME old[c] # Nil
        PROVE  /\ place'[old[c]] # Nowhere
               /\ pc[c] \in Later => old[c] # source[c] /\ Within(old[c], {to[c].dir})'
    <3>1. old[c] \in Object /\ place[old[c]] # Nowhere
          /\ (pc[c] \in Later => old[c] # source[c] /\ Within(old[c], {to[c].dir}))
      BY <2>1, Types DEF IInv, Sound, Distinct
    <3>2. place'[old[c]] = place[old[c]]
      BY <1>10, <3>1
    <3> QED
      BY <1>2, <3>1, <3>2 DEF Within, Visible
  <2>2. copied[c] # Nil => copied[c] \in Object /\ place'[copied[c]] # Nowhere /\ copied[c] \notin faulty'
    BY <1>1, <1>4, <1>10, Types DEF IInv, Sound, Distinct
  <2>3. pc[c] \in Later => copied[c] = Nil
    BY <1>3, Types DEF IInv, Sound, Begun, Having, Later, Locked
  <2> QED
    BY <1>2, <2>1, <2>2, <2>3 DEF Distinct
<1>14. Staging(c)'
  <2>1. ~task'[c]
    BY <1>2, Types
  <2> QED
    BY <1>2, <1>3, <2>1 DEF IInv, Sound, Staging
<1>15. Veiled(c)'
  <2>1. Hidden(c)' \subseteq Hidden(c)
    BY <1>5, <1>7 DEF Hidden, Visible
  <2> QED
    BY <1>2, <2>1 DEF IInv, Sound, Veiled
<1> QED
  BY <1>9, <1>11, <1>12, <1>13, <1>14, <1>15 DEF IInv, Sound

\* The service gives up a copy: nothing moves.
LEMMA FailTaskIInv == ASSUME IInv, NEW c \in Client, FailTask(c) PROVE IInv'
<1>1. /\ task[c] /\ task' = [task EXCEPT ![c] = FALSE]
      /\ UNCHANGED <<place, late, held, pc, sent, result, source, from, to, old, copied, stage, faulty>>
  BY DEF FailTask, control, copies
<1>2. pc[c] \in {"await", "done"}
  BY <1>1 DEF IInv, Sound, Staging
<1>3. task' \in [Client -> BOOLEAN] /\ ~task'[c] /\ \A d \in Client \ {c} : UNCHANGED task[d]
  BY <1>1, Types
<1>4. /\ TypeOK' /\ Locks!Exclusive' /\ Holds(c)' /\ \A d \in Client \ {c} : Sound(d)'
  <2>1. Late \/ late' = {}
    BY <1>1 DEF IInv, TypeOK
  <2> QED
    BY <1>1, <1>2, <1>3, <2>1, NothingDone, ElsewhereIInv, Types
<1>5. Begun(c)' /\ Anchored(c)' /\ Distinct(c)'
  BY <1>1, SameDrive DEF IInv, Sound, Begun, Anchored, Distinct, Replacing
<1>6. OnItsWay(c)' /\ Veiled(c)' /\ Settled(c)' /\ Clean(c)'
  BY <1>1, SameDrive DEF IInv, Sound, OnItsWay, Veiled, Settled, Clean, Replacing
<1>7. Staging(c)'
  BY <1>1, <1>3, SameDrive DEF IInv, Sound, Staging
<1> QED
  BY <1>4, <1>5, <1>6, <1>7 DEF IInv, Sound

(***************************************************************************)
(* Another device creates or trashes the target; the source is elsewhere.  *)
(***************************************************************************)
LEMMA InterfereIInv == ASSUME IInv, NEW c \in Client, Interfere(c) PROVE IInv'
<1>1. /\ pc[c] \in Exposed
      /\ UNCHANGED <<late, held, pc, sent, result, source, from, to, old, copied, stage, task, faulty>>
      /\ \/ \E i \in FreshObjects : ObjectsAt(to[c]) = {} /\ Perform(Create(i, to[c]))
         \/ \E i \in ObjectsAt(to[c]) : Perform(Discard(i, to[c].name))
  BY DEF Interfere, control, copies, provider
<1>2. /\ pc[c] \in Later /\ pc[c] # "idle"
      /\ pc[c] \notin {"discard", "empty", "rmstage", "idle", "done"}
  BY <1>1 DEF Exposed, Later, Locked, Phase, Requesting
<1>3. /\ to[c] \in Place /\ to[c].dir # StageDir(c) /\ to[c].name \notin TempNames
      /\ to[c] # Trash /\ to[c] # Nowhere /\ Nowhere # Trash
      /\ Nowhere \notin Place /\ Trash \notin Place
      /\ source[c] \in Object /\ place[source[c]] = from[c] /\ from[c] # to[c] /\ from[c] \in Place
  <2>1. /\ from[c] \in UserPlace /\ to[c] \in UserPlace /\ source[c] \in Object
    BY <1>2, CallsHave
  <2>2. place[source[c]] = from[c] /\ from[c] # to[c]
    BY <1>2 DEF IInv, Sound, Anchored
  <2>3. Nowhere # Trash /\ Nowhere \notin Place /\ Trash \notin Place
    BY PlacesAre, DriveAssumption
  <2> QED
    BY <2>1, <2>2, <2>3, UserPlacesAre
<1>4. PICK i \in Object, q \in {to[c], Trash} :
        /\ place' = [place EXCEPT ![i] = q] \/ place' = place
        /\ IF q = Trash THEN place[i] = to[c] ELSE place[i] = Nowhere
  <2>1. ASSUME NEW i \in FreshObjects, Perform(Create(i, to[c]))
        PROVE  i \in Object /\ place[i] = Nowhere /\ place' = [place EXCEPT ![i] = to[c]]
    <3>1. i \in Object /\ place[i] = Nowhere
      BY DEF FreshObjects, Unused
    <3>2. PlaceOf(to[c].dir, to[c].name) = to[c]
      BY <1>3, PlacesAre
    <3> QED
      BY <2>1, <3>1, <3>2, Performed, Effects
  <2>2. ASSUME NEW i \in ObjectsAt(to[c]), Perform(Discard(i, to[c].name))
        PROVE  i \in Object /\ place[i] = to[c]
               /\ (place' = [place EXCEPT ![i] = Trash] \/ place' = place)
    BY <2>2, Performed, Effects DEF ObjectsAt
  <2> QED
    BY <1>1, <1>3, <2>1, <2>2
<1>5. /\ \A j \in Object : place'[j] = place[j] \/ (j = i /\ place'[j] = q)
      /\ place' \in Places
  BY <1>3, <1>4, Types DEF Places
<1>6. OwnWork(c)
  BY <1>2, <1>3, <1>4, <1>5 DEF OwnWork, Region, Visible
<1>7. /\ TypeOK' /\ Locks!Exclusive' /\ Holds(c)' /\ \A d \in Client \ {c} : Sound(d)'
      /\ \A j \in Object : place[j] # Nowhere => place'[j] # Nowhere
  <2>1. Late \/ late' = {}
    BY <1>1 DEF IInv, TypeOK
  <2> QED
    BY <1>1, <1>2, <1>5, <1>6, <2>1, ElsewhereIInv, Types
<1>8. Begun(c)' /\ Settled(c)' /\ Clean(c)'
  BY <1>1, <1>2 DEF IInv, Sound, Begun, Settled, Clean, Replacing
<1>9. Anchored(c)'
  BY <1>1, <1>2, <1>3, <1>4, <1>5 DEF IInv, Sound, Anchored, Within, Visible
<1>10. \A j \in Object : \A D : place[j] # Nowhere /\ Within(j, D) => Within(j, D)'
  BY <1>3, <1>4, <1>5 DEF Within, Visible
<1>11. Distinct(c)'
  <2>1. old[c] # Nil => /\ place'[old[c]] # Nowhere /\ old[c] # source[c]
                        /\ Within(old[c], {to[c].dir})'
    BY <1>1, <1>2, <1>7, <1>10, Types DEF IInv, Sound, Distinct
  <2>2. copied[c] # Nil => /\ place'[copied[c]] # Nowhere /\ copied[c] \notin faulty
                           /\ copied[c] # source[c] /\ copied[c] # old[c]
                           /\ Within(copied[c], {StageDir(c), to[c].dir})'
    BY <1>1, <1>2, <1>7, <1>10, Types DEF IInv, Sound, Distinct
  <2> QED
    BY <1>1, <2>1, <2>2 DEF Distinct
<1>12. OnItsWay(c)'
  <2> SUFFICES ASSUME pc[c] \in {"recheck", "hide", "carry", "settle", "carryBack"} PROVE OnItsWay(c)'
    BY <1>1 DEF OnItsWay
  <2>1. copied[c] \in Object /\ place[copied[c]] # to[c] /\ place[copied[c]] # Nowhere
    <3>1. pc[c] \in Having
      BY DEF Having, Later, Locked, Phase, Requesting
    <3> QED
      BY <1>3, <3>1, Types DEF IInv, Sound, Begun, OnItsWay, Distinct
  <2>2. place'[copied[c]] = place[copied[c]]
    BY <1>4, <1>5, <2>1
  <2> QED
    BY <1>1, <2>2 DEF IInv, Sound, OnItsWay, Visible
<1>13. Staging(c)'
  <2>1. Staged(c)' = Staged(c)
    BY <1>3, <1>4, <1>5 DEF Staged, Visible
  <2> QED
    BY <1>1, <2>1 DEF IInv, Sound, Staging
<1>14. Veiled(c)'
  <2>1. Hidden(c)' \subseteq Hidden(c)
    BY <1>3, <1>4, <1>5 DEF Hidden, Visible
  <2> QED
    BY <1>1, <2>1 DEF IInv, Sound, Veiled
<1> QED
  BY <1>7, <1>8, <1>9, <1>11, <1>12, <1>13, <1>14 DEF IInv, Sound

-----------------------------------------------------------------------------
(***************************************************************************)
(* When the process dies, its calls end as crashed and its keys are free.  *)
(***************************************************************************)
LEMMA CrashIInv == ASSUME IInv, Crash PROVE IInv'
<1>1. /\ pc' = [c \in Client |-> IF Active(c) THEN "done" ELSE pc[c]]
      /\ result' = [c \in Client |-> IF Active(c) THEN "crashed" ELSE result[c]]
      /\ held' = [c \in Client |-> {}]
      /\ sent' = [c \in Client |-> FALSE]
      /\ UNCHANGED <<place, late, source, from, to, old, copied, stage, task, faulty>>
  BY DEF Crash, Die, copies, provider
<1>2. held' \in Keyrings /\ Locks!Exclusive'
  BY <1>1, KeysLost
<1>3. TypeOK'
  <2>1. pc' \in [Client -> Phase] /\ result' \in [Client -> Result]
    BY <1>1, Types DEF Phase, Result
  <2> QED
    BY <1>1, <1>2, <2>1 DEF IInv, TypeOK, ControlTypeOK, Keyrings
<1>4. ASSUME NEW c \in Client PROVE Sound(c)'
  <2>1. /\ pc'[c] \in {"idle", "done"} /\ held'[c] = {} /\ ~sent'[c]
        /\ pc'[c] = "idle" => pc[c] = "idle" /\ result'[c] = result[c]
        /\ pc'[c] = "done" => \/ result'[c] = "crashed" /\ pc[c] # "idle"
                              \/ result'[c] = result[c] /\ pc[c] = "done"
    BY <1>1 DEF Active
  <2>2. Begun(c)' /\ Holds(c)' /\ OnItsWay(c)'
    BY <1>1, <2>1 DEF IInv, Sound, Begun, Holds, OnItsWay, Having, Later, Locked, Requesting
  <2>3. Anchored(c)' /\ Distinct(c)'
    BY <1>1, <2>1, SameDrive DEF IInv, Sound, Anchored, Distinct, Later, Locked
  <2>4. Staging(c)' /\ Veiled(c)' /\ Settled(c)' /\ Clean(c)'
    BY <1>1, <2>1, SameDrive DEF IInv, Sound, Staging, Veiled, Settled, Clean, Having, Later, Locked
  <2> QED
    BY <2>2, <2>3, <2>4 DEF Sound
<1> QED
  BY <1>2, <1>3, <1>4 DEF IInv

\* A step that changes nothing keeps the invariant.
LEMMA StutterIInv == ASSUME IInv, UNCHANGED vars PROVE IInv'
<1>1. UNCHANGED <<place, late, held, pc, sent, result, source, from, to, old, copied, stage, task, faulty>>
  BY DEF vars, control, copies, provider
<1>2. TypeOK' /\ Locks!Exclusive'
  BY <1>1, KeysKept DEF IInv, TypeOK, ControlTypeOK
<1>3. ASSUME NEW c \in Client PROVE Sound(c)'
  <2>1. Begun(c)' /\ Holds(c)' /\ Anchored(c)' /\ Distinct(c)'
    BY <1>1, SameDrive DEF IInv, Sound, Begun, Holds, Keys, Anchored, Distinct, Replacing
  <2>2. OnItsWay(c)' /\ Staging(c)' /\ Veiled(c)' /\ Settled(c)' /\ Clean(c)'
    BY <1>1, SameDrive DEF IInv, Sound, OnItsWay, Staging, Veiled, Settled, Clean, Replacing
  <2> QED
    BY <2>1, <2>2 DEF Sound
<1> QED
  BY <1>2, <1>3 DEF IInv

(***************************************************************************)
(* The invariant holds in every reachable state.                           *)
(***************************************************************************)
THEOREM Inductive == Spec => []IInv
<1>1. IInv /\ [Next]_vars => IInv'
  <2> SUFFICES ASSUME IInv, [Next]_vars PROVE IInv'
    OBVIOUS
  <2>1. ASSUME NEW c \in Client, Step(c) PROVE IInv'
    BY <2>1, TakeLocksIInv, RefreshIInv, FindIInv, StartIInv, AwaitIInv, SendIInv, CheckIInv,
       InspectIInv DEF Step
  <2>2. ASSUME NEW c \in Client, Service(c) PROVE IInv'
    BY <2>2, MaterializeIInv, FailTaskIInv, InterfereIInv DEF Service
  <2> QED
    BY <2>1, <2>2, BeginIInv, CrashIInv, StutterIInv DEF Next, Finished
<1> QED
  BY <1>1, InitIInv, PTL DEF Spec

(***************************************************************************)
(* Every step and every result of a copy is one of those named, and no     *)
(* copy differs from its original but one the service has made.            *)
(***************************************************************************)
THEOREM CopyTyped == Spec => []TypeOK
<1>1. IInv => TypeOK
  BY DEF IInv
<1> QED
  BY <1>1, Inductive, PTL

(***************************************************************************)
(* copyFile: a call that returned success or a plain error has left no     *)
(* copy in its staging directory, no task that may still make one, no      *)
(* object under a temporary name and no second object at the target; all   *)
(* of these are announced by a CopyRecoveryError.                          *)
(***************************************************************************)
THEOREM LeftoversAreAnnounced == Spec => []LeftoversAreReported
<1>1. ASSUME IInv, NEW c \in Client, pc[c] = "done", result[c] \in {"ok", "error"}
      PROVE  /\ Staged(c) = {} /\ ~task[c]
             /\ \A i \in Object : Visible(i) /\ place[i].name \in TempNames => place[i].name.by # c
             /\ ~({copied[c], old[c]} \subseteq ObjectsAt(to[c]) /\ copied[c] # old[c])
  <2>1. /\ Staged(c) = {} /\ Hidden(c) = {} /\ ~task[c]
        /\ copied[c] = Nil \/ old[c] = Nil \/ place[old[c]] = Trash
    BY <1>1 DEF IInv, Sound, Clean, Staging
  <2>2. \A i \in Object : Visible(i) /\ place[i].name \in TempNames => place[i].name.by # c
    BY <2>1 DEF Hidden
  <2>3. ~({copied[c], old[c]} \subseteq ObjectsAt(to[c]))
    <3>1. to[c] # Trash /\ Nil \notin Object
      BY <1>1, CallsHave, UserPlacesAre, PlacesAre
    <3> QED
      BY <2>1, <3>1 DEF ObjectsAt
  <2> QED
    BY <2>1, <2>2, <2>3
<1>2. IInv => LeftoversAreReported
  BY <1>1 DEF LeftoversAreReported
<1> QED
  BY <1>2, Inductive, PTL

-----------------------------------------------------------------------------
(***************************************************************************)
(* Success is a decision of Find, when there is nothing to do, or of the   *)
(* last check.                                                             *)
(***************************************************************************)
LEMMA WhoSucceeds ==
    ASSUME IInv, Next, NEW c \in Client, Active(c), from[c] # to[c], result'[c] = "ok"
    PROVE  /\ pc[c] = "rmstage" /\ stage[c] # "there"
           /\ UNCHANGED <<place, to, stage>>
<1>1. result[c] = "none" /\ pc[c] \notin {"idle", "done"}
  BY DEF IInv, Sound, Begun, Active
<1>2. \A d \in Client : \A x : Continue(d, x) => d = c /\ x = "ok"
  <2> SUFFICES ASSUME NEW d \in Client, NEW x, Continue(d, x) PROVE d = c /\ x = "ok"
    OBVIOUS
  <2> QED
    BY <1>1, Continued, Types DEF IInv
<1>3. \A d \in Client, r \in Result : Return(d, r) => d = c /\ r = "ok"
  BY <1>2 DEF Continue
<1>4. \A d \in Client : \A x : ~Goto(d, x)
  BY <1>1 DEF Goto
<1>5. PICK d \in Client : Find(d) \/ Check(d) \/ Inspect(d)
  <2>1. ~Finished
    BY <1>1 DEF Finished, vars, control
  <2>2. ~Crash
    BY <1>1, Types DEF Crash, Die
  <2>3. ASSUME NEW d \in Client PROVE ~Begin(d) /\ ~TakeLocks(d) /\ ~Refresh(d) /\ ~Start(d) /\ ~Await(d)
    BY <1>1, <1>3, <1>4 DEF Begin, TakeLocks, Lock, Refresh, Start, Await, Result
  <2>4. ASSUME NEW d \in Client PROVE ~Send(d) /\ ~Service(d)
    BY <1>1 DEF Send, Service, Materialize, FailTask, Interfere, control
  <2> QED
    BY <2>1, <2>2, <2>3, <2>4 DEF Next, Step
<1>6. CASE Find(d)
  <2>1. pc[c] = "find" /\ AfterFind(c) = "ok"
    BY <1>2, <1>3, <1>6 DEF Find, Result
  <2>2. ObjectsAt(to[c]) = {source[c]} /\ place[source[c]] = from[c]
    BY <2>1 DEF AfterFind, IInv, Sound, Anchored
  <2> QED
    BY <2>2 DEF ObjectsAt
<1>7. CASE Check(d)
  <2>1. /\ pc[c] \in Requesting /\ UNCHANGED <<place, to, stage>>
        /\ (Achieved(c) /\ Success(c) = "ok") \/ Failure(c) = "ok"
    BY <1>2, <1>7 DEF Check, copies, provider
  <2>2. pc[c] = "rmstage" /\ Achieved(c)
    BY <2>1 DEF Success, Failure, Requesting
  <2>3. stage[c] # "there"
    BY <2>2 DEF Achieved
  <2> QED
    BY <2>1, <2>2, <2>3
<1>8. CASE Inspect(d)
  <2>1. pc[c] = "empty" /\ stage[c] # "there"
    BY <1>2, <1>8 DEF Inspect, Look
  <2> QED
    BY <2>1 DEF IInv, Sound, Staging, Later, Locked, Phase
<1> QED
  BY <1>5, <1>6, <1>7, <1>8

(***************************************************************************)
(* verifyFinalCopy and the cleanup after it: what they have shown is still *)
(* true when the call returns success.                                     *)
(***************************************************************************)
THEOREM SuccessIsSo == Spec => SuccessIsTrue
<1>1. ASSUME IInv, Next, NEW c \in Client, Active(c), from[c] # to[c], result'[c] = "ok"
      PROVE  /\ ObjectsAt(to[c])' = {copied[c]} /\ copied[c] \notin faulty
             /\ Replacing(c) => place'[old[c]] = Trash
             /\ stage'[c] = "trashed" /\ Staged(c)' = {}
  <2>1. pc[c] = "rmstage" /\ stage[c] # "there" /\ UNCHANGED <<place, to, stage>>
    BY <1>1, WhoSucceeds
  <2>2. /\ ObjectsAt(to[c]) = {copied[c]} /\ (Replacing(c) => place[old[c]] = Trash)
        /\ Staged(c) = {} /\ stage[c] # "none"
    BY <1>1, <2>1 DEF IInv, Sound, Settled, Staging
  <2>3. copied[c] \notin faulty
    BY <1>1, <2>1 DEF IInv, Sound, Begun, Distinct, Having, Later, Locked, Phase, Requesting
  <2>4. stage[c] = "trashed"
    BY <1>1, <2>1, <2>2, Types
  <2> QED
    BY <2>1, <2>2, <2>3, <2>4, SameDrive
<1>2. IInv /\ [Next]_vars =>
        [\A c \in Client : Active(c) /\ from[c] # to[c] /\ result'[c] = "ok" =>
            /\ ObjectsAt(to[c])' = {copied[c]} /\ copied[c] \notin faulty
            /\ Replacing(c) => place'[old[c]] = Trash
            /\ stage'[c] = "trashed" /\ Staged(c)' = {}]_vars
  BY <1>1
<1> QED
  BY <1>2, Inductive, PTL DEF Spec, SuccessIsTrue

-----------------------------------------------------------------------------
(***************************************************************************)
(* What a step does on the drive: it moves an object of its own call, or   *)
(* one that another device has put in or taken from the target.            *)
(***************************************************************************)
LEMMA WhoMoves ==
    ASSUME IInv, Next, NEW i \in Object, place'[i] # place[i], place[i] # Nowhere
    PROVE  \E d \in Client :
              /\ pc[d] \in Later /\ i # source[d] /\ Visible(i) /\ place[i].dir \in Region(d)
              /\ \/ Interfere(d)
                 \/ /\ pc[d] \in {"backup", "restore", "discard"} => i = old[d]
                    /\ pc[d] = "discard" \/ Visible(i)'
<1>1. PICK d \in Client : Send(d) \/ Materialize(d) \/ Interfere(d)
  BY DEF Next, Finished, vars, Crash, Begin, Step, TakeLocks, Refresh, Find, Start, Await, Check,
         Inspect, Look, Service, FailTask
<1>2. CASE Send(d)
  <2>1. pc[d] \in Requesting \ {"mkstage", "rmstage"} /\ Attempt(Request(d)) /\ pc[d] \in Later
    BY <1>2 DEF Send, AttemptStage, Later, Locked, Phase, Requesting
  <2>2. PICK j \in Object, q \in Place \cup {Trash} :
          /\ place' = [place EXCEPT ![j] = q]
          /\ Visible(j) /\ j # source[d] /\ place[j].dir \in {StageDir(d), to[d].dir}
          /\ j = copied[d] => q \in Place /\ pc[d] \notin {"backup", "restore", "discard"}
          /\ j # copied[d] => /\ j = old[d] /\ pc[d] \in {"backup", "restore", "discard"}
                              /\ pc[d] = "discard" <=> q = Trash
    <3>1. place' # place
      OBVIOUS
    <3> QED
      BY <2>1, <3>1, RequestMoves
  <2>3. j = i /\ place'[i] = q
    BY <2>2, Types DEF Places
  <2>4. place[i].dir \in Region(d)
    BY <2>1, <2>2, <2>3 DEF Region
  <2>5. pc[d] = "discard" \/ q \in Place
    BY <2>2
  <2>6. pc[d] \in {"backup", "restore", "discard"} => i = old[d]
    BY <2>2, <2>3
  <2>7. pc[d] = "discard" \/ Visible(i)'
    BY <2>3, <2>5 DEF Visible
  <2>8. i # source[d] /\ Visible(i)
    BY <2>2, <2>3
  <2> QED
    BY <2>1, <2>4, <2>6, <2>7, <2>8
<1>3. \A j \in FreshObjects : \A p : ~Perform(Create(j, p))
  <2> SUFFICES ASSUME NEW j \in FreshObjects, NEW p, Perform(Create(j, p)) PROVE FALSE
    OBVIOUS
  <2>1. j \in Object /\ place[j] = Nowhere
    BY DEF FreshObjects, Unused
  <2>2. place' = [place EXCEPT ![j] = PlaceOf(p.dir, p.name)]
    BY <2>1, Performed, Effects
  <2> QED
    BY <2>1, <2>2, Types DEF Places
<1>4. ~Materialize(d)
  BY <1>3 DEF Materialize
<1>5. CASE Interfere(d)
  <2>1. pc[d] \in Later
    BY <1>5 DEF Interfere, Exposed, Later, Locked, Phase, Requesting
  <2>2. PICK j \in ObjectsAt(to[d]) : Perform(Discard(j, to[d].name))
    BY <1>3, <1>5 DEF Interfere
  <2>3. j \in Object /\ place[j] = to[d] /\ place' = [place EXCEPT ![j] = Trash]
    <3>1. j \in Object /\ place[j] = to[d]
      BY DEF ObjectsAt
    <3>2. place' # place
      OBVIOUS
    <3> QED
      BY <2>2, <3>1, <3>2, Performed, Effects
  <2>4. j = i
    BY <2>3, Types DEF Places
  <2>5. to[d] \in Place /\ place[source[d]] = from[d] /\ from[d] # to[d]
    BY <2>1, CallsHave, UserPlacesAre DEF IInv, Sound, Anchored, Later, Locked
  <2> QED
    BY <1>5, <2>1, <2>3, <2>4, <2>5 DEF Visible, Region
<1> QED
  BY <1>1, <1>2, <1>4, <1>5

(***************************************************************************)
(* Nobody moves the source of a call that holds its locks; and the old     *)
(* target is thrown away by the call alone, after the verification.        *)
(***************************************************************************)
THEOREM OriginalsStaySafe == Spec => OriginalsAreSafe
<1>1. ASSUME IInv, Next, NEW c \in Client, held[c] # {}
      PROVE  /\ place'[source[c]] = place[source[c]]
             /\ pc[c] \notin Exposed /\ Replacing(c) /\ Visible(old[c]) /\ ~Visible(old[c])'
                 => place[copied[c]] = to[c] /\ copied[c] \notin faulty
  <2>1. pc[c] \in Locked
    BY <1>1 DEF IInv, Sound, Holds
  <2>2. pc[c] # "idle" /\ pc[c] # "done" /\ pc[c] \in Phase
    BY <2>1 DEF Locked
  <2>3. place'[source[c]] = place[source[c]]
    <3> SUFFICES ASSUME place'[source[c]] # place[source[c]] PROVE FALSE
      OBVIOUS
    <3>1. source[c] \in Object /\ Within(source[c], {from[c].dir})
      BY <1>1, <2>2, CallsHave DEF IInv, Sound, Anchored
    <3>2. place[source[c]] # Nowhere
      BY <3>1, PlacesAre, DriveAssumption DEF Within, Visible
    <3>3. PICK d \in Client : source[c] # source[d] /\ Visible(source[c])
                              /\ place[source[c]].dir \in Region(d)
      BY <1>1, <3>1, <3>2, WhoMoves
    <3>4. d # c /\ place[source[c]].dir = from[c].dir
      BY <3>1, <3>3, PlacesAre DEF Within, Visible
    <3> QED
      BY <1>1, <2>1, <2>2, <3>3, <3>4, Apart
  <2>4. ASSUME pc[c] \notin Exposed, Replacing(c), Visible(old[c]), ~Visible(old[c])'
        PROVE  place[copied[c]] = to[c] /\ copied[c] \notin faulty
    <3>0. old'[c] = old[c]
      <4>1. pc[c] # "find"
        BY <1>1, <2>4 DEF IInv, Sound, Begun, Replacing, Later, Locked, Phase
      <4>2. \A d \in Client : Find(d) => old'[c] = old[c]
        BY <1>1, <4>1, Types DEF Find
      <4>3. UNCHANGED old \/ \E d \in Client : Find(d)
        BY <1>1 DEF Next, Finished, vars, copies, Crash, Begin, Step, TakeLocks, Refresh, Start, Await,
                    Send, Check, Inspect, Look, Service, Materialize, FailTask, Interfere
      <4> QED
        BY <4>2, <4>3
    <3>1. old[c] \in Object /\ old[c] # Nil /\ place[old[c]] # Nowhere /\ place'[old[c]] # place[old[c]]
      <4>1. old[c] \in Object /\ old[c] # Nil
        BY <1>1, <2>4, Types DEF Replacing
      <4>2. place[old[c]] \in Place /\ place'[old[c]] \notin Place
        BY <2>4, <3>0 DEF Visible
      <4> QED
        BY <4>1, <4>2, PlacesAre
    <3>2. pc[c] \in Later
      BY <1>1, <2>2, <3>1 DEF IInv, Sound, Begun
    <3>3. place[old[c]].dir = to[c].dir
      BY <1>1, <2>4, <3>1, <3>2, PlacesAre DEF IInv, Sound, Distinct, Within, Visible
    <3>4. PICK d \in Client : place[old[c]].dir \in Region(d) /\ (Interfere(d) \/ pc[d] = "discard")
      <4>1. place'[old[c]] \notin Place
        BY <2>4, <3>0 DEF Visible
      <4> DEFINE o == old[c]
      <4>2. o \in Object /\ place[o] # Nowhere /\ place'[o] # place[o]
        BY <3>0, <3>1
      <4> HIDE DEF o
      <4>3. PICK d \in Client :
              /\ place[o].dir \in Region(d)
              /\ Interfere(d) \/ pc[d] = "discard" \/ place'[o] \in Place
        BY <1>1, <4>2, WhoMoves DEF Visible
      <4> QED
        BY <3>0, <4>1, <4>3 DEF o
    <3>5. d = c
      BY <1>1, <2>1, <2>2, <3>3, <3>4, Apart
    <3>6. pc[c] = "discard"
      BY <2>4, <3>4, <3>5 DEF Interfere
    <3>7. ObjectsAt(to[c]) = {copied[c]} /\ copied[c] # Nil /\ copied[c] \notin faulty
      BY <1>1, <3>6 DEF IInv, Sound, Settled, Begun, Distinct, Having, Later, Locked, Phase, Requesting
    <3> QED
      BY <3>7 DEF ObjectsAt
  <2> QED
    BY <2>3, <2>4
<1>2. IInv /\ [Next]_vars =>
        [\A c \in Client : held[c] # {} =>
            /\ place'[source[c]] = place[source[c]]
            /\ pc[c] \notin Exposed /\ Replacing(c) /\ Visible(old[c]) /\ ~Visible(old[c])'
                => place[copied[c]] = to[c] /\ copied[c] \notin faulty]_vars
  BY <1>1
<1> QED
  BY <1>2, Inductive, PTL DEF Spec, OriginalsAreSafe
=============================================================================
