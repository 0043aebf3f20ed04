----------------------------- MODULE Namespace -----------------------------
(***************************************************************************)
(* The tree of directories, and the calls that find their way in it by     *)
(* path: Mkdir, Put, NewObject followed by Remove, Rmdir, DirMove and List *)
(* of one Fs.  A path becomes an ID through rclone's dircache, whose mutex *)
(* is held during a lookup, even while CreateDir waits for the account's   *)
(* locks in it, and whose entries may be out of date.  So a mutating call, *)
(* once it has its locks, walks the path of each parent again from the     *)
(* root, listing by listing, and refuses if it does not arrive at the ID   *)
(* it has locked.                                                          *)
(*                                                                         *)
(* Each client is one call.  Requests may be lost before or after their    *)
(* effect and any listing may fail.  Uploads and moves are one step each,  *)
(* as UploadNew and MoveTransaction show in detail; a directory is renamed *)
(* or moved, not both.                                                     *)
(***************************************************************************)
EXTENDS LockedCalls, SequencesExt

CONSTANTS Root,        \* root_folder_id
          Trees,       \* how the directories may be arranged in the beginning
          Depth,       \* bound: length of paths
          Plans,       \* what the clients may be about to do
          Refuses      \* does the service refuse to move a directory into itself?

Paths == UNION {[1..n -> Name] : n \in 0..Depth}

\* A call: its operation, its path, and for DirMove the new path.
Call == [op : {"mkdir", "put", "remove", "rmdir", "dirmove", "list"}, path : Paths \ {<<>>}, to : Paths]
          \cup [op : {"list"}, path : Paths, to : {<<>>}]

ASSUME NamespaceAssumption ==
    /\ Dir = Object \cup {Root} /\ Root \notin Object \cup {Nil} /\ Nil \notin Client
    /\ Depth \in Nat
    /\ \A tree \in Trees :
          /\ tree \in [Object -> Place \cup {Nowhere}]
          /\ \A i, j \in Object : i # j /\ tree[i] # Nowhere => tree[i] # tree[j]
          /\ \A i \in Object : tree[i] # Nowhere => tree[i].dir = Root \/ tree[tree[i].dir] # Nowhere
    /\ Plans \subseteq [Client -> Call]
    /\ \A plan \in Plans, c \in Client :
          plan[c].op = "dirmove" =>
              /\ plan[c].to # <<>> /\ ~IsPrefix(plan[c].path, plan[c].to)
              /\ Front(plan[c].path) = Front(plan[c].to) \/ Last(plan[c].path) = Last(plan[c].to)
    /\ Refuses \in BOOLEAN /\ ~Late

VARIABLES folders,   \* the objects that are directories
          call,      \* what each client does
          cache,     \* dirCache: the ID of a path, Nil if it is not there
          resolver,  \* who holds the mutex of dirCache, or Nil
          found,     \* the IDs of each client's lookups so far
          at,        \* where its current lookup or walk has arrived
          walked,    \* how many paths it has verified
          seen,      \* what its List has read
          disturbed  \* a directory was moved since it has its locks

tree == <<place, late, folders>>
search == <<cache, resolver, found, at>>
vars == <<tree, control, call, search, walked, seen, disturbed>>

Phase == {"idle", "find", "resolve", "lock", "look", "make", "walk", "list", "fill", "match",
          "upload", "empty", "emptyAgain", "trash", "conflict", "move", "done"}

TypeOK ==
    /\ place \in [Object -> Place \cup {Nowhere, Trash}] /\ late = {}
    /\ folders \subseteq Object
    /\ ControlTypeOK(Phase)
    /\ call \in [Client -> Call]
    /\ cache \in [Paths -> Dir \cup {Nil}] /\ cache[<<>>] = Root
    /\ resolver \in Client \cup {Nil}
    /\ found \in [Client -> Seq(Dir \cup {Nil})] /\ \A c \in Client : Len(found[c]) <= 4
    /\ at \in [Client -> [id : Dir, depth : 0..Depth]]
    /\ walked \in [Client -> 0..2]
    /\ seen \in [Client -> SUBSET (AnyName \X Object)]
    /\ disturbed \in [Client -> BOOLEAN]

\* Path p leads from the root to d, by way of the directories of a trail.
Leads(p, d) ==
    \E trail \in [0..Len(p) -> Dir] :
        /\ trail[0] = Root /\ trail[Len(p)] = d
        /\ \A n \in 1..Len(p) : trail[n] \in folders /\ place[trail[n]] = PlaceOf(trail[n - 1], p[n])

IdOf(p) == IF \E d \in Dir : Leads(p, d) THEN CHOOSE d \in Dir : Leads(p, d) ELSE Nil

AtRoot == [id |-> Root, depth |-> 0]

\* The cache is empty but for the root, or has been filled.
Init ==
    /\ place \in Trees /\ late = {}
    /\ folders = {i \in Object : Visible(i)}
    /\ ControlInit
    /\ call \in Plans
    /\ \/ cache = [p \in Paths |-> IF p = <<>> THEN Root ELSE Nil]
       \/ cache = [p \in Paths |-> IdOf(p)]
    /\ resolver = Nil
    /\ found = [c \in Client |-> <<>>]
    /\ at = [c \in Client |-> AtRoot]
    /\ walked = [c \in Client |-> 0]
    /\ seen = [c \in Client |-> {}]
    /\ disturbed = [c \in Client |-> FALSE]

-----------------------------------------------------------------------------
\* X_Suffix is a deliberate mistake in X, used to show that a property can
\* fail; no action of the specification uses it.

\* The lookups of a call, in their order.
Existing(p) == [path |-> p, create |-> FALSE]
Created(p)  == [path |-> p, create |-> TRUE]
Lookups(c) ==
    LET p == call[c].path  to == call[c].to IN
    CASE call[c].op = "mkdir"   -> <<Created(p)>>
      [] call[c].op = "list"    -> <<Existing(p)>>
      [] call[c].op \in {"put", "remove"} -> <<Existing(Front(p))>>
      [] call[c].op = "rmdir"   -> <<Existing(p), Existing(Front(p))>>
      [] call[c].op = "dirmove" -> <<Existing(p), Created(Front(to)), Existing(to), Existing(Front(p))>>

Lookup(c) == Lookups(c)[Len(found[c]) + 1]

\* DirMove's third lookup: the new path must not exist.
MustBeAbsent(c) == call[c].op = "dirmove" /\ Len(found[c]) = 2

\* The object a call is about (the directory listed, removed or moved, the
\* file removed), and the parents of its paths.
Target(c)     == IF call[c].op = "remove" THEN found[c][2] ELSE found[c][1]
ParentOf(c)   == CASE call[c].op \in {"put", "remove"} -> found[c][1]
                   [] call[c].op = "rmdir" -> found[c][2]
                   [] call[c].op = "dirmove" -> found[c][4]
NewParent(c)  == found[c][2]
OldPlace(c)   == PlaceOf(ParentOf(c), Last(call[c].path))
NewPlace(c)   == PlaceOf(NewParent(c), Last(call[c].to))

\* The directory CreateDir makes.
MakePlace(c) == PlaceOf(at[c].id, Lookup(c).path[at[c].depth + 1])

\* The keys of a call; a call that is in a lookup is in CreateDir.
Keys_ParentOnly(c) ==
    IF resolver = c THEN {Parent(MakePlace(c).dir), MakePlace(c)}
    ELSE {Parent(ParentOf(c)), OldPlace(c)}
           \cup (IF call[c].op = "dirmove" THEN {Parent(NewParent(c)), NewPlace(c)} ELSE {})
Keys_MakeAlone(c) ==
    IF resolver = c THEN {PlaceOf(MakePlace(c).dir, TempName("stage", c))}
    ELSE {Parent(ParentOf(c)), OldPlace(c)}
           \cup (IF call[c].op = "rmdir" THEN {Parent(Target(c))} ELSE {})
           \cup (IF call[c].op = "dirmove" THEN {Parent(NewParent(c)), NewPlace(c)} ELSE {})
Keys(c) ==
    IF resolver = c THEN {Parent(MakePlace(c).dir), MakePlace(c)}
    ELSE {Parent(ParentOf(c)), OldPlace(c)}
           \cup (IF call[c].op = "rmdir" THEN {Parent(Target(c))} ELSE {})
           \cup (IF call[c].op = "dirmove" THEN {Parent(NewParent(c)), NewPlace(c)} ELSE {})

\* The paths to walk again, and where each must lead.
Walks_NotForRmdir(c) ==
    LET old == [path |-> Front(call[c].path), id |-> ParentOf(c)] IN
    IF call[c].op = "rmdir" THEN <<>>
    ELSE IF call[c].op = "dirmove"
      THEN <<old, [path |-> Front(call[c].to), id |-> NewParent(c)]>>
      ELSE <<old>>
Walks(c) ==
    LET old == [path |-> Front(call[c].path), id |-> ParentOf(c)] IN
    IF call[c].op = "dirmove"
      THEN <<old, [path |-> Front(call[c].to), id |-> NewParent(c)]>>
      ELSE <<old>>

-----------------------------------------------------------------------------
\* The call returns: its variables are gone, and its locks and the mutex of
\* dirCache are given back.
Forget(c) ==
    /\ found' = [found EXCEPT ![c] = <<>>]
    /\ at' = [at EXCEPT ![c] = AtRoot]
    /\ walked' = [walked EXCEPT ![c] = 0]
    /\ seen' = [seen EXCEPT ![c] = {}]
    /\ sent' = [sent EXCEPT ![c] = FALSE]
End_HoldsCache(c, r) ==
    /\ pc' = [pc EXCEPT ![c] = "done"]
    /\ result' = [result EXCEPT ![c] = r]
    /\ held' = [held EXCEPT ![c] = {}]
    /\ disturbed' = [disturbed EXCEPT ![c] = FALSE]
    /\ Forget(c)
    /\ UNCHANGED resolver
End(c, r) ==
    /\ pc' = [pc EXCEPT ![c] = "done"]
    /\ result' = [result EXCEPT ![c] = r]
    /\ held' = [held EXCEPT ![c] = {}]
    /\ disturbed' = [disturbed EXCEPT ![c] = FALSE]
    /\ Forget(c)
    /\ resolver' = IF resolver = c THEN Nil ELSE resolver

\* A listing fails, or shows what the call cannot accept.
Fail(c) == End(c, "error") /\ UNCHANGED <<tree, call, cache>>

\* A step that only reads.
Read(c, step, next) ==
    /\ pc[c] = step
    /\ \/ /\ Goto(c, next)
          /\ UNCHANGED <<tree, sent, call, search, walked, seen, disturbed>>
       \/ Fail(c)

-----------------------------------------------------------------------------
\* dirCache: FindDir, FindPath.  The mutex is taken; the lookup begins at the
\* longest part of the path that is cached.
BeginLookup(c) ==
    /\ pc[c] = "find"
    /\ resolver = Nil
    /\ resolver' = c
    /\ \E n \in 0..Len(Lookup(c).path) :
        /\ cache[SubSeq(Lookup(c).path, 1, n)] # Nil
        /\ \A m \in n + 1..Len(Lookup(c).path) : cache[SubSeq(Lookup(c).path, 1, m)] = Nil
        /\ at' = [at EXCEPT ![c] = [id |-> cache[SubSeq(Lookup(c).path, 1, n)], depth |-> n]]
    /\ Goto(c, "resolve")
    /\ UNCHANGED <<tree, sent, call, cache, found, walked, seen, disturbed>>

\* A lookup gives id, or Nil for a path that does not exist; after the last
\* one Mkdir is done, and the others go on.
AfterLookup(c) ==
    IF Len(found[c]) + 1 < Len(Lookups(c)) THEN "find"
    ELSE IF call[c].op \in {"list", "remove"} THEN "list"
    ELSE "lock"

EndLookup(c, id) ==
    IF call[c].op = "mkdir" THEN End(c, "ok") /\ UNCHANGED <<tree, call, cache>>
    ELSE /\ found' = [found EXCEPT ![c] = Append(@, id)]
         /\ resolver' = Nil
         /\ Goto(c, AfterLookup(c))
         /\ UNCHANGED <<tree, sent, call, cache, at, walked, seen, disturbed>>

\* The next directory of the path is id.
Advance(c, id) ==
    /\ at' = [at EXCEPT ![c] = [id |-> id, depth |-> @.depth + 1]]
    /\ cache' = [cache EXCEPT ![SubSeq(Lookup(c).path, 1, at'[c].depth)] = id]

Resolved(c) ==
    /\ pc[c] = "resolve"
    /\ at[c].depth = Len(Lookup(c).path)
    /\ IF MustBeAbsent(c) THEN Fail(c) ELSE EndLookup(c, at[c].id)

\* FindLeaf: one listing.
FindLeaf(c) ==
    /\ pc[c] = "resolve"
    /\ at[c].depth < Len(Lookup(c).path)
    /\ \/ /\ ObjectsAt(MakePlace(c)) # {}
          /\ \E i \in folders :
                /\ ObjectsAt(MakePlace(c)) = {i}
                /\ Advance(c, i)
          /\ UNCHANGED <<tree, control, call, resolver, found, walked, seen, disturbed>>
       \/ /\ ObjectsAt(MakePlace(c)) = {} /\ Lookup(c).create
          /\ Goto(c, "lock")
          /\ UNCHANGED <<tree, sent, call, search, walked, seen, disturbed>>
       \/ /\ ObjectsAt(MakePlace(c)) = {} /\ MustBeAbsent(c)
          /\ EndLookup(c, Nil)
       \/ Fail(c)

-----------------------------------------------------------------------------
\* CreateDir, called by the lookup.  Its parent is not verified.
TakeLocks(c) ==
    /\ Lock(c, Keys(c), IF resolver = c THEN "look" ELSE "walk")
    /\ at' = [at EXCEPT ![c] = IF resolver = c THEN @ ELSE AtRoot]
    /\ disturbed' = [disturbed EXCEPT ![c] = FALSE]
    /\ UNCHANGED <<tree, call, cache, resolver, found, walked, seen>>

\* CreateDir returns: its locks are given back, and the lookup goes on.
Adopt(c, i) ==
    /\ Advance(c, i)
    /\ pc' = [pc EXCEPT ![c] = "resolve"]
    /\ Locks!Leave(c)
    /\ UNCHANGED <<result, resolver, found>>

\* findChild before the request, and after it.
LookForChild(c) ==
    /\ pc[c] = "look" \/ (pc[c] = "make" /\ sent[c])
    /\ \/ /\ \E i \in folders : ObjectsAt(MakePlace(c)) = {i} /\ Adopt(c, i)
          /\ sent' = [sent EXCEPT ![c] = FALSE]
          /\ UNCHANGED <<tree, call, walked, seen, disturbed>>
       \/ /\ pc[c] = "look" /\ ObjectsAt(MakePlace(c)) = {}
          /\ Goto(c, "make")
          /\ UNCHANGED <<tree, sent, call, search, walked, seen, disturbed>>
       \/ Fail(c)

Make(c) ==
    /\ pc[c] = "make" /\ ~sent[c]
    /\ \/ \E i \in FreshObjects :
            /\ Perform(Create(i, MakePlace(c)))
            /\ folders' = folders \cup {i}
       \/ UNCHANGED <<place, folders>>
    /\ sent' = [sent EXCEPT ![c] = TRUE]
    /\ UNCHANGED <<late, held, pc, result, call, search, walked, seen, disturbed>>

-----------------------------------------------------------------------------
\* verifyAbsoluteDirectoryPathID: one listing per directory on the path.
AfterWalks(c) ==
    IF call[c].op = "rmdir" THEN "empty" ELSE "match"

Walk(c) ==
    /\ pc[c] = "walk"
    /\ walked[c] < Len(Walks(c))
    /\ LET w == Walks(c)[walked[c] + 1] IN
       \/ /\ at[c].depth < Len(w.path)
          /\ \E i \in folders :
                /\ ObjectsAt(PlaceOf(at[c].id, w.path[at[c].depth + 1])) = {i}
                /\ at' = [at EXCEPT ![c] = [id |-> i, depth |-> @.depth + 1]]
          /\ UNCHANGED <<tree, control, call, cache, resolver, found, walked, seen, disturbed>>
       \/ /\ at[c].depth = Len(w.path) /\ at[c].id = w.id
          /\ walked' = [walked EXCEPT ![c] = @ + 1]
          /\ at' = [at EXCEPT ![c] = AtRoot]
          /\ UNCHANGED <<tree, control, call, cache, resolver, found, seen, disturbed>>
       \/ Fail(c)

EndWalks(c) ==
    /\ pc[c] = "walk" /\ walked[c] = Len(Walks(c))
    /\ Goto(c, AfterWalks(c))
    /\ UNCHANGED <<tree, sent, call, search, walked, seen, disturbed>>

Children(d) == {i \in Object : Visible(i) /\ place[i].dir = d}

-----------------------------------------------------------------------------
\* Put: a new file is uploaded; an existing one is UpdateTransaction's.
PutMatch(c) ==
    /\ pc[c] = "match" /\ call[c].op = "put" /\ ObjectsAt(OldPlace(c)) = {}
    /\ Read(c, "match", "upload")

Upload(c) ==
    /\ pc[c] = "upload"
    /\ \/ \E i \in FreshObjects, r \in {"ok", "error"} :
            Perform(Create(i, OldPlace(c))) /\ End(c, r)
       \/ UNCHANGED place /\ End(c, "error")
    /\ UNCHANGED <<late, folders, call, cache>>

\* NewObject, the Object of a later Remove.
FindObject(c) ==
    /\ pc[c] = "list" /\ call[c].op = "remove"
    /\ \E i \in Object \ folders :
        /\ ObjectsAt(PlaceOf(found[c][1], Last(call[c].path))) = {i}
        /\ found' = [found EXCEPT ![c] = Append(@, i)]
    /\ Goto(c, "lock")
    /\ UNCHANGED <<tree, sent, call, cache, resolver, at, walked, seen, disturbed>>

\* Remove: fileByID; the object has its name, or it is not there any more.
RemoveMatch(c) ==
    /\ pc[c] = "match" /\ call[c].op = "remove" /\ place[Target(c)] = OldPlace(c)
    /\ Read(c, "match", "trash")

RemoveGone(c) ==
    /\ call[c].op = "remove"
    /\ pc[c] = "match" \/ (pc[c] = "trash" /\ sent[c])
    /\ Target(c) \notin Children(ParentOf(c))
    /\ End(c, "ok")
    /\ UNCHANGED <<tree, call, cache>>

\* Rmdir: two listings of the directory, then the ID and name once more.
RmdirEmpty(c) ==
    /\ pc[c] \in {"empty", "emptyAgain"} /\ Children(Target(c)) = {}
    /\ Read(c, "empty", "emptyAgain") \/ Read(c, "emptyAgain", "match")

RmdirMatch_EmptyIsEnough(c) ==
    /\ pc[c] = "match" /\ call[c].op = "rmdir"
    /\ Read(c, "match", "trash")
RmdirMatch(c) ==
    /\ pc[c] = "match" /\ call[c].op = "rmdir" /\ ObjectsAt(OldPlace(c)) = {Target(c)}
    /\ Read(c, "match", "trash")

\* FlushDir: the path and all below it.
Flushed(old, p) == [q \in Paths |-> IF IsPrefix(p, q) THEN Nil ELSE old[q]]

RmdirGone(c) ==
    /\ call[c].op = "rmdir"
    /\ \/ pc[c] = "match" /\ ObjectsAt(OldPlace(c)) = {}
       \/ pc[c] = "trash" /\ sent[c] /\ Target(c) \notin Children(ParentOf(c))
    /\ End(c, "ok")
    /\ cache' = Flushed(cache, call[c].path)
    /\ UNCHANGED <<tree, call>>

\* trashExact, of Remove and Rmdir.
TrashTarget(c) ==
    /\ pc[c] = "trash" /\ ~sent[c]
    /\ Attempt(Discard(Target(c), Last(call[c].path)))
    /\ sent' = [sent EXCEPT ![c] = TRUE]
    /\ UNCHANGED <<held, pc, result, folders, call, search, walked, seen, disturbed>>

-----------------------------------------------------------------------------
\* DirMove: fileByID in the old parent, and moveItem.
DirMoveMatch(c) ==
    /\ pc[c] = "match" /\ call[c].op = "dirmove" /\ ObjectsAt(OldPlace(c)) = {Target(c)}
    /\ Read(c, "match", "conflict")

DirMoveConflict(c) ==
    /\ pc[c] = "conflict" /\ ObjectsAt(NewPlace(c)) \subseteq {Target(c)}
    /\ Read(c, "conflict", "move")

\* d is directory i, or below it: i is in every set that holds d and the
\* parents of its members.
Within(d, i) ==
    \A S \in SUBSET Dir :
        d \in S /\ (\A j \in Object \cap S : Visible(j) => place[j].dir \in S) => i \in S

\* A rename or a move, whichever it takes to get there from where the
\* directory was found.
DirMoveSend(c) ==
    /\ pc[c] = "move" /\ ~sent[c] /\ ~(Refuses /\ Within(NewParent(c), Target(c)))
    /\ \/ Visible(Target(c)) /\ place' = [place EXCEPT ![Target(c)] = NewPlace(c)]
       \/ UNCHANGED place
    /\ sent' = [sent EXCEPT ![c] = TRUE]
    /\ disturbed' = [d \in Client |-> disturbed[d] \/ (place' # place /\ held[d] # {})]
    /\ UNCHANGED <<late, held, pc, result, folders, call, search, walked, seen>>

DirMoveDone(c) ==
    /\ pc[c] = "move" /\ sent[c]
    /\ ObjectsAt(NewPlace(c)) = {Target(c)}
    /\ End(c, "ok")
    /\ cache' = Flushed(Flushed(cache, call[c].path), call[c].to)
    /\ UNCHANGED <<tree, call>>

-----------------------------------------------------------------------------
\* List reads the directory, and then enters what it has read in the cache.
ListRead(c) ==
    /\ pc[c] = "list" /\ call[c].op = "list"
    /\ seen' = [seen EXCEPT ![c] =
                  {<<place[i].name, i>> : i \in Children(Target(c)) \cap folders}]
    /\ Goto(c, "fill")
    /\ UNCHANGED <<tree, sent, call, search, walked, disturbed>>

ListFill(c) ==
    /\ pc[c] = "fill"
    /\ cache' = [q \in Paths |->
                    IF q # <<>> /\ Front(q) = call[c].path /\ \E i \in Object : <<Last(q), i>> \in seen[c]
                      THEN CHOOSE i \in Object : <<Last(q), i>> \in seen[c]
                      ELSE cache[q]]
    /\ End(c, "ok")
    /\ UNCHANGED <<tree, call>>

Begin(c) ==
    /\ pc[c] = "idle"
    /\ Goto(c, "find")
    /\ UNCHANGED <<tree, sent, call, search, walked, seen, disturbed>>

\* What a listing shows is not what the call needs, or it fails.
Refuse(c) ==
    /\ \/ pc[c] \in {"match", "empty", "emptyAgain", "conflict", "list"}
       \/ pc[c] \in {"trash", "move"} /\ sent[c]
       \/ pc[c] = "move" /\ Refuses /\ Within(NewParent(c), Target(c))
    /\ Fail(c)

Step(c) ==
    \/ BeginLookup(c) \/ Resolved(c) \/ FindLeaf(c)
    \/ TakeLocks(c) \/ LookForChild(c) \/ Make(c) \/ Walk(c) \/ EndWalks(c)
    \/ PutMatch(c) \/ Upload(c)
    \/ FindObject(c) \/ RemoveMatch(c) \/ RemoveGone(c)
    \/ RmdirEmpty(c) \/ RmdirMatch(c) \/ TrashTarget(c) \/ RmdirGone(c)
    \/ DirMoveMatch(c) \/ DirMoveConflict(c) \/ DirMoveSend(c) \/ DirMoveDone(c)
    \/ ListRead(c) \/ ListFill(c) \/ Refuse(c)

Finished == AllReturned /\ UNCHANGED vars

Next == (\E c \in Client : Begin(c) \/ Step(c)) \/ Finished

Spec == Init /\ [][Next]_vars

\* Calls that have begun go on: requests and listings return or fail, and
\* mutexes and locks are granted (EveryCallerEnters of KeyedLocks).
FairSpec == Spec /\ \A c \in Client : WF_vars(Step(c))

-----------------------------------------------------------------------------
\* d can be reached from the root: it is in every set that holds the root
\* and the children of its members.
Reachable(d) ==
    \A S \in SUBSET Dir :
        Root \in S /\ (\A i \in Object : Visible(i) /\ place[i].dir \in S => i \in S) => d \in S

(***************************************************************************)
(* Nothing this process does takes a file out of the tree: no directory    *)
(* goes to the recycle bin while a file is in it or being put into it, and *)
(* no file is put into a directory that is gone, however old the cached ID *)
(* of that directory is.  It takes a service that refuses to move a        *)
(* directory into itself or below itself (Refuses).                        *)
(***************************************************************************)
FilesStayReachable == \A i \in Object \ folders : Visible(i) => Reachable(place[i].dir)

(***************************************************************************)
(* Calls that race for a path never leave two objects under one name,      *)
(* which every later listing would refuse.                                 *)
(***************************************************************************)
PathsAreUnique == \A i, j \in Object : i # j /\ Visible(i) => place[i] # place[j]

\* The request of c finds the drive as the call has seen it: an upload creates
\* the only object under its name, the object that is thrown away or moved has
\* the name the call was given for it, and a move meets no other object.
ActsOnItsPlace(c) ==
    \/ /\ pc[c] = "upload" /\ ObjectsAt(OldPlace(c)) = {}
       /\ \E i \in Object : place' = [place EXCEPT ![i] = OldPlace(c)]
    \/ /\ pc[c] = "trash" /\ place[Target(c)] = OldPlace(c)
       /\ place' = [place EXCEPT ![Target(c)] = Trash]
    \/ /\ pc[c] = "move" /\ place[Target(c)] = OldPlace(c) /\ ObjectsAt(NewPlace(c)) \subseteq {Target(c)}
       /\ place' = [place EXCEPT ![Target(c)] = NewPlace(c)]

(***************************************************************************)
(* What Put creates, Remove and Rmdir throw away and DirMove moves has, at *)
(* that moment, the name the call was given, in the directory the call has *)
(* walked to, and nothing else has the name it gets; and this directory is *)
(* the one its path leads to, unless a DirMove took effect since the call  *)
(* had its locks.  Mkdir is excluded: it does not walk its parent's path   *)
(* (mutations.go:28) and can create in a directory that is gone.           *)
(***************************************************************************)
ChangesWhatItNames ==
    [][\A c \in Client :
        pc[c] \in {"upload", "trash", "move"} /\ place' # place /\ (pc'[c] # pc[c] \/ sent'[c] # sent[c])
            => /\ ActsOnItsPlace(c)
               /\ \/ disturbed[c]
                  \/ /\ Leads(Front(call[c].path), ParentOf(c))
                     /\ pc[c] = "move" => Leads(Front(call[c].to), NewParent(c))]_vars

(***************************************************************************)
(* Every call that has begun returns with its locks given back, although a *)
(* lookup holds the mutex of dirCache while it waits for locks: again and  *)
(* again no call is under way, and no client calls twice.                  *)
(***************************************************************************)
EveryCallReturns == []<>(\A c \in Client : ~Active(c) /\ held[c] = {})
=============================================================================
