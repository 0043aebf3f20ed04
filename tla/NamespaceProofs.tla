--------------------------- MODULE NamespaceProofs --------------------------
(***************************************************************************)
(* Proofs about Namespace, for any number of calls, objects and names, any *)
(* depth of paths and any contents of the shared directory cache: no two   *)
(* live objects have one path, a call changes only what its paths name     *)
(* unless a directory moved meanwhile, and no file drops out of the tree   *)
(* if the service refuses to move a directory into itself.                 *)
(*                                                                         *)
(* The argument.  A call holds the key of every place it fills or empties  *)
(* and of every directory it puts something into, so what it saw of these  *)
(* under its locks is still so when it sends its request (Current): of the *)
(* requests of others none fills the place, none empties it, none removes  *)
(* the directory.  That gives unique paths.  A directory that was walked   *)
(* to stays reachable, for its key keeps it from being removed, and its    *)
(* path still leads to it until another call moves a directory, which the  *)
(* call would notice no more (Walked).  A walk that has left the part of   *)
(* the tree below the directory it looks for never gets back into it       *)
(* (Walking).  Hence whatever is created or moved is put into a reachable  *)
(* directory, what is trashed is a file or a directory found empty, and    *)
(* the files stay in the tree.                                             *)
(*                                                                         *)
(* Reachability is not defined by recursion: a directory is reachable when *)
(* it is in every set that has the root and, with a directory, everything  *)
(* in it.  Each change of the tree is shown to keep such sets.             *)
(***************************************************************************)
EXTENDS Namespace, LockedCallsProofs, SequenceTheorems

\* The directories a call can know of.
Known == folders \cup {Root}

\* Where a call is and what it has.
Working == {"walk", "empty", "emptyAgain", "match", "upload", "conflict", "trash", "move"}

Making(c) ==
    /\ Len(found[c]) < Len(Lookups(c)) /\ Lookup(c).create
    /\ at[c].depth < Len(Lookup(c).path)

Ready(c) ==
    /\ call[c].op \in {"put", "remove", "rmdir", "dirmove"}
    /\ Len(found[c]) = IF call[c].op = "remove" THEN 2 ELSE Len(Lookups(c))

Position(c) ==
    /\ pc[c] \in {"idle", "done"} => resolver # c /\ held[c] = {} /\ found[c] = <<>>
    /\ pc[c] = "find" => resolver # c /\ held[c] = {} /\ Len(found[c]) < Len(Lookups(c))
    /\ pc[c] = "resolve" =>
          /\ resolver = c /\ held[c] = {}
          /\ Len(found[c]) < Len(Lookups(c)) /\ at[c].depth <= Len(Lookup(c).path)
    /\ pc[c] = "lock" => held[c] = {} /\ IF resolver = c THEN Making(c) ELSE Ready(c)
    /\ pc[c] \in {"look", "make"} => resolver = c /\ held[c] = Keys(c) /\ Making(c)
    /\ pc[c] \in {"list", "fill"} =>
          /\ resolver # c /\ held[c] = {} /\ Len(found[c]) = 1
          /\ call[c].op \in {"list", "remove"}
    /\ pc[c] \in Working => resolver # c /\ held[c] = Keys(c) /\ Ready(c)
    /\ pc[c] = "fill" => call[c].op = "list"
    /\ pc[c] = "upload" => call[c].op = "put"
    /\ pc[c] = "trash" => call[c].op \in {"remove", "rmdir"}
    /\ pc[c] \in {"empty", "emptyAgain"} => call[c].op = "rmdir"
    /\ pc[c] \in {"conflict", "move"} => call[c].op = "dirmove"
    /\ sent[c] => pc[c] \in {"make", "trash", "move"}
    /\ pc[c] \notin Working => walked[c] = 0

\* What the lookups gave: directories, Nil for a new path, or a file.
Sensible(c) ==
    /\ at[c].id \in Known
    /\ \A k \in 1..Len(found[c]) :
          IF call[c].op = "remove" /\ k = 2
          THEN found[c][k] \in Object \ folders /\ place[found[c][k]] # Nowhere
          ELSE found[c][k] \in Known \/ (call[c].op = "dirmove" /\ k = 3)
    /\ \A n \in AnyName, i \in Object : <<n, i>> \in seen[c] => i \in folders

\* What a call has seen under its locks, and what is still so.
Current(c) ==
    ~sent[c] =>
        /\ pc[c] = "make" => ObjectsAt(MakePlace(c)) = {}
        /\ pc[c] = "upload" => ObjectsAt(OldPlace(c)) = {}
        /\ pc[c] \in {"trash", "conflict", "move"} =>
              Target(c) \in Object /\ place[Target(c)] = OldPlace(c)
        /\ pc[c] = "move" => ObjectsAt(NewPlace(c)) \subseteq {Target(c)}
        /\ call[c].op = "rmdir" /\ pc[c] \in {"emptyAgain", "match", "trash"} => Children(Target(c)) = {}

\* A directory that was walked to, or is being.
Found(c, p, d) ==
    /\ Refuses => Reachable(d)
    /\ disturbed[c] \/ Leads(p, d)

Walked(c) ==
    pc[c] \in Working /\ ~sent[c] =>
        \A k \in 1..walked[c] : Found(c, Walks(c)[k].path, Walks(c)[k].id)

Walking(c) ==
    pc[c] \in Working =>
        /\ walked[c] <= Len(Walks(c))
        /\ pc[c] # "walk" => walked[c] = Len(Walks(c))
        /\ pc[c] = "walk" /\ walked[c] < Len(Walks(c)) =>
             LET w == Walks(c)[walked[c] + 1] IN
             /\ at[c].depth <= Len(w.path)
             /\ \/ Found(c, SubSeq(w.path, 1, at[c].depth), at[c].id)
                \/ ~Within(w.id, at[c].id)

\* The drive: directories exist, and everything is in one of them.
Exist == folders \subseteq {i \in Object : place[i] # Nowhere}
Parented == \A i \in Object : Visible(i) => place[i].dir \in Known

Tree ==
    /\ PathsAreUnique
    /\ Exist /\ Parented
    /\ \A p \in Paths : cache[p] \in Known \cup {Nil}
    /\ Refuses => FilesStayReachable

IInv ==
    /\ TypeOK /\ call \in Plans /\ Locks!Exclusive /\ Tree
    /\ \A c \in Client : Position(c) /\ Sensible(c) /\ Current(c) /\ Walked(c) /\ Walking(c)

-----------------------------------------------------------------------------
(***************************************************************************)
(* The constants.                                                          *)
(***************************************************************************)
LEMMA ConstantsAre ==
    /\ Dir = Object \cup {Root} /\ Root \notin Object /\ Root # Nil
    /\ Nil \notin Client /\ Nil \notin Object
    /\ Nowhere \notin Place /\ Trash \notin Place /\ Nowhere # Trash /\ ~Late
BY NamespaceAssumption, DriveAssumption

\* Depth bounds the length of the paths: it is a natural number.
LEMMA DepthIs == Depth \in Nat
BY NamespaceAssumption

(***************************************************************************)
(* Paths are short sequences of names, and so are their beginnings.        *)
(***************************************************************************)
LEMMA PathsAre ==
    /\ \A p \in Paths : p \in Seq(Name) /\ Len(p) \in 0..Depth
    /\ \A p \in Seq(Name) : Len(p) <= Depth => p \in Paths
    /\ <<>> \in Paths /\ Len(<<>>) = 0 /\ \A p \in Paths : Len(p) = 0 => p = <<>>
<1>1. ASSUME NEW p \in Paths PROVE p \in Seq(Name) /\ Len(p) \in 0..Depth
  <2>1. PICK n \in 0..Depth : p \in [1..n -> Name]
    BY DEF Paths
  <2>2. n \in Nat
    BY <2>1, DepthIs
  <2>3. p \in Seq(Name)
    BY <2>1, <2>2, SeqDef
  <2>4. Len(p) = n
    BY <2>1, <2>2, <2>3, LenProperties
  <2> QED
    BY <2>3, <2>4, <2>1
<1>2. ASSUME NEW p \in Seq(Name), Len(p) <= Depth PROVE p \in Paths
  <2>1. Len(p) \in 0..Depth /\ p \in [1..Len(p) -> Name]
    BY <1>2, DepthIs, LenProperties
  <2> QED
    BY <2>1 DEF Paths
<1>3. <<>> \in Seq(Name) /\ Len(<<>>) = 0
  OBVIOUS
<1>4. <<>> \in Paths
  <2>1. 0 <= Depth
    BY DepthIs
  <2>2. Len(<<>>) <= Depth
    BY ONLY <1>3, <2>1
  <2> QED
    BY <1>3, <2>2, <1>2
<1>5. ASSUME NEW p \in Paths, Len(p) = 0 PROVE p = <<>>
  BY <1>1, <1>5, EmptySeq
<1> QED
  BY <1>1, <1>2, <1>3, <1>4, <1>5

\* The beginnings of a path are paths, as long as they say.
LEMMA PrefixesAre ==
    ASSUME NEW p \in Paths, NEW n \in 0..Len(p)
    PROVE  /\ SubSeq(p, 1, n) \in Paths /\ Len(SubSeq(p, 1, n)) = n
           /\ \A k \in 1..n : SubSeq(p, 1, n)[k] = p[k]
           /\ n \in Nat /\ SubSeq(p, 1, 0) = <<>>
<1>1. p \in Seq(Name) /\ Len(p) \in 0..Depth /\ n \in Nat
  BY PathsAre, DepthIs
<1>2. \A i \in 1..n : p[i] \in Name
  BY <1>1
<1>3. /\ SubSeq(p, 1, n) \in Seq(Name)
      /\ Len(SubSeq(p, 1, n)) = IF 1 <= n THEN n - 1 + 1 ELSE 0
      /\ \A i \in 1..n - 1 + 1 : SubSeq(p, 1, n)[i] = p[1 + i - 1]
  BY <1>1, <1>2, SubSeqProperties
<1>4. Len(SubSeq(p, 1, n)) = n /\ n <= Depth
  BY <1>1, <1>3, DepthIs
<1>5. SubSeq(p, 1, n) \in Paths
  BY <1>3, <1>4, PathsAre
<1>6. ASSUME NEW k \in 1..n PROVE SubSeq(p, 1, n)[k] = p[k]
  BY <1>1, <1>3
<1>7. SubSeq(p, 1, 0) = <<>>
  BY SubSeqEmpty
<1> QED
  BY <1>1, <1>4, <1>5, <1>6, <1>7

\* A path without its last name, and that name.
LEMMA FrontsAre ==
    ASSUME NEW p \in Paths, p # <<>>
    PROVE  /\ Front(p) \in Paths /\ Len(Front(p)) = Len(p) - 1
           /\ Last(p) \in Name /\ Last(p) = p[Len(p)]
           /\ \A k \in 1..Len(p) - 1 : Front(p)[k] = p[k]
<1>1. p \in Seq(Name) /\ Len(p) \in 0..Depth /\ Len(p) # 0
  BY PathsAre
<1>2. Len(p) - 1 \in 0..Len(p) /\ Len(p) \in 1..Len(p)
  BY <1>1, DepthIs
<1>3. /\ SubSeq(p, 1, Len(p) - 1) \in Paths /\ Len(SubSeq(p, 1, Len(p) - 1)) = Len(p) - 1
      /\ \A k \in 1..Len(p) - 1 : SubSeq(p, 1, Len(p) - 1)[k] = p[k]
  BY <1>2, PrefixesAre
<1> QED
  BY <1>1, <1>2, <1>3 DEF Front, Last

-----------------------------------------------------------------------------
\* What is below what: the root is reachable.
LEMMA RootIsReachable == Reachable(Root)
BY DEF Reachable

\* So is everything in a reachable directory.
LEMMA ChildIsReachable ==
    ASSUME NEW i \in Object, Visible(i), Reachable(place[i].dir)
    PROVE  Reachable(i)
BY DEF Reachable

\* Nothing is reachable but by a reachable parent.
LEMMA ParentIsReachable ==
    ASSUME NEW i \in Object, Reachable(i)
    PROVE  Visible(i) /\ Reachable(place[i].dir)
<1> DEFINE S == {d \in Dir : d = Root \/ (Visible(d) /\ Reachable(place[d].dir))}
<1>1. Root \in S /\ i \in Dir /\ i # Root
  BY ConstantsAre
<1>2. ASSUME NEW j \in Object, Visible(j), place[j].dir \in S PROVE j \in S
  <2>1. Reachable(place[j].dir)
    <3>1. CASE place[j].dir = Root
      BY <3>1, RootIsReachable
    <3>2. CASE place[j].dir # Root
      <4>1. place[j].dir \in Object /\ Visible(place[j].dir) /\ Reachable(place[place[j].dir].dir)
        BY <1>2, <3>2, ConstantsAre
      <4> QED
        BY <4>1, ChildIsReachable
    <3> QED
      BY <3>1, <3>2
  <2> QED
    BY <1>2, <2>1, ConstantsAre
<1>3. S \in SUBSET Dir
  OBVIOUS
<1>4. i \in S
  <2> HIDE DEF S
  <2> QED
    BY <1>1, <1>2, <1>3 DEF Reachable
<1> QED
  BY <1>1, <1>4

\* A directory is within itself.
LEMMA WithinItself ==
    ASSUME NEW d \in Dir PROVE Within(d, d)
BY DEF Within

\* What is within an object is within the directory the object is in.
LEMMA WithinTheParent ==
    ASSUME NEW d \in Dir, NEW i \in Object, Visible(i), Within(d, i)
    PROVE  Within(d, place[i].dir)
BY DEF Within

\* What is in a directory that is within another, is within that one.
LEMMA WithinByTheParent ==
    ASSUME NEW i \in Dir, NEW j \in Object, Visible(j), place[j].dir \in Dir, Within(place[j].dir, i)
    PROVE  Within(j, i)
BY ConstantsAre DEF Within

(***************************************************************************)
(* The empty path leads to the root, and one more name to a child.         *)
(***************************************************************************)
LEMMA LeadsToRoot == \A d \in Dir : Leads(<<>>, d) <=> d = Root
<1> SUFFICES ASSUME NEW d \in Dir PROVE Leads(<<>>, d) <=> d = Root
  OBVIOUS
<1>1. Leads(<<>>, d) => d = Root
  BY DEF Leads
<1>2. Leads(<<>>, Root)
  <2> DEFINE trail == [n \in 0..0 |-> Root]
  <2>1. trail \in [0..Len(<<>>) -> Dir] /\ trail[0] = Root /\ trail[Len(<<>>)] = Root
    BY ConstantsAre
  <2>2. 1..Len(<<>>) = {}
    OBVIOUS
  <2> HIDE DEF trail
  <2> QED
    BY <2>1, <2>2 DEF Leads
<1> QED
  BY <1>1, <1>2

\* A path leads to a directory that exists.
LEMMA LeadsToKnown ==
    ASSUME NEW p \in Paths, NEW d \in Dir, Leads(p, d)
    PROVE  d \in Known
<1>1. Len(p) \in Nat
  BY PathsAre, DepthIs
<1>2. CASE Len(p) = 0
  BY <1>2 DEF Leads, Known
<1>3. CASE Len(p) # 0
  <2>1. Len(p) \in 1..Len(p)
    BY <1>1, <1>3
  <2> QED
    BY <2>1 DEF Leads, Known
<1> QED
  BY <1>2, <1>3

\* A path leads on from a directory to the child its next name names.
LEMMA LeadsFurther ==
    ASSUME NEW p \in Paths, NEW n \in 0..Len(p) - 1, NEW d \in Dir, NEW i \in folders,
           folders \subseteq Object,
           Leads(SubSeq(p, 1, n), d), place[i] = PlaceOf(d, p[n + 1])
    PROVE  Leads(SubSeq(p, 1, n + 1), i)
<1>1. Len(p) \in Nat
  BY PathsAre, DepthIs
<1>2. n \in 0..Len(p) /\ n + 1 \in 0..Len(p) /\ n \in Nat /\ n + 1 \in 1..n + 1
  BY <1>1
<1> DEFINE q == SubSeq(p, 1, n)  r == SubSeq(p, 1, n + 1)
<1>3. Len(q) = n /\ Len(r) = n + 1 /\ (\A k \in 1..n : q[k] = p[k]) /\ \A k \in 1..n + 1 : r[k] = p[k]
  BY <1>2, PrefixesAre
<1>4. PICK trail \in [0..n -> Dir] :
        /\ trail[0] = Root /\ trail[n] = d
        /\ \A k \in 1..n : trail[k] \in folders /\ place[trail[k]] = PlaceOf(trail[k - 1], q[k])
  <2> HIDE DEF q
  <2> QED
    BY <1>3 DEF Leads, q
<1> DEFINE longer == [k \in 0..n + 1 |-> IF k = n + 1 THEN i ELSE trail[k]]
<1>5. longer \in [0..n + 1 -> Dir] /\ longer[0] = Root /\ longer[n + 1] = i
  BY <1>2, <1>4, ConstantsAre
<1>6. ASSUME NEW k \in 1..n + 1
      PROVE  longer[k] \in folders /\ place[longer[k]] = PlaceOf(longer[k - 1], r[k])
  <2>1. CASE k = n + 1
    <3>1. longer[k] = i /\ longer[k - 1] = d /\ r[k] = p[n + 1]
      BY <1>2, <1>3, <1>4, <2>1
    <3> QED
      BY <3>1
  <2>2. CASE k # n + 1
    <3>1. k \in 1..n /\ k - 1 \in 0..n /\ k \in 0..n
      BY <1>2, <2>2
    <3>2. longer[k] = trail[k] /\ longer[k - 1] = trail[k - 1] /\ r[k] = q[k]
      BY <1>2, <1>3, <3>1
    <3> QED
      BY <1>4, <3>1, <3>2
  <2> QED
    BY <2>1, <2>2
<1> HIDE DEF longer, r, q
<1>7. /\ longer \in [0..Len(r) -> Dir] /\ longer[0] = Root /\ longer[Len(r)] = i
      /\ \A k \in 1..Len(r) : longer[k] \in folders /\ place[longer[k]] = PlaceOf(longer[k - 1], r[k])
  <2>1. Len(r) = n + 1
    BY <1>3
  <2> QED
    BY <1>5, <1>6, <2>1
<1>8. Leads(r, i)
  BY ONLY <1>7 DEF Leads
<1> QED
  BY <1>8 DEF r

-----------------------------------------------------------------------------
(***************************************************************************)
(* An object is created in a place: nothing was below it, and nothing is.  *)
(***************************************************************************)
Creates(i, q) ==
    /\ place[i] = Nowhere /\ place' = [place EXCEPT ![i] = q]
    /\ folders' = folders \/ folders' = folders \cup {i}

\* A new object keeps reachability and what paths lead to, and nothing that
\* existed gets below anything new.
LEMMA CreationKeeps ==
    ASSUME place \in Places, Parented, Exist,
           NEW i \in Object, NEW q \in Place, Creates(i, q)
    PROVE  /\ \A d \in Dir : Reachable(d) => Reachable(d)'
           /\ \A d \in Dir, e \in Known : Within(e, d)' => Within(e, d)
           /\ \A p, d : Leads(p, d) => Leads(p, d)'
<1>1. /\ place'[i] = q /\ \A j \in Object : j # i => place'[j] = place[j]
      /\ ~Visible(i) /\ i \notin Known
  BY ConstantsAre DEF Creates, Places, Visible, Exist, Known
<1>2. ASSUME NEW d \in Dir, Reachable(d) PROVE Reachable(d)'
  <2> SUFFICES ASSUME NEW S \in SUBSET Dir, Root \in S,
                      \A j \in Object : Visible(j)' /\ place'[j].dir \in S => j \in S
               PROVE  d \in S
    BY DEF Reachable
  <2>1. \A j \in Object : Visible(j) /\ place[j].dir \in S => j \in S
    BY <1>1 DEF Visible
  <2> QED
    BY <1>2, <2>1 DEF Reachable
<1>3. ASSUME NEW d \in Dir, NEW e \in Known, Within(e, d)' PROVE Within(e, d)
  <2> SUFFICES ASSUME NEW S \in SUBSET Dir, e \in S,
                      \A j \in Object \cap S : Visible(j) => place[j].dir \in S
               PROVE  d \in S
    BY DEF Within
  <2> DEFINE T == S \ {i}
  <2>1. T \in SUBSET Dir /\ e \in T
    BY <1>1
  <2>2. ASSUME NEW j \in Object \cap T, Visible(j)' PROVE place'[j].dir \in T
    <3>1. Visible(j) /\ place'[j] = place[j]
      BY <1>1, <2>2 DEF Visible
    <3> QED
      BY <1>1, <3>1 DEF Parented
  <2> HIDE DEF T
  <2>3. d \in T
    BY <1>3, <2>1, <2>2 DEF Within
  <2> QED
    BY <2>3 DEF T
<1>4. ASSUME NEW p, NEW d, Leads(p, d) PROVE Leads(p, d)'
  <2>1. PICK trail \in [0..Len(p) -> Dir] :
          /\ trail[0] = Root /\ trail[Len(p)] = d
          /\ \A n \in 1..Len(p) : trail[n] \in folders /\ place[trail[n]] = PlaceOf(trail[n - 1], p[n])
    BY <1>4 DEF Leads
  <2>2. \A n \in 1..Len(p) : trail[n] \in folders' /\ place'[trail[n]] = PlaceOf(trail[n - 1], p[n])
    BY <1>1, <2>1 DEF Creates, Known, Exist
  <2> QED
    BY <2>1, <2>2 DEF Leads
<1> QED
  BY <1>2, <1>3, <1>4

(***************************************************************************)
(* An object without children goes to the recycle bin.                     *)
(***************************************************************************)
Removes(i) == Visible(i) /\ Children(i) = {} /\ place' = [place EXCEPT ![i] = Trash] /\ UNCHANGED folders

\* Trashing an object without children disturbs no other object.
LEMMA RemovalKeeps ==
    ASSUME place \in Places, Parented, folders \subseteq Object, NEW i \in Object, Removes(i)
    PROVE  /\ \A d \in Dir \ {i} : Reachable(d) => Reachable(d)'
           /\ \A d, e \in Dir : Within(e, d)' => Within(e, d)
           /\ \A e \in Dir \ {i} : ~Within(e, i)'
           /\ \A p \in Paths, d \in Dir \ {i} : Leads(p, d) => Leads(p, d)'
<1>1. /\ place'[i] = Trash /\ \A j \in Object : j # i => place'[j] = place[j]
      /\ ~Visible(i)' /\ \A j \in Object : Visible(j) => place[j].dir # i
  BY ConstantsAre DEF Removes, Places, Visible, Children
<1>2. ASSUME NEW d \in Dir \ {i}, Reachable(d) PROVE Reachable(d)'
  <2> SUFFICES ASSUME NEW S \in SUBSET Dir, Root \in S,
                      \A j \in Object : Visible(j)' /\ place'[j].dir \in S => j \in S
               PROVE  d \in S
    BY DEF Reachable
  <2> DEFINE T == S \cup {i}
  <2>1. T \in SUBSET Dir /\ Root \in T
    BY ConstantsAre
  <2>2. ASSUME NEW j \in Object, Visible(j), place[j].dir \in T PROVE j \in T
    BY <1>1, <2>2 DEF Visible
  <2> HIDE DEF T
  <2>3. d \in T
    BY <1>2, <2>1, <2>2 DEF Reachable
  <2> QED
    BY <2>3 DEF T
<1>3. ASSUME NEW d \in Dir, NEW e \in Dir, Within(e, d)' PROVE Within(e, d)
  <2> SUFFICES ASSUME NEW S \in SUBSET Dir, e \in S,
                      \A j \in Object \cap S : Visible(j) => place[j].dir \in S
               PROVE  d \in S
    BY DEF Within
  <2>1. \A j \in Object \cap S : Visible(j)' => place'[j].dir \in S
    BY <1>1 DEF Visible
  <2> QED
    BY <1>3, <2>1 DEF Within
<1>4. ASSUME NEW e \in Dir \ {i} PROVE ~Within(e, i)'
  <2> DEFINE S == Dir \ {i}
  <2>1. S \in SUBSET Dir /\ e \in S /\ i \notin S
    OBVIOUS
  <2>2. ASSUME NEW j \in Object \cap S, Visible(j)' PROVE place'[j].dir \in S
    <3>1. Visible(j) /\ place'[j] = place[j]
      BY <1>1, <2>2 DEF Visible
    <3> QED
      BY <1>1, <3>1 DEF Parented, Visible, Place
  <2> HIDE DEF S
  <2> QED
    BY <2>1, <2>2 DEF Within
<1>5. ASSUME NEW p \in Paths, NEW d \in Dir \ {i}, Leads(p, d) PROVE Leads(p, d)'
  <2>1. PICK trail \in [0..Len(p) -> Dir] :
          /\ trail[0] = Root /\ trail[Len(p)] = d
          /\ \A n \in 1..Len(p) : trail[n] \in folders /\ place[trail[n]] = PlaceOf(trail[n - 1], p[n])
    BY <1>5 DEF Leads
  <2>2. ASSUME NEW n \in 1..Len(p) PROVE trail[n] # i
    <3>1. Len(p) \in Nat /\ n \in 0..Len(p)
      BY PathsAre, DepthIs
    <3>2. CASE n = Len(p)
      BY <2>1, <3>2
    <3>3. CASE n # Len(p)
      <4>1. n + 1 \in 1..Len(p) /\ (n + 1) - 1 = n
        BY <3>1, <3>3
      <4>2. p[n + 1] \in AnyName
        BY <4>1, PathsAre DEF AnyName
      <4>3. place[trail[n + 1]] = PlaceOf(trail[n], p[n + 1]) /\ trail[n + 1] \in Object
        BY <2>1, <4>1
      <4>4. Visible(trail[n + 1]) /\ place[trail[n + 1]].dir = trail[n]
        BY <3>1, <4>2, <4>3, PlacesAre DEF Visible
      <4> QED
        BY <1>1, <4>3, <4>4
    <3> QED
      BY <3>2, <3>3
  <2>3. \A n \in 1..Len(p) : trail[n] \in folders' /\ place'[trail[n]] = PlaceOf(trail[n - 1], p[n])
    BY <1>1, <2>1, <2>2 DEF Removes
  <2> QED
    BY <2>1, <2>3 DEF Leads
<1> QED
  BY <1>2, <1>3, <1>4, <1>5

(***************************************************************************)
(* A directory is moved to where it does not end up in itself.             *)
(***************************************************************************)
Moves(i, q) == Visible(i) /\ place' = [place EXCEPT ![i] = q] /\ UNCHANGED folders

\* A move to a reachable directory, not below what is moved, keeps everything
\* reachable, and puts an unreachable directory above nothing new.
LEMMA MoveKeeps ==
    ASSUME place \in Places, Parented, NEW i \in Object, NEW q \in Place, Moves(i, q),
           Reachable(q.dir), ~Within(q.dir, i)
    PROVE  /\ \A d \in Dir : Reachable(d) => Reachable(d)'
           /\ \A d, e \in Dir : ~Reachable(d) /\ Within(e, d)' => Within(e, d)
<1>1. /\ place'[i] = q /\ \A j \in Object : j # i => place'[j] = place[j]
      /\ Visible(i) /\ Visible(i)' /\ \A j \in Object : Visible(j)' <=> Visible(j)
      /\ q.dir \in Dir
  BY ConstantsAre, PlacesAre DEF Moves, Places, Visible
<1>2. ASSUME NEW d \in Dir, Reachable(d) PROVE Reachable(d)'
  <2> SUFFICES ASSUME NEW S \in SUBSET Dir, Root \in S,
                      \A j \in Object : Visible(j)' /\ place'[j].dir \in S => j \in S
               PROVE  d \in S
    BY DEF Reachable
  <2>1. q.dir \in S
    <3> DEFINE T == {x \in Dir : x \in S \/ Within(x, i)}
    <3>1. T \in SUBSET Dir /\ Root \in T
      BY ConstantsAre
    <3>2. ASSUME NEW j \in Object, Visible(j), place[j].dir \in T PROVE j \in T
      <4>1. j \in Dir /\ i \in Dir
        BY ConstantsAre
      <4>2. CASE j = i
        BY <4>1, <4>2, WithinItself
      <4>3. CASE j # i /\ place[j].dir \in S
        BY <1>1, <3>2, <4>1, <4>3
      <4>4. CASE Within(place[j].dir, i)
        BY <3>2, <4>1, <4>4, WithinByTheParent
      <4> QED
        BY <3>2, <4>2, <4>3, <4>4
    <3>3. q.dir \in T
      <4> HIDE DEF T
      <4> QED
        BY <3>1, <3>2 DEF Reachable
    <3> QED
      BY <3>3
  <2>2. i \in S
    BY <1>1, <2>1
  <2>3. \A j \in Object : Visible(j) /\ place[j].dir \in S => j \in S
    BY <1>1, <2>2
  <2> QED
    BY <1>2, <2>3 DEF Reachable
<1>3. ASSUME NEW d \in Dir, NEW e \in Dir, ~Reachable(d), Within(e, d)' PROVE Within(e, d)
  <2> DEFINE T == {x \in Dir : Within(e, x) \/ Reachable(x)}
  <2>1. T \in SUBSET Dir /\ e \in T
    BY WithinItself
  <2>2. ASSUME NEW j \in Object \cap T, Visible(j)' PROVE place'[j].dir \in T
    <3>1. CASE j = i
      BY <1>1, <3>1
    <3>2. CASE j # i
      <4>1. Visible(j) /\ place'[j] = place[j] /\ place[j].dir \in Dir
        BY <1>1, <2>2, <3>2, PlacesAre DEF Visible
      <4> QED
        BY <2>2, <4>1, WithinTheParent, ParentIsReachable
    <3> QED
      BY <3>1, <3>2
  <2>3. d \in T
    <3> HIDE DEF T
    <3> QED
      BY <1>3, <2>1, <2>2 DEF Within
  <2> QED
    BY <1>3, <2>3
<1> QED
  BY <1>2, <1>3

-----------------------------------------------------------------------------
(***************************************************************************)
(* What a call is asked for, and the lookups and walks that takes.         *)
(***************************************************************************)
LEMMA CallsAre ==
    ASSUME call \in Plans, NEW c \in Client
    PROVE  /\ call[c] \in Call /\ call[c].path \in Paths /\ call[c].to \in Paths
           /\ call[c].op \in {"mkdir", "put", "remove", "rmdir", "dirmove", "list"}
           /\ call[c].op # "list" => call[c].path # <<>>
           /\ call[c].op = "dirmove" => call[c].to # <<>>
<1>1. call[c] \in Call
  BY NamespaceAssumption
<1>2. call[c].op = "dirmove" => call[c].to # <<>>
  BY NamespaceAssumption
<1> QED
  BY <1>1, <1>2, PathsAre DEF Call

\* The last names of the paths a call is asked to work on.
LEMMA NamesAre ==
    ASSUME call \in Plans, NEW c \in Client
    PROVE  /\ call[c].op # "list" => Front(call[c].path) \in Paths /\ Last(call[c].path) \in Name
           /\ call[c].op = "dirmove" => Front(call[c].to) \in Paths /\ Last(call[c].to) \in Name
BY CallsAre, FrontsAre

\* How many directories a call looks up first, and by which paths.
LEMMA LookupsAre ==
    ASSUME call \in Plans, NEW c \in Client
    PROVE  /\ call[c].op \in {"mkdir", "put", "remove", "list"} => Len(Lookups(c)) = 1
           /\ call[c].op = "rmdir" => Len(Lookups(c)) = 2
           /\ call[c].op = "dirmove" => Len(Lookups(c)) = 4
           /\ \A k \in 1..Len(Lookups(c)) : Lookups(c)[k].path \in Paths
<1> DEFINE p == call[c].path  to == call[c].to
<1>0. /\ p \in Paths /\ to \in Paths
      /\ call[c].op # "list" => Front(p) \in Paths
      /\ call[c].op = "dirmove" => Front(to) \in Paths
      /\ \A q : Created(q).path = q /\ Existing(q).path = q
  BY CallsAre, NamesAre DEF Created, Existing
<1>1. CASE call[c].op = "mkdir"
  <2>1. Lookups(c) = <<Created(p)>>
    BY <1>1 DEF Lookups
  <2>2. Len(Lookups(c)) = 1 /\ Lookups(c)[1] = Created(p)
    BY ONLY <2>1
  <2> QED
    BY ONLY <1>0, <1>1, <2>2
<1>2. CASE call[c].op = "list"
  <2>1. Lookups(c) = <<Existing(p)>>
    BY <1>2 DEF Lookups
  <2>2. Len(Lookups(c)) = 1 /\ Lookups(c)[1] = Existing(p)
    BY ONLY <2>1
  <2> QED
    BY ONLY <1>0, <1>2, <2>2
<1>3. CASE call[c].op \in {"put", "remove"}
  <2>1. Lookups(c) = <<Existing(Front(p))>>
    BY <1>3 DEF Lookups
  <2>2. Len(Lookups(c)) = 1 /\ Lookups(c)[1] = Existing(Front(p))
    BY ONLY <2>1
  <2> QED
    BY ONLY <1>0, <1>3, <2>2
<1>4. CASE call[c].op = "rmdir"
  <2>1. Lookups(c) = <<Existing(p), Existing(Front(p))>>
    BY <1>4 DEF Lookups
  <2>2. /\ Len(Lookups(c)) = 2
        /\ Lookups(c)[1] = Existing(p) /\ Lookups(c)[2] = Existing(Front(p))
    BY ONLY <2>1
  <2> QED
    BY ONLY <1>0, <1>4, <2>2
<1>5. CASE call[c].op = "dirmove"
  <2>1. Lookups(c) = <<Existing(p), Created(Front(to)), Existing(to), Existing(Front(p))>>
    BY <1>5 DEF Lookups
  <2>2. /\ Len(Lookups(c)) = 4
        /\ Lookups(c)[1] = Existing(p) /\ Lookups(c)[2] = Created(Front(to))
        /\ Lookups(c)[3] = Existing(to) /\ Lookups(c)[4] = Existing(Front(p))
    BY ONLY <2>1
  <2> QED
    BY ONLY <1>0, <1>5, <2>2
<1> QED
  BY <1>1, <1>2, <1>3, <1>4, <1>5, CallsAre

\* The lookup that is due.
LEMMA LookupIs ==
    ASSUME TypeOK, call \in Plans, NEW c \in Client, Len(found[c]) < Len(Lookups(c))
    PROVE  /\ Lookup(c).path \in Paths
           /\ Len(found[c]) \in 0..3 /\ Len(found[c]) + 1 \in 1..Len(Lookups(c))
           /\ Len(Lookups(c)) \in 1..4
<1>1. Len(found[c]) \in Nat
  <2>1. found[c] \in Seq(Dir \cup {Nil})
    BY DEF TypeOK
  <2> QED
    BY ONLY <2>1
<1>2. Len(Lookups(c)) \in 1..4
  BY LookupsAre, CallsAre
<1>3. \A m \in Nat, n \in 1..4 : m < n => m + 1 \in 1..n /\ m \in 0..3
  OBVIOUS
<1>4. Len(found[c]) + 1 \in 1..Len(Lookups(c)) /\ Len(found[c]) \in 0..3
  BY <1>1, <1>2, <1>3
<1> QED
  BY <1>2, <1>4, LookupsAre DEF Lookup

(***************************************************************************)
(* What a call that has its IDs works with, and the keys of that.          *)
(***************************************************************************)
LEMMA OwnIDs ==
    ASSUME TypeOK, call \in Plans, NEW c \in Client, Ready(c), Sensible(c)
    PROVE  /\ ParentOf(c) \in Known /\ OldPlace(c) \in Place /\ OldPlace(c).dir = ParentOf(c)
           /\ call[c].op \in {"rmdir", "dirmove"} => Target(c) \in Known
           /\ call[c].op = "remove" => Target(c) \in Object \ folders /\ place[Target(c)] # Nowhere
           /\ call[c].op = "dirmove" =>
                 NewParent(c) \in Known /\ NewPlace(c) \in Place /\ NewPlace(c).dir = NewParent(c)
<1>1. Known \subseteq Dir
  BY ConstantsAre DEF TypeOK, Known
<1>2. \A k \in 1..Len(found[c]) : k # 3 /\ call[c].op # "remove" => found[c][k] \in Known
  BY DEF Sensible
<1>3. Last(call[c].path) \in AnyName /\ (call[c].op = "dirmove" => Last(call[c].to) \in AnyName)
  BY NamesAre DEF Ready, AnyName
<1>4. CASE call[c].op = "put"
  <2>1. Len(found[c]) = 1
    BY <1>4, LookupsAre DEF Ready
  <2>2. ParentOf(c) \in Known
    BY <1>2, <1>4, <2>1 DEF ParentOf
  <2> QED
    BY <1>1, <1>3, <1>4, <2>2, PlacesAre DEF OldPlace
<1>5. CASE call[c].op = "remove"
  <2>1. Len(found[c]) = 2
    BY <1>5 DEF Ready
  <2>2. 1 \in 1..Len(found[c]) /\ 2 \in 1..Len(found[c])
    BY <2>1
  <2>3. found[c][1] \in Known /\ found[c][2] \in Object \ folders /\ place[found[c][2]] # Nowhere
    BY <1>5, <2>2 DEF Sensible
  <2>4. ParentOf(c) = found[c][1] /\ Target(c) = found[c][2]
    BY <1>5 DEF ParentOf, Target
  <2> QED
    BY <1>1, <1>3, <1>5, <2>3, <2>4, PlacesAre DEF OldPlace
<1>6. CASE call[c].op = "rmdir"
  <2>1. Len(found[c]) = 2
    BY <1>6, LookupsAre DEF Ready
  <2>2. ParentOf(c) \in Known /\ Target(c) \in Known
    BY <1>2, <1>6, <2>1 DEF ParentOf, Target
  <2> QED
    BY <1>1, <1>3, <1>6, <2>2, PlacesAre DEF OldPlace
<1>7. CASE call[c].op = "dirmove"
  <2>1. Len(found[c]) = 4
    BY <1>7, LookupsAre DEF Ready
  <2>2. ParentOf(c) \in Known /\ Target(c) \in Known /\ NewParent(c) \in Known
    BY <1>2, <1>7, <2>1 DEF ParentOf, Target, NewParent
  <2> QED
    BY <1>1, <1>3, <1>7, <2>2, PlacesAre DEF OldPlace, NewPlace
<1> QED
  BY <1>4, <1>5, <1>6, <1>7 DEF Ready

\* The walks of a call lead to the directories it works in, whose keys it asks
\* for.
LEMMA WalksAre ==
    ASSUME TypeOK, call \in Plans, NEW c \in Client, Ready(c), Sensible(c)
    PROVE  /\ Len(Walks(c)) \in 1..2
           /\ \A k \in 1..Len(Walks(c)) : Walks(c)[k].path \in Paths /\ Walks(c)[k].id \in Known
           /\ Walks(c)[1].path = Front(call[c].path) /\ Walks(c)[1].id = ParentOf(c)
           /\ call[c].op = "dirmove" =>
                 /\ Len(Walks(c)) = 2
                 /\ Walks(c)[2].path = Front(call[c].to) /\ Walks(c)[2].id = NewParent(c)
           /\ resolver # c => \A k \in 1..Len(Walks(c)) : Parent(Walks(c)[k].id) \in Keys(c)
<1> DEFINE old == [path |-> Front(call[c].path), id |-> ParentOf(c)]
           new == [path |-> Front(call[c].to), id |-> NewParent(c)]
<1>1. Front(call[c].path) \in Paths /\ ParentOf(c) \in Known
  BY OwnIDs, NamesAre DEF Ready
<1>2. CASE call[c].op # "dirmove"
  <2>1. Walks(c) = <<old>>
    BY <1>2 DEF Walks
  <2>2. Len(Walks(c)) = 1 /\ Walks(c)[1] = old
    BY ONLY <2>1
  <2>3. resolver # c => Parent(ParentOf(c)) \in Keys(c)
    BY DEF Keys
  <2> QED
    BY <1>1, <1>2, <2>2, <2>3
<1>3. CASE call[c].op = "dirmove"
  <2>1. Walks(c) = <<old, new>>
    BY <1>3 DEF Walks
  <2>2. Len(Walks(c)) = 2 /\ Walks(c)[1] = old /\ Walks(c)[2] = new
    BY ONLY <2>1
  <2>3. resolver # c => Parent(ParentOf(c)) \in Keys(c) /\ Parent(NewParent(c)) \in Keys(c)
    BY <1>3 DEF Keys
  <2>4. Front(call[c].to) \in Paths /\ NewParent(c) \in Known
    BY <1>3, OwnIDs, NamesAre
  <2> QED
    BY <1>1, <1>3, <2>2, <2>3, <2>4
<1> QED
  BY <1>2, <1>3

\* A call asks for at least one key, and for the place of a directory it makes.
LEMMA KeysAreKeys ==
    ASSUME TypeOK, call \in Plans, NEW c \in Client, Sensible(c),
           IF resolver = c THEN Making(c) ELSE Ready(c)
    PROVE  /\ Keys(c) \in SUBSET LockKey /\ Keys(c) # {}
           /\ resolver = c => MakePlace(c) \in Place /\ MakePlace(c).dir = at[c].id
<1>1. Known \subseteq Dir
  BY ConstantsAre DEF TypeOK, Known
<1>2. CASE resolver = c
  <2>1. Lookup(c).path \in Paths /\ at[c].depth < Len(Lookup(c).path) /\ at[c].depth \in 0..Depth
    BY <1>2, LookupIs DEF Making, TypeOK
  <2>2. Lookup(c).path[at[c].depth + 1] \in Name
    <3>1. \A p \in Paths, n \in 0..Depth : n < Len(p) => p[n + 1] \in Name
      <4> SUFFICES ASSUME NEW p \in Paths, NEW n \in 0..Depth, n < Len(p) PROVE p[n + 1] \in Name
        OBVIOUS
      <4>1. p \in Seq(Name) /\ Len(p) \in Nat /\ n \in Nat
        BY PathsAre, DepthIs
      <4>2. n + 1 \in 1..Len(p)
        BY <4>1
      <4> QED
        BY <4>1, <4>2
    <3> QED
      BY <2>1, <3>1
  <2>3. MakePlace(c) \in Place /\ MakePlace(c).dir = at[c].id
    BY <1>1, <2>2, PlacesAre DEF MakePlace, Sensible, AnyName
  <2> QED
    BY <1>1, <1>2, <2>3, KeysAre DEF Keys, Sensible
<1>3. CASE resolver # c
  <2>1. Parent(ParentOf(c)) \in LockKey /\ OldPlace(c) \in LockKey
    BY <1>1, <1>3, OwnIDs, KeysAre
  <2>2. call[c].op = "rmdir" => Parent(Target(c)) \in LockKey
    BY <1>1, <1>3, OwnIDs, KeysAre
  <2>3. call[c].op = "dirmove" => Parent(NewParent(c)) \in LockKey /\ NewPlace(c) \in LockKey
    BY <1>1, <1>3, OwnIDs, KeysAre
  <2> QED
    BY <1>3, <2>1, <2>2, <2>3 DEF Keys
<1> QED
  BY <1>2, <1>3

(***************************************************************************)
(* All of this depends on the call's own variables.                        *)
(***************************************************************************)
LEMMA SameIDs ==
    ASSUME NEW c \in Client, call' = call, found'[c] = found[c]
    PROVE  /\ Lookups(c)' = Lookups(c) /\ Lookup(c)' = Lookup(c)
           /\ Target(c)' = Target(c) /\ ParentOf(c)' = ParentOf(c) /\ NewParent(c)' = NewParent(c)
           /\ OldPlace(c)' = OldPlace(c) /\ NewPlace(c)' = NewPlace(c) /\ Walks(c)' = Walks(c)
           /\ Ready(c)' = Ready(c)
<1>1. Lookups(c)' = Lookups(c)
  BY DEF Lookups
<1>2. Lookup(c)' = Lookup(c)
  BY <1>1 DEF Lookup
<1>3. Target(c)' = Target(c)
  BY DEF Target
<1>4. ParentOf(c)' = ParentOf(c)
  BY DEF ParentOf
<1>5. NewParent(c)' = NewParent(c)
  BY DEF NewParent
<1>6. OldPlace(c)' = OldPlace(c) /\ NewPlace(c)' = NewPlace(c) /\ Walks(c)' = Walks(c)
  BY <1>4, <1>5 DEF OldPlace, NewPlace, Walks
<1>7. Ready(c)' = Ready(c)
  BY <1>1 DEF Ready
<1> QED
  BY <1>1, <1>2, <1>3, <1>4, <1>5, <1>6, <1>7

\* The keys of a call, too, depend on its own variables and the resolver only.
LEMMA SameKeys ==
    ASSUME NEW c \in Client, call' = call, found'[c] = found[c], at'[c] = at[c],
           resolver' = c <=> resolver = c
    PROVE  Keys(c)' = Keys(c) /\ MakePlace(c)' = MakePlace(c) /\ Making(c)' = Making(c)
<1>1. MakePlace(c)' = MakePlace(c)
  BY SameIDs DEF MakePlace
<1>2. Making(c)' = Making(c)
  BY SameIDs DEF Making
<1>3. Keys(c)' = Keys(c)
  BY <1>1, SameIDs DEF Keys
<1> QED
  BY <1>1, <1>2, <1>3

\* Who works with its IDs has the same keys whoever resolves paths.
LEMMA SameWorkKeys ==
    ASSUME NEW c \in Client, call' = call, found'[c] = found[c], resolver # c, resolver' # c
    PROVE  Keys(c)' = Keys(c)
BY SameIDs DEF Keys

-----------------------------------------------------------------------------
(***************************************************************************)
(* A step of one call leaves the variables of the others alone.            *)
(***************************************************************************)
Alone(c) ==
    /\ call' = call
    /\ \A d \in Client \ {c} :
          /\ pc'[d] = pc[d] /\ found'[d] = found[d] /\ at'[d] = at[d] /\ walked'[d] = walked[d]
          /\ seen'[d] = seen[d] /\ sent'[d] = sent[d] /\ held'[d] = held[d]
          /\ resolver' = d <=> resolver = d
          /\ disturbed[d] => disturbed'[d]

\* Ending a call changes no variable of another call.
LEMMA EndAlone ==
    ASSUME NEW c \in Client, NEW r, End(c, r), call' = call, TypeOK
    PROVE  Alone(c)
BY ConstantsAre DEF End, Forget, Alone, TypeOK, ControlTypeOK

\* Neither does ending a lookup.
LEMMA EndLookupAlone ==
    ASSUME NEW c \in Client, NEW id, EndLookup(c, id), TypeOK, resolver = c
    PROVE  Alone(c)
<1>1. CASE call[c].op = "mkdir"
  BY <1>1, EndAlone DEF EndLookup
<1>2. CASE call[c].op # "mkdir"
  <2>1. \E x : found' = [found EXCEPT ![c] = x]
    BY <1>2 DEF EndLookup
  <2>2. \A d \in Client \ {c} : found'[d] = found[d]
    BY <2>1
  <2>3. \A d \in Client \ {c} : pc'[d] = pc[d] /\ (resolver' = d <=> resolver = d)
    <3>1. pc' = [pc EXCEPT ![c] = AfterLookup(c)] /\ resolver' = Nil
      BY <1>2 DEF EndLookup, Goto
    <3> QED
      BY <3>1, ConstantsAre
  <2>4. UNCHANGED <<tree, sent, call, cache, at, walked, seen, disturbed, held>>
    BY <1>2 DEF EndLookup, Goto
  <2> QED
    BY <2>2, <2>3, <2>4 DEF Alone
<1> QED
  BY <1>1, <1>2

\* Nor does any other step of a call: all it shares is the drive, the locks,
\* the cache and the resolver.
LEMMA StepAlone ==
    ASSUME NEW c \in Client, Begin(c) \/ Step(c), TypeOK, Position(c)
    PROVE  Alone(c)
<1> USE DEF TypeOK, ControlTypeOK
<1>1. CASE Begin(c)
  BY <1>1 DEF Begin, Goto, Alone, search
<1>2. CASE BeginLookup(c)
  BY <1>2, ConstantsAre DEF BeginLookup, Goto, Alone
<1>3. CASE Resolved(c)
  <2>1. pc[c] = "resolve" /\ resolver = c
    BY <1>3 DEF Resolved, Position
  <2>2. CASE Fail(c)
    BY <2>2, EndAlone DEF Fail
  <2>3. CASE EndLookup(c, at[c].id)
    BY <2>1, <2>3, EndLookupAlone
  <2> QED
    BY <1>3, <2>2, <2>3 DEF Resolved
<1>4. CASE FindLeaf(c)
  <2>1. pc[c] = "resolve" /\ resolver = c
    BY <1>4 DEF FindLeaf, Position
  <2>2. CASE Fail(c)
    BY <2>2, EndAlone DEF Fail
  <2>3. CASE EndLookup(c, Nil)
    BY <2>1, <2>3, EndLookupAlone
  <2>4. CASE /\ \E i \in Object : Advance(c, i)
             /\ UNCHANGED <<tree, control, call, resolver, found, walked, seen, disturbed>>
    BY <2>4 DEF Advance, Alone, control
  <2>5. CASE Goto(c, "lock") /\ UNCHANGED <<tree, sent, call, search, walked, seen, disturbed>>
    BY <2>5 DEF Goto, Alone, search
  <2> QED
    BY <1>4, <2>2, <2>3, <2>4, <2>5 DEF FindLeaf
<1>5. CASE TakeLocks(c)
  BY <1>5 DEF TakeLocks, Lock, Locks!Enter, Alone
<1>6. CASE LookForChild(c)
  <2>1. CASE Fail(c)
    BY <2>1, EndAlone DEF Fail
  <2>2. CASE Goto(c, "make") /\ UNCHANGED <<tree, sent, call, search, walked, seen, disturbed>>
    BY <2>2 DEF Goto, Alone, search
  <2>3. CASE /\ \E i \in Object : Adopt(c, i)
             /\ sent' = [sent EXCEPT ![c] = FALSE] /\ UNCHANGED <<tree, call, walked, seen, disturbed>>
    BY <2>3 DEF Adopt, Advance, Locks!Leave, Alone
  <2> QED
    BY <1>6, <2>1, <2>2, <2>3 DEF LookForChild
<1>7. CASE Make(c)
  BY <1>7 DEF Make, Alone, search
<1>8. CASE Walk(c)
  <2>1. CASE Fail(c)
    BY <2>1, EndAlone DEF Fail
  <2>2. CASE /\ \E x : at' = [at EXCEPT ![c] = x]
             /\ \E x : walked' = [walked EXCEPT ![c] = x]
             /\ UNCHANGED <<tree, control, call, cache, resolver, found, seen, disturbed>>
    BY <2>2 DEF Alone, control
  <2>3. Fail(c) \/ /\ \E x : at' = [at EXCEPT ![c] = x]
                   /\ walked' = walked \/ \E x : walked' = [walked EXCEPT ![c] = x]
                   /\ UNCHANGED <<tree, control, call, cache, resolver, found, seen, disturbed>>
    BY <1>8 DEF Walk
  <2>4. walked' = walked => walked' = [walked EXCEPT ![c] = walked[c]]
    OBVIOUS
  <2> QED
    BY <2>1, <2>2, <2>3, <2>4
<1>9. CASE EndWalks(c)
  BY <1>9 DEF EndWalks, Goto, Alone, search
<1>10. ASSUME NEW step, NEW next, Read(c, step, next) PROVE Alone(c)
  <2>1. CASE Fail(c)
    BY <2>1, EndAlone DEF Fail
  <2>2. CASE Goto(c, next) /\ UNCHANGED <<tree, sent, call, search, walked, seen, disturbed>>
    BY <2>2 DEF Goto, Alone, search
  <2> QED
    BY <1>10, <2>1, <2>2 DEF Read
<1>11. CASE PutMatch(c) \/ RemoveMatch(c) \/ RmdirEmpty(c) \/ RmdirMatch(c) \/ DirMoveMatch(c) \/ DirMoveConflict(c)
  BY <1>10, <1>11 DEF PutMatch, RemoveMatch, RmdirEmpty, RmdirMatch, DirMoveMatch, DirMoveConflict
<1>12. CASE Upload(c) \/ RemoveGone(c) \/ RmdirGone(c) \/ DirMoveDone(c) \/ ListFill(c) \/ Refuse(c)
  BY <1>12, EndAlone DEF Upload, RemoveGone, RmdirGone, DirMoveDone, ListFill, Refuse, Fail
<1>13. CASE FindObject(c)
  BY <1>13 DEF FindObject, Goto, Alone
<1>14. CASE TrashTarget(c)
  BY <1>14 DEF TrashTarget, Alone, search
<1>15. CASE DirMoveSend(c)
  BY <1>15 DEF DirMoveSend, Alone, search
<1>16. CASE ListRead(c)
  BY <1>16 DEF ListRead, Goto, Alone, search
<1> QED
  BY <1>1, <1>2, <1>3, <1>4, <1>5, <1>6, <1>7, <1>8, <1>9, <1>11, <1>12, <1>13, <1>14,
     <1>15, <1>16 DEF Step

-----------------------------------------------------------------------------
(***************************************************************************)
(* What a step may do to the tree: nothing, or one of three changes, at    *)
(* places whose keys the call holds.                                       *)
(***************************************************************************)
Quiet == UNCHANGED <<place, folders>>

Creation(c) ==
    \E i \in Object, q \in Place :
        /\ Creates(i, q) /\ ObjectsAt(q) = {} /\ q.dir \in Known
        /\ q \in held[c] /\ Parent(q.dir) \in held[c]
        /\ folders' = folders /\ Refuses => Reachable(q.dir)

Removal(c) ==
    \E i \in Object :
        /\ Removes(i) /\ place[i] \in held[c]
        /\ i \in folders => Parent(i) \in held[c]

Movement(c) ==
    \E i \in folders, q \in Place :
        /\ Moves(i, q) /\ ObjectsAt(q) \subseteq {i} /\ q.dir \in Known
        /\ place[i] \in held[c] /\ q \in held[c] /\ Parent(q.dir) \in held[c]
        /\ Refuses => Reachable(q.dir) /\ ~Within(q.dir, i)
        /\ \A d \in Client : held[d] # {} => disturbed'[d]

(***************************************************************************)
(* CreateDir, with the key of the name it found free.                      *)
(***************************************************************************)
LEMMA MakeEffect ==
    ASSUME IInv, NEW c \in Client, Make(c)
    PROVE  Quiet \/ Creation(c)
<1>1. pc[c] = "make" /\ ~sent[c] /\ resolver = c /\ held[c] = Keys(c) /\ Making(c)
  BY DEF Make, IInv, Position
<1>2. ObjectsAt(MakePlace(c)) = {}
  BY <1>1 DEF IInv, Current
<1>3. MakePlace(c) \in Place /\ MakePlace(c).dir = at[c].id /\ at[c].id \in Known
  BY <1>1, KeysAreKeys DEF IInv, Sensible
<1>4. MakePlace(c) \in held[c] /\ Parent(MakePlace(c).dir) \in held[c]
  BY <1>1 DEF Keys
<1>5. ASSUME NEW i \in FreshObjects, Perform(Create(i, MakePlace(c))), folders' = folders \cup {i}
      PROVE  Creation(c)
  <2>1. i \in Object /\ place[i] = Nowhere /\ i \notin folders
    BY <1>5 DEF FreshObjects, Unused, IInv, Tree, Exist
  <2>2. place' = [place EXCEPT ![i] = MakePlace(c)]
    <3>1. PlaceOf(MakePlace(c).dir, MakePlace(c).name) = MakePlace(c)
      BY DEF MakePlace, PlaceOf
    <3> QED
      BY <1>5, <2>1, <3>1, Effects, Performed
  <2>3. Creates(i, MakePlace(c)) /\ folders' # folders
    BY <1>5, <2>1, <2>2 DEF Creates
  <2> QED
    BY <1>2, <1>3, <1>4, <2>1, <2>3 DEF Creation
<1> QED
  BY <1>5 DEF Make, Quiet

(***************************************************************************)
(* Put, in a directory that was walked to.                                 *)
(***************************************************************************)
LEMMA WalkedTo ==
    ASSUME IInv, NEW c \in Client, pc[c] \in Working \ {"walk"}, ~sent[c]
    PROVE  /\ Found(c, Front(call[c].path), ParentOf(c))
           /\ call[c].op = "dirmove" => Found(c, Front(call[c].to), NewParent(c))
<1>1. Ready(c) /\ walked[c] = Len(Walks(c))
  BY DEF IInv, Position, Walking
<1>2. \A k \in 1..Len(Walks(c)) : Found(c, Walks(c)[k].path, Walks(c)[k].id)
  BY <1>1 DEF IInv, Walked
<1>3. /\ 1 \in 1..Len(Walks(c)) /\ Walks(c)[1].path = Front(call[c].path) /\ Walks(c)[1].id = ParentOf(c)
      /\ call[c].op = "dirmove" =>
            2 \in 1..Len(Walks(c)) /\ Walks(c)[2].path = Front(call[c].to) /\ Walks(c)[2].id = NewParent(c)
  BY <1>1, WalksAre DEF IInv
<1> QED
  BY <1>2, <1>3

\* The file goes into that directory, under a name that is free.
LEMMA UploadEffect ==
    ASSUME IInv, NEW c \in Client, Upload(c)
    PROVE  Quiet \/ Creation(c)
<1>1. pc[c] = "upload" /\ ~sent[c] /\ held[c] = Keys(c) /\ Ready(c) /\ resolver # c
  BY DEF Upload, IInv, Position, Working
<1>2. ObjectsAt(OldPlace(c)) = {}
  BY <1>1 DEF IInv, Current
<1>3. OldPlace(c) \in Place /\ OldPlace(c).dir = ParentOf(c) /\ ParentOf(c) \in Known
  BY <1>1, OwnIDs DEF IInv
<1>4. OldPlace(c) \in held[c] /\ Parent(OldPlace(c).dir) \in held[c]
  BY <1>1, <1>3 DEF Keys
<1>5. Refuses => Reachable(OldPlace(c).dir)
  BY <1>1, <1>3, WalkedTo DEF Working, Found
<1>6. ASSUME NEW i \in FreshObjects, Perform(Create(i, OldPlace(c))), folders' = folders
      PROVE  Creation(c)
  <2>1. i \in Object /\ place[i] = Nowhere
    BY <1>6 DEF FreshObjects, Unused
  <2>2. place' = [place EXCEPT ![i] = OldPlace(c)]
    <3>1. PlaceOf(OldPlace(c).dir, OldPlace(c).name) = OldPlace(c)
      BY DEF OldPlace, PlaceOf
    <3> QED
      BY <1>6, <2>1, <3>1, Effects, Performed
  <2>3. Creates(i, OldPlace(c))
    BY <1>6, <2>1, <2>2 DEF Creates
  <2> QED
    BY <1>2, <1>3, <1>4, <1>5, <2>1, <2>3 DEF Creation
<1> QED
  BY <1>6 DEF Upload, Quiet

(***************************************************************************)
(* Remove and Rmdir: a file, or a directory found empty under its own key. *)
(***************************************************************************)
LEMMA TrashEffect ==
    ASSUME IInv, NEW c \in Client, TrashTarget(c)
    PROVE  Quiet \/ Removal(c)
<1> DEFINE i == Target(c)
<1>1. /\ pc[c] = "trash" /\ ~sent[c] /\ held[c] = Keys(c) /\ Ready(c) /\ resolver # c
      /\ call[c].op \in {"remove", "rmdir"}
  BY DEF TrashTarget, IInv, Position, Working
<1>2. i \in Object /\ place[i] = OldPlace(c) /\ OldPlace(c) \in Place
  BY <1>1, OwnIDs DEF IInv, Current
<1>3. Children(i) = {} /\ (i \in folders => Parent(i) \in held[c])
  <2>1. CASE call[c].op = "rmdir"
    BY <1>1, <2>1 DEF IInv, Current, Keys
  <2>2. CASE call[c].op = "remove"
    <3>1. i \notin folders
      BY <1>1, <2>2, OwnIDs DEF IInv
    <3> QED
      BY <1>2, <3>1, ConstantsAre DEF IInv, Tree, Parented, Known, Children
  <2> QED
    BY <1>1, <2>1, <2>2
<1>4. place' = place \/ place' = [place EXCEPT ![i] = Trash]
  <2>1. Attempt(Discard(i, Last(call[c].path)))
    BY DEF TrashTarget
  <2> QED
    BY <2>1, Attempted, Effects
<1>5. folders' = folders
  BY DEF TrashTarget
<1>6. CASE place' = [place EXCEPT ![i] = Trash]
  <2>1. Removes(i)
    BY <1>2, <1>3, <1>5, <1>6 DEF Removes, Visible
  <2>2. place[i] \in held[c]
    BY <1>1, <1>2 DEF Keys
  <2> HIDE DEF i
  <2> QED
    BY <1>2, <1>3, <2>1, <2>2 DEF Removal
<1> QED
  BY <1>4, <1>5, <1>6 DEF Quiet

(***************************************************************************)
(* DirMove, to a free name in a directory that was walked to.              *)
(***************************************************************************)
LEMMA MoveEffect ==
    ASSUME IInv, NEW c \in Client, DirMoveSend(c)
    PROVE  Quiet \/ Movement(c)
<1> DEFINE i == Target(c)  q == NewPlace(c)
<1>1. /\ pc[c] = "move" /\ ~sent[c] /\ held[c] = Keys(c) /\ Ready(c) /\ resolver # c
      /\ call[c].op = "dirmove"
  BY DEF DirMoveSend, IInv, Position, Working
<1>2. i \in Object /\ place[i] = OldPlace(c) /\ OldPlace(c) \in Place /\ ObjectsAt(q) \subseteq {i}
  BY <1>1, OwnIDs DEF IInv, Current
<1>3. i \in folders /\ q \in Place /\ q.dir = NewParent(c) /\ NewParent(c) \in Known
  BY <1>1, <1>2, OwnIDs, ConstantsAre DEF IInv, Known
<1>4. place[i] \in held[c] /\ q \in held[c] /\ Parent(q.dir) \in held[c]
  BY <1>1, <1>2, <1>3 DEF Keys
<1>5. Refuses => Reachable(q.dir) /\ ~Within(q.dir, i)
  BY <1>1, <1>3, WalkedTo DEF Working, Found, DirMoveSend
<1>6. folders' = folders
  BY DEF DirMoveSend
<1>7. CASE place' # place
  <2>1. Moves(i, q)
    BY <1>6, <1>7 DEF DirMoveSend, Moves
  <2>2. \A d \in Client : held[d] # {} => disturbed'[d]
    BY <1>7 DEF DirMoveSend
  <2> HIDE DEF i, q
  <2> QED
    BY <1>2, <1>3, <1>4, <1>5, <2>1, <2>2 DEF Movement
<1> QED
  BY <1>6, <1>7 DEF Quiet

(***************************************************************************)
(* All other steps leave the tree alone.                                   *)
(***************************************************************************)
LEMMA StepEffect ==
    ASSUME IInv, NEW c \in Client, Begin(c) \/ Step(c)
    PROVE  Quiet \/ Creation(c) \/ Removal(c) \/ Movement(c)
<1> USE DEF tree, Quiet
<1>1. CASE Begin(c) \/ BeginLookup(c) \/ TakeLocks(c) \/ Walk(c) \/ EndWalks(c)
  BY <1>1 DEF Begin, BeginLookup, TakeLocks, Walk, EndWalks, Fail
<1>2. CASE Resolved(c) \/ FindLeaf(c) \/ LookForChild(c)
  BY <1>2 DEF Resolved, FindLeaf, LookForChild, EndLookup, Fail
<1>3. CASE PutMatch(c) \/ RemoveMatch(c) \/ RmdirEmpty(c) \/ RmdirMatch(c) \/ DirMoveMatch(c) \/ DirMoveConflict(c)
  BY <1>3 DEF PutMatch, RemoveMatch, RmdirEmpty, RmdirMatch, DirMoveMatch, DirMoveConflict, Read, Fail
<1>4. CASE FindObject(c) \/ RemoveGone(c) \/ RmdirGone(c) \/ DirMoveDone(c) \/ ListRead(c) \/ ListFill(c) \/ Refuse(c)
  BY <1>4 DEF FindObject, RemoveGone, RmdirGone, DirMoveDone, ListRead, ListFill, Refuse, Fail
<1> QED
  BY <1>1, <1>2, <1>3, <1>4, MakeEffect, UploadEffect, TrashEffect, MoveEffect DEF Step

-----------------------------------------------------------------------------
(***************************************************************************)
(* Each of the changes leaves a tree, and every object stays one.          *)
(***************************************************************************)
Change(c) == Quiet \/ Creation(c) \/ Removal(c) \/ Movement(c)

\* Names stay unique, and the parent of everything exists.
LEMMA TreeKept ==
    ASSUME IInv, NEW c \in Client, Change(c)
    PROVE  /\ place' \in Places /\ folders' \subseteq Object /\ Exist' /\ Parented' /\ PathsAreUnique'
           /\ folders \subseteq folders' /\ \A i \in Object \ folders : place[i] # Nowhere => i \notin folders'
           /\ \A i \in Object : place[i] # Nowhere => place'[i] # Nowhere
<1> USE DEF IInv, Tree
<1>0. place \in Places /\ folders \subseteq Object
  BY DEF TypeOK, Places
<1>1. CASE Quiet
  BY <1>0, <1>1 DEF Quiet, Exist, Parented, PathsAreUnique, Visible, Known
<1>2. CASE Creation(c)
  <2>1. PICK i \in Object, q \in Place : Creates(i, q) /\ ObjectsAt(q) = {} /\ q.dir \in Known
    BY <1>2 DEF Creation
  <2>2. place'[i] = q /\ (\A j \in Object \ {i} : place'[j] = place[j]) /\ place' \in Places
    BY <1>0, <2>1 DEF Creates, Places
  <2>3. i \in Object /\ ~Visible(i) /\ q # Nowhere /\ \A j \in Object : place[j] # q
    BY <2>1, ConstantsAre DEF Creates, Visible, ObjectsAt
  <2>4. PathsAreUnique'
    BY <2>2, <2>3 DEF PathsAreUnique, Visible
  <2>5. Exist' /\ Parented' /\ folders' \subseteq Object
    BY <1>0, <2>1, <2>2, <2>3 DEF Exist, Parented, Visible, Known, Creates
  <2> QED
    BY <2>1, <2>2, <2>3, <2>4, <2>5 DEF Creates
<1>3. CASE Removal(c)
  <2>1. PICK i \in Object : Removes(i)
    BY <1>3 DEF Removal
  <2>2. /\ place'[i] = Trash /\ (\A j \in Object \ {i} : place'[j] = place[j]) /\ place' \in Places
        /\ folders' = folders
    BY <1>0, <2>1 DEF Removes, Places
  <2>3. PathsAreUnique' /\ Exist' /\ Parented'
    BY <2>2, ConstantsAre DEF PathsAreUnique, Visible, Exist, Parented, Known
  <2> QED
    BY <1>0, <2>2, <2>3, ConstantsAre
<1>4. CASE Movement(c)
  <2>1. PICK i \in folders, q \in Place : Moves(i, q) /\ ObjectsAt(q) \subseteq {i} /\ q.dir \in Known
    BY <1>4 DEF Movement
  <2>2. /\ place'[i] = q /\ (\A j \in Object \ {i} : place'[j] = place[j]) /\ place' \in Places
        /\ folders' = folders /\ i \in Object
    BY <1>0, <2>1 DEF Moves, Places
  <2>3. q # Nowhere /\ \A j \in Object \ {i} : place[j] # q
    BY <2>1, ConstantsAre DEF ObjectsAt
  <2>4. PathsAreUnique'
    BY <2>2, <2>3 DEF PathsAreUnique, Visible
  <2>5. Exist' /\ Parented'
    BY <2>1, <2>2, <2>3 DEF Exist, Parented, Visible, Known
  <2> QED
    BY <1>0, <2>2, <2>3, <2>4, <2>5
<1> QED
  BY <1>1, <1>2, <1>3, <1>4 DEF Change

(***************************************************************************)
(* No change takes a file out of the tree.                                 *)
(***************************************************************************)
LEMMA FilesKept ==
    ASSUME IInv, NEW c \in Client, Change(c), Refuses
    PROVE  FilesStayReachable'
<1>0. place \in Places /\ folders \subseteq Object /\ Parented /\ Exist /\ FilesStayReachable
  BY DEF IInv, Tree, TypeOK, Places
<1>00. \A i \in Object : Visible(i)' => place'[i].dir \in Dir
  BY TreeKept, PlacesAre DEF Places, Visible
<1> SUFFICES ASSUME NEW f \in Object, f \notin folders', Visible(f)',
                    NEW e \in Dir, e = place'[f].dir
             PROVE  Reachable(e)'
  BY <1>00 DEF FilesStayReachable, Reachable
<1>1. CASE Quiet
  <2>1. Reachable(e) /\ place' = place
    BY <1>0, <1>1 DEF Quiet, FilesStayReachable, Visible
  <2> QED
    BY <2>1 DEF Reachable, Visible
<1>2. CASE Creation(c)
  <2>1. PICK i \in Object, q \in Place :
          Creates(i, q) /\ q.dir \in Known /\ (folders' = folders => Reachable(q.dir))
    BY <1>2 DEF Creation
  <2>2. \A d \in Dir : Reachable(d) => Reachable(d)'
    BY <1>0, <2>1, CreationKeeps
  <2>3. place'[i] = q /\ \A j \in Object \ {i} : place'[j] = place[j]
    BY <1>0, <2>1 DEF Creates, Places
  <2>4. CASE f = i
    <3>1. folders' = folders
      BY <2>1, <2>4 DEF Creates
    <3>2. q.dir \in Dir /\ Reachable(q.dir)
      BY <2>1, <3>1, PlacesAre
    <3> QED
      BY <2>2, <2>3, <2>4, <3>2
  <2>5. CASE f # i
    <3>1. Visible(f) /\ f \notin folders /\ place'[f] = place[f]
      BY <2>1, <2>3, <2>5 DEF Visible, Creates
    <3>2. Reachable(place[f].dir) /\ place[f].dir \in Dir
      BY <1>0, <3>1, PlacesAre DEF FilesStayReachable, Visible
    <3> QED
      BY <2>2, <3>1, <3>2
  <2> QED
    BY <2>4, <2>5
<1>3. CASE Removal(c)
  <2>1. PICK i \in Object : Removes(i)
    BY <1>3 DEF Removal
  <2>2. \A d \in Dir \ {i} : Reachable(d) => Reachable(d)'
    BY <1>0, <2>1, RemovalKeeps
  <2>3. place'[i] = Trash /\ folders' = folders /\ \A j \in Object \ {i} : place'[j] = place[j]
    BY <1>0, <2>1 DEF Removes, Places
  <2>4. f # i
    BY <2>3, ConstantsAre DEF Visible
  <2>5. Visible(f) /\ f \notin folders /\ place'[f] = place[f]
    BY <2>3, <2>4 DEF Visible
  <2>6. Reachable(place[f].dir) /\ place[f].dir \in Dir /\ place[f].dir # i
    BY <1>0, <2>1, <2>5, PlacesAre DEF FilesStayReachable, Visible, Removes, Children
  <2> QED
    BY <2>2, <2>5, <2>6
<1>4. CASE Movement(c)
  <2>1. PICK i \in folders, q \in Place :
          Moves(i, q) /\ Reachable(q.dir) /\ ~Within(q.dir, i)
    BY <1>4 DEF Movement
  <2>2. \A d \in Dir : Reachable(d) => Reachable(d)'
    BY <1>0, <2>1, MoveKeeps
  <2>3. folders' = folders /\ f # i /\ \A j \in Object \ {i} : place'[j] = place[j]
    BY <1>0, <2>1 DEF Moves, Places
  <2>4. Visible(f) /\ place'[f] = place[f]
    BY <2>3 DEF Visible
  <2>5. Reachable(place[f].dir) /\ place[f].dir \in Dir
    BY <1>0, <2>3, <2>4, PlacesAre DEF FilesStayReachable, Visible
  <2> QED
    BY <2>2, <2>4, <2>5
<1> QED
  BY <1>1, <1>2, <1>3, <1>4 DEF Change

(***************************************************************************)
(* A key protects its place from other calls, and the key of a directory   *)
(* keeps them from putting anything into it or removing it.                *)
(***************************************************************************)
LEMMA KeysProtect ==
    ASSUME IInv, NEW c \in Client, Change(c), NEW d \in Client \ {c}
    PROVE  /\ \A p \in Place : p \in held[d] => ObjectsAt(p)' = ObjectsAt(p)
           /\ \A e \in Dir : Parent(e) \in held[d] => Children(e)' \subseteq Children(e)
<1>0. place \in Places /\ folders \subseteq Object /\ \A k \in held[d] : k \notin held[c]
  BY DEF IInv, TypeOK, Places, Locks!Exclusive
<1>1. CASE Quiet
  BY <1>1 DEF Quiet, ObjectsAt, Children, Visible
<1>2. CASE Creation(c)
  <2>1. PICK i \in Object, q \in Place :
          Creates(i, q) /\ q \in held[c] /\ Parent(q.dir) \in held[c]
    BY <1>2 DEF Creation
  <2>2. place'[i] = q /\ place[i] = Nowhere /\ \A j \in Object \ {i} : place'[j] = place[j]
    BY <1>0, <2>1 DEF Creates, Places
  <2>3. \A p \in Place : p \in held[d] => p # q /\ p # Nowhere
    BY <1>0, <2>1, ConstantsAre
  <2>4. \A e \in Dir : Parent(e) \in held[d] => e # q.dir
    BY <1>0, <2>1
  <2> QED
    BY <2>2, <2>3, <2>4 DEF ObjectsAt, Children, Visible
<1>3. CASE Removal(c)
  <2>1. PICK i \in Object : Removes(i) /\ place[i] \in held[c]
    BY <1>3 DEF Removal
  <2>2. place'[i] = Trash /\ \A j \in Object \ {i} : place'[j] = place[j]
    BY <1>0, <2>1 DEF Removes, Places
  <2>3. \A p \in Place : p \in held[d] => p # place[i] /\ p # Trash
    BY <1>0, <2>1, ConstantsAre
  <2> QED
    BY <2>2, <2>3, ConstantsAre DEF ObjectsAt, Children, Visible
<1>4. CASE Movement(c)
  <2>1. PICK i \in folders, q \in Place :
          Moves(i, q) /\ place[i] \in held[c] /\ q \in held[c] /\ Parent(q.dir) \in held[c]
    BY <1>4 DEF Movement
  <2>2. i \in Object /\ place'[i] = q /\ \A j \in Object \ {i} : place'[j] = place[j]
    BY <1>0, <2>1 DEF Moves, Places
  <2>3. \A p \in Place : p \in held[d] => p # q /\ p # place[i]
    BY <1>0, <2>1
  <2>4. \A e \in Dir : Parent(e) \in held[d] => e # q.dir
    BY <1>0, <2>1
  <2> QED
    BY <2>2, <2>3, <2>4 DEF ObjectsAt, Children, Visible
<1> QED
  BY <1>1, <1>2, <1>3, <1>4 DEF Change

(***************************************************************************)
(* A directory that was found stays found for a call that holds locks,     *)
(* unless it is itself removed.                                            *)
(***************************************************************************)
Spared(c, d) == \A i \in Object : place[i] # place'[i] /\ place'[i] = Trash => i # d

\* A directory that was found stays found, if it is not trashed itself.
LEMMA FoundKept ==
    ASSUME IInv, NEW c \in Client, Change(c), NEW d \in Client,
           held[d] # {}, disturbed[d] => disturbed'[d],
           NEW p \in Paths, NEW w \in Dir, Spared(c, w), Found(d, p, w)
    PROVE  Found(d, p, w)'
<1>0. place \in Places /\ folders \subseteq Object /\ Parented /\ Exist
  BY DEF IInv, Tree, TypeOK, Places
<1>1. CASE Quiet
  BY <1>1 DEF Quiet, Found, Reachable, Leads, Visible
<1>2. CASE Creation(c)
  <2>1. PICK i \in Object, q \in Place : Creates(i, q)
    BY <1>2 DEF Creation
  <2>2. (Reachable(w) => Reachable(w)') /\ (Leads(p, w) => Leads(p, w)')
    BY <1>0, <2>1, CreationKeeps
  <2> QED
    BY <2>2 DEF Found
<1>3. CASE Removal(c)
  <2>1. PICK i \in Object : Removes(i)
    BY <1>3 DEF Removal
  <2>2. w # i
    BY <1>0, <2>1, ConstantsAre DEF Spared, Removes, Visible, Places
  <2>3. (Reachable(w) => Reachable(w)') /\ (Leads(p, w) => Leads(p, w)')
    BY <1>0, <2>1, <2>2, RemovalKeeps
  <2> QED
    BY <2>3 DEF Found
<1>4. CASE Movement(c)
  <2>1. PICK i \in folders, q \in Place :
          /\ Moves(i, q) /\ (Refuses => Reachable(q.dir) /\ ~Within(q.dir, i))
          /\ \A e \in Client : held[e] # {} => disturbed'[e]
    BY <1>4 DEF Movement
  <2>2. disturbed'[d]
    BY <2>1
  <2>3. Refuses /\ Reachable(w) => Reachable(w)'
    BY <1>0, <2>1, MoveKeeps
  <2> QED
    BY <2>2, <2>3 DEF Found
<1> QED
  BY <1>1, <1>2, <1>3, <1>4 DEF Change

(***************************************************************************)
(* A walk that has gone astray finds nothing, and stays astray.            *)
(***************************************************************************)
LEMMA AstrayStays ==
    ASSUME IInv, NEW c \in Client, Change(c), NEW d \in Client,
           held[d] # {}, disturbed[d] => disturbed'[d],
           NEW p \in Paths, NEW here \in Dir, NEW goal \in Known, Spared(c, goal),
           Found(d, p, here) \/ ~Within(goal, here)
    PROVE  (Found(d, p, here) \/ ~Within(goal, here))'
<1>0. place \in Places /\ folders \subseteq Object /\ Parented /\ Exist /\ goal \in Dir
  BY ConstantsAre DEF IInv, Tree, TypeOK, Places, Known
<1>1. CASE Found(d, p, here)
  <2>1. CASE Spared(c, here)
    BY <1>1, <2>1, FoundKept
  <2>2. CASE ~Spared(c, here)
    <3>1. here \in Object /\ place'[here] = Trash /\ place[here] # Trash
      BY <2>2 DEF Spared
    <3>2. PICK i \in Object : Removes(i)
      <4>1. place'[here] \notin Place
        BY <3>1, ConstantsAre
      <4> QED
        BY <1>0, <3>1, <4>1, ConstantsAre
        DEF Change, Quiet, Creation, Creates, Removal, Movement, Moves, Places
    <3>3. i = here
      BY <1>0, <3>1, <3>2 DEF Removes, Places
    <3>4. goal # here
      BY <3>1 DEF Spared
    <3> QED
      BY <1>0, <3>2, <3>3, <3>4, RemovalKeeps
  <2> QED
    BY <2>1, <2>2
<1>2. CASE ~Found(d, p, here) /\ ~Within(goal, here)
  <2>1. CASE Quiet
    BY <1>2, <2>1 DEF Quiet, Within, Visible
  <2>2. CASE Creation(c)
    <3>1. PICK i \in Object, q \in Place : Creates(i, q)
      BY <2>2 DEF Creation
    <3> QED
      BY <1>0, <1>2, <3>1, CreationKeeps
  <2>3. CASE Removal(c)
    <3>1. PICK i \in Object : Removes(i)
      BY <2>3 DEF Removal
    <3> QED
      BY <1>0, <1>2, <3>1, RemovalKeeps
  <2>4. CASE Movement(c)
    <3>1. PICK i \in folders, q \in Place :
            /\ Moves(i, q) /\ (Refuses => Reachable(q.dir) /\ ~Within(q.dir, i))
            /\ \A e \in Client : held[e] # {} => disturbed'[e]
      BY <2>4 DEF Movement
    <3>2. disturbed'[d]
      BY <3>1
    <3>3. CASE ~Refuses
      BY <3>2, <3>3 DEF Found
    <3>4. CASE Refuses /\ Reachable(here)
      <4>1. Reachable(here)'
        BY <1>0, <3>1, <3>4, MoveKeeps
      <4> QED
        BY <3>2, <4>1 DEF Found
    <3>5. CASE Refuses /\ ~Reachable(here)
      <4>1. ~Within(goal, here)'
        BY <1>0, <1>2, <3>1, <3>5, MoveKeeps
      <4> QED
        BY <4>1
    <3> QED
      BY <3>3, <3>4, <3>5
  <2> QED
    BY <2>1, <2>2, <2>3, <2>4 DEF Change
<1> QED
  BY <1>1, <1>2

(***************************************************************************)
(* A directory whose key another call holds is not removed.                *)
(***************************************************************************)
LEMMA KeySpares ==
    ASSUME IInv, NEW c \in Client, Change(c), NEW d \in Client \ {c},
           NEW w \in Known, Parent(w) \in held[d]
    PROVE  Spared(c, w)
<1>0. place \in Places /\ folders \subseteq Object /\ \A k \in held[d] : k \notin held[c]
  BY DEF IInv, TypeOK, Places, Locks!Exclusive
<1> SUFFICES ASSUME NEW i \in Object, place[i] # place'[i], place'[i] = Trash PROVE i # w
  BY DEF Spared
<1>1. PICK j \in Object : Removes(j) /\ (j \in folders => Parent(j) \in held[c])
  <2>1. place'[i] \notin Place
    BY ConstantsAre
  <2> QED
    BY <1>0, <2>1 DEF Change, Quiet, Creation, Creates, Removal, Movement, Moves, Places
<1>2. i = j
  BY <1>0, <1>1 DEF Removes, Places
<1> QED
  BY <1>0, <1>1, <1>2, ConstantsAre DEF Known

(***************************************************************************)
(* What holds of a call, holds after a step of another one.                *)
(***************************************************************************)
LEMMA OthersKeepTheirPlace ==
    ASSUME IInv, NEW c \in Client, Alone(c), Change(c), NEW d \in Client \ {c}
    PROVE  /\ Position(d)' /\ Sensible(d)'
           /\ Keys(d)' = Keys(d) /\ MakePlace(d)' = MakePlace(d)
<1>1. /\ call' = call /\ pc'[d] = pc[d] /\ found'[d] = found[d] /\ at'[d] = at[d]
      /\ seen'[d] = seen[d] /\ sent'[d] = sent[d] /\ held'[d] = held[d]
      /\ walked'[d] = walked[d] /\ (resolver' = d <=> resolver = d)
  BY DEF Alone
<1>2. /\ Lookups(d)' = Lookups(d) /\ Lookup(d)' = Lookup(d) /\ Ready(d)' = Ready(d)
  BY <1>1, SameIDs
<1>22. Keys(d)' = Keys(d) /\ MakePlace(d)' = MakePlace(d) /\ Making(d)' = Making(d)
  BY <1>1, SameKeys
<1>3. Position(d)'
  <2>1. Position(d)
    BY DEF IInv
  <2> QED
    BY <1>1, <1>2, <1>22, <2>1 DEF Position
<1>4. Sensible(d)'
  <2>1. /\ folders \subseteq folders' /\ \A i \in Object \ folders : place[i] # Nowhere => i \notin folders'
        /\ \A i \in Object : place[i] # Nowhere => place'[i] # Nowhere
    BY TreeKept
  <2> QED
    BY <1>1, <2>1 DEF IInv, Sensible, Known
<1> QED
  BY <1>22, <1>3, <1>4

\* What another call saw under its locks is still so: its keys protect those
\* places.
LEMMA OthersStayCurrent ==
    ASSUME IInv, NEW c \in Client, Alone(c), Change(c), NEW d \in Client \ {c}
    PROVE  Current(d)'
<1>1. /\ call' = call /\ pc'[d] = pc[d] /\ found'[d] = found[d] /\ sent'[d] = sent[d]
      /\ MakePlace(d)' = MakePlace(d)
      /\ Target(d)' = Target(d) /\ OldPlace(d)' = OldPlace(d) /\ NewPlace(d)' = NewPlace(d)
  BY OthersKeepTheirPlace, SameIDs DEF Alone
<1>2. Current(d) /\ Position(d) /\ Sensible(d) /\ TypeOK /\ call \in Plans
  BY DEF IInv
<1>3. /\ \A p \in Place : p \in held[d] => ObjectsAt(p)' = ObjectsAt(p)
      /\ \A e \in Dir : Parent(e) \in held[d] => Children(e)' \subseteq Children(e)
  BY KeysProtect
<1> SUFFICES ASSUME ~sent[d]
             PROVE  /\ pc[d] = "make" => ObjectsAt(MakePlace(d))' = {}
                    /\ pc[d] = "upload" => ObjectsAt(OldPlace(d))' = {}
                    /\ pc[d] \in {"trash", "conflict", "move"} =>
                          Target(d) \in Object /\ place'[Target(d)] = OldPlace(d)
                    /\ pc[d] = "move" => ObjectsAt(NewPlace(d))' \subseteq {Target(d)}
                    /\ call[d].op = "rmdir" /\ pc[d] \in {"emptyAgain", "match", "trash"}
                          => Children(Target(d))' = {}
  BY <1>1 DEF Current, ObjectsAt, Children, Visible
<1>4. CASE pc[d] = "make"
  <2>1. MakePlace(d) \in Place /\ MakePlace(d) \in held[d]
    BY <1>2, <1>4, KeysAreKeys DEF Position, Keys
  <2>2. ObjectsAt(MakePlace(d)) = {}
    BY <1>2, <1>4 DEF Current
  <2>3. \A p : p = MakePlace(d) => ObjectsAt(p)' = {}
    BY <1>3, <2>1, <2>2
  <2>4. ObjectsAt(MakePlace(d))' = {}
    BY <1>1, <2>3 DEF ObjectsAt
  <2> QED
    BY <1>4, <2>4
<1>5. CASE pc[d] \in Working
  <2>1. Ready(d) /\ held[d] = Keys(d) /\ resolver # d
    BY <1>2, <1>5 DEF Position
  <2>2. /\ OldPlace(d) \in Place /\ OldPlace(d) \in held[d]
        /\ call[d].op = "dirmove" => NewPlace(d) \in Place /\ NewPlace(d) \in held[d]
        /\ call[d].op = "rmdir" => Target(d) \in Dir /\ Parent(Target(d)) \in held[d]
    BY <1>2, <2>1, OwnIDs, ConstantsAre DEF Keys, Known, TypeOK
  <2>3. \A p : p = OldPlace(d) => ObjectsAt(p)' = ObjectsAt(p)
    BY <1>3, <2>2
  <2>4. \A p : call[d].op = "dirmove" /\ p = NewPlace(d) => ObjectsAt(p)' = ObjectsAt(p)
    BY <1>3, <2>2
  <2>5. \A e : call[d].op = "rmdir" /\ e = Target(d) => Children(e)' \subseteq Children(e)
    BY <1>3, <2>2
  <2>6. pc[d] = "upload" => ObjectsAt(OldPlace(d))' = {}
    BY <1>1, <1>2, <2>3 DEF Current, ObjectsAt
  <2>7. pc[d] \in {"trash", "conflict", "move"} => Target(d) \in Object /\ place'[Target(d)] = OldPlace(d)
    BY <1>1, <1>2, <2>3 DEF Current, ObjectsAt
  <2>8. pc[d] = "move" => ObjectsAt(NewPlace(d))' \subseteq {Target(d)}
    BY <1>1, <1>2, <2>4 DEF Current, ObjectsAt, Position
  <2>9. call[d].op = "rmdir" /\ pc[d] \in {"emptyAgain", "match", "trash"} => Children(Target(d))' = {}
    BY <1>1, <1>2, <2>5 DEF Current, Children, Visible
  <2> QED
    BY <1>5, <2>6, <2>7, <2>8, <2>9 DEF Working
<1> QED
  BY <1>4, <1>5 DEF Working

(***************************************************************************)
(* What holds of the values of p and w holds of p and w.                   *)
(***************************************************************************)
LEMMA FoundAfter ==
    ASSUME STATE p, STATE w, CONSTANT d, CONSTANT P, CONSTANT W,
           \A x \in P, y \in W : x = p' /\ y = w' => Found(d, x, y)',
           p' \in P, w' \in W
    PROVE  Found(d, p, w)'
<1>1. Refuses => \A S \in SUBSET Dir :
        Root \in S /\ (\A i \in Object : Visible(i)' /\ place'[i].dir \in S => i \in S) => w' \in S
  BY DEF Found, Reachable
<1>2. disturbed'[d] \/ \E trail \in [0..Len(p') -> Dir] :
        /\ trail[0] = Root /\ trail[Len(p')] = w'
        /\ \A n \in 1..Len(p') : trail[n] \in folders' /\ place'[trail[n]] = PlaceOf(trail[n - 1], p'[n])
  BY DEF Found, Leads
<1> QED
  BY <1>1, <1>2 DEF Found, Reachable, Leads

\* The same for a walk that is on its way or astray.
LEMMA AstrayAfter ==
    ASSUME STATE p, STATE w, STATE goal, CONSTANT d, CONSTANT P, CONSTANT W, CONSTANT G,
           \A x \in P, y \in W, g \in G :
              x = p' /\ y = w' /\ g = goal' => (Found(d, x, y) \/ ~Within(g, y))',
           p' \in P, w' \in W, goal' \in G
    PROVE  (Found(d, p, w) \/ ~Within(goal, w))'
<1>1. CASE \A g \in G, y \in W : g = goal' /\ y = w' => ~Within(g, y)'
  <2>1. \A g \in G, y \in W : g = goal' /\ y = w' =>
           ~\A S \in SUBSET Dir :
              g \in S /\ (\A j \in Object \cap S : Visible(j)' => place'[j].dir \in S) => y \in S
    BY <1>1 DEF Within
  <2>2. ~\A S \in SUBSET Dir :
            goal' \in S /\ (\A j \in Object \cap S : Visible(j)' => place'[j].dir \in S) => w' \in S
    BY <2>1
  <2>3. ~Within(goal, w)'
    BY <2>2 DEF Within
  <2> QED
    BY <2>3
<1>2. CASE \A x \in P, y \in W : x = p' /\ y = w' => Found(d, x, y)'
  <2>1. Found(d, p, w)'
    BY <1>2, FoundAfter
  <2> QED
    BY <2>1
<1> QED
  BY <1>1, <1>2

\* The same where the expressions do not change.
LEMMA FoundThere ==
    ASSUME STATE p, STATE w, CONSTANT d, p' = p, w' = w,
           CONSTANT P, CONSTANT W, \A x \in P, y \in W : x = p /\ y = w => Found(d, x, y)',
           p \in P, w \in W
    PROVE  Found(d, p, w)'
<1>1. \A x \in P, y \in W : x = p' /\ y = w' => Found(d, x, y)'
  OBVIOUS
<1>2. p' \in P /\ w' \in W
  OBVIOUS
<1> QED
  BY <1>1, <1>2, FoundAfter

\* The same for walks, where the expressions do not change.
LEMMA AstrayThere ==
    ASSUME STATE p, STATE w, STATE goal, CONSTANT d, p' = p, w' = w, goal' = goal,
           CONSTANT P, CONSTANT W, CONSTANT G,
           \A x \in P, y \in W, g \in G :
              x = p /\ y = w /\ g = goal => (Found(d, x, y) \/ ~Within(g, y))',
           p \in P, w \in W, goal \in G
    PROVE  (Found(d, p, w) \/ ~Within(goal, w))'
<1>1. \A x \in P, y \in W, g \in G :
         x = p' /\ y = w' /\ g = goal' => (Found(d, x, y) \/ ~Within(g, y))'
  OBVIOUS
<1>2. p' \in P /\ w' \in W /\ goal' \in G
  OBVIOUS
<1> QED
  BY <1>1, <1>2, AstrayAfter

\* What another call walked to stays found, and a walk astray stays astray.
LEMMA OthersStayWalked ==
    ASSUME IInv, NEW c \in Client, Alone(c), Change(c), NEW d \in Client \ {c}
    PROVE  Walked(d)' /\ Walking(d)'
<1>1. /\ call' = call /\ pc'[d] = pc[d] /\ found'[d] = found[d] /\ sent'[d] = sent[d]
      /\ at'[d] = at[d] /\ walked'[d] = walked[d] /\ Walks(d)' = Walks(d)
      /\ disturbed[d] => disturbed'[d]
  BY SameIDs DEF Alone
<1>2. /\ Walked(d) /\ Walking(d) /\ Position(d) /\ Sensible(d) /\ TypeOK /\ call \in Plans
      /\ Known \subseteq Dir
  BY ConstantsAre DEF IInv, TypeOK, Known
<1> SUFFICES ASSUME pc[d] \in Working
             PROVE  Walked(d)' /\ Walking(d)'
  BY <1>1 DEF Walked, Walking
<1>3. Ready(d) /\ held[d] = Keys(d) /\ held[d] # {} /\ resolver # d
  BY <1>2, KeysAreKeys DEF Position
<1>4. ASSUME NEW k \in 1..Len(Walks(d))
      PROVE  /\ Walks(d)[k].path \in Paths /\ Walks(d)[k].id \in Known /\ Walks(d)[k].id \in Dir
             /\ Spared(c, Walks(d)[k].id)
  <2>1. Walks(d)[k].path \in Paths /\ Walks(d)[k].id \in Known /\ Parent(Walks(d)[k].id) \in held[d]
    BY <1>2, <1>3, WalksAre
  <2> QED
    BY <1>2, <2>1, KeySpares
<1>5. walked[d] \in 0..2 /\ Len(Walks(d)) \in 1..2
  BY <1>2, <1>3, WalksAre DEF TypeOK
<1>6. Walked(d)'
  <2> SUFFICES ASSUME ~sent[d], NEW k \in 1..walked[d]
               PROVE  Found(d, Walks(d)[k].path, Walks(d)[k].id)'
    BY <1>1 DEF Walked
  <2>1. Found(d, Walks(d)[k].path, Walks(d)[k].id)
    BY <1>2 DEF Walked
  <2>2. k \in 1..Len(Walks(d))
    BY <1>2, <1>5 DEF Walking
  <2>3. \A p \in Paths, w \in Dir : p = Walks(d)[k].path /\ w = Walks(d)[k].id => Found(d, p, w)'
    BY <1>1, <1>3, <1>4, <2>1, <2>2, FoundKept
  <2> QED
    BY <1>1, <1>4, <2>2, <2>3, FoundThere
<1>7. Walking(d)'
  <2>1. CASE ~(pc[d] = "walk" /\ walked[d] < Len(Walks(d)))
    BY <1>1, <1>2, <2>1 DEF Walking
  <2>2. CASE pc[d] = "walk" /\ walked[d] < Len(Walks(d))
    <3> DEFINE w == Walks(d)[walked[d] + 1]
    <3>1. walked[d] + 1 \in 1..Len(Walks(d))
      BY <1>5, <2>2
    <3>2. w.path \in Paths /\ w.id \in Known /\ Spared(c, w.id)
      BY <1>4, <3>1
    <3>3. /\ at[d].depth <= Len(w.path)
          /\ Found(d, SubSeq(w.path, 1, at[d].depth), at[d].id) \/ ~Within(w.id, at[d].id)
      BY <1>2, <2>2 DEF Walking
    <3>4. at[d].depth \in 0..Len(w.path) /\ at[d].id \in Dir
      BY <1>2, <3>2, <3>3, PathsAre, DepthIs DEF TypeOK
    <3>5. SubSeq(w.path, 1, at[d].depth) \in Paths
      BY <3>2, <3>4, PrefixesAre
    <3>6. \A p \in Paths, here \in Dir, goal \in Known :
             /\ p = SubSeq(w.path, 1, at[d].depth) /\ here = at[d].id /\ goal = w.id
             => (Found(d, p, here) \/ ~Within(goal, here))'
      BY <1>1, <1>3, <3>2, <3>3, AstrayStays
    <3>7. w' = w
      BY <1>1
    <3>8. (Found(d, SubSeq(w.path, 1, at[d].depth), at[d].id) \/ ~Within(w.id, at[d].id))'
      BY <1>1, <3>2, <3>4, <3>5, <3>6, <3>7, AstrayThere
    <3> QED
      BY <1>1, <1>5, <2>2, <3>3, <3>7, <3>8 DEF Walking
  <2> QED
    BY <2>1, <2>2
<1> QED
  BY <1>6, <1>7

-----------------------------------------------------------------------------
(***************************************************************************)
(* What a call's own steps leave true of it.                               *)
(***************************************************************************)
Fine(c) == Position(c) /\ Sensible(c) /\ Current(c) /\ Walked(c) /\ Walking(c)

\* A call that ends has nothing left to be wrong about.
LEMMA Ended ==
    ASSUME IInv, NEW c \in Client, NEW r, End(c, r)
    PROVE  Fine(c)'
<1>1. /\ pc'[c] = "done" /\ held'[c] = {} /\ found'[c] = <<>> /\ sent'[c] = FALSE
      /\ at'[c] = AtRoot /\ seen'[c] = {} /\ walked'[c] = 0 /\ resolver' # c
  BY ConstantsAre DEF IInv, TypeOK, ControlTypeOK, End, Forget
<1>2. Position(c)'
  BY <1>1 DEF Position, Working
<1>3. Sensible(c)'
  BY <1>1 DEF Sensible, AtRoot, Known
<1>4. Current(c)' /\ Walked(c)' /\ Walking(c)'
  BY <1>1 DEF Current, Walked, Walking, Working
<1> QED
  BY <1>2, <1>3, <1>4 DEF Fine

\* Failing is ending.
LEMMA Failed ==
    ASSUME IInv, NEW c \in Client, Fail(c)
    PROVE  Fine(c)'
BY Ended DEF Fail

\* A step that moves on, with all variables but pc as they were.
Onward(c, next) ==
    /\ Goto(c, next)
    /\ UNCHANGED <<tree, sent, call, search, walked, seen, disturbed>>

\* Such a step leaves what a call has and where it works.
LEMMA OnwardKeeps ==
    ASSUME IInv, NEW c \in Client, NEW next, Onward(c, next)
    PROVE  /\ pc'[c] = next /\ held'[c] = held[c] /\ sent'[c] = sent[c] /\ found'[c] = found[c]
           /\ at'[c] = at[c] /\ walked'[c] = walked[c] /\ seen' = seen /\ resolver' = resolver
           /\ call' = call /\ place' = place /\ folders' = folders /\ disturbed' = disturbed
           /\ Keys(c)' = Keys(c) /\ MakePlace(c)' = MakePlace(c) /\ Making(c)' = Making(c)
           /\ Ready(c)' = Ready(c) /\ Lookups(c)' = Lookups(c) /\ Lookup(c)' = Lookup(c)
           /\ Target(c)' = Target(c) /\ OldPlace(c)' = OldPlace(c) /\ NewPlace(c)' = NewPlace(c)
           /\ Walks(c)' = Walks(c)
           /\ Sensible(c)'
<1>1. /\ pc'[c] = next /\ held'[c] = held[c] /\ sent'[c] = sent[c] /\ found'[c] = found[c]
      /\ at'[c] = at[c] /\ walked'[c] = walked[c] /\ seen' = seen /\ resolver' = resolver
      /\ call' = call /\ place' = place /\ folders' = folders /\ disturbed' = disturbed
  BY DEF IInv, TypeOK, ControlTypeOK, Onward, Goto, tree, search
<1>2. Sensible(c)'
  BY <1>1 DEF IInv, Sensible, Known
<1> QED
  BY <1>1, <1>2, SameIDs, SameKeys

\* Such a step between two listings keeps all but what was seen last.
LEMMA WorkGoesOn ==
    ASSUME IInv, NEW c \in Client, NEW next \in Working \ {"walk"}, Onward(c, next),
           pc[c] \in Working, walked[c] = Len(Walks(c)), ~sent[c],
           next = "upload" => call[c].op = "put",
           next = "trash" => call[c].op \in {"remove", "rmdir"},
           next \in {"empty", "emptyAgain"} => call[c].op = "rmdir",
           next \in {"conflict", "move"} => call[c].op = "dirmove"
    PROVE  Position(c)' /\ Sensible(c)' /\ Walked(c)' /\ Walking(c)'
<1>1. Position(c) /\ Walked(c)
  BY DEF IInv
<1>2. Position(c)'
  BY <1>1, OnwardKeeps DEF Position, Working
<1>3. Walked(c)'
  <2> SUFFICES ASSUME NEW k \in 1..walked[c]
               PROVE  Found(c, Walks(c)[k].path, Walks(c)[k].id)'
    BY OnwardKeeps DEF Walked
  <2>1. Found(c, Walks(c)[k].path, Walks(c)[k].id)
    BY <1>1 DEF Walked
  <2>2. \A p \in Paths, w \in Known : Found(c, p, w) => Found(c, p, w)'
    BY OnwardKeeps DEF Found, Leads, Reachable, Visible
  <2>3. Walks(c)[k].path \in Paths /\ Walks(c)[k].id \in Known
    BY <1>1, WalksAre DEF IInv, Position
  <2>4. \A p \in Paths, w \in Known : p = Walks(c)[k].path /\ w = Walks(c)[k].id => Found(c, p, w)'
    BY <2>1, <2>2
  <2> QED
    BY <2>3, <2>4, OnwardKeeps, FoundThere
<1>4. Walking(c)'
  <2>1. Len(Walks(c)) <= Len(Walks(c))
    BY <1>1, WalksAre DEF Position, IInv
  <2> QED
    BY <2>1, OnwardKeeps DEF Walking
<1> QED
  BY <1>2, <1>3, <1>4, OnwardKeeps

(***************************************************************************)
(* The listings between the walks and the request.                         *)
(***************************************************************************)
LEMMA ReadsAreFine ==
    ASSUME IInv, NEW c \in Client,
           \/ PutMatch(c) \/ RemoveMatch(c) \/ RmdirEmpty(c) \/ RmdirMatch(c)
           \/ DirMoveMatch(c) \/ DirMoveConflict(c)
    PROVE  Fine(c)'
<1>0. /\ Position(c) /\ Sensible(c) /\ Current(c) /\ Walking(c)
      /\ \A step, next : Read(c, step, next) => pc[c] = step /\ (Fail(c) \/ Onward(c, next))
  BY DEF IInv, Read, Onward
<1>1. pc[c] \in {"match", "empty", "emptyAgain", "conflict"} /\ Ready(c)
  BY <1>0 DEF PutMatch, RemoveMatch, RmdirEmpty, RmdirMatch, DirMoveMatch, DirMoveConflict,
     Position, Working
<1>2. walked[c] = Len(Walks(c)) /\ ~sent[c] /\ pc[c] \in Working
  BY <1>0, <1>1 DEF Position, Walking, Working
<1>3. CASE PutMatch(c)
  <2>1. Fail(c) \/ Onward(c, "upload")
    BY <1>0, <1>3 DEF PutMatch
  <2>2. ASSUME Onward(c, "upload") PROVE Fine(c)'
    <3>1. Current(c)'
      BY <1>3, <2>2, OnwardKeeps DEF PutMatch, Current, ObjectsAt
    <3>2. Position(c)' /\ Sensible(c)' /\ Walked(c)' /\ Walking(c)'
      BY <1>2, <1>3, <2>2, WorkGoesOn DEF PutMatch, Working
    <3> QED
      BY <3>1, <3>2 DEF Fine
  <2> QED
    BY <2>1, <2>2, Failed
<1>4. CASE RemoveMatch(c)
  <2>1. Fail(c) \/ Onward(c, "trash")
    BY <1>0, <1>4 DEF RemoveMatch
  <2>2. ASSUME Onward(c, "trash") PROVE Fine(c)'
    <3>0. Target(c) \in Object
      BY <1>0, <1>1, <1>4, OwnIDs DEF RemoveMatch, IInv
    <3>1. Current(c)'
      BY <1>4, <2>2, <3>0, OnwardKeeps DEF RemoveMatch, Current
    <3>2. Position(c)' /\ Sensible(c)' /\ Walked(c)' /\ Walking(c)'
      BY <1>2, <1>4, <2>2, WorkGoesOn DEF RemoveMatch, Working
    <3> QED
      BY <3>1, <3>2 DEF Fine
  <2> QED
    BY <2>1, <2>2, Failed
<1>5. CASE RmdirEmpty(c)
  <2>0. call[c].op = "rmdir" /\ Children(Target(c)) = {}
    BY <1>0, <1>5 DEF RmdirEmpty, Position
  <2>1. Fail(c) \/ Onward(c, "emptyAgain") \/ Onward(c, "match")
    BY <1>0, <1>5 DEF RmdirEmpty
  <2>2. ASSUME NEW next \in {"emptyAgain", "match"}, Onward(c, next) PROVE Fine(c)'
    <3>1. Current(c)'
      BY <2>0, <2>2, OnwardKeeps DEF Current, Children, Visible
    <3>2. Position(c)' /\ Sensible(c)' /\ Walked(c)' /\ Walking(c)'
      BY <1>2, <2>0, <2>2, WorkGoesOn DEF Working
    <3> QED
      BY <3>1, <3>2 DEF Fine
  <2> QED
    BY <2>1, <2>2, Failed
<1>6. CASE RmdirMatch(c)
  <2>1. Fail(c) \/ Onward(c, "trash")
    BY <1>0, <1>6 DEF RmdirMatch
  <2>2. ASSUME Onward(c, "trash") PROVE Fine(c)'
    <3>0. Target(c) \in Object /\ place[Target(c)] = OldPlace(c)
      BY <1>6 DEF RmdirMatch, ObjectsAt
    <3>1. Current(c)'
      BY <1>0, <1>2, <1>6, <2>2, <3>0, OnwardKeeps DEF RmdirMatch, Current, Children, Visible
    <3>2. Position(c)' /\ Sensible(c)' /\ Walked(c)' /\ Walking(c)'
      BY <1>2, <1>6, <2>2, WorkGoesOn DEF RmdirMatch, Working
    <3> QED
      BY <3>1, <3>2 DEF Fine
  <2> QED
    BY <2>1, <2>2, Failed
<1>7. CASE DirMoveMatch(c)
  <2>1. Fail(c) \/ Onward(c, "conflict")
    BY <1>0, <1>7 DEF DirMoveMatch
  <2>2. ASSUME Onward(c, "conflict") PROVE Fine(c)'
    <3>0. Target(c) \in Object /\ place[Target(c)] = OldPlace(c)
      BY <1>7 DEF DirMoveMatch, ObjectsAt
    <3>1. Current(c)'
      BY <1>7, <2>2, <3>0, OnwardKeeps DEF DirMoveMatch, Current
    <3>2. Position(c)' /\ Sensible(c)' /\ Walked(c)' /\ Walking(c)'
      BY <1>2, <1>7, <2>2, WorkGoesOn DEF DirMoveMatch, Working
    <3> QED
      BY <3>1, <3>2 DEF Fine
  <2> QED
    BY <2>1, <2>2, Failed
<1>8. CASE DirMoveConflict(c)
  <2>0. call[c].op = "dirmove"
    BY <1>0, <1>8 DEF DirMoveConflict, Position
  <2>1. Fail(c) \/ Onward(c, "move")
    BY <1>0, <1>8 DEF DirMoveConflict
  <2>2. ASSUME Onward(c, "move") PROVE Fine(c)'
    <3>0. /\ Target(c) \in Object /\ place[Target(c)] = OldPlace(c)
          /\ ObjectsAt(NewPlace(c)) \subseteq {Target(c)}
      BY <1>0, <1>2, <1>8 DEF DirMoveConflict, Current
    <3>1. Current(c)'
      BY <2>0, <2>2, <3>0, OnwardKeeps DEF Current, ObjectsAt
    <3>2. Position(c)' /\ Sensible(c)' /\ Walked(c)' /\ Walking(c)'
      BY <1>2, <2>0, <2>2, WorkGoesOn DEF Working
    <3> QED
      BY <3>1, <3>2 DEF Fine
  <2> QED
    BY <2>1, <2>2, Failed
<1> QED
  BY <1>3, <1>4, <1>5, <1>6, <1>7, <1>8

(***************************************************************************)
(* Lookups.                                                                *)
(***************************************************************************)
LEMMA IdleSteps ==
    ASSUME IInv, NEW c \in Client, pc'[c] \notin Working, Position(c)', Sensible(c)', pc'[c] # "make" \/ sent'[c]
    PROVE  Fine(c)'
BY DEF Fine, Current, Walked, Walking, Working

\* A call begins with its first lookup.
LEMMA BeginIsFine ==
    ASSUME IInv, NEW c \in Client, Begin(c)
    PROVE  Fine(c)'
<1>1. pc[c] = "idle" /\ Onward(c, "find")
  BY DEF Begin, Onward
<1>2. Position(c) /\ Len(Lookups(c)) \in 1..4
  BY LookupsAre, CallsAre DEF IInv
<1>3. found[c] = <<>> /\ Len(found[c]) < Len(Lookups(c))
  <2>1. found[c] = <<>>
    BY <1>1, <1>2 DEF Position
  <2>2. Len(found[c]) = 0
    BY ONLY <2>1
  <2>3. \A n \in 1..4 : 0 < n
    OBVIOUS
  <2> QED
    BY ONLY <1>2, <2>1, <2>2, <2>3
<1>4. Position(c)'
  BY <1>1, <1>2, <1>3, OnwardKeeps DEF Position, Working
<1> QED
  BY <1>1, <1>4, OnwardKeeps, IdleSteps DEF Working

\* A lookup starts at the deepest directory of the path that is in the cache.
LEMMA BeginLookupIsFine ==
    ASSUME IInv, NEW c \in Client, BeginLookup(c)
    PROVE  Fine(c)'
<1>1. pc[c] = "find" /\ Position(c) /\ Sensible(c)
  BY DEF IInv, BeginLookup
<1>2. Lookup(c).path \in Paths
  BY <1>1, LookupIs DEF Position, IInv
<1>3. PICK n \in 0..Len(Lookup(c).path) :
        /\ cache[SubSeq(Lookup(c).path, 1, n)] # Nil
        /\ at' = [at EXCEPT ![c] = [id |-> cache[SubSeq(Lookup(c).path, 1, n)], depth |-> n]]
  BY DEF BeginLookup
<1>4. cache[SubSeq(Lookup(c).path, 1, n)] \in Known
  BY <1>2, <1>3, PrefixesAre DEF IInv, Tree
<1>5. /\ pc'[c] = "resolve" /\ resolver' = c /\ held' = held /\ found' = found /\ call' = call
      /\ sent' = sent /\ walked' = walked /\ seen' = seen /\ place' = place /\ folders' = folders
      /\ at'[c] = [id |-> cache[SubSeq(Lookup(c).path, 1, n)], depth |-> n]
  BY <1>3 DEF BeginLookup, Goto, IInv, TypeOK, ControlTypeOK, tree
<1>6. Lookups(c)' = Lookups(c) /\ Lookup(c)' = Lookup(c)
  BY <1>5, SameIDs
<1>7. n <= Len(Lookup(c).path)
  BY <1>2, PathsAre, DepthIs
<1>8. Position(c)'
  BY <1>1, <1>5, <1>6, <1>7 DEF Position, Working
<1>9. Sensible(c)'
  BY <1>1, <1>4, <1>5 DEF Sensible, Known
<1> QED
  BY <1>5, <1>8, <1>9, IdleSteps DEF Working

\* What a lookup gives.
LEMMA EndLookupIsFine ==
    ASSUME IInv, NEW c \in Client, pc[c] = "resolve",
           NEW id \in Dir \cup {Nil}, id \in Known \/ MustBeAbsent(c), EndLookup(c, id)
    PROVE  Fine(c)'
<1>1. CASE call[c].op = "mkdir"
  BY <1>1, Ended DEF EndLookup
<1>2. CASE call[c].op # "mkdir"
  <2>1. Position(c) /\ Sensible(c) /\ TypeOK /\ call \in Plans
    BY DEF IInv
  <2>2. /\ found' = [found EXCEPT ![c] = Append(@, id)] /\ resolver' = Nil
        /\ pc' = [pc EXCEPT ![c] = AfterLookup(c)] /\ held' = held
        /\ UNCHANGED <<tree, sent, call, cache, at, walked, seen, disturbed>>
    BY <1>2 DEF EndLookup, Goto
  <2>3. /\ found'[c] = Append(found[c], id) /\ resolver' # c /\ pc'[c] = AfterLookup(c)
        /\ held'[c] = {} /\ sent'[c] = FALSE /\ walked'[c] = 0
        /\ at' = at /\ call' = call /\ seen' = seen /\ folders' = folders /\ place' = place
    BY <2>1, <2>2, ConstantsAre DEF TypeOK, ControlTypeOK, Position, tree, Working
  <2>4. /\ found[c] \in Seq(Dir \cup {Nil}) /\ Len(found[c]) \in 0..3
        /\ Len(Lookups(c)) \in 1..4 /\ Len(found[c]) < Len(Lookups(c))
    BY <2>1, LookupIs DEF Position, TypeOK
  <2>5. /\ Len(found'[c]) = Len(found[c]) + 1
        /\ \A k \in 1..Len(found[c]) : found'[c][k] = found[c][k]
        /\ found'[c][Len(found[c]) + 1] = id
    BY <2>3, <2>4
  <2>6. Lookups(c)' = Lookups(c)
    BY <2>3 DEF Lookups
  <2>7. Sensible(c)'
    <3> SUFFICES ASSUME NEW k \in 1..Len(found'[c])
                 PROVE  IF call[c].op = "remove" /\ k = 2
                        THEN found'[c][k] \in Object \ folders /\ place[found'[c][k]] # Nowhere
                        ELSE found'[c][k] \in Known \/ (call[c].op = "dirmove" /\ k = 3)
      BY <2>1, <2>3 DEF Sensible, Known
    <3>1. CASE k \in 1..Len(found[c])
      BY <2>1, <2>5, <3>1 DEF Sensible
    <3>2. CASE k = Len(found[c]) + 1
      <4>1. found'[c][k] = id /\ (call[c].op = "remove" => k # 2)
        BY <2>1, <2>4, <2>5, <3>2, LookupsAre
      <4>2. MustBeAbsent(c) => call[c].op = "dirmove" /\ k = 3
        BY <3>2 DEF MustBeAbsent
      <4> QED
        BY <4>1, <4>2
    <3> QED
      BY <2>4, <2>5, <3>1, <3>2
  <2>8. CASE Len(found[c]) + 1 < Len(Lookups(c))
    <3>1. pc'[c] = "find"
      BY <2>3, <2>8 DEF AfterLookup
    <3>2. Position(c)'
      BY <2>3, <2>5, <2>6, <2>8, <3>1 DEF Position, Working
    <3> QED
      BY <2>7, <3>1, <3>2, IdleSteps DEF Working
  <2>9. CASE ~(Len(found[c]) + 1 < Len(Lookups(c)))
    <3>1. Len(found'[c]) = Len(Lookups(c))
      BY <2>4, <2>5, <2>9
    <3>2. CASE call[c].op \in {"list", "remove"}
      <4>1. pc'[c] = "list" /\ Len(found'[c]) = 1
        BY <2>1, <2>3, <2>9, <3>1, <3>2, LookupsAre DEF AfterLookup
      <4>2. Position(c)'
        BY <2>3, <3>2, <4>1 DEF Position, Working
      <4> QED
        BY <2>7, <4>1, <4>2, IdleSteps DEF Working
    <3>3. CASE call[c].op \notin {"list", "remove"}
      <4>1. pc'[c] = "lock" /\ call[c].op \in {"put", "rmdir", "dirmove"}
        BY <1>2, <2>1, <2>3, <2>9, <3>3, CallsAre DEF AfterLookup
      <4>2. Ready(c)'
        BY <2>3, <2>6, <3>1, <4>1 DEF Ready
      <4>3. Position(c)'
        BY <2>3, <4>1, <4>2 DEF Position, Working
      <4> QED
        BY <2>7, <4>1, <4>3, IdleSteps DEF Working
    <3> QED
      BY <3>2, <3>3
  <2> QED
    BY <2>8, <2>9
<1> QED
  BY <1>1, <1>2

\* FindPath is done: the lookup gives the directory it reached.
LEMMA ResolvedIsFine ==
    ASSUME IInv, NEW c \in Client, Resolved(c)
    PROVE  Fine(c)'
<1>1. at[c].id \in Known /\ Known \subseteq Dir
  BY ConstantsAre DEF IInv, Sensible, TypeOK, Known
<1> QED
  BY <1>1, EndLookupIsFine, Failed DEF Resolved

(***************************************************************************)
(* The lookup goes a directory further.                                    *)
(***************************************************************************)
LEMMA AdvanceIsFine ==
    ASSUME IInv, NEW c \in Client, NEW i \in folders, Advance(c, i),
           pc'[c] = "resolve", resolver = c, resolver' = c, held'[c] = {}, sent'[c] = FALSE,
           at[c].depth < Len(Lookup(c).path), Len(found[c]) < Len(Lookups(c)), walked[c] = 0,
           UNCHANGED <<tree, call, found, walked, seen>>
    PROVE  Fine(c)'
<1>1. at'[c] = [id |-> i, depth |-> at[c].depth + 1] /\ at[c].depth \in 0..Depth
  BY DEF Advance, IInv, TypeOK
<1>2. Lookups(c)' = Lookups(c) /\ Lookup(c)' = Lookup(c)
  BY SameIDs
<1>3. Lookup(c).path \in Paths /\ Len(Lookup(c).path) \in Nat
  BY LookupIs, PathsAre, DepthIs DEF IInv
<1>4. at'[c].depth <= Len(Lookup(c).path)
  BY <1>1, <1>3, DepthIs
<1>5. Position(c)'
  BY <1>2, <1>4 DEF Position, Working
<1>6. Sensible(c)'
  BY <1>1 DEF IInv, Sensible, Known, tree
<1> QED
  BY <1>5, <1>6, IdleSteps DEF Working

\* FindLeaf: the next name is there, or is created, or the lookup fails.
LEMMA FindLeafIsFine ==
    ASSUME IInv, NEW c \in Client, FindLeaf(c)
    PROVE  Fine(c)'
<1>1. pc[c] = "resolve" /\ Position(c) /\ at[c].depth < Len(Lookup(c).path)
  BY DEF IInv, FindLeaf
<1>2. /\ resolver = c /\ held[c] = {} /\ Len(found[c]) < Len(Lookups(c))
      /\ sent[c] = FALSE /\ walked[c] = 0
  BY <1>1 DEF Position, Working, IInv, TypeOK, ControlTypeOK
<1>3. CASE /\ \E i \in folders : Advance(c, i)
           /\ UNCHANGED <<tree, control, call, resolver, found, walked, seen, disturbed>>
  BY <1>1, <1>2, <1>3, AdvanceIsFine DEF control
<1>4. CASE Lookup(c).create /\ Onward(c, "lock")
  <2>1. Making(c)
    BY <1>1, <1>2, <1>4 DEF Making
  <2>2. Position(c)'
    BY <1>2, <1>4, <2>1, OnwardKeeps DEF Position, Working
  <2> QED
    BY <1>4, <2>2, OnwardKeeps, IdleSteps DEF Working
<1>5. CASE MustBeAbsent(c) /\ EndLookup(c, Nil)
  BY <1>1, <1>5, EndLookupIsFine
<1> QED
  BY <1>3, <1>4, <1>5, Failed DEF FindLeaf, Onward

-----------------------------------------------------------------------------
(***************************************************************************)
(* CreateDir.                                                              *)
(***************************************************************************)
LEMMA LookForChildIsFine ==
    ASSUME IInv, NEW c \in Client, LookForChild(c)
    PROVE  Fine(c)'
<1>1. pc[c] \in {"look", "make"} /\ Position(c)
  BY DEF IInv, LookForChild
<1>2. /\ resolver = c /\ held[c] = Keys(c) /\ Making(c) /\ walked[c] = 0
      /\ pc[c] = "look" => sent[c] = FALSE
  BY <1>1 DEF Position, Working, IInv, TypeOK, ControlTypeOK
<1>3. CASE /\ \E i \in folders : Adopt(c, i)
           /\ sent' = [sent EXCEPT ![c] = FALSE] /\ UNCHANGED <<tree, call, walked, seen, disturbed>>
  <2>1. PICK i \in folders : Adopt(c, i)
    BY <1>3
  <2>2. pc'[c] = "resolve" /\ held'[c] = {} /\ sent'[c] = FALSE /\ UNCHANGED <<resolver, found>>
    BY <1>3, <2>1 DEF Adopt, Locks!Leave, IInv, TypeOK, ControlTypeOK
  <2> QED
    BY <1>2, <1>3, <2>1, <2>2, AdvanceIsFine DEF Adopt, Making
<1>4. CASE pc[c] = "look" /\ ObjectsAt(MakePlace(c)) = {} /\ Onward(c, "make")
  <2>1. Position(c)'
    BY <1>2, <1>4, OnwardKeeps DEF Position, Working
  <2>2. Current(c)'
    BY <1>4, OnwardKeeps DEF Current, ObjectsAt
  <2> QED
    BY <1>4, <2>1, <2>2, OnwardKeeps DEF Fine, Walked, Walking, Working
<1> QED
  BY <1>3, <1>4, Failed DEF LookForChild, Onward

\* A request leaves its sender's variables alone.
LEMMA RequestIsFine ==
    ASSUME IInv, NEW c \in Client, Change(c), pc[c] \in {"make", "trash", "move"}, sent'[c],
           UNCHANGED <<held, pc, result, call, search, walked, seen>>
    PROVE  Fine(c)'
<1>1. /\ held' = held /\ pc' = pc /\ call' = call /\ resolver' = resolver /\ found' = found
      /\ at' = at /\ walked' = walked /\ seen' = seen
  BY DEF search
<1>2. Position(c) /\ Sensible(c) /\ Walking(c)
  BY DEF IInv
<1>3. Keys(c)' = Keys(c) /\ Making(c)' = Making(c) /\ Lookups(c)' = Lookups(c) /\ Lookup(c)' = Lookup(c)
      /\ Ready(c)' = Ready(c) /\ Walks(c)' = Walks(c)
  BY <1>1, SameIDs, SameKeys
<1>4. Position(c)'
  BY <1>1, <1>2, <1>3 DEF Position
<1>5. Sensible(c)'
  <2>1. /\ folders \subseteq folders' /\ \A i \in Object \ folders : place[i] # Nowhere => i \notin folders'
        /\ \A i \in Object : place[i] # Nowhere => place'[i] # Nowhere
    BY TreeKept
  <2> QED
    BY <1>1, <1>2, <2>1 DEF Sensible, Known
<1>6. Current(c)' /\ Walked(c)'
  BY DEF Current, Walked
<1>7. Walking(c)'
  BY <1>1, <1>2, <1>3 DEF Walking
<1> QED
  BY <1>4, <1>5, <1>6, <1>7 DEF Fine

\* The requests of mkdir, remove, rmdir and dirmove leave their senders in
\* order.
LEMMA RequestsAreFine ==
    ASSUME IInv, NEW c \in Client, Make(c) \/ TrashTarget(c) \/ DirMoveSend(c)
    PROVE  Fine(c)'
<1>1. Change(c)
  BY StepEffect DEF Change, Step
<1>2. /\ pc[c] \in {"make", "trash", "move"} /\ sent'[c]
      /\ UNCHANGED <<held, pc, result, call, search, walked, seen>>
  BY DEF Make, TrashTarget, DirMoveSend, IInv, TypeOK, ControlTypeOK
<1> QED
  BY <1>1, <1>2, RequestIsFine

-----------------------------------------------------------------------------
(***************************************************************************)
(* The locks, and the walks that follow.                                   *)
(***************************************************************************)
LEMMA TakeLocksIsFine ==
    ASSUME IInv, NEW c \in Client, TakeLocks(c)
    PROVE  Fine(c)'
<1>1. /\ pc[c] = "lock" /\ Position(c) /\ Sensible(c) /\ TypeOK /\ call \in Plans
      /\ walked[c] = 0
  BY DEF IInv, TakeLocks, Lock, Position, Working
<1>2. /\ held'[c] = Keys(c) /\ sent' = sent /\ call' = call /\ resolver' = resolver /\ found' = found
      /\ walked' = walked /\ seen' = seen /\ place' = place /\ folders' = folders
      /\ pc'[c] = IF resolver = c THEN "look" ELSE "walk"
      /\ at'[c] = IF resolver = c THEN at[c] ELSE AtRoot
  BY <1>1 DEF TakeLocks, Lock, Locks!Enter, TypeOK, ControlTypeOK, tree
<1>3. Lookups(c)' = Lookups(c) /\ Lookup(c)' = Lookup(c) /\ Ready(c)' = Ready(c) /\ Walks(c)' = Walks(c)
  BY <1>2, SameIDs
<1>4. Sensible(c)'
  BY <1>1, <1>2 DEF Sensible, Known, AtRoot
<1>5. CASE resolver = c
  <2>1. Keys(c)' = Keys(c) /\ Making(c)' = Making(c)
    BY <1>2, <1>5, SameKeys
  <2>2. Position(c)'
    BY <1>1, <1>2, <1>3, <1>5, <2>1 DEF Position, Working
  <2> QED
    BY <1>2, <1>4, <1>5, <2>2, IdleSteps DEF Working
<1>6. CASE resolver # c
  <2>1. Keys(c)' = Keys(c) /\ Ready(c)
    BY <1>1, <1>2, <1>6, SameWorkKeys DEF Position
  <2>2. Position(c)'
    BY <1>1, <1>2, <1>3, <1>6, <2>1 DEF Position, Working
  <2>3. Current(c)'
    BY <1>2, <1>6 DEF Current
  <2>4. Walked(c)'
    BY <1>1, <1>2 DEF Walked
  <2>5. Walking(c)'
    <3>0. 1 \in 1..Len(Walks(c)) /\ Len(Walks(c)) \in 1..2
      BY <1>1, <2>1, WalksAre
    <3>1. Walks(c)[1].path \in Paths /\ Walks(c)[1].id \in Known
      BY <1>1, <2>1, <3>0, WalksAre
    <3>2. \A x \in {<<>>}, y \in {Root} : Found(c, x, y)'
      BY <1>2, RootIsReachable, LeadsToRoot, ConstantsAre DEF Found, Reachable, Leads, Visible
    <3>3. SubSeq(Walks(c)[1].path, 1, 0) = <<>>
      BY <3>1, SubSeqEmpty
    <3>4. Found(c, SubSeq(Walks(c)[1].path, 1, at[c].depth), at[c].id)'
      <4> SUFFICES Found(c, <<>>, Root)'
        BY <1>2, <1>3, <1>6, <3>3 DEF AtRoot, Found, Reachable, Leads
      <4> QED
        BY <3>2
    <3>5. Len(Walks(c)[1].path) \in Nat
      BY <3>1, PathsAre, DepthIs
    <3> QED
      BY <1>1, <1>2, <1>3, <1>6, <3>0, <3>4, <3>5 DEF Walking, AtRoot
  <2> QED
    BY <1>4, <2>2, <2>3, <2>4, <2>5 DEF Fine
<1> QED
  BY <1>5, <1>6

\* While it walks, a call has seen nothing yet.
LEMMA WalkingSteps ==
    ASSUME IInv, NEW c \in Client, pc[c] = "walk",
           UNCHANGED <<tree, control, call, cache, resolver, found, seen, disturbed>>,
           at'[c].id \in Known
    PROVE  /\ Position(c)' /\ Sensible(c)' /\ Current(c)'
           /\ Walks(c)' = Walks(c) /\ Ready(c)
           /\ pc' = pc /\ place' = place /\ folders' = folders /\ disturbed' = disturbed /\ ~sent[c]
<1>1. Position(c) /\ Sensible(c)
  BY DEF IInv
<1>2. /\ pc' = pc /\ held' = held /\ sent' = sent /\ place' = place /\ folders' = folders
      /\ resolver' = resolver /\ found' = found /\ call' = call /\ seen' = seen /\ disturbed' = disturbed
      /\ resolver # c /\ ~sent[c] /\ Ready(c)
  BY <1>1 DEF control, tree, Position, Working
<1>3. /\ Lookups(c)' = Lookups(c) /\ Lookup(c)' = Lookup(c) /\ Ready(c)' = Ready(c)
      /\ Walks(c)' = Walks(c) /\ Keys(c)' = Keys(c)
  BY <1>2, SameIDs, SameWorkKeys
<1>4. Position(c)'
  BY <1>1, <1>2, <1>3 DEF Position, Working
<1>5. Sensible(c)'
  BY <1>1, <1>2 DEF Sensible, Known
<1>6. Current(c)'
  BY <1>2 DEF Current
<1> QED
  BY <1>2, <1>3, <1>4, <1>5, <1>6

\* pathIsDirectory: one more name of a path is followed, or the walk ends where
\* it should.
LEMMA WalkIsFine ==
    ASSUME IInv, NEW c \in Client, Walk(c)
    PROVE  Fine(c)'
<1> DEFINE w == Walks(c)[walked[c] + 1]
<1>1. /\ pc[c] = "walk" /\ Position(c) /\ Sensible(c) /\ TypeOK /\ call \in Plans
      /\ Walked(c) /\ Walking(c) /\ walked[c] < Len(Walks(c))
  BY DEF IInv, Walk
<1>2. Ready(c) /\ ~sent[c] /\ pc[c] \in Working
  BY <1>1 DEF Position, Working
<1>3. walked[c] \in 0..2 /\ Len(Walks(c)) \in 1..2
  BY <1>1, <1>2, WalksAre DEF TypeOK
<1>4. walked[c] + 1 \in 1..Len(Walks(c)) /\ walked[c] + 1 <= Len(Walks(c))
  BY <1>1, <1>3
<1>5. w.path \in Paths /\ w.id \in Known /\ Known \subseteq Dir
  BY <1>1, <1>2, <1>4, WalksAre, ConstantsAre DEF Known, TypeOK
<1>6. /\ at[c].depth <= Len(w.path)
      /\ Found(c, SubSeq(w.path, 1, at[c].depth), at[c].id) \/ ~Within(w.id, at[c].id)
  BY <1>1, <1>2 DEF Walking
<1>7. Len(w.path) \in Nat /\ at[c].depth \in 0..Len(w.path) /\ at[c].id \in Dir
  BY <1>1, <1>5, <1>6, PathsAre, DepthIs DEF TypeOK
<1>8. CASE /\ at[c].depth < Len(w.path)
           /\ \E i \in folders :
                 /\ ObjectsAt(PlaceOf(at[c].id, w.path[at[c].depth + 1])) = {i}
                 /\ at' = [at EXCEPT ![c] = [id |-> i, depth |-> @.depth + 1]]
           /\ UNCHANGED <<tree, control, call, cache, resolver, found, walked, seen, disturbed>>
  <2>1. PICK i \in folders :
          /\ ObjectsAt(PlaceOf(at[c].id, w.path[at[c].depth + 1])) = {i}
          /\ at' = [at EXCEPT ![c] = [id |-> i, depth |-> @.depth + 1]]
    BY <1>8
  <2>2. at'[c].id = i /\ at'[c].depth = at[c].depth + 1 /\ walked' = walked
    BY <1>1, <1>8, <2>1 DEF TypeOK
  <2>3. /\ Position(c)' /\ Sensible(c)' /\ Current(c)' /\ Walks(c)' = Walks(c)
        /\ pc' = pc /\ place' = place /\ folders' = folders /\ disturbed' = disturbed
    <3>1. i \in Known
      BY DEF Known
    <3> QED
      BY <1>1, <1>8, <2>2, <3>1, WalkingSteps
  <2>4. \A p \in Paths, d \in Dir : Found(c, p, d) => Found(c, p, d)'
    BY <2>3 DEF Found, Reachable, Leads, Visible
  <2>5. Walked(c)'
    <3> SUFFICES ASSUME NEW k \in 1..walked[c]
                 PROVE  Found(c, Walks(c)[k].path, Walks(c)[k].id)'
      BY <2>2, <2>3 DEF Walked
    <3>1. k \in 1..Len(Walks(c)) /\ Found(c, Walks(c)[k].path, Walks(c)[k].id)
      BY <1>1, <1>2, <1>3 DEF Walked
    <3>2. Walks(c)[k].path \in Paths /\ Walks(c)[k].id \in Dir
      BY <1>1, <1>2, <1>5, <3>1, WalksAre
    <3>3. \A p \in Paths, d \in Dir : p = Walks(c)[k].path /\ d = Walks(c)[k].id => Found(c, p, d)'
      BY <2>4, <3>1
    <3> QED
      BY <2>3, <3>2, <3>3, FoundThere
  <2>6. i \in Object /\ place[i] = PlaceOf(at[c].id, w.path[at[c].depth + 1])
    BY <2>1 DEF ObjectsAt
  <2>7. w.path[at[c].depth + 1] \in Name /\ at[c].depth \in 0..Len(w.path) - 1
    <3>1. w.path \in Seq(Name)
      BY <1>5, PathsAre
    <3>2. at[c].depth + 1 \in 1..Len(w.path) /\ at[c].depth \in 0..Len(w.path) - 1
      BY <1>7, <1>8
    <3> QED
      BY <3>1, <3>2
  <2>8. Visible(i) /\ place[i].dir = at[c].id
    BY <1>7, <2>6, <2>7, PlacesAre DEF Visible, AnyName
  <2>9. Found(c, SubSeq(w.path, 1, at[c].depth + 1), i) \/ ~Within(w.id, i)
    <3>1. CASE Found(c, SubSeq(w.path, 1, at[c].depth), at[c].id)
      <4>1. Refuses => Reachable(i)
        BY <2>6, <2>8, <3>1, ChildIsReachable DEF Found
      <4>2. disturbed[c] \/ Leads(SubSeq(w.path, 1, at[c].depth + 1), i)
        BY <1>1, <1>5, <1>7, <2>6, <2>7, <3>1, LeadsFurther DEF Found, TypeOK
      <4> QED
        BY <4>1, <4>2 DEF Found
    <3>2. CASE ~Within(w.id, at[c].id)
      BY <1>5, <2>6, <2>8, <3>2, WithinTheParent
    <3> QED
      BY <1>6, <3>1, <3>2
  <2>10. (Found(c, SubSeq(w.path, 1, at[c].depth), at[c].id) \/ ~Within(w.id, at[c].id))'
    <3> DEFINE path == SubSeq(w.path, 1, at[c].depth + 1)
    <3>1. at[c].depth + 1 \in 0..Len(w.path)
      BY <1>7, <1>8
    <3>2. path \in Paths /\ i \in Dir
      BY <1>5, <2>6, <3>1, PrefixesAre, ConstantsAre
    <3>3. \A p \in Paths, d \in Dir, g \in Known :
             p = path /\ d = i /\ g = w.id => (Found(c, p, d) \/ ~Within(g, d))'
      BY <2>3, <2>4, <2>9 DEF Within, Visible
    <3>4. SubSeq(w.path, 1, at[c].depth)' = path /\ at'[c].id = i /\ (w.id)' = w.id
      BY <2>2, <2>3
    <3>5. \A p \in Paths, d \in Dir, g \in Known :
             p = SubSeq(w.path, 1, at[c].depth)' /\ d = at'[c].id /\ g = (w.id)'
               => (Found(c, p, d) \/ ~Within(g, d))'
      BY <3>3, <3>4
    <3> QED
      BY <1>5, <3>2, <3>4, <3>5, AstrayAfter
  <2>11. Walking(c)'
    BY <1>1, <1>4, <1>7, <1>8, <2>2, <2>3, <2>10 DEF Walking
  <2> QED
    BY <2>3, <2>5, <2>11 DEF Fine
<1>9. CASE /\ at[c].depth = Len(w.path) /\ at[c].id = w.id
           /\ walked' = [walked EXCEPT ![c] = @ + 1]
           /\ at' = [at EXCEPT ![c] = AtRoot]
           /\ UNCHANGED <<tree, control, call, cache, resolver, found, seen, disturbed>>
  <2>1. walked'[c] = walked[c] + 1 /\ at'[c] = AtRoot
    BY <1>1, <1>9 DEF TypeOK
  <2>2. /\ Position(c)' /\ Sensible(c)' /\ Current(c)' /\ Walks(c)' = Walks(c)
        /\ pc' = pc /\ place' = place /\ folders' = folders /\ disturbed' = disturbed
    BY <1>1, <1>9, <2>1, WalkingSteps DEF AtRoot, Known
  <2>3. \A p \in Paths, d \in Dir : Found(c, p, d) => Found(c, p, d)'
    BY <2>2 DEF Found, Reachable, Leads, Visible
  <2>4. Found(c, w.path, w.id)
    <3>1. SubSeq(w.path, 1, Len(w.path)) = w.path
      <4>1. w.path \in Seq(Name)
        BY <1>5, PathsAre
      <4> QED
        BY <4>1, SubSeqFull
    <3> QED
      BY <1>5, <1>6, <1>9, <3>1, WithinItself
  <2>5. Walked(c)'
    <3> SUFFICES ASSUME NEW k \in 1..walked[c] + 1
                 PROVE  Found(c, Walks(c)[k].path, Walks(c)[k].id)'
      BY <2>1, <2>2 DEF Walked
    <3>1. k \in 1..Len(Walks(c)) /\ (k \in 1..walked[c] \/ k = walked[c] + 1)
      BY <1>3, <1>4
    <3>2. Found(c, Walks(c)[k].path, Walks(c)[k].id)
      BY <1>1, <1>2, <2>4, <3>1 DEF Walked
    <3>3. Walks(c)[k].path \in Paths /\ Walks(c)[k].id \in Dir
      BY <1>1, <1>2, <1>5, <3>1, WalksAre
    <3>4. \A p \in Paths, d \in Dir : p = Walks(c)[k].path /\ d = Walks(c)[k].id => Found(c, p, d)'
      BY <2>3, <3>2
    <3> QED
      BY <2>2, <3>3, <3>4, FoundThere
  <2>6. Walking(c)'
    <3> DEFINE v == Walks(c)[walked[c] + 1 + 1]
    <3>1. walked[c] + 1 < Len(Walks(c)) => walked[c] + 1 + 1 \in 1..Len(Walks(c))
      BY <1>3
    <3>2. walked[c] + 1 < Len(Walks(c)) => v.path \in Paths
      BY <1>1, <1>2, <3>1, WalksAre
    <3>3. walked[c] + 1 < Len(Walks(c)) => SubSeq(v.path, 1, 0) = <<>> /\ 0 <= Len(v.path)
      BY <3>2, SubSeqEmpty, PathsAre, DepthIs
    <3>4. Found(c, <<>>, Root)'
      BY <2>2, RootIsReachable, LeadsToRoot, ConstantsAre DEF Found, Reachable, Leads, Visible
    <3>5. (Walks(c)[walked[c] + 1])' = v
      BY <2>1, <2>2
    <3>6. walked[c] + 1 < Len(Walks(c)) =>
            Found(c, SubSeq(Walks(c)[walked[c] + 1].path, 1, at[c].depth), at[c].id)'
      <4> SUFFICES ASSUME walked[c] + 1 < Len(Walks(c))
                   PROVE  Found(c, SubSeq(Walks(c)[walked[c] + 1].path, 1, at[c].depth), at[c].id)'
        OBVIOUS
      <4>1. SubSeq(Walks(c)[walked[c] + 1].path, 1, at[c].depth)' = <<>> /\ at'[c].id = Root
        BY <2>1, <3>3, <3>5 DEF AtRoot
      <4>2. \A x \in {<<>>}, y \in {Root} : Found(c, x, y)'
        BY <3>4
      <4> QED
        BY <4>1, <4>2, FoundAfter
    <3>7. walked'[c] <= Len(Walks(c)') /\ pc'[c] = "walk"
      BY <1>1, <1>4, <2>1, <2>2
    <3>8. walked'[c] < Len(Walks(c)') => at'[c].depth <= Len((Walks(c)[walked[c] + 1])'.path)
      BY <2>1, <2>2, <3>3, <3>5 DEF AtRoot
    <3>9. walked'[c] < Len(Walks(c)') =>
            Found(c, SubSeq(Walks(c)[walked[c] + 1].path, 1, at[c].depth), at[c].id)'
      BY <2>1, <2>2, <3>6
    <3> HIDE DEF v
    <3> QED
      BY <3>7, <3>8, <3>9 DEF Walking
  <2> QED
    BY <2>2, <2>5, <2>6 DEF Fine
<1> QED
  BY <1>8, <1>9, Failed DEF Walk

\* All walks have been made: the call goes on to its listings.
LEMMA EndWalksIsFine ==
    ASSUME IInv, NEW c \in Client, EndWalks(c)
    PROVE  Fine(c)'
<1>1. /\ pc[c] = "walk" /\ walked[c] = Len(Walks(c)) /\ Onward(c, AfterWalks(c))
      /\ Position(c) /\ ~sent[c]
  BY DEF EndWalks, Onward, IInv, Position
<1>2. AfterWalks(c) \in {"match", "empty"} /\ (AfterWalks(c) = "empty" <=> call[c].op = "rmdir")
  BY DEF AfterWalks
<1>3. Position(c)' /\ Sensible(c)' /\ Walked(c)' /\ Walking(c)'
  BY <1>1, <1>2, WorkGoesOn DEF Working
<1>4. Current(c)'
  BY <1>1, <1>2, OnwardKeeps DEF Current
<1> QED
  BY <1>3, <1>4 DEF Fine

-----------------------------------------------------------------------------
(***************************************************************************)
(* NewObject and List.                                                     *)
(***************************************************************************)
LEMMA FindObjectIsFine ==
    ASSUME IInv, NEW c \in Client, FindObject(c)
    PROVE  Fine(c)'
<1>1. /\ pc[c] = "list" /\ call[c].op = "remove" /\ Position(c) /\ Sensible(c) /\ TypeOK
      /\ Len(found[c]) = 1 /\ call \in Plans
  BY DEF IInv, FindObject, Position
<1>2. PICK i \in Object \ folders :
        /\ ObjectsAt(PlaceOf(found[c][1], Last(call[c].path))) = {i}
        /\ found' = [found EXCEPT ![c] = Append(@, i)]
  BY DEF FindObject
<1>3. /\ pc'[c] = "lock" /\ held' = held /\ sent' = sent /\ call' = call /\ resolver' = resolver
      /\ at' = at /\ walked' = walked /\ seen' = seen /\ place' = place /\ folders' = folders
      /\ found'[c] = Append(found[c], i)
  BY <1>1, <1>2 DEF FindObject, Goto, TypeOK, ControlTypeOK, tree
<1>4. found[c] \in Seq(Dir \cup {Nil}) /\ i \in Dir \cup {Nil}
  BY <1>1, ConstantsAre DEF TypeOK
<1>5. Len(found'[c]) = 2 /\ found'[c][1] = found[c][1] /\ found'[c][2] = i
  BY <1>1, <1>3, <1>4
<1>6. found[c][1] \in Known /\ Known \subseteq Dir /\ Last(call[c].path) \in Name
  BY <1>1, NamesAre, ConstantsAre DEF Sensible, Known, TypeOK
<1>7. place[i] # Nowhere
  BY <1>2, <1>6, PlacesAre DEF ObjectsAt, AnyName
<1>8. Ready(c)'
  BY <1>1, <1>3, <1>5 DEF Ready
<1>9. Position(c)'
  BY <1>1, <1>3, <1>8 DEF Position, Working
<1>10. Sensible(c)'
  BY <1>1, <1>3, <1>5, <1>6, <1>7 DEF Sensible, Known
<1> QED
  BY <1>3, <1>9, <1>10, IdleSteps DEF Working

\* List has read the directory and goes on to fill the cache.
LEMMA ListReadIsFine ==
    ASSUME IInv, NEW c \in Client, ListRead(c)
    PROVE  Fine(c)'
<1>1. /\ pc[c] = "list" /\ call[c].op = "list" /\ Position(c) /\ Sensible(c) /\ TypeOK
  BY DEF IInv, ListRead
<1>2. /\ pc'[c] = "fill" /\ held' = held /\ sent' = sent /\ call' = call /\ resolver' = resolver
      /\ at' = at /\ walked' = walked /\ found' = found /\ place' = place /\ folders' = folders
      /\ seen'[c] = {<<place[i].name, i>> : i \in Children(Target(c)) \cap folders}
  BY <1>1 DEF ListRead, Goto, TypeOK, ControlTypeOK, tree, search
<1>3. Position(c)'
  BY <1>1, <1>2 DEF Position, Working
<1>4. Sensible(c)'
  BY <1>1, <1>2 DEF Sensible, Known
<1> QED
  BY <1>2, <1>3, <1>4, IdleSteps DEF Working

(***************************************************************************)
(* Every step leaves the call that makes it in order, and all others.      *)
(***************************************************************************)
LEMMA StepIsFine ==
    ASSUME IInv, NEW c \in Client, Begin(c) \/ Step(c)
    PROVE  \A d \in Client : Fine(d)'
<1>1. Fine(c)'
  <2>1. CASE Begin(c) \/ BeginLookup(c) \/ Resolved(c) \/ FindLeaf(c)
    BY <2>1, BeginIsFine, BeginLookupIsFine, ResolvedIsFine, FindLeafIsFine
  <2>2. CASE TakeLocks(c) \/ LookForChild(c) \/ Make(c) \/ Walk(c) \/ EndWalks(c)
    BY <2>2, TakeLocksIsFine, LookForChildIsFine, RequestsAreFine, WalkIsFine, EndWalksIsFine
  <2>3. CASE \/ PutMatch(c) \/ RemoveMatch(c) \/ RmdirEmpty(c) \/ RmdirMatch(c)
             \/ DirMoveMatch(c) \/ DirMoveConflict(c)
    BY <2>3, ReadsAreFine
  <2>4. CASE TrashTarget(c) \/ DirMoveSend(c) \/ FindObject(c) \/ ListRead(c)
    BY <2>4, RequestsAreFine, FindObjectIsFine, ListReadIsFine
  <2>5. CASE Upload(c) \/ RemoveGone(c) \/ RmdirGone(c) \/ DirMoveDone(c) \/ ListFill(c) \/ Refuse(c)
    BY <2>5, Ended, Failed DEF Upload, RemoveGone, RmdirGone, DirMoveDone, ListFill, Refuse
  <2> QED
    BY <2>1, <2>2, <2>3, <2>4, <2>5 DEF Step
<1>2. Alone(c) /\ Change(c)
  BY StepAlone, StepEffect DEF IInv, Change
<1>3. ASSUME NEW d \in Client \ {c} PROVE Fine(d)'
  BY <1>2, OthersKeepTheirPlace, OthersStayCurrent, OthersStayWalked DEF Fine
<1> QED
  BY <1>1, <1>3

-----------------------------------------------------------------------------
(***************************************************************************)
(* Types, and the exclusion of the locks.                                  *)
(***************************************************************************)
Typed ==
    /\ late = {} /\ ControlTypeOK(Phase) /\ Locks!Exclusive
    /\ call \in Plans
    /\ resolver \in Client \cup {Nil}
    /\ found \in [Client -> Seq(Dir \cup {Nil})] /\ \A c \in Client : Len(found[c]) <= 4
    /\ at \in [Client -> [id : Dir, depth : 0..Depth]]
    /\ walked \in [Client -> 0..2]
    /\ seen \in [Client -> SUBSET (AnyName \X Object)]
    /\ disturbed \in [Client -> BOOLEAN]

\* The inductive invariant has the types.
LEMMA IsTyped == IInv => Typed
BY DEF IInv, TypeOK, Typed

\* Ending a call keeps the types.
LEMMA EndTyped ==
    ASSUME Typed, NEW c \in Client, NEW r \in Result, End(c, r), late' = late, call' = call
    PROVE  Typed'
<1>1. Len(<<>>) = 0 /\ <<>> \in Seq(Dir \cup {Nil}) /\ AtRoot \in [id : Dir, depth : 0..Depth]
  BY DepthIs, ConstantsAre DEF AtRoot
<1>2. held' = [held EXCEPT ![c] = {}] /\ held \in [Client -> SUBSET LockKey]
  BY DEF End, Typed, ControlTypeOK
<1>3. Locks!Exclusive'
  BY <1>2 DEF Typed, Locks!Exclusive
<1>4. ControlTypeOK(Phase)'
  BY <1>2 DEF End, Forget, Typed, ControlTypeOK, Phase
<1>5. found' \in [Client -> Seq(Dir \cup {Nil})] /\ \A d \in Client : Len(found'[d]) <= 4
  BY <1>1 DEF End, Forget, Typed
<1>6. /\ at' \in [Client -> [id : Dir, depth : 0..Depth]] /\ walked' \in [Client -> 0..2]
      /\ seen' \in [Client -> SUBSET (AnyName \X Object)] /\ disturbed' \in [Client -> BOOLEAN]
      /\ resolver' \in Client \cup {Nil}
  BY <1>1 DEF End, Forget, Typed
<1> QED
  BY <1>3, <1>4, <1>5, <1>6 DEF Typed

\* So does failing.
LEMMA FailTyped ==
    ASSUME Typed, NEW c \in Client, Fail(c)
    PROVE  Typed'
BY EndTyped DEF Fail, tree, Result

\* So does going on.
LEMMA OnwardTyped ==
    ASSUME Typed, NEW c \in Client, NEW next \in Phase, Onward(c, next)
    PROVE  Typed'
BY KeysKept DEF Onward, Goto, tree, search, Typed, ControlTypeOK

\* So does ending a lookup.
LEMMA EndLookupTyped ==
    ASSUME Typed, NEW c \in Client, NEW id \in Dir \cup {Nil}, EndLookup(c, id), Len(found[c]) <= 3
    PROVE  Typed'
<1>1. CASE call[c].op = "mkdir"
  BY <1>1, EndTyped DEF EndLookup, tree, Result
<1>2. CASE call[c].op # "mkdir"
  <2>1. /\ found' = [found EXCEPT ![c] = Append(@, id)] /\ resolver' = Nil
        /\ pc' = [pc EXCEPT ![c] = AfterLookup(c)] /\ held' = held /\ result' = result
        /\ late' = late /\ sent' = sent /\ call' = call /\ at' = at /\ walked' = walked
        /\ seen' = seen /\ disturbed' = disturbed
    BY <1>2 DEF EndLookup, Goto, tree
  <2>2. AfterLookup(c) \in Phase
    BY DEF AfterLookup, Phase
  <2>3. found[c] \in Seq(Dir \cup {Nil})
    BY DEF Typed
  <2>4. Append(found[c], id) \in Seq(Dir \cup {Nil}) /\ Len(Append(found[c], id)) <= 4
    BY <2>3
  <2>5. found' \in [Client -> Seq(Dir \cup {Nil})] /\ \A d \in Client : Len(found'[d]) <= 4
    BY <2>1, <2>4 DEF Typed
  <2> QED
    BY <2>1, <2>2, <2>5, KeysKept DEF Typed, ControlTypeOK
<1> QED
  BY <1>1, <1>2

\* The directory after the next name of a path.
LEMMA NextIsTyped ==
    ASSUME Typed, NEW c \in Client, NEW i \in Object, NEW p \in Paths, at[c].depth < Len(p),
           at' = [at EXCEPT ![c] = [id |-> i, depth |-> @.depth + 1]]
    PROVE  /\ at' \in [Client -> [id : Dir, depth : 0..Depth]]
           /\ at'[c] = [id |-> i, depth |-> at[c].depth + 1]
           /\ at[c].depth + 1 \in 1..Len(p)
<1>1. at[c].depth \in 0..Depth /\ at \in [Client -> [id : Dir, depth : 0..Depth]]
  BY DEF Typed
<1>2. Len(p) \in 0..Depth
  BY PathsAre
<1>3. at[c].depth + 1 \in 0..Depth /\ at[c].depth + 1 \in 1..Len(p)
  BY <1>1, <1>2, DepthIs
<1> QED
  BY <1>1, <1>3, ConstantsAre

\* So does every step of a call, and keys stay exclusive.
LEMMA StepTyped ==
    ASSUME IInv, NEW c \in Client, Begin(c) \/ Step(c)
    PROVE  Typed'
<1>0. /\ Typed /\ Position(c) /\ Sensible(c) /\ TypeOK /\ call \in Plans
      /\ folders \subseteq Object /\ held \in Keyrings /\ Known \subseteq Dir
  BY IsTyped, ConstantsAre DEF IInv, TypeOK, ControlTypeOK, Keyrings, Known
<1>1. CASE Begin(c)
  BY <1>0, <1>1, OnwardTyped DEF Begin, Onward, Phase
<1>2. CASE BeginLookup(c)
  <2>1. Lookup(c).path \in Paths
    BY <1>0, <1>2, LookupIs DEF BeginLookup, Position
  <2>2. PICK n \in 0..Len(Lookup(c).path) :
          /\ cache[SubSeq(Lookup(c).path, 1, n)] # Nil
          /\ at' = [at EXCEPT ![c] = [id |-> cache[SubSeq(Lookup(c).path, 1, n)], depth |-> n]]
    BY <1>2 DEF BeginLookup
  <2>3. cache[SubSeq(Lookup(c).path, 1, n)] \in Dir /\ n \in 0..Depth
    BY <1>0, <2>1, <2>2, PrefixesAre, PathsAre, DepthIs DEF TypeOK
  <2>4. at' \in [Client -> [id : Dir, depth : 0..Depth]]
    BY <1>0, <2>2, <2>3 DEF Typed
  <2>5. /\ pc' = [pc EXCEPT ![c] = "resolve"] /\ held' = held /\ result' = result /\ late' = late
        /\ sent' = sent /\ call' = call /\ found' = found /\ walked' = walked /\ seen' = seen
        /\ disturbed' = disturbed /\ resolver' = c
    BY <1>2 DEF BeginLookup, Goto, tree
  <2> QED
    BY <1>0, <2>4, <2>5, KeysKept DEF Typed, ControlTypeOK, Phase
<1>3. CASE Resolved(c) \/ FindLeaf(c)
  <2>1. /\ Len(found[c]) \in 0..3 /\ Lookup(c).path \in Paths /\ Nil \in Dir \cup {Nil}
        /\ at[c].id \in Dir \cup {Nil} /\ resolver = c
    BY <1>0, <1>3, LookupIs DEF Resolved, FindLeaf, Position, Sensible
  <2>2. CASE /\ at[c].depth < Len(Lookup(c).path)
             /\ \E i \in folders : Advance(c, i)
             /\ UNCHANGED <<tree, control, call, resolver, found, walked, seen, disturbed>>
    <3>1. at' \in [Client -> [id : Dir, depth : 0..Depth]]
      BY <1>0, <2>1, <2>2, NextIsTyped DEF Advance
    <3> QED
      BY <1>0, <2>2, <3>1, KeysKept DEF control, tree, Typed, ControlTypeOK
  <2>3. CASE Onward(c, "lock")
    BY <1>0, <2>3, OnwardTyped DEF Phase
  <2>4. CASE \E id \in Dir \cup {Nil} : EndLookup(c, id)
    <3>1. \A n \in 0..3 : n <= 3
      OBVIOUS
    <3>2. Len(found[c]) <= 3
      BY ONLY <2>1, <3>1
    <3> QED
      BY <1>0, <3>2, <2>4, EndLookupTyped
  <2>5. CASE Fail(c)
    BY <1>0, <2>5, FailTyped
  <2>6. CASE Resolved(c)
    BY <2>1, <2>4, <2>5, <2>6 DEF Resolved
  <2>7. CASE FindLeaf(c)
    BY <2>1, <2>2, <2>3, <2>4, <2>5, <2>7 DEF FindLeaf, Onward
  <2> QED
    BY <1>3, <2>6, <2>7
<1>4. CASE TakeLocks(c)
  <2>1. Keys(c) \in SUBSET LockKey
    BY <1>0, <1>4, KeysAreKeys DEF TakeLocks, Lock, Position
  <2>2. held' \in Keyrings /\ Locks!Exclusive'
    BY <1>0, <1>4, <2>1, KeysTaken DEF TakeLocks, Lock, Typed
  <2>3. AtRoot \in [id : Dir, depth : 0..Depth]
    BY DepthIs, ConstantsAre DEF AtRoot
  <2>4. pc' \in [Client -> Phase] /\ at' \in [Client -> [id : Dir, depth : 0..Depth]]
    BY <1>0, <1>4, <2>3 DEF TakeLocks, Lock, Phase, Typed, ControlTypeOK
  <2> QED
    BY <1>0, <1>4, <2>2, <2>4 DEF TakeLocks, Lock, tree, Typed, ControlTypeOK, Keyrings
<1>5. CASE LookForChild(c)
  <2>1. CASE /\ \E i \in folders : Adopt(c, i)
             /\ sent' = [sent EXCEPT ![c] = FALSE] /\ UNCHANGED <<tree, call, walked, seen, disturbed>>
    <3>1. PICK i \in folders : Adopt(c, i)
      BY <2>1
    <3>2. held' \in Keyrings /\ Locks!Exclusive'
      BY <1>0, <3>1, KeysGiven DEF Adopt, Typed
    <3>3. Making(c) /\ Lookup(c).path \in Paths
      BY <1>0, <1>5, LookupIs DEF LookForChild, Position, Making
    <3>4. at' \in [Client -> [id : Dir, depth : 0..Depth]]
      BY <1>0, <3>1, <3>3, NextIsTyped DEF Adopt, Advance, Making
    <3> QED
      BY <1>0, <2>1, <3>1, <3>2, <3>4 DEF Adopt, tree, Typed, ControlTypeOK, Keyrings, Phase
  <2>2. CASE Onward(c, "make")
    BY <1>0, <2>2, OnwardTyped DEF Phase
  <2> QED
    BY <1>0, <1>5, <2>1, <2>2, FailTyped DEF LookForChild, Onward
<1>6. CASE Make(c) \/ TrashTarget(c) \/ DirMoveSend(c)
  <2>1. /\ UNCHANGED <<held, pc, result, call, search, walked, seen>>
        /\ sent' = [sent EXCEPT ![c] = TRUE] /\ disturbed' \in [Client -> BOOLEAN]
    BY <1>0, <1>6 DEF Make, TrashTarget, DirMoveSend, Typed
  <2>2. late' = late
    BY <1>0, <1>6, ConstantsAre DEF Make, TrashTarget, DirMoveSend, Attempt
  <2> QED
    BY <1>0, <2>1, <2>2, KeysKept DEF search, Typed, ControlTypeOK
<1>7. CASE Walk(c)
  <2> DEFINE w == Walks(c)[walked[c] + 1]
  <2>1. Ready(c) /\ walked[c] \in 0..2 /\ walked[c] < Len(Walks(c)) /\ Len(Walks(c)) \in 1..2
    BY <1>0, <1>7, WalksAre DEF Walk, Position, Working, Typed
  <2>2. walked[c] + 1 \in 1..Len(Walks(c)) /\ walked[c] + 1 \in 0..2
    <3>1. \A m \in 0..2, n \in 1..2 : m < n => m + 1 \in 1..n /\ m + 1 \in 0..2
      OBVIOUS
    <3> QED
      BY <2>1, <3>1
  <2>3. w.path \in Paths
    BY <1>0, <2>1, <2>2, WalksAre
  <2>4. CASE /\ at[c].depth < Len(w.path)
             /\ \E i \in folders : at' = [at EXCEPT ![c] = [id |-> i, depth |-> @.depth + 1]]
             /\ UNCHANGED <<tree, control, call, cache, resolver, found, walked, seen, disturbed>>
    <3>1. at' \in [Client -> [id : Dir, depth : 0..Depth]]
      BY <1>0, <2>3, <2>4, NextIsTyped
    <3> QED
      BY <1>0, <2>4, <3>1, KeysKept DEF control, tree, Typed, ControlTypeOK
  <2>5. CASE /\ walked' = [walked EXCEPT ![c] = @ + 1] /\ at' = [at EXCEPT ![c] = AtRoot]
             /\ UNCHANGED <<tree, control, call, cache, resolver, found, seen, disturbed>>
    <3>1. AtRoot \in [id : Dir, depth : 0..Depth]
      BY DepthIs, ConstantsAre DEF AtRoot
    <3>2. at' \in [Client -> [id : Dir, depth : 0..Depth]] /\ walked' \in [Client -> 0..2]
      BY <1>0, <2>2, <2>5, <3>1 DEF Typed
    <3> QED
      BY <1>0, <2>5, <3>2, KeysKept DEF control, tree, Typed, ControlTypeOK
  <2> QED
    BY <1>0, <1>7, <2>4, <2>5, FailTyped DEF Walk
<1>8. ASSUME NEW step, NEW next \in Phase, Read(c, step, next) PROVE Typed'
  BY <1>0, <1>8, OnwardTyped, FailTyped DEF Read, Onward
<1>9. CASE \/ EndWalks(c) \/ PutMatch(c) \/ RemoveMatch(c) \/ RmdirEmpty(c) \/ RmdirMatch(c)
           \/ DirMoveMatch(c) \/ DirMoveConflict(c)
  <2>1. CASE EndWalks(c)
    BY <1>0, <2>1, OnwardTyped DEF EndWalks, AfterWalks, Onward, Phase
  <2>2. /\ {"upload", "trash", "emptyAgain", "match", "conflict", "move"} \subseteq Phase
    BY DEF Phase
  <2> QED
    BY <1>8, <1>9, <2>1, <2>2
    DEF PutMatch, RemoveMatch, RmdirEmpty, RmdirMatch, DirMoveMatch, DirMoveConflict
<1>10. CASE Upload(c) \/ RemoveGone(c) \/ RmdirGone(c) \/ DirMoveDone(c) \/ ListFill(c) \/ Refuse(c)
  <2>1. Fail(c) \/ ((\E r \in Result : End(c, r)) /\ late' = late /\ call' = call)
    BY <1>10 DEF Upload, RemoveGone, RmdirGone, DirMoveDone, ListFill, Refuse, tree, Result
  <2> QED
    BY <1>0, <2>1, EndTyped, FailTyped
<1>11. CASE FindObject(c)
  <2>1. Len(found[c]) = 1
    BY <1>0, <1>11 DEF FindObject, Position
  <2>2. PICK i \in Object \ folders : found' = [found EXCEPT ![c] = Append(@, i)]
    BY <1>11 DEF FindObject
  <2>3. found[c] \in Seq(Dir \cup {Nil}) /\ i \in Dir \cup {Nil}
    BY <1>0, ConstantsAre DEF Typed
  <2>4. Append(found[c], i) \in Seq(Dir \cup {Nil}) /\ Len(Append(found[c], i)) <= 4
    <3>1. Len(Append(found[c], i)) = Len(found[c]) + 1 /\ Append(found[c], i) \in Seq(Dir \cup {Nil})
      BY ONLY <2>3
    <3> QED
      BY ONLY <2>1, <3>1
  <2>5. found' \in [Client -> Seq(Dir \cup {Nil})] /\ \A d \in Client : Len(found'[d]) <= 4
    BY <1>0, <2>2, <2>4 DEF Typed
  <2> QED
    BY <1>0, <1>11, <2>5, KeysKept DEF FindObject, Goto, tree, Typed, ControlTypeOK, Phase
<1>12. CASE ListRead(c)
  <2>1. {<<place[i].name, i>> : i \in Children(Target(c)) \cap folders} \subseteq AnyName \X Object
    BY <1>0, PlacesAre DEF Children, Visible
  <2>2. seen' \in [Client -> SUBSET (AnyName \X Object)]
    BY <1>0, <1>12, <2>1 DEF ListRead, Typed
  <2> QED
    BY <1>0, <1>12, <2>2, KeysKept DEF ListRead, Goto, tree, search, Typed, ControlTypeOK, Phase
<1> QED
  BY <1>1, <1>2, <1>3, <1>4, <1>5, <1>6, <1>7, <1>9, <1>10, <1>11, <1>12 DEF Step

-----------------------------------------------------------------------------
(***************************************************************************)
(* The cache: whatever a path was found to lead to is a directory.         *)
(***************************************************************************)
CacheKnows == cache \in [Paths -> Known \cup {Nil}] /\ cache[<<>>] = Root

\* No path but the empty one is a beginning of the empty one.
LEMMA PrefixesOfNothing ==
    ASSUME NEW p \in Paths, p # <<>>
    PROVE  ~IsPrefix(p, <<>>)
<1>1. Len(p) \in Nat /\ Len(p) # 0 /\ Len(<<>>) = 0
  BY PathsAre, DepthIs
<1>2. IsPrefix(p, <<>>) => Len(p) <= Len(<<>>)
  BY DEF IsPrefix
<1> QED
  BY <1>1, <1>2

\* FlushDir drops what is below a path, and never the root.
LEMMA FlushedKnows ==
    ASSUME NEW old, old \in [Paths -> Known \cup {Nil}], old[<<>>] = Root, NEW p \in Paths, p # <<>>
    PROVE  Flushed(old, p) \in [Paths -> Known \cup {Nil}] /\ Flushed(old, p)[<<>>] = Root
BY PrefixesOfNothing, PathsAre DEF Flushed

\* FindPath enters the directory it has found.
LEMMA AdvanceKnows ==
    ASSUME Typed, CacheKnows, NEW c \in Client, NEW i \in folders, folders \subseteq Object,
           Advance(c, i), Lookup(c).path \in Paths, at[c].depth < Len(Lookup(c).path)
    PROVE  cache' \in [Paths -> Known \cup {Nil}] /\ cache'[<<>>] = Root
<1> DEFINE q == SubSeq(Lookup(c).path, 1, at[c].depth + 1)
<1>1. at[c].depth + 1 \in 1..Len(Lookup(c).path) /\ at'[c].depth = at[c].depth + 1
  BY NextIsTyped DEF Advance
<1>2. at[c].depth + 1 \in 0..Len(Lookup(c).path) /\ at[c].depth + 1 # 0
  BY <1>1, PathsAre, DepthIs
<1>3. q \in Paths /\ q # <<>>
  BY <1>2, PrefixesAre, PathsAre
<1>4. cache' = [cache EXCEPT ![q] = i]
  BY <1>1 DEF Advance
<1> QED
  BY <1>3, <1>4, PathsAre DEF CacheKnows, Known

\* Every step keeps that: directories are entered when they exist, and an ID
\* stays an object.
LEMMA CacheKept ==
    ASSUME IInv, NEW c \in Client, Begin(c) \/ Step(c)
    PROVE  CacheKnows'
<1>0. /\ Typed /\ CacheKnows /\ Position(c) /\ Sensible(c) /\ TypeOK /\ call \in Plans
      /\ folders \subseteq Object
  BY IsTyped DEF IInv, TypeOK, Tree, CacheKnows
<1>1. folders \subseteq folders'
  BY StepEffect, TreeKept DEF Change
<1> SUFFICES cache' \in [Paths -> Known \cup {Nil}] /\ cache'[<<>>] = Root
  BY <1>1 DEF CacheKnows, Known
<1>2. ASSUME Fail(c) \/ cache' = cache
      PROVE  cache' \in [Paths -> Known \cup {Nil}] /\ cache'[<<>>] = Root
  BY <1>0, <1>2 DEF Fail, CacheKnows
<1>3. CASE \/ Begin(c) \/ BeginLookup(c) \/ Resolved(c) \/ TakeLocks(c) \/ Make(c) \/ Walk(c)
           \/ EndWalks(c) \/ Upload(c) \/ FindObject(c) \/ RemoveGone(c) \/ TrashTarget(c)
           \/ DirMoveSend(c) \/ ListRead(c) \/ Refuse(c)
  <2>1. CASE Begin(c) \/ BeginLookup(c) \/ TakeLocks(c) \/ Make(c) \/ Walk(c) \/ EndWalks(c)
    BY <1>2, <2>1 DEF Begin, BeginLookup, TakeLocks, Make, Walk, EndWalks, search
  <2>2. CASE Resolved(c)
    BY <1>2, <2>2 DEF Resolved, EndLookup
  <2>3. CASE \/ Upload(c) \/ FindObject(c) \/ RemoveGone(c) \/ TrashTarget(c) \/ DirMoveSend(c)
             \/ ListRead(c) \/ Refuse(c)
    BY <1>2, <2>3 DEF Upload, FindObject, RemoveGone, TrashTarget, DirMoveSend, ListRead, Refuse, search
  <2> QED
    BY <1>3, <2>1, <2>2, <2>3
<1>4. CASE \/ PutMatch(c) \/ RemoveMatch(c) \/ RmdirEmpty(c) \/ RmdirMatch(c)
           \/ DirMoveMatch(c) \/ DirMoveConflict(c)
  BY <1>2, <1>4 DEF PutMatch, RemoveMatch, RmdirEmpty, RmdirMatch, DirMoveMatch, DirMoveConflict, Read, search
<1>5. CASE FindLeaf(c)
  <2>1. Lookup(c).path \in Paths /\ at[c].depth < Len(Lookup(c).path)
    BY <1>0, <1>5, LookupIs DEF FindLeaf, Position
  <2> QED
    BY <1>0, <1>2, <1>5, <2>1, AdvanceKnows DEF FindLeaf, EndLookup, search
<1>6. CASE LookForChild(c)
  <2>1. Lookup(c).path \in Paths /\ at[c].depth < Len(Lookup(c).path)
    BY <1>0, <1>6, LookupIs DEF LookForChild, Position, Making
  <2> QED
    BY <1>0, <1>2, <1>6, <2>1, AdvanceKnows DEF LookForChild, Adopt, search
<1>7. CASE RmdirGone(c)
  <2>1. call[c].path \in Paths /\ call[c].path # <<>>
    BY <1>0, <1>7, CallsAre DEF RmdirGone
  <2> QED
    BY <1>0, <1>7, <2>1, FlushedKnows DEF RmdirGone, CacheKnows
<1>8. CASE DirMoveDone(c)
  <2>1. call[c].op = "dirmove"
    BY <1>0, <1>8 DEF DirMoveDone, Position
  <2>2. call[c].path \in Paths /\ call[c].path # <<>> /\ call[c].to \in Paths /\ call[c].to # <<>>
    BY <1>0, <2>1, CallsAre
  <2>3. LET old == Flushed(cache, call[c].path)
        IN  old \in [Paths -> Known \cup {Nil}] /\ old[<<>>] = Root
    BY <1>0, <2>2, FlushedKnows DEF CacheKnows
  <2> QED
    BY <1>8, <2>2, <2>3, FlushedKnows DEF DirMoveDone
<1>9. CASE ListFill(c)
  <2>1. ASSUME NEW n, \E i \in Object : <<n, i>> \in seen[c]
        PROVE  (CHOOSE i \in Object : <<n, i>> \in seen[c]) \in Known
    <3>1. PICK i \in Object : i = CHOOSE j \in Object : <<n, j>> \in seen[c]
      BY <2>1
    <3>2. <<n, i>> \in seen[c]
      BY <2>1, <3>1
    <3>3. n \in AnyName
      BY <1>0, <3>2 DEF Typed
    <3> QED
      BY <1>0, <3>1, <3>2, <3>3 DEF Sensible, Known
  <2>2. cache' = [q \in Paths |->
                    IF q # <<>> /\ Front(q) = call[c].path /\ \E i \in Object : <<Last(q), i>> \in seen[c]
                      THEN CHOOSE i \in Object : <<Last(q), i>> \in seen[c]
                      ELSE cache[q]]
    BY <1>9 DEF ListFill
  <2>3. ASSUME NEW q \in Paths PROVE cache'[q] \in Known \cup {Nil}
    BY <1>0, <2>1, <2>2 DEF CacheKnows
  <2> QED
    BY <1>0, <2>2, <2>3, PathsAre DEF CacheKnows
<1> QED
  BY <1>3, <1>4, <1>5, <1>6, <1>7, <1>8, <1>9 DEF Step

-----------------------------------------------------------------------------
(***************************************************************************)
(* The invariant is inductive.                                             *)
(***************************************************************************)
LEMMA InitTree ==
    ASSUME Init
    PROVE  Tree /\ CacheKnows /\ place \in Places /\ folders \subseteq Object
<1>1. /\ place \in [Object -> Place \cup {Nowhere}]
      /\ \A i, j \in Object : i # j /\ place[i] # Nowhere => place[i] # place[j]
      /\ \A i \in Object : place[i] # Nowhere => place[i].dir = Root \/ place[place[i].dir] # Nowhere
      /\ folders = {i \in Object : Visible(i)}
  BY NamespaceAssumption DEF Init
<1>2. PathsAreUnique /\ Exist /\ FilesStayReachable
  BY <1>1, ConstantsAre DEF PathsAreUnique, Exist, FilesStayReachable, Visible
<1>3. Parented
  BY <1>1, PlacesAre, ConstantsAre DEF Parented, Known, Visible
<1>4. CacheKnows
  <2>1. CASE cache = [p \in Paths |-> IF p = <<>> THEN Root ELSE Nil]
    BY <2>1, PathsAre DEF CacheKnows, Known
  <2>2. CASE cache = [p \in Paths |-> IdOf(p)]
    <3>1. \A p \in Paths : IdOf(p) \in Known \cup {Nil}
      BY LeadsToKnown DEF IdOf
    <3>2. IdOf(<<>>) = Root
      BY LeadsToRoot, ConstantsAre DEF IdOf
    <3> QED
      BY <2>2, <3>1, <3>2, PathsAre DEF CacheKnows
  <2> QED
    BY <2>1, <2>2 DEF Init
<1>5. place \in Places /\ folders \subseteq Object
  BY <1>1 DEF Places
<1> QED
  BY <1>2, <1>3, <1>4, <1>5 DEF Tree, CacheKnows

\* The type invariant is what the steps keep of the variables, the cache and
\* the tree.
LEMMA TypesAre ==
    ASSUME Typed, CacheKnows, place \in Places, folders \subseteq Object
    PROVE  TypeOK
<1>1. call \in [Client -> Call]
  BY NamespaceAssumption DEF Typed
<1>2. cache \in [Paths -> Dir \cup {Nil}] /\ cache[<<>>] = Root
  BY ConstantsAre DEF CacheKnows, Known
<1> QED
  BY <1>1, <1>2 DEF TypeOK, Typed, Places

\* The initial state satisfies the inductive invariant.
LEMMA InitIInv == Init => IInv
<1> SUFFICES ASSUME Init PROVE IInv
  OBVIOUS
<1>1. /\ late = {} /\ call \in Plans /\ resolver = Nil
      /\ \A c \in Client :
            /\ pc[c] = "idle" /\ held[c] = {} /\ sent[c] = FALSE /\ found[c] = <<>> /\ at[c] = AtRoot
            /\ walked[c] = 0 /\ seen[c] = {}
  BY DEF Init, ControlInit
<1>2. Typed
  <2>1. <<>> \in Seq(Dir \cup {Nil}) /\ Len(<<>>) = 0 /\ AtRoot \in [id : Dir, depth : 0..Depth]
    BY DepthIs, ConstantsAre DEF AtRoot
  <2>2. ControlTypeOK(Phase) /\ Locks!Exclusive
    BY DEF Init, ControlInit, ControlTypeOK, Phase, Result, Locks!Exclusive
  <2>3. found \in [Client -> Seq(Dir \cup {Nil})] /\ \A c \in Client : Len(found[c]) <= 4
    BY <2>1 DEF Init
  <2>4. /\ at \in [Client -> [id : Dir, depth : 0..Depth]] /\ walked \in [Client -> 0..2]
        /\ seen \in [Client -> SUBSET (AnyName \X Object)] /\ disturbed \in [Client -> BOOLEAN]
    BY <2>1 DEF Init
  <2> QED
    BY <1>1, <2>2, <2>3, <2>4 DEF Typed
<1>3. ASSUME NEW c \in Client PROVE Position(c) /\ Sensible(c) /\ Current(c) /\ Walked(c) /\ Walking(c)
  <2>1. resolver # c
    BY <1>1, ConstantsAre
  <2>2. Position(c)
    BY <1>1, <2>1 DEF Position, Working
  <2>3. Sensible(c)
    BY <1>1 DEF Sensible, AtRoot, Known
  <2> QED
    BY <1>1, <2>2, <2>3 DEF Current, Walked, Walking, Working
<1> QED
  BY <1>2, <1>3, InitTree, TypesAre DEF IInv, Typed

\* A step that changes nothing keeps it.
LEMMA StutterIInv ==
    ASSUME IInv, UNCHANGED vars
    PROVE  IInv'
<1>1. /\ place' = place /\ late' = late /\ folders' = folders /\ held' = held /\ pc' = pc
      /\ sent' = sent /\ result' = result /\ call' = call /\ cache' = cache /\ resolver' = resolver
      /\ found' = found /\ at' = at /\ walked' = walked /\ seen' = seen /\ disturbed' = disturbed
  BY DEF vars, tree, control, search
<1>2. TypeOK' /\ (call \in Plans)' /\ Locks!Exclusive'
  BY <1>1 DEF IInv, TypeOK, ControlTypeOK, Locks!Exclusive
<1>3. Tree'
  BY <1>1 DEF IInv, Tree, PathsAreUnique, Exist, Parented, Known, FilesStayReachable, Reachable, Visible
<1>4. ASSUME NEW c \in Client PROVE Fine(c)'
  <2>1. /\ Lookups(c)' = Lookups(c) /\ Lookup(c)' = Lookup(c)
        /\ Target(c)' = Target(c) /\ ParentOf(c)' = ParentOf(c) /\ NewParent(c)' = NewParent(c)
        /\ OldPlace(c)' = OldPlace(c) /\ NewPlace(c)' = NewPlace(c) /\ Walks(c)' = Walks(c)
        /\ Ready(c)' = Ready(c)
    BY <1>1, SameIDs
  <2>2. Keys(c)' = Keys(c) /\ MakePlace(c)' = MakePlace(c) /\ Making(c)' = Making(c)
    BY <1>1, SameKeys
  <2>3. Position(c) /\ Sensible(c) /\ Current(c) /\ Walked(c) /\ Walking(c)
    BY DEF IInv
  <2>4. Position(c)'
    BY <1>1, <2>1, <2>2, <2>3 DEF Position
  <2>5. Sensible(c)'
    BY <1>1, <2>3 DEF Sensible, Known
  <2>6. Current(c)'
    BY <1>1, <2>1, <2>2, <2>3 DEF Current, ObjectsAt, Children, Visible
  <2>7. Walked(c)' /\ Walking(c)'
    <3> SUFFICES ASSUME pc[c] \in Working
                 PROVE  Walked(c)' /\ Walking(c)'
      BY <1>1 DEF Walked, Walking
    <3>0. /\ Ready(c) /\ walked[c] \in 0..2 /\ walked[c] <= Len(Walks(c)) /\ Len(Walks(c)) \in 1..2
          /\ TypeOK /\ call \in Plans /\ Known \subseteq Dir
      BY <2>3, WalksAre, ConstantsAre DEF IInv, TypeOK, Position, Walking, Known
    <3>1. \A p \in Paths, d \in Dir : Found(c, p, d) => Found(c, p, d)'
      BY <1>1 DEF Found, Reachable, Leads, Visible
    <3>2. \A d \in Known, i \in Dir : ~Within(d, i) => ~Within(d, i)'
      BY <1>1 DEF Within, Visible
    <3>3. Walked(c)'
      <4> SUFFICES ASSUME ~sent[c], NEW k \in 1..walked[c]
                   PROVE  Found(c, Walks(c)[k].path, Walks(c)[k].id)'
        BY <1>1, <2>1 DEF Walked
      <4>1. k \in 1..Len(Walks(c)) /\ Found(c, Walks(c)[k].path, Walks(c)[k].id)
        BY <2>3, <3>0 DEF Walked
      <4>2. Walks(c)[k].path \in Paths /\ Walks(c)[k].id \in Dir
        BY <2>3, <3>0, <4>1, WalksAre
      <4>3. \A p \in Paths, d \in Dir : p = Walks(c)[k].path /\ d = Walks(c)[k].id => Found(c, p, d)'
        BY <3>1, <4>1
      <4> QED
        BY <2>1, <4>2, <4>3, FoundThere
    <3>4. Walking(c)'
      <4> DEFINE w == Walks(c)[walked[c] + 1]
      <4>1. CASE ~(pc[c] = "walk" /\ walked[c] < Len(Walks(c)))
        BY <1>1, <2>1, <2>3, <4>1 DEF Walking
      <4>2. CASE pc[c] = "walk" /\ walked[c] < Len(Walks(c))
        <5>1. walked[c] + 1 \in 1..Len(Walks(c))
          BY <3>0, <4>2
        <5>2. w.path \in Paths /\ w.id \in Known
          BY <2>3, <3>0, <5>1, WalksAre
        <5>3. /\ at[c].depth <= Len(w.path)
              /\ Found(c, SubSeq(w.path, 1, at[c].depth), at[c].id) \/ ~Within(w.id, at[c].id)
          BY <2>3, <4>2 DEF Walking
        <5>4. at[c].depth \in 0..Len(w.path) /\ at[c].id \in Dir
          BY <3>0, <5>2, <5>3, PathsAre, DepthIs DEF TypeOK
        <5>5. SubSeq(w.path, 1, at[c].depth) \in Paths
          BY <5>2, <5>4, PrefixesAre
        <5>6. \A p \in Paths, d \in Dir, g \in Known :
                 p = SubSeq(w.path, 1, at[c].depth) /\ d = at[c].id /\ g = w.id
                   => (Found(c, p, d) \/ ~Within(g, d))'
          BY <3>1, <3>2, <5>3
        <5>7. w' = w
          BY <1>1, <2>1
        <5>8. (Found(c, SubSeq(w.path, 1, at[c].depth), at[c].id) \/ ~Within(w.id, at[c].id))'
          BY <1>1, <5>2, <5>4, <5>5, <5>6, <5>7, AstrayThere
        <5> QED
          BY <1>1, <2>1, <3>0, <4>2, <5>3, <5>7, <5>8 DEF Walking
      <4> QED
        BY <4>1, <4>2
    <3> QED
      BY <3>3, <3>4
  <2> QED
    BY <2>4, <2>5, <2>6, <2>7 DEF Fine
<1> QED
  BY <1>2, <1>3, <1>4 DEF IInv, Fine

\* Every step of a call keeps it.
LEMMA StepIInv ==
    ASSUME IInv, NEW c \in Client, Begin(c) \/ Step(c)
    PROVE  IInv'
<1>1. Change(c)
  BY StepEffect DEF Change
<1>2. Tree'
  <2>1. Exist' /\ Parented' /\ PathsAreUnique'
    BY <1>1, TreeKept
  <2>2. Refuses => FilesStayReachable'
    BY <1>1, FilesKept
  <2> QED
    BY <2>1, <2>2, CacheKept DEF Tree, CacheKnows
<1>3. TypeOK'
  <2>1. Typed' /\ CacheKnows' /\ place' \in Places /\ folders' \subseteq Object
    BY <1>1, StepTyped, CacheKept, TreeKept
  <2>2. (call \in [Client -> Call])'
    BY <2>1, NamespaceAssumption DEF Typed
  <2>3. (cache \in [Paths -> Dir \cup {Nil}])' /\ (cache[<<>>] = Root)'
    BY <2>1, ConstantsAre DEF CacheKnows, Known
  <2> QED
    BY <2>1, <2>2, <2>3 DEF TypeOK, Typed, Places
<1>4. \A d \in Client : Fine(d)'
  BY StepIsFine
<1>5. (call \in Plans)' /\ Locks!Exclusive'
  BY StepTyped DEF Typed
<1> QED
  BY <1>2, <1>3, <1>4, <1>5 DEF IInv, Fine

(***************************************************************************)
(* The inductive invariant holds throughout.                               *)
(***************************************************************************)
THEOREM Inductive == Spec => []IInv
<1>1. Init => IInv
  BY InitIInv
<1>2. IInv /\ [Next]_vars => IInv'
  BY StepIInv, StutterIInv DEF Next, Finished
<1> QED
  BY <1>1, <1>2, PTL DEF Spec

(***************************************************************************)
(* The types of all variables hold for any calls: a call resolves at most  *)
(* four paths, no walk goes deeper than the paths do, and the directory    *)
(* cache holds nothing but IDs of objects.                                 *)
(***************************************************************************)
THEOREM NamespaceTyped == Spec => []TypeOK
<1>1. IInv => TypeOK
  BY DEF IInv
<1> QED
  BY <1>1, Inductive, PTL

(***************************************************************************)
(* No two live objects ever share a name in one directory, whatever Mkdir, *)
(* Put, Remove, Rmdir and DirMove do beside each other: a name is created  *)
(* only under its key, by a call that found it free under that key.        *)
(***************************************************************************)
THEOREM NamesStayUnique == Spec => []PathsAreUnique
<1>1. IInv => PathsAreUnique
  BY DEF IInv, Tree
<1> QED
  BY <1>1, Inductive, PTL

(***************************************************************************)
(* No file ever drops out of the tree: Rmdir trashes a directory only      *)
(* while nothing can be put into it, and nothing is created in or moved to *)
(* a directory that is not there any more. It is assumed of the service    *)
(* that it refuses to move a directory into itself or below itself; the    *)
(* handlers cannot exclude that among themselves.                          *)
(***************************************************************************)
THEOREM NoFileIsLost ==
    ASSUME Refuses
    PROVE  Spec => []FilesStayReachable
<1>1. IInv => FilesStayReachable
  BY DEF IInv, Tree
<1> QED
  BY <1>1, Inductive, PTL

(***************************************************************************)
(* Only requests change the drive.                                         *)
(***************************************************************************)
LEMMA RequestsOnly ==
    ASSUME NEW c \in Client, Begin(c) \/ Step(c), place' # place
    PROVE  Make(c) \/ Upload(c) \/ TrashTarget(c) \/ DirMoveSend(c)
<1> USE DEF tree
<1>1. CASE Begin(c) \/ BeginLookup(c) \/ TakeLocks(c) \/ Walk(c) \/ EndWalks(c)
  BY <1>1 DEF Begin, BeginLookup, TakeLocks, Walk, EndWalks, Fail
<1>2. CASE Resolved(c) \/ FindLeaf(c) \/ LookForChild(c)
  BY <1>2 DEF Resolved, FindLeaf, LookForChild, EndLookup, Fail
<1>3. CASE PutMatch(c) \/ RemoveMatch(c) \/ RmdirEmpty(c) \/ RmdirMatch(c) \/ DirMoveMatch(c) \/ DirMoveConflict(c)
  BY <1>3 DEF PutMatch, RemoveMatch, RmdirEmpty, RmdirMatch, DirMoveMatch, DirMoveConflict, Read, Fail
<1>4. CASE FindObject(c) \/ RemoveGone(c) \/ RmdirGone(c) \/ DirMoveDone(c) \/ ListRead(c) \/ ListFill(c) \/ Refuse(c)
  BY <1>4 DEF FindObject, RemoveGone, RmdirGone, DirMoveDone, ListRead, ListFill, Refuse, Fail
<1> QED
  BY <1>1, <1>2, <1>3, <1>4 DEF Step

(***************************************************************************)
(* The requests of Put, Remove, Rmdir and DirMove take effect on the name  *)
(* the call was given: what is thrown away or moved still has it, what is  *)
(* created or moved meets nothing under its new name, and the directories  *)
(* are those the paths lead to, unless a DirMove took effect since the     *)
(* call had its locks: an ID from a stale cache or an old listing is never *)
(* acted on.  Mkdir, which does not walk its parent's path, is excluded.   *)
(***************************************************************************)
THEOREM NamedIsChanged == Spec => ChangesWhatItNames
<1> DEFINE Names(c) ==
             pc[c] \in {"upload", "trash", "move"} /\ place' # place /\ (pc'[c] # pc[c] \/ sent'[c] # sent[c])
               => /\ ActsOnItsPlace(c)
                  /\ \/ disturbed[c]
                     \/ /\ Leads(Front(call[c].path), ParentOf(c))
                        /\ pc[c] = "move" => Leads(Front(call[c].to), NewParent(c))
<1>1. ASSUME IInv, NEW c \in Client, Begin(c) \/ Step(c), NEW d \in Client PROVE Names(d)
  <2> SUFFICES ASSUME pc[d] \in {"upload", "trash", "move"}, place' # place,
                      pc'[d] # pc[d] \/ sent'[d] # sent[d]
               PROVE  /\ ActsOnItsPlace(d)
                      /\ \/ disturbed[d]
                         \/ /\ Leads(Front(call[d].path), ParentOf(d))
                            /\ pc[d] = "move" => Leads(Front(call[d].to), NewParent(d))
    OBVIOUS
  <2>1. d = c
    BY <1>1, StepAlone DEF IInv, Alone
  <2>2. Position(c) /\ pc[c] \in Working \ {"walk"}
    BY <1>1, <2>1 DEF IInv, Working
  <2>3. ~sent[c]
    BY <1>1, <2>1, <2>2, RequestsOnly DEF Make, Upload, TrashTarget, DirMoveSend, Position
  <2>4. /\ Found(c, Front(call[c].path), ParentOf(c))
        /\ call[c].op = "dirmove" => Found(c, Front(call[c].to), NewParent(c))
    BY <1>1, <2>2, <2>3, WalkedTo
  <2>5. ActsOnItsPlace(c)
    <3>1. CASE pc[c] = "upload"
      <4>1. ObjectsAt(OldPlace(c)) = {} /\ Upload(c)
        BY <1>1, <2>1, <2>3, <3>1, RequestsOnly DEF IInv, Current, Make, TrashTarget, DirMoveSend
      <4>2. PICK i \in FreshObjects : Perform(Create(i, OldPlace(c)))
        BY <1>1, <4>1 DEF Upload
      <4>3. i \in Object /\ place[i] = Nowhere /\ PlaceOf(OldPlace(c).dir, OldPlace(c).name) = OldPlace(c)
        BY <4>2 DEF FreshObjects, Unused, OldPlace, PlaceOf
      <4>4. place' = [place EXCEPT ![i] = OldPlace(c)]
        BY <4>2, <4>3, Effects, Performed
      <4> QED
        BY <3>1, <4>1, <4>3, <4>4 DEF ActsOnItsPlace
    <3>2. CASE pc[c] = "trash"
      <4>1. Target(c) \in Object /\ place[Target(c)] = OldPlace(c) /\ TrashTarget(c)
        BY <1>1, <2>1, <2>3, <3>2, RequestsOnly DEF IInv, Current, Make, Upload, DirMoveSend
      <4>2. Attempt(Discard(Target(c), Last(call[c].path)))
        BY <4>1 DEF TrashTarget
      <4>3. place' = [place EXCEPT ![Target(c)] = Trash]
        BY <1>1, <4>1, <4>2, Attempted, Effects
      <4> QED
        BY <3>2, <4>1, <4>3 DEF ActsOnItsPlace
    <3>3. CASE pc[c] = "move"
      <4>1. /\ place[Target(c)] = OldPlace(c) /\ ObjectsAt(NewPlace(c)) \subseteq {Target(c)}
            /\ DirMoveSend(c)
        BY <1>1, <2>1, <2>3, <3>3, RequestsOnly DEF IInv, Current, Make, Upload, TrashTarget
      <4> QED
        BY <3>3, <4>1 DEF DirMoveSend, ActsOnItsPlace
    <3> QED
      BY <2>1, <3>1, <3>2, <3>3
  <2> QED
    BY <2>1, <2>2, <2>4, <2>5 DEF Found, Position
<1>2. IInv /\ [Next]_vars => [\A c \in Client : Names(c)]_vars
  <2>1. ASSUME IInv, Finished \/ UNCHANGED vars PROVE UNCHANGED vars
    BY <2>1 DEF Finished
  <2> QED
    BY <1>1, <2>1 DEF Next
<1> QED
  BY <1>2, Inductive, PTL DEF Spec, ChangesWhatItNames
=============================================================================
