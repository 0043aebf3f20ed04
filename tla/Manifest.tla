------------------------------ MODULE Manifest ------------------------------
(***************************************************************************)
(* The manifest of a live-test campaign (internal/livetest/manifest.go)    *)
(* and the tool that changes it (tools/livemanifest/main.go): what the     *)
(* campaign may still create, what it has created, and so what it may      *)
(* delete.  Each run of the tool loads the file, changes one thing in      *)
(* memory and saves the whole; it may die at any step, and nothing keeps   *)
(* two runs apart.                                                         *)
(*                                                                         *)
(* The campaign around the tool is external: it reserves before it asks    *)
(* the provider for an object, records what it sees, and deletes only      *)
(* active objects of the ledger.  A run that ends with an error leaves the *)
(* file as it was, so an argument that the tool refuses is a step not      *)
(* taken.  MD5 sums stand and fall with the size here, and names are told  *)
(* apart by whether they have the campaign's random prefix: a listing with *)
(* bad or ambiguous names is one that the tool refuses.                    *)
(***************************************************************************)
EXTENDS Integers, FiniteSets

CONSTANTS Sentinel,        \* IDs of the sentinels, which lie outside the work root
          Own,             \* IDs the provider gives to what the campaign creates
          Foreign,         \* IDs of what others keep in the work root
          WorkRoot,        \* work_root_id
          Prefixed,        \* IDs of objects whose names have the random prefix
          Size,            \* sizes of files
          MaxFiles, MaxDirectories, MaxSingleFile, MaxPayload,  \* Limits
          MaxCount,        \* bound: -count of a reservation
          MaxOverlaps,     \* bound: how often a run starts beside another one
          Run,             \* runs of the tool that may be under way
          Broken           \* a file that does not parse, an empty memory

Id == Sentinel \cup Own \cup Foreign
Kind == {"file", "directory"}
Cleanup == {"active", "trashed", "missing_confirmed"}

VARIABLES file,       \* the manifest on disk
          mem,        \* the manifest in the memory of each run
          pc,         \* where each run is
          grant,      \* what a run that reserves will allow
          credit,     \* reservations the campaign has not used yet
          requested,  \* what it has asked the provider for
          made,       \* IDs the provider has given out for that
          drive,      \* what is visible
          overlaps    \* how often a run has started beside another one

campaign == <<credit, requested, made, drive>>
runs == <<mem, pc, grant, overlaps>>
vars == <<file, runs, campaign>>

Amount == [files : Nat, directories : Nat, payload : Nat]
Zero == [files |-> 0, directories |-> 0, payload |-> 0]
Plus(a, b) == [f \in DOMAIN a |-> a[f] + b[f]]
AtMost(a, b) == \A f \in DOMAIN a : a[f] <= b[f]
Limits == [files |-> MaxFiles, directories |-> MaxDirectories, payload |-> MaxPayload]

Place == [kind : Kind, parent : Own \cup {WorkRoot}, size : Size \cup {0}]
Absent == [kind |-> "absent"]
Entry == [id : Id, at : Place, cleanup : Cleanup]
ManifestType == [usage : Amount, ledger : SUBSET Entry, unresolved : SUBSET Id]

ASSUME ManifestAssumption ==
    /\ Sentinel \cap Own = {} /\ Own \cap Foreign = {} /\ Sentinel \cap Foreign = {}
    /\ IsFiniteSet(Id) /\ WorkRoot \notin Id
    /\ Own \subseteq Prefixed /\ Foreign \cap Prefixed = {}
    /\ Size \subseteq Nat
    /\ {MaxFiles, MaxDirectories, MaxSingleFile, MaxPayload, MaxCount, MaxOverlaps} \subseteq Nat
    /\ Cardinality(Sentinel) <= MaxFiles
    /\ Broken \notin ManifestType

TypeOK ==
    /\ file \in ManifestType \cup {Broken}
    /\ mem \in [Run -> ManifestType \cup {Broken}]
    /\ pc \in [Run -> {"idle", "changed", "written"}]
    /\ grant \in [Run -> Amount]
    /\ credit \in Amount /\ requested \in Amount
    /\ made \subseteq Own
    /\ drive \in [Own \cup Foreign -> Place \cup {Absent}]
    /\ overlaps \in 0..MaxOverlaps

-----------------------------------------------------------------------------
\* X_Suffix is a deliberate mistake in X, used to show that a property can
\* fail; no action of the specification uses it.

IdsOf(ledger) == {e.id : e \in ledger}
OfKind(ledger, kind) == {e \in ledger : e.at.kind = kind}

\* Validate: within the limits, one role for each ID, nothing recorded that
\* was not reserved.
OneRole(m) ==
    /\ \A e, f \in m.ledger : e.id = f.id => e = f
    /\ IdsOf(m.ledger) \cap (Sentinel \cup m.unresolved) = {}
    /\ m.unresolved \cap Sentinel = {}

Recorded(m) ==
    [files |-> Cardinality(Sentinel) + Cardinality(m.unresolved)
                 + Cardinality(OfKind(m.ledger, "file")),
     directories |-> Cardinality(OfKind(m.ledger, "directory")),
     payload |-> 0]

Valid_Unreserved(m) == AtMost(m.usage, Limits) /\ OneRole(m)
Valid(m) == AtMost(m.usage, Limits) /\ OneRole(m) /\ AtMost(Recorded(m), m.usage)

\* Load refuses what does not parse or is not valid.
Loads(m) == m # Broken /\ Valid(m)

\* Foreign files lie in the work root; their names lack the prefix.
Init ==
    /\ file = [usage |-> [Zero EXCEPT !.files = Cardinality(Sentinel)],
               ledger |-> {}, unresolved |-> {}]
    /\ mem = [r \in Run |-> Broken]
    /\ pc = [r \in Run |-> "idle"]
    /\ grant = [r \in Run |-> Zero]
    /\ credit = Zero
    /\ requested = file.usage
    /\ made = {}
    /\ \E s \in Size :
          drive = [i \in Own \cup Foreign |->
                     IF i \in Foreign THEN [kind |-> "file", parent |-> WorkRoot, size |-> s]
                                      ELSE Absent]
    /\ overlaps = 0

-----------------------------------------------------------------------------
\* Run r loads the file and applies its action in memory.
Apply(r, after, allows) ==
    /\ pc[r] = "idle"
    /\ Loads(file)
    /\ mem' = [mem EXCEPT ![r] = after]
    /\ grant' = [grant EXCEPT ![r] = allows]
    /\ pc' = [pc EXCEPT ![r] = "changed"]
    /\ IF \A q \in Run : pc[q] = "idle"
       THEN UNCHANGED overlaps
       ELSE overlaps < MaxOverlaps /\ overlaps' = overlaps + 1
    /\ UNCHANGED <<file, campaign>>

\* All of the count, or an exit before anything is saved.
ReserveFile(r, count, size) ==
    LET amount == [files |-> count, directories |-> 0, payload |-> count * size] IN
    /\ size <= MaxSingleFile
    /\ AtMost(Plus(file.usage, amount), Limits)
    /\ Apply(r, [file EXCEPT !.usage = Plus(@, amount)], amount)

ReserveDirectory(r, count) ==
    LET amount == [Zero EXCEPT !.directories = count] IN
    /\ AtMost(Plus(file.usage, amount), Limits)
    /\ Apply(r, [file EXCEPT !.usage = Plus(@, amount)], amount)

Unknown(i) == i \notin Sentinel \cup IdsOf(file.ledger) \cup file.unresolved

Active(i, at) == [id |-> i, at |-> at, cleanup |-> "active"]

RecordObject(r, i) ==
    /\ drive[i] # Absent
    /\ Unknown(i)
    /\ Apply(r, [file EXCEPT !.ledger = @ \cup {Active(i, drive[i])}], Zero)

RecordUnresolvedUpload(r, i) ==
    /\ Unknown(i)
    /\ Apply(r, [file EXCEPT !.unresolved = @ \cup {i}], Zero)

\* ImportRcloneList: only the work root and active directories of the ledger,
\* only names with the prefix; what is known must be as it was recorded, and
\* the number of new ones as expected.
MayImportInto(parent) ==
    parent = WorkRoot \/ \E e \in OfKind(file.ledger, "directory") : e.id = parent /\ e.cleanup = "active"

Listed(parent) == {i \in Own \cup Foreign : drive[i] # Absent /\ drive[i].parent = parent}

Candidates_All(entries) == entries
Candidates(entries) == entries \cap Prefixed

ImportRcloneList(r, parent, entries, expectedNew) ==
    LET new == {i \in Candidates(entries) : Unknown(i)} IN
    /\ MayImportInto(parent)
    /\ \A i \in Candidates(entries) \ new : \E e \in file.ledger : e.id = i /\ e.at = drive[i]
    /\ Cardinality(new) = expectedNew
    /\ Apply(r, [file EXCEPT !.ledger = @ \cup {Active(i, drive[i]) : i \in new}], Zero)

Replace(r, e, e2) == Apply(r, [file EXCEPT !.ledger = (@ \ {e}) \cup {e2}], Zero)

\* Cleaned objects keep the identity they were last seen with.
RelocateObject_Any(r, e, parent) == Replace(r, e, [e EXCEPT !.at.parent = parent])
RelocateObject(r, e, parent) ==
    e.cleanup = "active" /\ Replace(r, e, [e EXCEPT !.at.parent = parent])

Rank == [active |-> 0, trashed |-> 1, missing_confirmed |-> 2]

MarkCleanup(r, e, state) ==
    /\ state # "active"
    /\ Rank[e.cleanup] <= Rank[state]
    /\ Replace(r, e, [e EXCEPT !.cleanup = state])

-----------------------------------------------------------------------------
\* Save: Validate, a synced temporary file, rename.
Stop(r) ==
    /\ pc' = [pc EXCEPT ![r] = "idle"]
    /\ mem' = [mem EXCEPT ![r] = Broken]
    /\ grant' = [grant EXCEPT ![r] = Zero]

WriteTarget_InPlace == file' = Broken
WriteTarget == UNCHANGED file

WriteTemporary(r) ==
    /\ pc[r] = "changed"
    /\ Valid(mem[r])
    /\ WriteTarget
    /\ pc' = [pc EXCEPT ![r] = "written"]
    /\ UNCHANGED <<mem, grant, overlaps, campaign>>

\* The campaign learns of the success, unless the run dies just then.
Rename(r) ==
    /\ pc[r] = "written"
    /\ file' = mem[r]
    /\ credit' \in {credit, Plus(credit, grant[r])}
    /\ Stop(r)
    /\ UNCHANGED <<overlaps, requested, made, drive>>

\* Save fails (always, if what is in memory is not valid) or the run dies.
Credited_Anyway(r) == credit' = Plus(credit, grant[r])
Credited(r) == UNCHANGED credit

Quit(r) ==
    /\ pc[r] # "idle"
    /\ Stop(r)
    /\ Credited(r)
    /\ UNCHANGED <<file, overlaps, requested, made, drive>>

-----------------------------------------------------------------------------
Folders == {WorkRoot} \cup {i \in Own : drive[i] # Absent /\ drive[i].kind = "directory"}

\* The campaign: a request uses a reservation; its object is visible, or the
\* upload is ambiguous and only the ID is known.
Create(i, kind, size) ==
    LET cost == IF kind = "file" THEN [files |-> 1, directories |-> 0, payload |-> size]
                                 ELSE [Zero EXCEPT !.directories = 1] IN
    /\ i \in Own \ made
    /\ AtMost(cost, credit)
    /\ credit' = [f \in DOMAIN credit |-> credit[f] - cost[f]]
    /\ requested' = Plus(requested, cost)
    /\ made' = made \cup {i}
    /\ \/ drive' = [drive EXCEPT ![i] = [kind |-> kind, parent |-> WorkRoot,
                                        size |-> IF kind = "file" THEN size ELSE 0]]
       \/ kind = "file" /\ UNCHANGED drive
    /\ UNCHANGED <<file, runs>>

\* An ambiguous upload turns up after all.
Appear(i, size) ==
    /\ i \in made /\ drive[i] = Absent /\ i \notin IdsOf(file.ledger)
    /\ drive' = [drive EXCEPT ![i] = [kind |-> "file", parent |-> WorkRoot, size |-> size]]
    /\ UNCHANGED <<file, runs, credit, requested, made>>

Move(i, parent) ==
    /\ drive[i] # Absent /\ i # parent
    /\ drive' = [drive EXCEPT ![i].parent = parent]
    /\ UNCHANGED <<file, runs, credit, requested, made>>

Delete(e) ==
    /\ e.cleanup = "active"
    /\ drive' = [drive EXCEPT ![e.id] = Absent]
    /\ UNCHANGED <<file, runs, credit, requested, made>>

Tool(r) ==
    \/ \E n \in 1..MaxCount, s \in Size : ReserveFile(r, n, s)
    \/ \E n \in 1..MaxCount : ReserveDirectory(r, n)
    \/ \E i \in made : RecordObject(r, i) \/ RecordUnresolvedUpload(r, i)
    \/ \E p \in Folders, n \in 0..Cardinality(Own) :
          \E entries \in SUBSET Listed(p) : ImportRcloneList(r, p, entries, n)
    \/ \E e \in file.ledger : drive[e.id] # Absent /\ RelocateObject(r, e, drive[e.id].parent)
    \/ \E e \in file.ledger, s \in Cleanup : MarkCleanup(r, e, s)
    \/ WriteTemporary(r) \/ Rename(r) \/ Quit(r)

Campaign ==
    \/ \E i \in Own, k \in Kind, s \in Size : Create(i, k, s)
    \/ \E i \in Own, s \in Size : Appear(i, s)
    \/ \E i \in Own, p \in Folders : Move(i, p)
    \/ \E e \in file.ledger : Delete(e)

Next == (\E r \in Run : Tool(r)) \/ Campaign

Spec == Init /\ [][Next]_vars

-----------------------------------------------------------------------------
(***************************************************************************)
(* Whenever a run or the machine stops, the file on disk is a manifest     *)
(* that Load accepts: Save validates first and replaces the file in one    *)
(* step.  So even two runs that overwrite each other leave no ID in two    *)
(* roles and nothing recorded beyond what is reserved.                     *)
(***************************************************************************)
AlwaysLoadable ==
    /\ file # Broken
    /\ OneRole(file)
    /\ AtMost(Recorded(file), file.usage) /\ AtMost(file.usage, Limits)

(***************************************************************************)
(* Quotas are consumed for good (docs/testing.md): whatever the campaign   *)
(* has requested or may still request without another reservation is in    *)
(* the usage on disk, whenever runs died, as long as no two runs of the    *)
(* tool overlapped.                                                        *)
(***************************************************************************)
RequestsAreAccounted == overlaps = 0 => AtMost(Plus(requested, credit), file.usage)

(***************************************************************************)
(* No listing gives the campaign authority over what others keep in the    *)
(* work root: it never deletes a foreign object.                           *)
(***************************************************************************)
ForeignUntouched == [][\A i \in Foreign : drive'[i] = drive[i]]_vars

(***************************************************************************)
(* The recovery ledger forgets nothing: an object stays recorded, its      *)
(* cleanup only advances, and once it is cleaned its last identity stays;  *)
(* an unresolved upload stays one.  (As long as runs do not overlap.)      *)
(***************************************************************************)
NothingIsForgotten ==
    [][overlaps' = 0 =>
          /\ \A e \in file.ledger : \E f \in file'.ledger :
                /\ f.id = e.id /\ Rank[e.cleanup] <= Rank[f.cleanup]
                /\ e.cleanup # "active" => f.at = e.at
          /\ file.unresolved \subseteq file'.unresolved]_vars
=============================================================================
