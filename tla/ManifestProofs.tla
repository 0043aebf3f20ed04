--------------------------- MODULE ManifestProofs ---------------------------
(***************************************************************************)
(* The manifest on disk always loads, its usage covers what the campaign   *)
(* has requested, no foreign object is deleted and nothing recorded is     *)
(* forgotten: for any number of runs, any objects and any limits.          *)
(*                                                                         *)
(* The argument: what a run has in memory was made from the file by one    *)
(* action, and is written only if it is valid.  So the file is replaced by *)
(* a valid manifest; and while runs do not overlap, it is replaced by one  *)
(* that was made from it, with the reservation of the run on top.          *)
(***************************************************************************)
EXTENDS Manifest, FiniteSetTheorems, TLAPS

\* A run has a manifest in memory, and replaces the file by a valid one.
WritesOnlyValid ==
    \A r \in Run :
        /\ pc[r] # "idle" => mem[r] # Broken
        /\ pc[r] = "written" => Valid(mem[r])

\* No ledger holds a foreign object, so no deletion is about one.
Innocent(m) == IdsOf(m.ledger) \cap Foreign = {}
OwnLedgers == Innocent(file) /\ \A r \in Run : pc[r] # "idle" => Innocent(mem[r])

\* What NothingIsForgotten says of two manifests.
Keeps(e, f) ==
    /\ f.id = e.id /\ Rank[e.cleanup] <= Rank[f.cleanup]
    /\ e.cleanup # "active" => f.at = e.at
Remembers(m, n) ==
    /\ \A e \in m.ledger : \E f \in n.ledger : Keeps(e, f)
    /\ m.unresolved \subseteq n.unresolved

\* While no two runs overlapped, the one under way goes on from the file.
Continues(r) == mem[r].usage = Plus(file.usage, grant[r]) /\ Remembers(file, mem[r])
OneAtATime ==
    overlaps = 0 =>
        /\ \A r, q \in Run : pc[r] # "idle" /\ pc[q] # "idle" => r = q
        /\ \A r \in Run : pc[r] # "idle" => Continues(r)

\* The inductive invariant.
IInv ==
    /\ TypeOK /\ AlwaysLoadable /\ WritesOnlyValid /\ OwnLedgers /\ OneAtATime
    /\ RequestsAreAccounted

-----------------------------------------------------------------------------
(***************************************************************************)
(* Amounts are added and compared field by field.                          *)
(***************************************************************************)
LEMMA AmountSum ==
    ASSUME NEW a \in Amount, NEW b \in Amount
    PROVE  /\ Plus(a, b) \in Amount
           /\ Plus(a, b).files = a.files + b.files
           /\ Plus(a, b).directories = a.directories + b.directories
           /\ Plus(a, b).payload = a.payload + b.payload
BY DEF Amount, Plus

\* One amount is at most another in each of its numbers.
LEMMA AmountOrder ==
    ASSUME NEW a \in Amount, NEW b \in Amount
    PROVE  AtMost(a, b) <=> /\ a.files <= b.files /\ a.directories <= b.directories
                            /\ a.payload <= b.payload
BY DEF Amount, AtMost

\* Amounts with the same numbers are the same.
LEMMA AmountEqual ==
    ASSUME NEW a \in Amount, NEW b \in Amount,
           a.files = b.files, a.directories = b.directories, a.payload = b.payload
    PROVE  a = b
BY DEF Amount

\* Adding nothing changes no amount.
LEMMA NothingMore == Zero \in Amount /\ \A a \in Amount : Plus(a, Zero) = a
<1>1. Zero \in Amount
  BY DEF Zero, Amount
<1>2. ASSUME NEW a \in Amount PROVE Plus(a, Zero) = a
  <2>1. Plus(a, Zero) \in Amount /\ Plus(a, Zero).files = a.files
        /\ Plus(a, Zero).directories = a.directories /\ Plus(a, Zero).payload = a.payload
    BY <1>1, AmountSum DEF Zero, Amount
  <2> QED
    BY <2>1, AmountEqual
<1> QED
  BY <1>1, <1>2

(***************************************************************************)
(* The stages of a cleanup are numbers; a manifest remembers itself.       *)
(***************************************************************************)
LEMMA Ranks == \A s \in Cleanup : Rank[s] \in Nat
BY DEF Rank, Cleanup

\* A manifest remembers all that it records itself.
LEMMA RemembersItself == ASSUME NEW m \in ManifestType PROVE Remembers(m, m)
BY Ranks DEF Remembers, Keeps, ManifestType, Entry

-----------------------------------------------------------------------------
(***************************************************************************)
(* New-Manifest: the sentinels are reserved, nothing is recorded.          *)
(***************************************************************************)
LEMMA InitIInv == Init => IInv
<1> SUFFICES ASSUME Init PROVE IInv
  OBVIOUS
<1>1. Cardinality(Sentinel) \in Nat /\ Cardinality({}) = 0
  <2>1. IsFiniteSet(Sentinel)
    BY ManifestAssumption, FS_Subset, Sentinel \subseteq Id DEF Id
  <2> QED
    BY <2>1, FS_CardinalityType, FS_EmptySet
<1>2. file.usage \in Amount /\ file.usage.files = Cardinality(Sentinel)
      /\ file.usage.directories = 0 /\ file.usage.payload = 0
  BY <1>1 DEF Init, Zero, Amount
<1>3. file \in ManifestType
  BY <1>2 DEF Init, ManifestType
<1>4. TypeOK
  <2>1. drive \in [Own \cup Foreign -> Place \cup {Absent}]
    BY DEF Init, Place, Kind
  <2>2. 0 \in 0..MaxOverlaps
    BY ManifestAssumption
  <2> QED
    BY <1>2, <1>3, <2>1, <2>2, NothingMore DEF Init, TypeOK
<1>5. AlwaysLoadable
  <2>1. OneRole(file)
    BY DEF Init, OneRole, IdsOf
  <2>2. Limits \in Amount /\ Limits.files = MaxFiles
    BY ManifestAssumption DEF Limits, Amount
  <2>3. AtMost(file.usage, Limits)
    BY <1>2, <2>2, AmountOrder, ManifestAssumption DEF Limits
  <2>4. OfKind(file.ledger, "file") = {} /\ OfKind(file.ledger, "directory") = {}
    BY DEF Init, OfKind
  <2>5. Recorded(file).files = Cardinality(Sentinel) /\ Recorded(file).directories = 0
        /\ Recorded(file).payload = 0 /\ Recorded(file) \in Amount
    <3>1. file.unresolved = {}
      BY DEF Init
    <3> QED
      BY <1>1, <2>4, <3>1 DEF Recorded, Amount
  <2>6. AtMost(Recorded(file), file.usage)
    BY <1>1, <1>2, <2>5, AmountOrder
  <2> QED
    BY <1>3, <2>1, <2>3, <2>6, ManifestAssumption DEF AlwaysLoadable
<1>6. WritesOnlyValid /\ OwnLedgers /\ OneAtATime
  BY DEF Init, WritesOnlyValid, OwnLedgers, Innocent, IdsOf, OneAtATime
<1>7. RequestsAreAccounted
  <2>1. Plus(requested, credit) = file.usage
    BY <1>2, NothingMore DEF Init
  <2> QED
    BY <1>2, <2>1, AmountOrder DEF RequestsAreAccounted, Amount
<1> QED
  BY <1>4, <1>5, <1>6, <1>7 DEF IInv

(***************************************************************************)
(* A run loads the file and changes it in memory: whatever the action,     *)
(* what it makes must be innocent, remember the file and reserve exactly   *)
(* what the run will allow.                                                *)
(***************************************************************************)
LEMMA ApplyIInv ==
    ASSUME IInv, NEW r \in Run, NEW after \in ManifestType, NEW allows \in Amount,
           Apply(r, after, allows),
           after.usage = Plus(file.usage, allows), Innocent(after), Remembers(file, after)
    PROVE  IInv'
<1> USE DEF IInv
<1>1. /\ pc[r] = "idle" /\ pc' = [pc EXCEPT ![r] = "changed"]
      /\ mem' = [mem EXCEPT ![r] = after] /\ grant' = [grant EXCEPT ![r] = allows]
      /\ UNCHANGED <<file, credit, requested, made, drive>>
      /\ overlaps' \in {overlaps, overlaps + 1} /\ overlaps' <= MaxOverlaps
      /\ overlaps' = 0 => overlaps = 0 /\ \A q \in Run : pc[q] = "idle"
  BY ManifestAssumption DEF Apply, campaign, TypeOK
<1>2. TypeOK'
  BY <1>1, ManifestAssumption DEF TypeOK
<1>3. AlwaysLoadable' /\ RequestsAreAccounted'
  BY <1>1 DEF AlwaysLoadable, RequestsAreAccounted
<1>4. WritesOnlyValid'
  BY <1>1, ManifestAssumption DEF WritesOnlyValid, TypeOK
<1>5. OwnLedgers'
  BY <1>1 DEF OwnLedgers, Innocent, TypeOK
<1>6. OneAtATime'
  <2> SUFFICES ASSUME overlaps' = 0
               PROVE  /\ \A p, q \in Run : pc'[p] # "idle" /\ pc'[q] # "idle" => p = q
                      /\ \A q \in Run : pc'[q] # "idle" => Continues(q)'
    BY DEF OneAtATime
  <2>1. \A q \in Run : pc'[q] # "idle" => q = r
    BY <1>1 DEF TypeOK
  <2>2. mem'[r] = after /\ grant'[r] = allows
    BY <1>1 DEF TypeOK
  <2>3. Continues(r)'
    BY <1>1, <2>2 DEF Continues, Remembers, Keeps
  <2> QED
    BY <2>1, <2>3
<1> QED
  BY <1>2, <1>3, <1>4, <1>5, <1>6

(***************************************************************************)
(* ReserveFile, ReserveDirectory: only the usage changes.                  *)
(***************************************************************************)
LEMMA ReserveIInv ==
    ASSUME IInv, NEW r \in Run, NEW amount \in Amount,
           Apply(r, [file EXCEPT !.usage = Plus(@, amount)], amount)
    PROVE  IInv'
<1> DEFINE after == [file EXCEPT !.usage = Plus(@, amount)]
<1>1. file \in ManifestType /\ file.usage \in Amount
  BY DEF IInv, TypeOK, AlwaysLoadable, ManifestType
<1>2. Plus(file.usage, amount) \in Amount
  BY <1>1, AmountSum
<1>3. after \in ManifestType /\ after.usage = Plus(file.usage, amount)
      /\ after.ledger = file.ledger /\ after.unresolved = file.unresolved
  BY <1>1, <1>2 DEF ManifestType
<1>4. Innocent(after)
  BY <1>3 DEF IInv, OwnLedgers, Innocent
<1>5. Remembers(file, after)
  BY <1>1, <1>3, RemembersItself DEF Remembers
<1> HIDE DEF after
<1> QED
  BY <1>3, <1>4, <1>5, ApplyIInv DEF after

\* reserve-file: an amount of files and their payload.
LEMMA ReserveFileIInv ==
    ASSUME IInv, NEW r \in Run, NEW n \in 1..MaxCount, NEW s \in Size, ReserveFile(r, n, s)
    PROVE  IInv'
<1> DEFINE amount == [files |-> n, directories |-> 0, payload |-> n * s]
<1>1. n \in Nat /\ s \in Nat
  BY ManifestAssumption
<1>2. n * s \in Nat
  BY <1>1
<1>3. amount \in Amount
  BY <1>1, <1>2 DEF Amount
<1> QED
  BY <1>3, ReserveIInv DEF ReserveFile

\* reserve-directory: an amount of directories.
LEMMA ReserveDirectoryIInv ==
    ASSUME IInv, NEW r \in Run, NEW n \in 1..MaxCount, ReserveDirectory(r, n)
    PROVE  IInv'
<1>1. [Zero EXCEPT !.directories = n] \in Amount
  BY ManifestAssumption DEF Zero, Amount
<1> QED
  BY <1>1, ReserveIInv DEF ReserveDirectory

(***************************************************************************)
(* The other actions reserve nothing: the lemma for them.                  *)
(***************************************************************************)
LEMMA RecordIInv ==
    ASSUME IInv, NEW r \in Run, NEW ledger \in SUBSET Entry, NEW unresolved \in SUBSET Id,
           NEW after, after = [usage |-> file.usage, ledger |-> ledger, unresolved |-> unresolved],
           Apply(r, after, Zero),
           IdsOf(ledger) \cap Foreign = {},
           \A e \in file.ledger : \E f \in ledger : Keeps(e, f),
           file.unresolved \subseteq unresolved
    PROVE  IInv'
<1>1. file \in ManifestType /\ file.usage \in Amount
  BY DEF IInv, TypeOK, AlwaysLoadable, ManifestType
<1>2. after \in ManifestType /\ after.usage = file.usage /\ after.ledger = ledger
      /\ after.unresolved = unresolved
  BY <1>1 DEF ManifestType
<1>3. after.usage = Plus(file.usage, Zero)
  BY <1>1, <1>2, NothingMore
<1>4. Innocent(after)
  BY <1>2 DEF Innocent
<1>5. Remembers(file, after)
  BY <1>2 DEF Remembers
<1> QED
  BY <1>2, <1>3, <1>4, <1>5, ApplyIInv, NothingMore

(***************************************************************************)
(* RecordObject: an object that the provider has given to the campaign.    *)
(***************************************************************************)
LEMMA RecordObjectIInv ==
    ASSUME IInv, NEW r \in Run, NEW i \in made, RecordObject(r, i)
    PROVE  IInv'
<1> DEFINE ledger == file.ledger \cup {Active(i, drive[i])}
<1>1. file \in ManifestType
  BY DEF IInv, TypeOK, AlwaysLoadable
<1>2. i \in Own /\ drive[i] \in Place
  BY DEF IInv, TypeOK, RecordObject
<1>3. Active(i, drive[i]) \in Entry /\ Active(i, drive[i]).id = i
  BY <1>2 DEF Active, Entry, Id, Cleanup
<1>4. ledger \in SUBSET Entry
  BY <1>1, <1>3 DEF ManifestType
<1>5. IdsOf(ledger) \cap Foreign = {}
  BY <1>2, <1>3, ManifestAssumption DEF IInv, OwnLedgers, Innocent, IdsOf
<1>6. \A e \in file.ledger : \E f \in ledger : Keeps(e, f)
  BY <1>1, RemembersItself DEF Remembers
<1>7. Apply(r, [usage |-> file.usage, ledger |-> ledger, unresolved |-> file.unresolved], Zero)
  BY <1>1 DEF RecordObject, ManifestType
<1>8. file.unresolved \in SUBSET Id
  BY <1>1 DEF ManifestType
<1> QED
  BY <1>4, <1>5, <1>6, <1>7, <1>8, RecordIInv

(***************************************************************************)
(* RecordUnresolvedUpload: the ID of a request that may have succeeded.    *)
(***************************************************************************)
LEMMA RecordUnresolvedIInv ==
    ASSUME IInv, NEW r \in Run, NEW i \in made, RecordUnresolvedUpload(r, i)
    PROVE  IInv'
<1> DEFINE unresolved == file.unresolved \cup {i}
<1>1. file \in ManifestType /\ i \in Id
  BY DEF IInv, TypeOK, AlwaysLoadable, Id
<1>2. file.ledger \in SUBSET Entry /\ unresolved \in SUBSET Id
  BY <1>1 DEF ManifestType
<1>3. IdsOf(file.ledger) \cap Foreign = {}
  BY DEF IInv, OwnLedgers, Innocent
<1>4. \A e \in file.ledger : \E f \in file.ledger : Keeps(e, f)
  BY <1>1, RemembersItself DEF Remembers
<1>5. Apply(r, [usage |-> file.usage, ledger |-> file.ledger, unresolved |-> unresolved], Zero)
  BY <1>1 DEF RecordUnresolvedUpload, ManifestType
<1> QED
  BY <1>2, <1>3, <1>4, <1>5, RecordIInv

(***************************************************************************)
(* ImportRcloneList: what has the prefix is the campaign's.                *)
(***************************************************************************)
LEMMA ImportIInv ==
    ASSUME IInv, NEW r \in Run, NEW p \in Folders, NEW entries \in SUBSET Listed(p),
           NEW n \in 0..Cardinality(Own), ImportRcloneList(r, p, entries, n)
    PROVE  IInv'
<1> DEFINE new == {i \in Candidates(entries) : Unknown(i)}
           ledger == file.ledger \cup {Active(i, drive[i]) : i \in new}
<1>1. file \in ManifestType
  BY DEF IInv, TypeOK, AlwaysLoadable
<1>2. \A i \in new : i \in Own /\ drive[i] \in Place
  BY ManifestAssumption DEF IInv, TypeOK, Candidates, Listed
<1>3. \A i \in new : Active(i, drive[i]) \in Entry /\ Active(i, drive[i]).id = i
  BY <1>2 DEF Active, Entry, Id, Cleanup
<1> HIDE DEF new
<1>4. ledger \in SUBSET Entry
  BY <1>1, <1>3 DEF ManifestType
<1>5. IdsOf(ledger) \cap Foreign = {}
  <2> SUFFICES ASSUME NEW e \in ledger PROVE e.id \notin Foreign
    BY DEF IdsOf
  <2>1. CASE e \in file.ledger
    BY <2>1 DEF IInv, OwnLedgers, Innocent, IdsOf
  <2>2. CASE e \notin file.ledger
    BY <2>2, <1>2, <1>3, ManifestAssumption
  <2> QED
    BY <2>1, <2>2
<1>6. \A e \in file.ledger : \E f \in ledger : Keeps(e, f)
  BY <1>1, RemembersItself DEF Remembers
<1>7. Apply(r, [usage |-> file.usage, ledger |-> ledger, unresolved |-> file.unresolved], Zero)
  BY <1>1 DEF ImportRcloneList, ManifestType, new
<1>8. file.unresolved \in SUBSET Id
  BY <1>1 DEF ManifestType
<1> QED
  BY <1>4, <1>5, <1>6, <1>7, <1>8, RecordIInv

(***************************************************************************)
(* RelocateObject and MarkCleanup: an entry is replaced by one that keeps  *)
(* what must not be forgotten.                                             *)
(***************************************************************************)
LEMMA ReplaceIInv ==
    ASSUME IInv, NEW r \in Run, NEW e \in file.ledger, NEW e2 \in Entry, Keeps(e, e2),
           Replace(r, e, e2)
    PROVE  IInv'
<1> DEFINE ledger == (file.ledger \ {e}) \cup {e2}
<1>1. file \in ManifestType
  BY DEF IInv, TypeOK, AlwaysLoadable
<1>2. ledger \in SUBSET Entry /\ file.unresolved \in SUBSET Id
  BY <1>1 DEF ManifestType
<1>3. IdsOf(ledger) \cap Foreign = {}
  BY DEF IInv, OwnLedgers, Innocent, IdsOf, Keeps
<1>4. \A f \in file.ledger : \E g \in ledger : Keeps(f, g)
  <2> SUFFICES ASSUME NEW f \in file.ledger, f # e PROVE Keeps(f, f)
    OBVIOUS
  <2> QED
    BY <1>1, Ranks DEF Keeps, ManifestType, Entry
<1>5. Apply(r, [usage |-> file.usage, ledger |-> ledger, unresolved |-> file.unresolved], Zero)
  BY <1>1 DEF Replace, ManifestType
<1> QED
  BY <1>2, <1>3, <1>4, <1>5, RecordIInv

\* Relocating an entry keeps it in the ledger under its ID.
LEMMA RelocateIInv ==
    ASSUME IInv, NEW r \in Run, NEW e \in file.ledger, drive[e.id] # Absent,
           RelocateObject(r, e, drive[e.id].parent)
    PROVE  IInv'
<1> DEFINE parent == drive[e.id].parent
           e2 == [e EXCEPT !.at.parent = parent]
<1>1. e \in Entry /\ e.at \in Place
  BY DEF IInv, TypeOK, AlwaysLoadable, ManifestType, Entry
<1>2. e.id \in Own \cup Foreign
  BY <1>1 DEF IInv, AlwaysLoadable, OneRole, IdsOf, Entry, Id
<1>3. drive[e.id] \in Place
  BY <1>2 DEF IInv, TypeOK
<1>4. parent \in Own \cup {WorkRoot}
  BY <1>3 DEF Place
<1>5. [e.at EXCEPT !.parent = parent] \in Place
  BY <1>1, <1>4 DEF Place
<1>6. e2 \in Entry /\ e2.id = e.id /\ e2.cleanup = e.cleanup
  BY <1>1, <1>5 DEF Entry
<1>7. Keeps(e, e2)
  BY <1>1, <1>6, Ranks DEF RelocateObject, Keeps, Entry
<1>8. Replace(r, e, e2)
  BY DEF RelocateObject
<1> HIDE DEF e2
<1> QED
  BY <1>6, <1>7, <1>8, ReplaceIInv

\* Marking an entry for the cleanup keeps it in the ledger under its ID.
LEMMA MarkIInv ==
    ASSUME IInv, NEW r \in Run, NEW e \in file.ledger, NEW state \in Cleanup,
           MarkCleanup(r, e, state)
    PROVE  IInv'
<1> DEFINE e2 == [e EXCEPT !.cleanup = state]
<1>1. e \in Entry
  BY DEF IInv, TypeOK, AlwaysLoadable, ManifestType
<1>2. e2 \in Entry /\ e2.id = e.id /\ e2.at = e.at /\ e2.cleanup = state
  BY <1>1 DEF Entry
<1>3. Keeps(e, e2)
  BY <1>2 DEF MarkCleanup, Keeps
<1>4. Replace(r, e, e2)
  BY DEF MarkCleanup
<1> HIDE DEF e2
<1> QED
  BY <1>2, <1>3, <1>4, ReplaceIInv

-----------------------------------------------------------------------------
(***************************************************************************)
(* Save: the target is not touched until the temporary file replaces it.   *)
(***************************************************************************)
LEMMA WriteTemporaryIInv ==
    ASSUME IInv, NEW r \in Run, WriteTemporary(r)
    PROVE  IInv'
<1> USE DEF IInv
<1>1. /\ pc[r] = "changed" /\ pc' = [pc EXCEPT ![r] = "written"] /\ Valid(mem[r])
      /\ UNCHANGED <<file, mem, grant, credit, requested, made, drive, overlaps>>
  BY DEF WriteTemporary, WriteTarget, campaign
<1>2. TypeOK' /\ AlwaysLoadable' /\ RequestsAreAccounted'
  BY <1>1 DEF TypeOK, AlwaysLoadable, RequestsAreAccounted
<1>3. Valid(mem[r])' /\ \A q \in Run : Valid(mem[q]) => Valid(mem[q])'
  BY <1>1 DEF Valid, OneRole, Recorded, AtMost, IdsOf, OfKind
<1>4. WritesOnlyValid'
  BY <1>1, <1>3 DEF WritesOnlyValid, TypeOK
<1>5. OwnLedgers'
  BY <1>1 DEF OwnLedgers, Innocent, TypeOK
<1>6. OneAtATime'
  BY <1>1 DEF OneAtATime, Continues, Remembers, Keeps, TypeOK
<1> QED
  BY <1>2, <1>4, <1>5, <1>6

\* Save renames the validated file into place: what was reserved is on disk
\* now.
LEMMA RenameIInv ==
    ASSUME IInv, NEW r \in Run, Rename(r)
    PROVE  IInv'
<1> USE DEF IInv
<1>1. /\ pc[r] = "written" /\ pc' = [pc EXCEPT ![r] = "idle"]
      /\ mem' = [mem EXCEPT ![r] = Broken] /\ grant' = [grant EXCEPT ![r] = Zero]
      /\ file' = mem[r] /\ credit' \in {credit, Plus(credit, grant[r])}
      /\ UNCHANGED <<requested, made, drive, overlaps>>
  BY DEF Rename, Stop
<1>2. file' # Broken /\ file' \in ManifestType /\ Valid(file')
  BY <1>1 DEF WritesOnlyValid, TypeOK
<1>3. TypeOK'
  BY <1>1, <1>2, NothingMore, AmountSum DEF TypeOK
<1>4. AlwaysLoadable'
  BY <1>2 DEF AlwaysLoadable, Valid
<1>5. WritesOnlyValid'
  <2> SUFFICES ASSUME NEW q \in Run, pc'[q] # "idle"
               PROVE  mem'[q] # Broken /\ (pc'[q] = "written" => Valid(mem'[q]))
    BY DEF WritesOnlyValid
  <2>1. mem'[q] = mem[q] /\ pc'[q] = pc[q]
    BY <1>1 DEF TypeOK
  <2> QED
    BY <2>1 DEF WritesOnlyValid
<1>6. OwnLedgers'
  BY <1>1 DEF OwnLedgers, Innocent, TypeOK
<1>7. OneAtATime'
  BY <1>1 DEF OneAtATime, TypeOK
<1>8. RequestsAreAccounted'
  <2> SUFFICES ASSUME overlaps = 0 PROVE AtMost(Plus(requested, credit'), mem[r].usage)
    BY <1>1 DEF RequestsAreAccounted
  <2>1. mem[r].usage = Plus(file.usage, grant[r])
    BY <1>1 DEF OneAtATime, Continues
  <2>2. file.usage \in Amount /\ mem[r].usage \in Amount /\ grant[r] \in Amount
        /\ credit \in Amount /\ requested \in Amount
    BY <1>1, <1>2 DEF TypeOK, AlwaysLoadable, ManifestType
  <2>3. AtMost(Plus(requested, credit), file.usage)
    BY DEF RequestsAreAccounted
  <2>4. CASE credit' = credit
    BY <2>1, <2>2, <2>3, <2>4, AmountSum, AmountOrder DEF Amount
  <2>5. CASE credit' = Plus(credit, grant[r])
    BY <2>1, <2>2, <2>3, <2>5, AmountSum, AmountOrder DEF Amount
  <2> QED
    BY <1>1, <2>4, <2>5
<1> QED
  BY <1>3, <1>4, <1>5, <1>6, <1>7, <1>8

\* A run that stops, or dies, loses what it has in memory and leaves the file
\* alone.
LEMMA QuitIInv ==
    ASSUME IInv, NEW r \in Run, Quit(r)
    PROVE  IInv'
<1> USE DEF IInv
<1>1. /\ pc' = [pc EXCEPT ![r] = "idle"] /\ mem' = [mem EXCEPT ![r] = Broken]
      /\ grant' = [grant EXCEPT ![r] = Zero]
      /\ UNCHANGED <<file, credit, requested, made, drive, overlaps>>
  BY DEF Quit, Stop, Credited
<1>2. TypeOK' /\ AlwaysLoadable' /\ RequestsAreAccounted'
  BY <1>1, NothingMore DEF TypeOK, AlwaysLoadable, RequestsAreAccounted
<1>3. \A q \in Run : pc'[q] # "idle" => pc'[q] = pc[q] /\ mem'[q] = mem[q] /\ grant'[q] = grant[q]
  BY <1>1 DEF TypeOK
<1>4. WritesOnlyValid' /\ OwnLedgers'
  BY <1>1, <1>3 DEF WritesOnlyValid, OwnLedgers, Innocent, Valid
<1>5. OneAtATime'
  BY <1>1, <1>3 DEF OneAtATime, Continues, Remembers, Keeps
<1> QED
  BY <1>2, <1>4, <1>5

-----------------------------------------------------------------------------
(***************************************************************************)
(* What the campaign does leaves the file and the runs alone; it must keep *)
(* the types and stay within its reservations.                             *)
(***************************************************************************)
LEMMA CampaignIInv ==
    ASSUME IInv, UNCHANGED <<file, mem, pc, grant, overlaps>>, TypeOK', RequestsAreAccounted'
    PROVE  IInv'
<1>1. WritesOnlyValid'
  BY DEF IInv, WritesOnlyValid, Valid, OneRole, Recorded, AtMost, IdsOf, OfKind
<1>2. AlwaysLoadable' /\ OwnLedgers' /\ OneAtATime'
  BY DEF IInv, AlwaysLoadable, OwnLedgers, Innocent, OneAtATime, Continues, Remembers, Keeps
<1> QED
  BY <1>1, <1>2 DEF IInv

(***************************************************************************)
(* A request for an object is paid for by a reservation.                   *)
(***************************************************************************)
LEMMA CreateIInv ==
    ASSUME IInv, NEW i \in Own, NEW k \in Kind, NEW s \in Size, Create(i, k, s)
    PROVE  IInv'
<1> USE DEF IInv
<1> DEFINE cost == IF k = "file" THEN [files |-> 1, directories |-> 0, payload |-> s]
                                 ELSE [Zero EXCEPT !.directories = 1]
<1>1. cost \in Amount
  <2>1. s \in Nat
    BY ManifestAssumption
  <2>2. [files |-> 1, directories |-> 0, payload |-> s] \in Amount
    BY <2>1 DEF Amount
  <2>3. [Zero EXCEPT !.directories = 1] \in Amount
    BY DEF Zero, Amount
  <2> QED
    BY <2>2, <2>3
<1>2. /\ AtMost(cost, credit) /\ credit' = [f \in DOMAIN credit |-> credit[f] - cost[f]]
      /\ requested' = Plus(requested, cost) /\ made' = made \cup {i}
      /\ UNCHANGED <<file, mem, pc, grant, overlaps>>
  BY DEF Create, runs
<1> HIDE DEF cost
<1>3. credit \in Amount /\ requested \in Amount /\ file.usage \in Amount
  BY DEF TypeOK, AlwaysLoadable, ManifestType
<1>4. /\ credit' \in Amount /\ credit'.files = credit.files - cost.files
      /\ credit'.directories = credit.directories - cost.directories
      /\ credit'.payload = credit.payload - cost.payload
  BY <1>1, <1>2, <1>3, AmountOrder DEF Amount
<1>5. requested' \in Amount
  BY <1>1, <1>2, <1>3, AmountSum
<1>6. drive' \in [Own \cup Foreign -> Place \cup {Absent}]
  <2>1. [kind |-> k, parent |-> WorkRoot, size |-> IF k = "file" THEN s ELSE 0] \in Place
    BY DEF Place
  <2> QED
    BY <2>1 DEF Create, TypeOK
<1>7. TypeOK'
  BY <1>2, <1>4, <1>5, <1>6 DEF TypeOK
<1>8. Plus(requested', credit') = Plus(requested, credit)
  <2>1. Plus(requested', credit') \in Amount /\ Plus(requested, credit) \in Amount
    BY <1>3, <1>4, <1>5, AmountSum
  <2>2. /\ Plus(requested', credit').files = Plus(requested, credit).files
        /\ Plus(requested', credit').directories = Plus(requested, credit).directories
        /\ Plus(requested', credit').payload = Plus(requested, credit).payload
    BY <1>1, <1>2, <1>3, <1>4, <1>5, AmountSum DEF Amount
  <2> QED
    BY <2>1, <2>2, AmountEqual
<1>9. RequestsAreAccounted'
  BY <1>2, <1>8 DEF RequestsAreAccounted
<1> QED
  BY <1>2, <1>7, <1>9, CampaignIInv

(***************************************************************************)
(* Objects turn up, move and are deleted.                                  *)
(***************************************************************************)
LEMMA DriveIInv ==
    ASSUME IInv, UNCHANGED <<file, runs, credit, requested, made>>,
           drive' \in [Own \cup Foreign -> Place \cup {Absent}]
    PROVE  IInv'
BY CampaignIInv DEF IInv, runs, TypeOK, RequestsAreAccounted

\* Objects of the campaign appear late, are moved and are deleted on the drive.
LEMMA ChangesIInv ==
    ASSUME IInv,
           \/ \E i \in Own, s \in Size : Appear(i, s)
           \/ \E i \in Own, p \in Folders : Move(i, p)
           \/ \E e \in file.ledger : Delete(e)
    PROVE  IInv'
<1>1. drive \in [Own \cup Foreign -> Place \cup {Absent}]
  BY DEF IInv, TypeOK
<1>2. ASSUME NEW i \in Own, NEW s \in Size, Appear(i, s) PROVE IInv'
  <2>1. [kind |-> "file", parent |-> WorkRoot, size |-> s] \in Place
    BY DEF Place, Kind
  <2>2. drive' \in [Own \cup Foreign -> Place \cup {Absent}]
    BY <1>1, <1>2, <2>1 DEF Appear
  <2> QED
    BY <1>2, <2>2, DriveIInv DEF Appear
<1>3. ASSUME NEW i \in Own, NEW p \in Folders, Move(i, p) PROVE IInv'
  <2>1. drive[i] \in Place
    BY <1>1, <1>3 DEF Move
  <2>2. [drive[i] EXCEPT !.parent = p] \in Place
    BY <2>1 DEF Place, Folders
  <2>3. drive' = [drive EXCEPT ![i] = [drive[i] EXCEPT !.parent = p]]
    BY <1>1, <1>3 DEF Move
  <2>4. drive' \in [Own \cup Foreign -> Place \cup {Absent}]
    BY <1>1, <2>2, <2>3
  <2> QED
    BY <1>3, <2>4, DriveIInv DEF Move
<1>4. ASSUME NEW e \in file.ledger, Delete(e) PROVE IInv'
  BY <1>1, <1>4, DriveIInv DEF Delete
<1> QED
  BY <1>2, <1>3, <1>4

-----------------------------------------------------------------------------
\* Every step of a run of the tool keeps the invariant.
LEMMA ToolIInv == ASSUME IInv, NEW r \in Run, Tool(r) PROVE IInv'
BY ReserveFileIInv, ReserveDirectoryIInv, RecordObjectIInv, RecordUnresolvedIInv, ImportIInv,
   RelocateIInv, MarkIInv, WriteTemporaryIInv, RenameIInv, QuitIInv DEF Tool

(***************************************************************************)
(* Every state of the tool and the campaign satisfies IInv: it is          *)
(* inductive.                                                              *)
(***************************************************************************)
THEOREM Inductive == Spec => []IInv
<1>1. IInv /\ [Next]_vars => IInv'
  <2> SUFFICES ASSUME IInv, [Next]_vars PROVE IInv'
    OBVIOUS
  <2>1. ASSUME NEW r \in Run, Tool(r) PROVE IInv'
    BY <2>1, ToolIInv
  <2>2. CASE Campaign
    BY <2>2, CreateIInv, ChangesIInv DEF Campaign
  <2>3. CASE UNCHANGED vars
    BY <2>3, DriveIInv DEF vars, runs, campaign, IInv, TypeOK
  <2> QED
    BY <2>1, <2>2, <2>3 DEF Next
<1> QED
  BY <1>1, InitIInv, PTL DEF Spec

-----------------------------------------------------------------------------
(***************************************************************************)
(* The state of the file, the runs and the campaign is well-typed; in      *)
(* particular nothing is asked for that was not reserved.                  *)
(***************************************************************************)
THEOREM ManifestTyped == Spec => []TypeOK
BY Inductive, PTL DEF IInv

(***************************************************************************)
(* Wherever a run stops, and although runs overwrite each other's file,    *)
(* the file is a manifest that Load accepts.                               *)
(***************************************************************************)
THEOREM FileLoads == Spec => []AlwaysLoadable
BY Inductive, PTL DEF IInv

(***************************************************************************)
(* While runs do not overlap, the usage on disk covers all requests of the *)
(* campaign and those that it may still make, wherever runs died.          *)
(***************************************************************************)
THEOREM Accounted == Spec => []RequestsAreAccounted
BY Inductive, PTL DEF IInv

(***************************************************************************)
(* No deletion is about a foreign object: no ledger holds one, on disk or  *)
(* in memory, since imports take only names with the campaign's prefix.    *)
(***************************************************************************)
THEOREM ForeignSafe == Spec => ForeignUntouched
<1>1. ASSUME IInv, [Next]_vars, NEW i \in Foreign PROVE drive'[i] = drive[i]
  <2>1. drive \in [Own \cup Foreign -> Place \cup {Absent}] /\ i \notin Own
    BY <1>1, ManifestAssumption DEF IInv, TypeOK
  <2>2. ASSUME NEW r \in Run, Tool(r) PROVE UNCHANGED drive
    BY <2>2 DEF Tool, ReserveFile, ReserveDirectory, RecordObject, RecordUnresolvedUpload,
                ImportRcloneList, RelocateObject, MarkCleanup, Replace, Apply, campaign,
                WriteTemporary, Rename, Quit
  <2>3. ASSUME NEW e \in file.ledger, Delete(e) PROVE drive'[i] = drive[i]
    BY <1>1, <2>1, <2>3 DEF Delete, IInv, OwnLedgers, Innocent, IdsOf
  <2>4. CASE \/ \E j \in Own, k \in Kind, s \in Size : Create(j, k, s)
             \/ \E j \in Own, s \in Size : Appear(j, s)
             \/ \E j \in Own, p \in Folders : Move(j, p)
    BY <2>1, <2>4 DEF Create, Appear, Move
  <2> QED
    BY <1>1, <2>2, <2>3, <2>4 DEF Next, Campaign, vars, campaign
<1>2. IInv /\ [Next]_vars => [\A i \in Foreign : drive'[i] = drive[i]]_vars
  BY <1>1
<1> QED
  BY <1>2, Inductive, PTL DEF Spec, ForeignUntouched

(***************************************************************************)
(* While runs do not overlap, the file is only replaced by a manifest that *)
(* was made from it, so nothing that was recorded is forgotten.            *)
(***************************************************************************)
THEOREM NothingForgotten == Spec => NothingIsForgotten
<1>1. ASSUME IInv, [Next]_vars, overlaps' = 0 PROVE Remembers(file, file')
  <2>1. ASSUME NEW r \in Run, Rename(r) PROVE Remembers(file, file')
    <3>1. overlaps = 0 /\ pc[r] = "written" /\ file' = mem[r]
      BY <1>1, <2>1 DEF Rename
    <3>2. Remembers(file, mem[r])
      BY <1>1, <3>1 DEF IInv, OneAtATime, Continues
    <3> QED
      BY <3>1, <3>2 DEF Remembers
  <2>2. ASSUME NEW r \in Run, Tool(r), ~Rename(r) PROVE UNCHANGED file
    BY <2>2 DEF Tool, ReserveFile, ReserveDirectory, RecordObject, RecordUnresolvedUpload,
                ImportRcloneList, RelocateObject, MarkCleanup, Replace, Apply, WriteTemporary,
                WriteTarget, Quit
  <2>3. ASSUME Campaign \/ UNCHANGED vars PROVE UNCHANGED file
    BY <2>3 DEF Campaign, Create, Appear, Move, Delete, vars
  <2>4. Remembers(file, file)
    BY <1>1, RemembersItself DEF IInv, TypeOK, AlwaysLoadable
  <2>5. UNCHANGED file => Remembers(file, file')
    <3> SUFFICES ASSUME file' = file PROVE Remembers(file, file')
      OBVIOUS
    <3>1. file'.ledger = file.ledger /\ file'.unresolved = file.unresolved
      OBVIOUS
    <3> QED
      BY <2>4, <3>1 DEF Remembers, Keeps
  <2> QED
    BY <1>1, <2>1, <2>2, <2>3, <2>5 DEF Next
<1>2. IInv /\ [Next]_vars =>
        [overlaps' = 0 =>
          /\ \A e \in file.ledger : \E f \in file'.ledger :
                /\ f.id = e.id /\ Rank[e.cleanup] <= Rank[f.cleanup]
                /\ e.cleanup # "active" => f.at = e.at
          /\ file.unresolved \subseteq file'.unresolved]_vars
  BY <1>1 DEF Remembers, Keeps
<1> QED
  BY <1>2, Inductive, PTL DEF Spec, NothingIsForgotten
=============================================================================
