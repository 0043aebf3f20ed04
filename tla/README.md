# Formal models of the 123Pan backend for rclone

This directory holds TLA+ specifications of the rclone backend for 123Pan
(`src/backend/123pan`), their TLC model-checking configurations and TLAPS
proofs. The backend maps rclone's file operations to a web API whose mutating
requests are neither atomic nor idempotent, and whose responses can be lost. Its
core logic is therefore a set of small transactions that coordinate by locks,
listings and object IDs. That logic is what is specified here, with the manifest
that keeps the backend's live tests within their limits (`src/internal/livetest`).

Parsing, checking and proving, from this directory:

    tlasany UpdateTransaction.tla
    tlc -workers 2 -config Update.cfg MCUpdateTransaction.tla
    tlapm UpdateProofs.tla

## The system

| Component | State | Operations | Hard because of | What makes it correct |
| --- | --- | --- | --- | --- |
| Account write locks (`update.go`) | map key -> reference-counted mutex, one map per account UID | `lock(keys...)` and the function it returns | entries deleted while others wait, circles of waiters | exclusion per key, no circular waiting, exact reference counts |
| Put and Update (`update.go`, `123pan.go`) | names of old object, staging object and backup on the drive | upload, backup, promote, verify, trash; `rollbackUpdate` | partial failure, lost and late requests, crashes | content is never lost, results are truthful, leftovers are reported |
| Move and DirMove (`mutations.go`) | parent and name of the object | hide, move, settle, and their undoing | two requests that are not atomic, opposite moves | exclusive success, truthful errors, nothing hidden |
| Server-side Copy (`copy.go`) | staging directory, task, copy, backup | create stage, start, wait, inspect, move out, promote, clean up | late tasks, faulty copies, other devices | source preserved, old target replaced only by a verified copy |
| Namespace (`mutations.go`, `listing.go`) | directories, rclone's dircache | Mkdir, Put, Remove, Rmdir, DirMove, List; path verification | stale IDs, races of directory operations | no write through a stale path, no removal of a directory in use |
| API client and login (`client.go`, `auth_challenge.go`) | token, login in flight | call, retry, login, Disconnect | many calls rejected at once, repetitions | one login per expired token, no replay of writes, no storm |
| Upload (`upload.go`, `multipart.go`) | batches, presigned URLs, workers | reserve, reuse, sign, put parts, refresh, complete, verify | workers failing, expiring URLs, ambiguous completion | complete only after every part; no orphans; returns |
| Listing (`listing.go`) | cursor, total, items | paged list with restart | a directory that changes between pages | an exact directory or an error |
| Endpoint gate (`client.go`) | last slot per endpoint | wait | concurrent reservations, callers that give up, late timers | never ahead of the configured rate |
| Configuration and reconnect (`config.go`, `123pan.go`) | saved token, token in memory | `config reconnect`, NewFs | processes that share a configuration and die | reconnect saves proven tokens only |
| Download (`download.go`) | attempt, response, bytes left | resolve URL, open range, read | expired links, wrong ranges, bodies that break off or go on | a clean end only after exactly the requested bytes |
| Offline tasks (`commands.go`) | page, total, IDs seen | add, status, delete | lost responses, tasks that come and go between pages | deletion confirmed by a full listing |
| Live-test manifest (`internal/livetest`, `tools/livemanifest`) | usage, ledger, unresolved uploads | reserve, record, import, relocate, mark; load and save | load-change-save by runs that die or overlap | quotas never given back, only the campaign's objects cleaned, nothing forgotten |

The components meet in these places. Every mutating handler runs inside the
account locks, keyed by the ID of the parent directory and by the path. Every
handler sends its requests through the API client, mutations through
`doNonIdempotent`. Every handler decides what happened by listing a directory,
so failing listings and late effects are the interesting faults. Put, Update and
Copy rely on `uploadNew`, `moveItem` and the listing. Paths become IDs through
rclone's dircache, which may be out of date; `verifyAbsoluteDirectoryPathID` is
the protection against that. Every request passes the endpoint gate. The manifest
meets the backend only in the drive that both see.

`PROJECT.json` lists all components, and the places where each can go wrong in
ways a test hardly reaches (`hazards`).

## Modules

| Module | Models | Builds on |
| --- | --- | --- |
| `AccountLocks` | abstract: keys taken all at once, exclusively | |
| `KeyedLocks` | `keyedLocks`; implements `AccountLocks` | |
| `Drive` | external: objects, places, requests that may be lost or late | |
| `LockedCalls` | what all mutating calls share: locks, steps, returning, dying | `Drive`, `AccountLocks` |
| `LockedCallsProofs` | lemmas about `LockedCalls` and `Drive` | `LockedCalls` |
| `UpdateTransaction` | Put and Update | `LockedCalls` |
| `UpdateProofs` | proofs about `UpdateTransaction` | `UpdateTransaction`, `LockedCallsProofs` |
| `MoveTransaction` | Move, and DirMove's use of `moveItem` | `LockedCalls` |
| `MoveProofs` | proofs about `MoveTransaction` | `MoveTransaction`, `LockedCallsProofs` |
| `CopyTransaction` | server-side Copy | `LockedCalls` |
| `CopyProofs` | proofs about `CopyTransaction` | `CopyTransaction`, `LockedCallsProofs` |
| `Namespace` | path lookups, dircache, CreateDir, Put, Remove, Rmdir, DirMove, List | `LockedCalls` |
| `NamespaceProofs` | proofs about `Namespace` | `Namespace`, `LockedCallsProofs` |
| `UploadPromise` | abstract: what Put and Update rely on | |
| `UploadNew` | `uploadNew`; implements `UploadPromise` | |
| `UploadParts` | part count, batches, offsets and part sizes of `uploadPresigned` | |
| `Listing` | `listAll` | |
| `Download` | `Object.Open`, `exactReadCloser` | |
| `OfflineTasks` | the offline commands and `listOfflineTasks` | |
| `TransferProofs` | proofs about `UploadNew`, `UploadParts`, `Listing`, `OfflineTasks` and `Download` | `MCUploadNew`, `MCReads` |
| `Session` | token, retries, login and Disconnect | |
| `EndpointGate` | `endpointGate.wait` | |
| `Reconnect` | `reconnectAuthentication`, NewFs, the saved token | |
| `ClientProofs` | proofs about `Session`, `EndpointGate`, `Reconnect` and `KeyedLocks` | `MCClient`, `MCKeyedLocks` |
| `Manifest` | the live-test manifest, its tool and the campaign around it | |
| `ManifestProofs` | proofs about `Manifest` | `Manifest` |
| `MC*` | model values and bounds for TLC | |
| `MCClient` | one of `Session`, `EndpointGate`, `Reconnect` | these |
| `MCReads` | one of `Listing`, `OfflineTasks`, `Download` | these |
| `MCUploadNew` | one of `UploadNew`, `UploadParts` | these |

A definition `X_Suffix` next to `X` is a deliberate mistake in `X` (a dropped
guard, a swapped order). No specification uses it; replacing `X` by it shows
that the corresponding property can fail.

`MCKeyedLocks` names `KeyedLocks` `K`. The last three MC modules check small specifications that share no state side by
side: the first state chooses the one that runs, and the others rest. That is the
sum of their behaviours, not the product, and no property of one can hold or fail
because of another. They declare the constants of these specifications and leave
the values to the configurations, so that the proofs about `G!Spec` (the gate),
`R!Spec` (reconnect), `K!Spec` (the locks), `P!Spec` (the cut), `L!Spec` (a listing), `O!Spec` (offline
tasks) and `D!Spec` (a download) hold for all values.

### Locks

A lock key is a number; the numeric order stands for `sort.Strings`. A request
is the set of keys that is left after duplicates are dropped. Sections under the
map's own mutex are single actions (`Register`, `Deregister`); acquiring and
releasing entry mutexes are one action per entry (`Acquire`, `Unlock`), so all
interleavings of goroutines between two entries are covered. `Entry` values are
pointers: a new entry is any that nothing refers to. The other modules use the
abstract `AccountLocks`; `ImplementsAccountLocks` is what justifies that.

### Drive

An object has an ID and a place: a directory and a name, the recycle bin
(`Trash`), or none yet (`Nowhere`). A request takes effect at once, or never, or
(when `Late` holds) at any later time; trash requests carry ID and name and do
nothing if the name is no longer current, as in the repository's stateful mock
servers. `renameByID`, `trashExact` and `moveByID` decide by the listing that
follows the request; the response only changes the wording of their errors, so
the models have no responses. What the backend trusts is that a listing that
succeeds shows the drive as it is. IDs are opaque, so a new object gets one
fixed unused ID instead of each of them in turn.

Without lateness a request given up by its sender has had its effect or never
will. That is the assumption the transactions are written under. With it only
weaker guarantees are left, and the properties say which (`~tardy`).

### Put and Update

`pc` is the position of one call in `Put`, `updateLocked` or `rollbackUpdate`:

    lock -> find -> create                                        (Put, new path)
    lock -> [find ->] refresh -> upload -> backup -> promote -> verify -> discard
    rollback: inspect -> [inspectNew -> [aside ->] restore ->] confirm -> confirmNew -> drop

`Send` and `Check` are the request and the listing of a step. `Success` and
`Failure` are the control flow. `old` is `o.id`, `new` what `uploadNew`
returned. `uploadNew` is one step with its outcomes: a verified object, an error
without object, an error with an object left behind, an error with a completion
still under way; `UploadNew` is the detail behind that step.

### Move

The same `Send`/`Check` scheme for `moveItem`: `rename` or `move` alone, or
`hide` (temporary name), `carry` (change of parent), `settle` (final name), and
the undoing `unhide`, `carryBack`, `unhideBack`. `returned` remembers whether
the move back succeeded, since the rename back is tried either way.

### Copy

`mkstage -> start -> await -> recheck -> hide -> carry -> settle -> final ->
[backup ->] promote -> verify -> [discard ->] empty -> rmstage`. The service is
`Materialize`, `FailTask` (the task behind the copy request) and `Interfere`
(another device at the target path). `stage` is the staging directory of each
call, `faulty` the copies that differ from their source. `waitCopyTask` has no
step of its own: each of its outcomes leads to `waitCopiedFile` (`Await`).

### Namespace

`cache` is rclone's dircache and `resolver` the holder of its mutex, which
`CreateDir` runs under. `find -> resolve` is a lookup; when it has to make a
directory it takes the locks (`lock -> look -> make`). A mutating call then locks,
walks each parent's path again (`walk`, one listing per directory), checks what
it is about to change (`match`, `empty`, `emptyAgain`, `conflict`) and changes
it. `found` are the IDs of the lookups; `at` is the place of the walk. `List` is
read and cache filling as two steps, so that a List can put an ID in the cache
that a removal has just flushed. Uploads and moves are one step here, and a
directory is renamed or moved, not both (`MoveTransaction` has the combined move).

What a path leads to is a trail of directories from the root (`Leads`); a
directory is reachable when it is in every set that has the root and, with a
directory, all that is in it (`Reachable`), and `Within` is its counterpart
upwards. Nothing of this is recursive, so that it can be proved about. `Refuses`
says whether the service refuses to move a directory into itself: the backend
compares paths, but two DirMoves can make a path stale for each other.

### Upload

`pc` is the position of `uploadNew`: `request`, `inspect` (reuse), `sign`,
`produce`, `wait`, `finish`, `complete`, `verify`. Each part has a worker, whose
states follow `uploadPart` and `refreshURLs`: `put`, `rejected` (403), `flight`
(entering the singleflight group), `lead`/`ask` or `joined`. `version` counts
the URL sets of the batch, `live` says whether the service accepts the current
one. `EndAttempt` counts an attempt of the leader and of all who joined it.
`source` is what the reader turns out to give; `cancelled` the caller's context.

`UploadParts` is the arithmetic behind these part numbers: `PartCount`, `Last`
(of the batch) and `PartSize` with the producer's two loops, the reader's
`position` and the bytes each part got. The code computes the offset of a part
only to know its size, and reads whatever comes next; `CutIsExact` says that both
agree. `length` is what the source really has.

### Listing

The directory is a set of IDs in descending order; `Items(p)` is the page that
a faithful service returns. `Fits` is the chain of checks of `listOnce`,
`DropRound` every way to abandon a round, and `steady`, `still`, `moved` and
`honest` record what happened to the directory during the round.

### Download

`phase` goes `url -> resolve -> get -> read`; `attempt` is the loop of `Open`.
`Response` is any status, range, total, length and body; `Transmissible` is what
`net/http` guarantees about a body with a Content-Length. `Read` and `Probe` are
the two halves of `exactReadCloser.Read`; `ReadAgain` is what its flag `checked`
makes of a caller that reads on after an error. Contents are left out; a body is
where it begins (as announced), how much of it comes, and how it ends.

### Offline tasks

The list of tasks is a set of IDs, newest first. `FetchTasks` is one page of
`listOfflineTasks`: unlike `listAll` it has no second round. `Verdict` is what
`offlineStatuses` and `offlineDelete` conclude. A command that adds is two
requests; an error after the second leaves open whether there is a task, which
the code does not claim to know.

### Manifest

`file` is what is on disk, `mem` what a run of the tool has in memory. A run is
load and change (`Apply`, one action per `-action`), `WriteTemporary` and
`Rename` (`Save`), or ends anywhere (`Quit`). The campaign (external) asks the
provider for an object only with a reservation a successful run has given it
(`credit`), which is how `tools/test-rclone-contract.sh` calls the tool, and
deletes active objects of the ledger. `usage` counts what is reserved, `requested`
what was asked for. `Prefixed` are the objects whose name has the campaign's
random prefix.

### Session

Each client is one read (`do`), write (`doNonIdempotent`) or `Disconnect`.
`call -> login -> signin -> set -> persist -> reread -> recall`; `bad` is
`badToken`, `use` the token of the request under way, `tries` what the pacer has
left. `stored` is `access_token` in the configuration. The service expires
tokens, issues them, and may come to want a verification (`suspicious`).

### Endpoint gate

`Enter` is the section under the mutex, up to the return or the timer; `Wake` and
`Leave` are the two branches of the select. Time is a counter of ticks; timers
may fire late, which is why slots are an interval apart and requests may not be.

### Reconnect

Each process is one `config reconnect` or one opening of a remote. `saved` is the
configuration they share, `mine` the token of a process. `StageLogin` is where
the login of `reconnect` writes: to its staging configuration. `proven` are the
tokens the account has answered for. A rejected request of NewFs, for the account
or for one of the root listings, is repeated once after a login.

## Runs

| Run | Bounds | Shows |
| --- | --- | --- |
| `locks` | 3 goroutines, 2 keys, 3 entries | exclusion, bookkeeping, nobody waits for ever; refinement of `AccountLocks` |
| `update` | 3 calls, 2 paths (one with a file), crashes; 2 calls when requests may be late | truthful results, reported leftovers, unique paths, content survives, every call returns |
| `update_emptied` | 1 call | finding, see below |
| `move` | 2 moves, 2 directories x 2 names, 2 files, crashes | exclusive success, stranded objects reported, an error means unmoved while listings work |
| `move_hidden` | 1 move | finding |
| `copy` | 2 copies, 2 directories with one file each, 2 more objects, another device, crashes | originals are safe (source untouched, old target trashed only for a verified copy), success is true, leftovers reported |
| `namespace` | any 2 of 9 calls and a List, 2 trees, empty or full cache | files stay reachable, paths unique, Put, Remove, Rmdir and DirMove change what they name, every call returns |
| `upload` | 4 parts, batches of 3, 2 workers, 2 attempts, 2 URL sets per batch; cuts of 0 to 14 bytes into chunks of 2 or 3, sources of 0 to 15 bytes | complete only when whole, no needless refresh, parts are the file, returns; refinement of `UploadPromise` |
| `reads` | 4 objects of 7 IDs, pages of 2, 2 rounds, 3 changes; 3 of 6 tasks, pages of 2, 3 changes; objects of up to 3 bytes, any range option, any response | listings exact if nothing changed, nothing missed by creations and deletions; deletions tell the truth; a clean end is the whole range, honest services suffice; every read returns |
| `session` | 2 calls of any kind, 1 repetition, 3 tokens; 3 callers, 2 endpoints, intervals of 2 in 6 ticks; 2 processes, 3 tokens | writes at most once, token stored, no needless login, every call returns; never ahead of the rate; reconnect proves a token first |
| `session_storm` | 2 calls | finding |
| `manifest` | 2 runs, 2 own and 1 foreign object, reservations of 1 or 2, limits of 4 files, 1 directory and 2 units of payload, 1 overlap | the file always loads, requests are accounted for, foreign objects untouched, nothing forgotten |

Why the bounds are enough:

- *locks*: one entry more than keys lets a key have two entries if the code ever
  allowed that; two keys and two goroutines already form a circle, the third
  goroutine supplies a waiter on an entry that is given up. That two callers
  never share a key follows from the refinement of `AccountLocks`; it, and the
  rest of the safety part, is proved without bounds.
- *update, move, copy*: all calls on one directory are serialised by its lock,
  so a second call covers interference and stale objects; a third covers a call
  that follows a failed one and precedes another. That these numbers, and those
  of objects, directories and names, hide nothing is proved for every safety
  property of these runs. Faults are not bounded: any
  request and any listing of any call may fail. Each client is one call.
  `LateClient` bounds the behaviours with late requests to two calls; they matter
  only for `ContentSurvives`. That calls return, and do not block each other, is
  checked on Update and Namespace (`EveryCallReturns`); no run says it of Move
  and Copy, which take their locks in the same way.
- *namespace*: races need a call that looks a path up and one that changes it;
  the third is the List that refills the cache. Paths of two names suffice for a
  directory below a directory that is moved or removed. No requests are late.
  The three safety properties are proved without bounds, for any calls, trees
  and depths.
- *upload*: a full batch, a partial last batch, and more parts than workers;
  two attempts make a retry and its exhaustion, two URL sets a refresh and a
  refusal. The safety part of both is proved without bounds. The cuts have up to eight
  parts where six are allowed, in batches of three: empty, one, full and partial
  batches, multiples of the chunk and one byte more or less, and refusals.
- *reads*: three pages with a partial one; a change before, between and after
  pages; a second round for a restart. `MaxPages` is reached. A range of an
  object of three bytes may begin and end at or beyond either edge.
  `MaxChanges` bounds the changes by others. The safety parts of all three are
  proved without bounds.
- *session*: three tokens let both calls log in; with one repetition each request
  is repeated and exhausted. At the gate `Horizon` bounds the clock: three slots, and a caller that
  comes when the last slot is long past. The safety parts of `Session`,
  `EndpointGate` and `Reconnect` are proved without bounds.
- *manifest*: two own objects make a directory and a file in it, or two files for
  one reservation; two runs are needed to overlap, and `MaxOverlaps` is how often
  a run begins beside another one: most guarantees are lost with the first. All
  properties are proved without these bounds.
  Deadlock is not checked: a campaign that has used up its quotas may stop.

Two runs set the ground for others: `locks` shows that locks are granted, which
the transactions assume, and `upload` that `uploadNew` has only the outcomes the
transactions consider.

### Fairness

- `KeyedLocks`: `sync.Mutex` switches to starvation mode after a millisecond and
  then hands itself to the longest waiter; hence strong fairness of `Acquire`.
  The handlers defer the unlock function and their requests have deadlines;
  hence weak fairness of `Unlock` and `Deregister`.
- `UpdateTransaction` and `Namespace`: weak fairness of each started call's next step.
  Requests and listings return or fail, waiting for an upload or a copy ends
  with `verify_timeout`. No call is forced to begin, and the service and other
  devices are not forced to do anything.
- `UploadNew`: weak fairness of the main goroutine and of each worker.
- `MCReads`: every page request is answered or fails (`Listing`, `OfflineTasks`),
  requests for links and contents are, too, and a caller reads on (`Download`).
- `Session`: weak fairness of each started call; requests have deadlines.
- `EndpointGate`, `Reconnect`, `UploadParts` and `Manifest` state no liveness and
  need no fairness; the campaign and its tool may stop for good.

## Proofs

What is proved holds for every value of the constants, under the assumptions
named with each module; TLC evaluates the same assumptions on every run. No
safety property of these modules is inductive as it stands, so each proof module
defines an inductive invariant (`IInv`, or the names below), shows that it holds
initially and that every action preserves it, one lemma per action, and derives
the properties from it.

| Property | Theorem | Module |
| --- | --- | --- |
| `MutualExclusion`, `RefsExact`, `ImplementsAccountLocks` | `LocksExclude`, `LocksCounted`, `LocksImplement` | `ClientProofs` |
| `ContentSurvives` | `ContentIsKept` | `UpdateProofs` |
| `UniquePaths`, `ResidueIsReported` | `PathsStayUnique`, `ResidueIsAnnounced` | `UpdateProofs` |
| `ReturnsTheTruth`, `GivesUpOnlyTheLoser` | `TruthIsReturned`, `LoserIsGivenUp` | `UpdateProofs` |
| `SuccessIsExclusive`, `ErrorMeansUnmoved`, `StrandedIsReported` | `SuccessIsThere`, `ErrorIsHarmless`, `StrandedIsAnnounced` | `MoveProofs` |
| `OriginalsAreSafe`, `SuccessIsTrue`, `LeftoversAreReported` | `OriginalsStaySafe`, `SuccessIsSo`, `LeftoversAreAnnounced` | `CopyProofs` |
| `PathsAreUnique`, `FilesStayReachable`, `ChangesWhatItNames` | `NamesStayUnique`, `NoFileIsLost`, `NamedIsChanged` | `NamespaceProofs` |
| `WritesAtMostOnce`, `TokenIsStored`, `NoNeedlessLogin` | `WritesOnce`, `Stored`, `LoginsAreNeeded` | `ClientProofs` |
| `NeverAheadOfRate`, `ReconnectProvesFirst` | `RateIsKept`, `ReconnectIsProven` | `ClientProofs` |
| `CompleteOnlyWhole`, `NoNeedlessRefresh`, `KeepsPromise` | `OnlyWhole`, `RefreshIsNeeded`, `Implements` | `TransferProofs` |
| `CutIsExact` | `PartsAreTheFile` | `TransferProofs` |
| `ExactIfStill`, `NothingMissed` | `ListingsAreExact`, `NobodyIsMissed` | `TransferProofs` |
| `DeleteTellsTheTruth` | `DeletionsAreJudged` | `TransferProofs` |
| `CleanEndIsWhole`, `HonestServiceSuffices` | `CleanEndsAreWhole`, `HonestServiceIsEnough` | `TransferProofs` |
| `AlwaysLoadable`, `RequestsAreAccounted` | `FileLoads`, `Accounted` | `ManifestProofs` |
| `ForeignUntouched`, `NothingIsForgotten` | `ForeignSafe`, `NothingForgotten` | `ManifestProofs` |

Each of these modules also proves its `TypeOK` (`LocksTyped`, `UpdateTyped`,
`MoveTyped`, `CopyTyped`, `NamespaceTyped`, `SessionTyped`, `UploadTyped`,
`ManifestTyped`).

### Locks

Any finite set of goroutines, any keys and any supply of entries. Assumptions:
`Proc` is finite, keys are integers, `Nil` is neither goroutine nor entry.

Mutual exclusion is not inductive: nothing in it prevents two goroutines from
holding two different mutexes for one key. The inductive invariant `LIInv` adds
what prevents it: the reference count of a mapped entry is exactly the number of
goroutines registered with its key (`RefsExact`), all of them have that entry
(`OneEntryPerKey`), a locked entry belongs to who locked it (`Owns`), and
`lock()` returns only with all entries locked (`HoldsItsOwn`). The proofs are
in `ClientProofs`, since the map is what the calls of a remote share besides the
client.

### What all calls share

`LockedCallsProofs` states once what every transaction needs: names of users are
not temporary names, temporary names belong to one call, places are told apart by
directory and name (`KeysAre`, `TempNamesAre`, `PlacesAre`); keys stay exclusive
when a call takes them and gives them back, or dies (`KeysTaken`, `KeysGiven`,
`KeysLost`); and a request moves its own object to the place it names, or
nothing (`Attempted`, `Performed`, `Effects`). Assumptions (`DriveAssumption`):
the names of users are not temporary names, which is what their 128 random bits
mean, and nowhere, bin, places and `Nil` are different things.

### Put and Update

Any number of calls, objects, directories and names, with crashes. Assumption
(`InitiallyAssumption`): the drive begins with at most one object per path.

Two layers, since one property holds even when requests are late. For
`ContentSurvives` (first layer, `IInv`): an object is in danger only under a
temporary name whose owner throws it away, or has a late request to do so
(`DoomedBy`). A late rename never brings an object into such danger after the
fact (`Ordered`: a rename to the backup name that is still under way when the
call goes on is one the call will not follow by a removal), late requests are
those that calls make of their two objects (`Filed`), and before a call drops its
new object it has seen the old one out of danger (`Confirmed`). So of each path
one version is always safe (`Kept`), even if everybody dies.

The rest needs `~tardy` (second layer, `Punctual`): then what the call under the
locks has done is all that happens in its directory. At each step its two
objects are at one of a few pairs of places (`Standing`: both at their first
place, backed up, swapped, replaced, undone), nothing else is at its path
(`Alone`), nobody else has its temporary names (`Veiled`), and after a plain
result nobody has its backup name or, if the upload was verified, its staging
name (`Clean`); every path has one object (`OneEach`). The truth of results is the
step from there to `done`.

Neither theorem covers an upload that fails its verification: the call then has no
ID, so it can leave an unverified object under the staging name, or at the path if
that was free, and returns a plain error. What is claimed for the first case is
that the old object is alone at the path.

### Move

Any number of calls, objects, directories and names. Assumption: as above.

Two calls under their locks work in different directories, and after the refresh
the object of a call stays in that call's two directories (`Home`); hence two
such calls have different objects (lemma `Apart`), and what a listing has shown of
object and target stays true (`Free`, `Seen`). `Course` says which steps belong to
which kind of move. For a stranded object the invariant has to look back before
the locks, too (`Waiting`): an object that only one call wants is still where that
call saw it.

### Copy

Any number of calls, objects, directories and names, the service and another
device at work. Assumptions: as above, and staging directories are not
directories of the users.

Each call works in its staging directory and in the two directories whose keys it
holds, so calls do not meet (lemma `OthersAreSound`). Source, old target and copy
are three objects (`Distinct`), the source never moves (`Anchored`), the service
makes at most one copy and only while there is none (`Staging`), only the copy
and the old target ever get temporary names (`Veiled`), and after the
verification the copy is alone at the target (`Settled`). `Clean` is what a call
leaves that returns without a `CopyRecoveryError`.

### Namespace

Any number of calls, objects and names, any depth of paths, any trees in the
beginning, an empty or a full cache. Assumptions (`NamespaceAssumption`): the
objects of the beginning have different places in existing directories, a
DirMove renames or changes the parent, not both, and names no path below its
own, and no request is late. `NoFileIsLost`
has the hypothesis `Refuses`, and needs it: without it two DirMoves can detach a
circle of directories (see Findings).

The inductive invariant has four layers. `Position` and `Sensible` say for each
step of a call what locks and lookups it has: what the cache gave is the ID of
some directory, right or wrong. `Current`: what a call saw under its locks (a free
name, an object in its place, an empty directory) is still so when it sends its
request, because its keys protect those places (lemma `KeysProtect`): whoever
fills or empties a place holds the place's key, and whoever puts something into a
directory holds that directory's. `Walked`: a directory whose path was walked is
`Found`: it is reachable for good, since its own key keeps it from being trashed
(`KeySpares`), and its path leads to it until another call moves a directory
(`disturbed`).

`Walking` is the difficult layer, for a walk takes several listings and the tree
changes between them. It cannot be said that the directory a walk has arrived at
is reachable: it may have been trashed meanwhile. What is invariant is that such a
walk never arrives at its goal: the walk is where its path leads, or the goal is
not below it (`AstrayStays`). A trashed directory was empty and nothing was below
it; a later move puts directories into reachable ones only (`MoveKeeps`), so
nothing gets below one that has gone.

Each change of the tree (`Creates`, `Removes`, `Moves`) keeps reachability, paths
and what is below what in one lemma each, by way of the sets in these
definitions; this takes the place of an induction over paths. `TreeKept` and
`FilesKept` then give the properties of the tree. `ChangesWhatItNames` follows from
`Current` (object and name, `ActsOnItsPlace`) and `Walked` (the directory); it
leaves out Mkdir, whose `Make` has no walk behind it.

### Session

Any calls, any number of repetitions and any number of tokens. Assumption:
`Nobody` is not a call, and there is at least one token.

For the login: a call reaches `refreshMu` only with a
token that was rejected (`Rejected`); tokens are numbered and never become valid
again; `refreshMu` has one holder (`Exclusive`), and nobody but its holder sets
a token, except Disconnect, which clears it. So between a call's look at the
token and its login the remote's token is the rejected one, or none (`Waiting`).
For writes: a write that may have had its effect is over (`WrittenOnce`), since
a lost response ends it and only a rejection sends it again. `Counted` bounds
how often a request is sent, which the type invariant needs. `Saved` keeps track
of what `config.Set` is about to store.

### Endpoint gate

Any finite set of callers, any endpoints, any interval and horizon.
`NeverAheadOfRate` counts the requests sent by now; the invariant `Paced` counts
those sent and those that may still be sent by any time `t` from now on, and
bounds them by `t \div Interval + 1`. Slots given out are an interval apart
(`Spaced`) and none lies behind the last one (`Ordered`), so a new slot finds the
count of an interval earlier one below the bound.

### Reconnect

Any processes and tokens. Only a proven token reaches the step that saves it
(`SavesProven`), and as long as no reconnect is over and no remote is opened the
configuration is as the user left it (`SavedBy`).

### Upload

Any number of parts, any batch size, any number of workers, attempts and URL
sets. Assumptions: all these numbers are positive.

The inductive invariant: exactly the parts before `next` have a
worker (`Started`); between two batches they are all stored (`Whole`); a batch
begins with a part and completion follows the last one (`Reach`, which needs that
the last part ends its batch, `LastPart`); an unfinished worker has an attempt
left (`Trying`); and for the refresh (`Stale`): only the leader looks again and
asks, and a worker that was rejected with a URL set has seen one that is not
accepted any more, since a set that expired never comes back. The step of
`Complete` is where the refinement needs `OnlyWhole`: the service assembles what
it has, so an incomplete upload would put a wrong object on the drive.
`NoOrphans` proves that no worker is active when `uploadPresigned` goes on or
returns.

### Parts

Any sizes, chunks and limits. The reader is where part `number` begins, or at the
end of the file (`Reader`), so the parts read so far are the ones their numbers
describe; `Signing` says how far parts are signed for at each step. The division
in `PartCount` and the products in offsets are the difficult part: lemmas
`PartCountIs` and `PartIs` state what they come to.

### Listing

Any finite directory, any page size, any number of pages, rounds and changes.
Assumptions: IDs are positive numbers, the directory begins with some of them,
and the sizes and limits are positive.

What a page holds is defined by how many objects come before each of them, so
the proof needs facts about ranks: the number of objects before one and the
number up to it are together all of them (`RankIs`), different objects have
different ranks (`RanksDiffer`), hence a page holds at most `PageSize`
(`PageIs`), by an injection into the ranks of that page; and what is neither on a
page nor before it comes after it (`NextPage`, `StillToCome`).

`Received`: the items received are that many different objects, and all are in
the directory if it stands still; a listing that ends has as many as there are,
so it has all. `Expected`: an object that stays and was not received fits, with
everything up to its ID, behind the pages so far. New objects have higher IDs
(`LowestUsed`), so the number of objects up to one that stays never grows; only a
move from elsewhere could make it grow, which is what the property excludes.

### Offline tasks

Any finite set of tasks, any page size and limits. Assumptions as for listings.
The same ranks: a task of the command that is left and was not received is yet
to come (`Pending`), its ID being old; and behind the last page there is nothing,
not even when that page was empty, since every rank below the number of tasks is
taken (`RankTaken`). For the verdict on a failed command `Paged` says that a list
that goes on is not complete: the pages so far hold less than the total.

### Download

Objects of any size, any options of ranges of that size, any response. While the reader runs
(`Reading`), the bytes left and the bytes handed out are those asked for, from
where the body begins; if the service was honest, the body holds exactly those
left. A normalized range ends within the object (`Bounded`), so the number of
bytes asked for is a number (`RangeIs`). The flag `checked` is set only when all
bytes are out, which is why the clean end that follows an error of the probe is
no short one.

`ReadersRun` shows that a behaviour of the run is one of each reader, and
`EveryReaderKeepsItsWord` that all of these properties hold in it.

### Manifest

Any number of runs, any objects, any limits. Assumptions: own, foreign and
sentinel objects are different, finite many, and the campaign's prefix is on its
own objects and on no foreign one.

`AlwaysLoadable` follows from `WritesOnlyValid`: what is renamed into place was
validated. `OwnLedgers` excludes foreign IDs from the file and from what any run
has in memory, also when runs overwrite each other's changes. The other two
properties need that runs do not overlap (`OneAtATime`): then the one run under
way goes on from the file, its usage is the usage on disk plus its own grant,
and its ledger remembers all of it.

### Only model-checked

- All liveness properties (`EveryCallerEnters`, `EveryCallReturns`,
  `EveryUploadReturns`, `EveryReadReturns`): fairness and ENABLED are out of the
  prover's reach. The refinements proved are those of the safety parts
  (`Abstract!Spec`), which state no fairness.

Every safety property of every passing run is proved.

## Findings

- `update_emptied`: `rollbackUpdate` moves a verified replacement away from the
  target when the removal of the backup was ambiguous, and the path stays empty
  if the restoring rename fails; the comment at `update.go:198` excludes that.
- `move_hidden`: `moveItem` neither undoes nor reports a first rename that took
  effect but could not be verified (`mutations.go:229`).
- `session_storm`: a challenged login leaves nothing behind for the calls that
  wait for `refreshMu`, so each sends its own login (`client.go:118`);
  `docs/123pan.md:22` excludes that.

Behaviours noticed while modelling, of which no document says otherwise, or
which no run shows:

- the rollback of a combined move renames by ID although the move back failed,
  and can give the object the name of another object of the target directory
  (`mutations.go:241`);
- `Disconnect` does not take `refreshMu`: a login that ends after it stores its
  token in the configuration again (`123pan.go:277`);
- when both the promotion and its check fail, Copy's rollback may leave the old
  and the new object at one path, and says so (`copy.go:395`);
- an empty staging directory stays when the check after its creation fails; the
  error does not name it (`copy.go:74`);
- a worker that finds new URLs already there has spent one of its attempts
  (`multipart.go:135`);
- an error of the producer hides the error of a worker that caused it
  (`multipart.go:288`);
- a listing can miss an object when another one is deleted and a third, with an
  ID below the page boundary, is moved in: `Total` stays the same
  (`listing.go:88`; `NothingMissed` excludes it with `~moved`);
- Mkdir does not walk its parent's path, so when it loses a race with Rmdir of
  the parent it makes a directory in the recycle bin and reports success
  (`mutations.go:28`; `docs/123pan.md:89` does not count Mkdir among the calls
  that walk);
- a List may put an ID back in the cache that was flushed, and a failed path
  verification does not evict it: writes through it keep failing (safely) until
  the cache is reset;
- two DirMoves that carry two directories into each other's subtrees hold no
  common lock: both may pass their checks before either moves anything, and the
  second then asks for a move of a directory into itself (`mutations.go:312`);
  `docs/123pan.md:87` forbids such moves, and whether the service refuses it is
  not in the backend's hands;
- the endpoint gate spaces the slots it gives out, not the requests sent: when
  the timer of one fires late, the next may follow it closely (`client.go:50`,
  although the help of `api_min_interval` promises a minimum interval);
- a reader that reads on after the error for surplus bytes gets a clean end of
  file (`download.go:43`); it has all bytes it asked for then;
- an expired link is replaced only when the request for the content finds it
  expired, not when resolving it does (`download.go:220`);
- offline-delete reports an error for tasks that are gone when the list changes
  between two pages, since it has no second round (`commands.go:152`);
- overlapping runs of the manifest tool lose each other's reservations
  (`livemanifest/main.go:41`), and the file that `Save` has renamed may be the
  old one again after a power failure, as the directory is not synced
  (`manifest.go:608`).

## Not modelled

Request signing and envelope decoding, API types and object accessors (no
state), hashing and spooling of sources (sequential I/O), the legacy S3 uploader
(the AWS library's), `VerifySentinels` of the manifest (two lookups and a
comparison), packaging, build and probing programs, the test server. rclone itself
(dircache, pacer, accounting) is external. Other devices appear in `Listing`,
`OfflineTasks` and `CopyTransaction` only: `docs/123pan.md:91` says that the backend cannot exclude
races with them elsewhere.

## Plan

The order follows what would hurt most: data loss and wrong results first
(transactions), then the structures they rely on (locks, uploads, listings,
paths, session), then what reads and starts (downloads, offline tasks, reconnect,
the gate) and the manifest. The modelling is done as far as it goes, and every
safety property is proved. What is left:

1. `NamespaceProofs` assumes that a directory is renamed or moved, not both, and
   that no request is late. A combined move is three requests; between them the
   directory has a temporary name, and `MoveTransaction` shows what can go wrong
   with that. To have both in one module would need `hide`, `carry` and `settle`
   in `Namespace`.
2. Shorter proofs: the lemmas on who keeps whose places are similar in
   `CopyProofs`, `MoveProofs` and `NamespaceProofs`.

A property that the model lacks: the rollback of a combined move that gives two
objects one path (`mutations.go:241`). It is violated as the code stands.
