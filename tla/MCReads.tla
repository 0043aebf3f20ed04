------------------------------ MODULE MCReads ------------------------------
(***************************************************************************)
(* What the backend reads from a service that may cut, repeat, mix up or   *)
(* change it: a directory, the list of offline tasks, or the content of an *)
(* object.  The three readers share no state, so a behaviour runs one of   *)
(* them, chosen in the beginning, and the others rest.                     *)
(***************************************************************************)
EXTENDS Integers, FiniteSets, Sequences

CONSTANTS Object, InitialObjects, Rounds,    \* of Listing
          Task, InitialTasks,                \* of OfflineTasks
          PageSize, MaxPages, MaxChanges,    \* of both
          MaxLength, Options                 \* of Download

VARIABLES reads,
          dir, used, changes, lister, round, page, total, files, count, steady, still, moved, honest,
          tasks, past, oChanges, commander, command, ids, refused, oPage, oTotal, found, oStill, oHonest,
          phase, long, asked, attempt, remaining, checked, body, delivered, faulted

L == INSTANCE Listing WITH Initially <- InitialObjects, pc <- lister
O == INSTANCE OfflineTasks WITH
        Initially <- InitialTasks, step <- commander,
        changes <- oChanges, page <- oPage, total <- oTotal, still <- oStill, honest <- oHonest
D == INSTANCE Download WITH MaxSize <- MaxLength, size <- long

ASSUME MCReadsAssumption == L!ListingAssumption /\ O!OfflineAssumption /\ D!DownloadAssumption

\* No range, any one range, or two.
MCRange == [start : -1..MaxLength + 1, end : -1..MaxLength + 1]
MCOptions ==
    {<<>>} \cup {<<r>> : r \in MCRange} \cup {<<[start |-> 0, end |-> 0], [start |-> 0, end |-> 0]>>}

listing == <<dir, used, changes, lister, round, page, total, files, count, steady, still, moved, honest>>
offline == <<tasks, past, oChanges, commander, command, ids, refused, oPage, oTotal, found, oStill, oHonest>>
download == <<phase, long, asked, attempt, remaining, checked, body, delivered, faulted>>
all == <<reads, listing, offline, download>>

ReadsInit == L!Init /\ O!Init /\ D!Init /\ reads \in {"directory", "tasks", "content"}

ReadsNext ==
    \/ reads = "directory" /\ L!Next /\ UNCHANGED <<reads, offline, download>>
    \/ reads = "tasks" /\ O!Next /\ UNCHANGED <<reads, listing, download>>
    \/ reads = "content" /\ D!Next /\ UNCHANGED <<reads, listing, offline>>

\* The fairness of each reader, for the one that runs.
Progress ==
    \/ reads = "directory" /\ L!Fetch /\ UNCHANGED <<reads, offline, download>>
    \/ reads = "tasks" /\ O!Step /\ UNCHANGED <<reads, listing, download>>
    \/ reads = "content" /\ D!Step /\ UNCHANGED <<reads, listing, offline>>

ReadsSpec == ReadsInit /\ [][ReadsNext]_all /\ WF_all(Progress)

ExactIfStill == L!ExactIfStill
NothingMissed == L!NothingMissed
DeleteTellsTheTruth == O!DeleteTellsTheTruth
CleanEndIsWhole == D!CleanEndIsWhole
HonestServiceSuffices == D!HonestServiceSuffices

(***************************************************************************)
(* Every listing, every command and every download returns: no cursor,     *)
(* changing total, expiring link or dribbling body keeps one going.        *)
(***************************************************************************)
Returned ==
    CASE reads = "directory" -> lister # "list"
      [] reads = "tasks" -> commander \in {"idle", "ok", "error"}
      [] reads = "content" -> phase \in {"idle", "eof", "error"}

EveryReadReturns == []<>Returned
=============================================================================
