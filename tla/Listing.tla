------------------------------ MODULE Listing ------------------------------
(***************************************************************************)
(* listAll: a directory is read page by page, ordered by descending ID,    *)
(* while other devices change it, from a service that may leave out items, *)
(* repeat a page, or get the end wrong.  A round whose pages do not fit    *)
(* together is dropped as a whole, and there are a few rounds.             *)
(*                                                                         *)
(* New objects get higher IDs than all before; an object that is moved in  *)
(* from another directory has any ID.  Names are left out: a page with a   *)
(* bad or ambiguous name counts as a page that fails.                      *)
(***************************************************************************)
EXTENDS Integers, FiniteSets

CONSTANTS Object,      \* IDs of objects
          Initially,   \* the directory in the beginning
          PageSize,    \* listPageSize
          Rounds,      \* listAttempts
          MaxPages,    \* maxListPages
          MaxChanges   \* bound: changes by other devices

\* What the module assumes of its constants; its instances state it.
ListingAssumption ==
    /\ Object \subseteq Nat \ {0} /\ IsFiniteSet(Object)
    /\ Initially \subseteq Object
    /\ {PageSize, Rounds, MaxPages} \subseteq Nat \ {0}
    /\ MaxChanges \in Nat

VARIABLES dir,       \* what is in the directory
          used,      \* IDs that are taken, here or elsewhere
          changes,   \* changes so far
          pc,        \* "list", "ok" or "error"
          round,     \* number of the attempt
          page,      \* number of the next page
          total,     \* lockedTotal
          files,     \* IDs received in this round
          count,     \* how many items they came as
          steady,    \* IDs that were in the directory all through the round
          still,     \* no change in this round
          moved,     \* an object was moved in during this round
          honest     \* every page of this round was what the directory held

reader == <<pc, round, page, total, files, count>>
observed == <<steady, still, moved, honest>>
vars == <<dir, used, changes, reader, observed>>

TypeOK ==
    /\ dir \subseteq used /\ used \subseteq Object
    /\ changes \in 0..MaxChanges
    /\ pc \in {"list", "ok", "error"}
    /\ round \in 1..Rounds
    /\ page \in 1..MaxPages + 1
    /\ total \in 0..Cardinality(Object)
    /\ files \subseteq Object /\ count \in 0..Cardinality(Object)
    /\ steady \subseteq dir /\ {still, moved, honest} \subseteq BOOLEAN

\* Objects with other IDs up to the highest one exist elsewhere.
Init ==
    /\ dir = Initially
    /\ used = {i \in Object : \E j \in Initially : i <= j}
    /\ changes = 0
    /\ pc = "list" /\ round = 1 /\ page = 1 /\ total = 0 /\ files = {} /\ count = 0
    /\ steady = dir /\ still = TRUE /\ moved = FALSE /\ honest = TRUE

-----------------------------------------------------------------------------
\* X_Suffix is a deliberate mistake in X, used to show that a property can
\* fail; no action of the specification uses it.

\* Items of page p, in descending order of IDs.
Before(i) == Cardinality({j \in dir : j > i})
Items(p) == {i \in dir : Before(i) \div PageSize = p - 1}

\* What the service may answer to the request for a page.
Answers == {Items(page), Items(page - 1)} \cup {Items(page) \ {i} : i \in Items(page)}

\* The checks of listOnce on a page: items, their Total, and Next, which is
\* "-1" (end) or a cursor that may be that of the page before (stalled).
Fits_AnyTotal(items, t, end, stalled) ==
    /\ (t + PageSize - 1) \div PageSize + 1 <= MaxPages
    /\ items = {} => count >= t
    /\ items \cap files = {}
    /\ count + Cardinality(items) <= t
    /\ IF end THEN count + Cardinality(items) = t ELSE ~stalled
Fits_Repeats(items, t, end, stalled) ==
    /\ IF page = 1 THEN (t + PageSize - 1) \div PageSize + 1 <= MaxPages ELSE t = total
    /\ items = {} => count >= t
    /\ count + Cardinality(items) <= t
    /\ IF end THEN count + Cardinality(items) = t ELSE ~stalled
Fits(items, t, end, stalled) ==
    /\ IF page = 1 THEN (t + PageSize - 1) \div PageSize + 1 <= MaxPages ELSE t = total
    /\ items = {} => count >= t
    /\ items \cap files = {}
    /\ count + Cardinality(items) <= t
    /\ IF end THEN count + Cardinality(items) = t ELSE ~stalled

\* The round is dropped; the next one begins, unless it was the last or the
\* context is done.
NextRound_Endless == UNCHANGED <<round, pc>>
NextRound ==
    \/ round < Rounds /\ round' = round + 1 /\ pc' = pc
    \/ UNCHANGED round /\ pc' = "error"

DropRound ==
    /\ NextRound
    /\ page' = 1 /\ total' = 0 /\ files' = {} /\ count' = 0
    /\ steady' = dir /\ still' = TRUE /\ moved' = FALSE /\ honest' = TRUE

\* A page is added, or completes the listing.
Take(items, t, end) ==
    /\ files' = files \cup items
    /\ count' = count + Cardinality(items)
    /\ total' = t
    /\ page' = page + 1
    /\ pc' = IF end THEN "ok" ELSE "list"
    /\ UNCHANGED <<round, steady, still, moved>>

Fetch ==
    /\ pc = "list"
    /\ \/ DropRound
       \/ /\ page <= MaxPages
          /\ \E items \in Answers, end \in BOOLEAN, stalled \in {FALSE, page > 1} :
                LET t == Cardinality(dir) IN
                /\ Fits(items, t, end, stalled)
                /\ Take(items, t, end)
                /\ honest' = (honest /\ items = Items(page))
    /\ UNCHANGED <<dir, used, changes>>

-----------------------------------------------------------------------------
\* Other devices create, delete, and move in.
Change(after) ==
    /\ pc = "list"
    /\ changes < MaxChanges
    /\ changes' = changes + 1
    /\ dir' = after
    /\ steady' = steady \cap after
    /\ still' = FALSE
    /\ UNCHANGED reader

CreateObject ==
    \E i \in Object \ used :
        /\ \A j \in Object \ used : i <= j
        /\ used' = used \cup {i}
        /\ Change(dir \cup {i})
        /\ UNCHANGED <<moved, honest>>

DeleteObject == \E i \in dir : Change(dir \ {i}) /\ UNCHANGED <<used, moved, honest>>

MoveIn ==
    \E i \in used \ dir :
        Change(dir \cup {i}) /\ moved' = TRUE /\ UNCHANGED <<used, honest>>

Finished == pc # "list" /\ UNCHANGED vars

Next == Fetch \/ CreateObject \/ DeleteObject \/ MoveIn \/ Finished

Spec == Init /\ [][Next]_vars

\* Every page request is answered or fails.
FairSpec == Spec /\ WF_vars(Fetch)

-----------------------------------------------------------------------------
(***************************************************************************)
(* A listing of a directory that nobody changed meanwhile is exact,        *)
(* whatever the service did to its pages.                                  *)
(***************************************************************************)
ExactIfStill == pc = "ok" /\ still => files = dir

(***************************************************************************)
(* Creations and deletions between two pages cannot make an object         *)
(* disappear that was there all the time, as long as nothing is moved in   *)
(* and the service answers with what the directory holds.                  *)
(***************************************************************************)
NothingMissed == pc = "ok" /\ ~moved /\ honest => steady \subseteq files
=============================================================================
