---------------------------- MODULE OfflineTasks ----------------------------
(***************************************************************************)
(* The offline-download commands (commands.go): offline-add resolves a URL *)
(* and submits one task, offline-status and offline-delete read the whole  *)
(* list of tasks, page by page and without another round, and delete       *)
(* judges by that list and not by the answer to its request.               *)
(*                                                                         *)
(* The service is external: other clients add and delete tasks between two *)
(* pages, requests fail before or after their effect, a deletion that was  *)
(* acknowledged may not happen, and a page may lack a task or repeat the   *)
(* one before.  The newest tasks come first.                               *)
(***************************************************************************)
EXTENDS Integers, FiniteSets

CONSTANTS Task,        \* IDs of tasks
          Initially,   \* the tasks in the beginning
          PageSize,    \* pageSize
          MaxPages,    \* maxListPages
          MaxChanges   \* bound: changes by other clients

\* What the module assumes of its constants; its instances state it.
OfflineAssumption ==
    /\ Task \subseteq Nat \ {0} /\ IsFiniteSet(Task) /\ Initially \subseteq Task
    /\ {PageSize, MaxPages} \subseteq Nat \ {0} /\ MaxChanges \in Nat

VARIABLES tasks,    \* what the service keeps
          past,     \* IDs it has given out
          changes,  \* changes by others so far
          step,     \* where the command is
          command,  \* "add", "status" or "delete"
          ids,      \* the IDs given to it
          refused,  \* requestErr # nil
          page,     \* number of the next page
          total,    \* lockedTotal
          found,    \* IDs received
          still,    \* nobody has changed the tasks since the first page
          honest    \* every page was what the service kept

call == <<step, command, ids, refused>>
paging == <<page, total, found, still, honest>>
vars == <<tasks, past, changes, call, paging>>

TypeOK ==
    /\ tasks \subseteq past /\ past \subseteq Task
    /\ changes \in 0..MaxChanges
    /\ step \in {"idle", "resolve", "submit", "delete", "list", "ok", "error"}
    /\ command \in {"none", "add", "status", "delete"}
    /\ ids \subseteq Task
    /\ page \in 1..MaxPages + 1 /\ total \in 0..Cardinality(Task)
    /\ found \subseteq Task
    /\ {refused, still, honest} \subseteq BOOLEAN

Init ==
    /\ tasks = Initially
    /\ past = {t \in Task : \E u \in Initially : t <= u}
    /\ changes = 0
    /\ step = "idle" /\ command = "none" /\ ids = {} /\ refused = FALSE
    /\ page = 1 /\ total = 0 /\ found = {} /\ still = TRUE /\ honest = TRUE

-----------------------------------------------------------------------------
\* X_Suffix is a deliberate mistake in X, used to show that a property can
\* fail; no action of the specification uses it.

\* parseTaskIDs: positive, different, at least one.  They are IDs that the
\* service has given out.
Command(c, given) ==
    /\ step = "idle"
    /\ (c = "add") = (given = {})
    /\ command' = c /\ ids' = given
    /\ step' = CASE c = "add" -> "resolve" [] c = "status" -> "list" [] c = "delete" -> "delete"
    /\ UNCHANGED <<tasks, past, changes, refused, paging>>

\* The service accepts a task.
Accept(t) == t \in Task \ past /\ (\A u \in Task \ past : t <= u)
             /\ tasks' = tasks \cup {t} /\ past' = past \cup {t}

\* offlineAdd: resolving changes nothing; the submission is sent once, and an
\* error leaves open whether there is a task.
Resolve ==
    /\ step = "resolve"
    /\ step' \in {"submit", "error"}
    /\ UNCHANGED <<tasks, past, changes, command, ids, refused, paging>>

Submit ==
    /\ step = "submit"
    /\ \/ \E t \in Task : Accept(t) /\ step' \in {"ok", "error"}
       \/ step' = "error" /\ UNCHANGED <<tasks, past>>
    /\ UNCHANGED <<changes, command, ids, refused, paging>>

\* offlineDelete: the request is sent once; the tasks are listed in any case.
RequestDeletion ==
    /\ step = "delete"
    /\ tasks' \in {tasks, tasks \ ids}
    /\ refused' \in BOOLEAN
    /\ step' = "list"
    /\ UNCHANGED <<past, changes, command, ids, paging>>

-----------------------------------------------------------------------------
\* Items of page p, newest first.
Before(t) == Cardinality({u \in tasks : u > t})
Items(p) == {t \in tasks : Before(t) \div PageSize = p - 1}
Answers == {Items(page), Items(page - 1)} \cup {Items(page) \ {t} : t \in Items(page)}

\* The checks of listOfflineTasks on a page.
Fits_Shrinks(items, t) ==
    /\ items \cap found = {}
    /\ Cardinality(found \cup items) <= t
Fits(items, t) ==
    /\ page = 1 \/ t = total
    /\ items \cap found = {}
    /\ Cardinality(found \cup items) <= t

LastPage(items, t) == items = {} \/ page * PageSize >= t

\* What the commands make of the whole list.
Verdict_ByAnswer(list) ==
    IF command = "delete" THEN IF refused THEN "error" ELSE "ok"
    ELSE IF ids \subseteq list THEN "ok" ELSE "error"
Verdict(list) ==
    IF command = "delete" THEN IF ids \cap list = {} THEN "ok" ELSE "error"
    ELSE IF ids \subseteq list THEN "ok" ELSE "error"

Fail == step' = "error" /\ UNCHANGED paging

Receive(items, t) ==
    /\ found' = found \cup items
    /\ total' = t
    /\ page' = page + 1
    /\ step' = IF ~LastPage(items, t) THEN "list"
               ELSE IF Cardinality(found') = t THEN Verdict(found') ELSE "error"
    /\ still' = (page = 1 \/ still)
    /\ honest' = (honest /\ items = Items(page))

\* The next page; the request may fail, and an answer that does not fit ends
\* the command.
FetchTasks ==
    /\ step = "list"
    /\ \/ Fail
       \/ \E items \in Answers :
             LET t == Cardinality(tasks) IN
             page <= MaxPages /\ Fits(items, t) /\ Receive(items, t)
    /\ UNCHANGED <<tasks, past, changes, command, ids, refused>>

-----------------------------------------------------------------------------
\* Other clients add and delete tasks.
ChangeTasks ==
    /\ step \in {"delete", "list"}
    /\ changes < MaxChanges
    /\ changes' = changes + 1
    /\ \/ \E t \in Task : Accept(t)
       \/ \E t \in tasks : tasks' = tasks \ {t} /\ UNCHANGED past
    /\ still' = FALSE
    /\ UNCHANGED <<call, page, total, found, honest>>

Finished == step \in {"ok", "error"} /\ UNCHANGED vars

Step == Resolve \/ Submit \/ RequestDeletion \/ FetchTasks

Next ==
    \/ \E c \in {"add", "status", "delete"}, given \in SUBSET past : Command(c, given)
    \/ Step \/ ChangeTasks \/ Finished

Spec == Init /\ [][Next]_vars

\* Every request is answered or fails.
FairSpec == Spec /\ WF_vars(Step)

-----------------------------------------------------------------------------
(***************************************************************************)
(* offline-delete tells the truth about the tasks and not about the answer *)
(* to its request.  Success means that none of its tasks is left, whatever *)
(* others did between the pages, if the service listed what it kept or     *)
(* nobody changed the tasks; and if the list is complete and nobody        *)
(* changed them, failure means that one is left, so that a deletion whose  *)
(* answer was lost succeeds.                                               *)
(***************************************************************************)
DeleteTellsTheTruth ==
    command = "delete" =>
        /\ step = "ok" /\ (honest \/ still) => ids \cap tasks = {}
        /\ step = "error" /\ page > 1 /\ still /\ Cardinality(found) = total => ids \cap tasks # {}
=============================================================================
