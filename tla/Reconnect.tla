----------------------------- MODULE Reconnect -----------------------------
(***************************************************************************)
(* Processes that start with the saved configuration: `rclone config       *)
(* reconnect` (reconnectAuthentication in config.go), which logs in with a *)
(* staging configuration and saves the token only when the account has     *)
(* answered for it, and the opening of a remote (NewFs), whose login saves *)
(* its token at once.  Each has the token in its own memory; they share    *)
(* the configuration file, and may die at any step.                        *)
(*                                                                         *)
(* The calls of an open remote are in Session.  A request that the pacer   *)
(* repeats is one step here, with the outcome of the last.                 *)
(***************************************************************************)
EXTENDS Integers

CONSTANTS Process,
          MaxToken   \* bound: tokens the service gives out

\* What the module assumes of its constants; its instances state it.
ReconnectAssumption == MaxToken \in Nat \ {0}

NoToken == 0
Token == 0..MaxToken

VARIABLES saved,    \* access_token in the configuration
          issued,   \* tokens given out so far
          valid,    \* tokens the service accepts
          guarded,  \* the service wants a verification before any login
          job,      \* "reconnect" or "open"
          at,       \* where each process is
          mine,     \* the token in its memory
          proven,   \* tokens the account has answered for
          writer    \* who saved the token: a job, or "user" for the first one

service == <<issued, valid, guarded>>
process == <<job, at, mine>>
session == <<saved, service, process, proven, writer>>

TypeOK ==
    /\ saved \in Token /\ issued \in Token
    /\ valid \subseteq Token /\ proven \subseteq Token
    /\ guarded \in BOOLEAN
    /\ job \in [Process -> {"reconnect", "open"}]
    /\ at \in [Process -> {"idle", "login", "identify", "relogin", "reidentify", "save",
                           "roots", "rootlogin", "reroots", "done", "failed"}]
    /\ mine \in [Process -> Token]
    /\ writer \in {"user", "reconnect", "open"}

\* No token, a token that has expired, or a good one.
Init ==
    /\ saved \in {NoToken, 1}
    /\ issued = saved
    /\ valid \in SUBSET {saved} \ {{NoToken}}
    /\ guarded \in BOOLEAN
    /\ job \in [Process -> {"reconnect", "open"}]
    /\ at = [p \in Process |-> "idle"]
    /\ mine = [p \in Process |-> NoToken]
    /\ proven = valid
    /\ writer = "user"

-----------------------------------------------------------------------------
\* X_Suffix is a deliberate mistake in X, used to show that a property can
\* fail; no action of the specification uses it.

Goto(p, step) == at' = [at EXCEPT ![p] = step]

\* NewFs and reconnect read the configuration; only reconnect logs in anyway.
Begin(p) ==
    /\ at[p] = "idle"
    /\ mine' = [mine EXCEPT ![p] = saved]
    /\ Goto(p, IF job[p] = "reconnect" \/ saved = NoToken THEN "login" ELSE "identify")
    /\ UNCHANGED <<saved, service, job, proven, writer>>

Save(p, t) == saved' = t /\ writer' = job[p]

\* login saves the token in the configuration of its client.
StageLogin_InPlace(p, t) == Save(p, t)
StageLogin(p, t) == IF job[p] = "open" THEN Save(p, t) ELSE UNCHANGED <<saved, writer>>

\* Where a login leads: to the request that was rejected, once more.
AfterSignIn(p) ==
    CASE at[p] = "login"     -> "identify"
      [] at[p] = "relogin"   -> "reidentify"
      [] at[p] = "rootlogin" -> "reroots"

SignIn(p) ==
    /\ at[p] \in {"login", "relogin", "rootlogin"}
    /\ \/ /\ ~guarded /\ issued < MaxToken
          /\ issued' = issued + 1
          /\ valid' = valid \cup {issued'}
          /\ mine' = [mine EXCEPT ![p] = issued']
          /\ StageLogin(p, issued')
          /\ Goto(p, AfterSignIn(p))
       \/ Goto(p, "failed") /\ UNCHANGED <<saved, writer, issued, valid, mine>>
    /\ UNCHANGED <<guarded, job, proven>>

\* UserInfo: reconnect calls it with the new token and takes no for an answer,
\* NewFs logs in again once.
Identify(p) ==
    /\ at[p] \in {"identify", "reidentify"}
    /\ \/ /\ mine[p] \in valid
          /\ proven' = proven \cup {mine[p]}
          /\ Goto(p, IF job[p] = "reconnect" THEN "save" ELSE "roots")
       \/ /\ mine[p] \notin valid
          /\ Goto(p, IF job[p] = "open" /\ at[p] = "identify" THEN "relogin" ELSE "failed")
          /\ UNCHANGED proven
       \/ Goto(p, "failed") /\ UNCHANGED proven
    /\ UNCHANGED <<saved, service, job, mine, writer>>

SaveToken(p) ==
    /\ at[p] = "save"
    /\ Save(p, mine[p])
    /\ Goto(p, "done")
    /\ UNCHANGED <<service, job, mine, proven>>

\* NewFs lists the configured root, then that of the command, in any number of
\* requests; when one finds the token expired, it logs in again once for it.
ValidateRoots(p) ==
    /\ at[p] \in {"roots", "reroots"}
    /\ \/ /\ mine[p] \in valid
          /\ proven' = proven \cup {mine[p]}
          /\ Goto(p, "roots") \/ Goto(p, "done")
       \/ /\ mine[p] \notin valid
          /\ Goto(p, IF at[p] = "roots" THEN "rootlogin" ELSE "failed")
          /\ UNCHANGED proven
       \/ Goto(p, "failed") /\ UNCHANGED proven
    /\ UNCHANGED <<saved, service, job, mine, writer>>

Die(p) ==
    /\ at[p] \notin {"idle", "done", "failed"}
    /\ Goto(p, "failed")
    /\ UNCHANGED <<saved, service, job, mine, proven, writer>>

Expire ==
    /\ \E t \in valid : valid' = valid \ {t}
    /\ UNCHANGED <<saved, issued, guarded, process, proven, writer>>

\* The account falls under suspicion, or the user completes the verification.
Verify == guarded' = ~guarded /\ UNCHANGED <<saved, issued, valid, process, proven, writer>>

Next ==
    \/ \E p \in Process :
          Begin(p) \/ SignIn(p) \/ Identify(p) \/ SaveToken(p) \/ ValidateRoots(p) \/ Die(p)
    \/ Expire \/ Verify

Spec == Init /\ [][Next]_session

-----------------------------------------------------------------------------
(***************************************************************************)
(* reconnect is transactional with respect to the saved token (config.go): *)
(* what it has saved is a token the account has answered for, and while it *)
(* is under way, dies or fails, the configuration keeps what it had, up to *)
(* what a remote that is opened beside it saves.                           *)
(***************************************************************************)
ReconnectProvesFirst ==
    /\ writer = "reconnect" => saved \in proven
    /\ (\A p \in Process : job[p] = "reconnect") /\ (\A p \in Process : at[p] # "done") => writer = "user"
=============================================================================
