------------------------------ MODULE Session ------------------------------
(***************************************************************************)
(* The account session of client.go: concurrent API calls of one remote    *)
(* share a token, a rejected token is replaced by a login that the calls   *)
(* coordinate through refreshMu, and each call repeats its request once    *)
(* with the new token.  The service is external: it may expire tokens, may *)
(* decide at any time that the account needs a verification (a challenge), *)
(* and its responses may be lost.                                          *)
(*                                                                         *)
(* Each client is one call: a read (do), a write (doNonIdempotent), or     *)
(* Disconnect, which clears the token after its logout request.            *)
(***************************************************************************)
EXTENDS Integers, FiniteSets

CONSTANTS Client,     \* calls of the remote
          Nobody,     \* holder of a free refreshMu
          Retries,    \* how often the pacer repeats a retryable request
          MaxToken    \* bound: tokens the service gives out

ASSUME SessionAssumption ==
    Nobody \notin Client /\ Retries \in Nat /\ MaxToken \in Nat \ {0}

\* Tokens are numbered in the order the service gives them out; 0 is "".
NoToken == 0
Token == 0..MaxToken

VARIABLES token,      \* apiClient.token
          stored,     \* access_token in the configuration
          issued,     \* tokens given out so far
          valid,      \* tokens the service accepts
          suspicious, \* the service answers with challenges
          mutex,      \* holder of refreshMu
          pc,         \* where each call is
          kind,       \* read, write or disconnect
          bad,        \* badToken: the token of the first request
          use,        \* the token of the request under way
          fresh,      \* the token a login has received
          tries,      \* repetitions the pacer has left for the request under way
          effects,    \* how often the call's request took effect
          result

service == <<issued, valid, suspicious>>
vars == <<token, stored, issued, valid, suspicious, mutex, pc, kind, bad, use,
          fresh, tries, effects, result>>

Kind == {"read", "write", "disconnect"}

Phase == {"idle", "call", "login", "signin", "set", "persist", "reread", "recall",
          "clear", "clearStored", "done"}

TypeOK ==
    /\ token \in Token /\ stored \in Token /\ issued \in Token
    /\ valid \subseteq 1..issued
    /\ suspicious \in BOOLEAN
    /\ mutex \in Client \cup {Nobody}
    /\ pc \in [Client -> Phase]
    /\ kind \in [Client -> Kind]
    /\ bad \in [Client -> Token] /\ use \in [Client -> Token] /\ fresh \in [Client -> Token]
    /\ tries \in [Client -> 0..Retries]
    /\ effects \in [Client -> 0..2 * (Retries + 1)]
    /\ result \in [Client -> {"none", "ok", "error", "unauthorized", "challenge",
                            "loginChallenge"}]

\* NewFs has validated the account with a token; it may have expired since.
Init ==
    /\ token = 1 /\ stored = 1 /\ issued = 1
    /\ valid \in {{}, {1}}
    /\ suspicious = FALSE
    /\ mutex = Nobody
    /\ pc = [c \in Client |-> "idle"]
    /\ kind \in [Client -> Kind]
    /\ bad = [c \in Client |-> NoToken]
    /\ use = [c \in Client |-> NoToken]
    /\ fresh = [c \in Client |-> NoToken]
    /\ tries = [c \in Client |-> 0]
    /\ effects = [c \in Client |-> 0]
    /\ result = [c \in Client |-> "none"]

-----------------------------------------------------------------------------
\* X_Suffix is a deliberate mistake in X, used to show that a property can
\* fail; no action of the specification uses it.

Goto(c, step) == pc' = [pc EXCEPT ![c] = step]

\* The call is over; Disconnect still clears the token, whatever happened.
Finish(c, r) ==
    /\ result' = [result EXCEPT ![c] = r]
    /\ Goto(c, IF kind[c] = "disconnect" THEN "clear" ELSE "done")

\* pacer.Call repeats reads and logins, pacer.CallNoRetry nothing.
MayRepeat_Writes(c, repeatable) == tries[c] > 0
MayRepeat(c, repeatable) == repeatable /\ tries[c] > 0

\* do and doNonIdempotent: the first request uses the token they read.
Begin(c) ==
    /\ pc[c] = "idle"
    /\ bad' = [bad EXCEPT ![c] = token]
    /\ use' = [use EXCEPT ![c] = token]
    /\ tries' = [tries EXCEPT ![c] = Retries]
    /\ Goto(c, "call")
    /\ UNCHANGED <<token, stored, service, mutex, kind, fresh, effects, result>>

\* The service carries out c's request.
TakesEffect(c) ==
    /\ use[c] \in valid
    /\ effects' = [effects EXCEPT ![c] = @ + 1]
    /\ valid' = IF kind[c] = "disconnect" THEN valid \ {use[c]} ELSE valid

Succeed(c) == TakesEffect(c) /\ Finish(c, "ok") /\ UNCHANGED tries

\* The token is rejected: the first time it is refreshed, the second time the
\* rejection is the result.
Reject(c) ==
    /\ use[c] \notin valid
    /\ IF pc[c] = "call" THEN Goto(c, "login") /\ UNCHANGED result
                         ELSE Finish(c, "unauthorized")
    /\ UNCHANGED <<effects, valid, tries>>

\* A challenge ends the call at once.
Challenge(c) ==
    /\ suspicious
    /\ Finish(c, "challenge")
    /\ UNCHANGED <<effects, valid, tries>>

\* A transport error or a retryable status, before or after the effect.
Lose(c) ==
    /\ TakesEffect(c) \/ UNCHANGED <<effects, valid>>
    /\ IF MayRepeat(c, kind[c] = "read")
       THEN tries' = [tries EXCEPT ![c] = @ - 1] /\ UNCHANGED <<pc, result>>
       ELSE Finish(c, "error") /\ UNCHANGED tries

Request(c) ==
    /\ pc[c] \in {"call", "recall"}
    /\ Succeed(c) \/ Reject(c) \/ Challenge(c) \/ Lose(c)
    /\ UNCHANGED <<token, stored, issued, suspicious, mutex, kind, bad, use, fresh>>

-----------------------------------------------------------------------------
\* login: somebody else has replaced the rejected token already.
Refreshed_Never(c) == FALSE
Refreshed(c) == token # bad[c] /\ token # NoToken

Login(c) ==
    /\ pc[c] = "login"
    /\ mutex = Nobody
    /\ IF Refreshed(c)
       THEN Goto(c, "reread") /\ UNCHANGED <<mutex, tries>>
       ELSE /\ mutex' = c
            /\ Goto(c, "signin")
            /\ tries' = [tries EXCEPT ![c] = Retries]
    /\ UNCHANGED <<token, stored, service, kind, bad, use, fresh, effects, result>>

\* The service gives out one more token.
Issue ==
    /\ issued < MaxToken
    /\ issued' = issued + 1
    /\ valid' = valid \cup {issued'}

\* login returns an error, its deferred unlock runs.
GiveUpLogin_Locked(c, r) == Finish(c, r) /\ UNCHANGED <<mutex, tries>>
GiveUpLogin(c, r) == Finish(c, r) /\ mutex' = Nobody /\ UNCHANGED tries

\* The login request; the pacer repeats it when its response is lost.
SignIn(c) ==
    /\ pc[c] = "signin"
    /\ \/ /\ Issue
          /\ fresh' = [fresh EXCEPT ![c] = issued']
          /\ Goto(c, "set")
          /\ UNCHANGED <<mutex, tries, result>>
       \/ /\ Issue \/ UNCHANGED <<issued, valid>>
          /\ IF MayRepeat(c, TRUE)
             THEN tries' = [tries EXCEPT ![c] = @ - 1] /\ UNCHANGED <<pc, mutex, result>>
             ELSE GiveUpLogin(c, "error")
          /\ UNCHANGED fresh
       \/ GiveUpLogin(c, "error") /\ UNCHANGED <<issued, valid, fresh>>
       \/ suspicious /\ GiveUpLogin(c, "loginChallenge") /\ UNCHANGED <<issued, valid, fresh>>
    /\ UNCHANGED <<token, stored, suspicious, kind, bad, use, effects>>

\* setToken, then config.Set, both under refreshMu.
SetToken(c) ==
    /\ pc[c] = "set"
    /\ token' = fresh[c]
    /\ Goto(c, "persist")
    /\ UNCHANGED <<stored, service, mutex, kind, bad, use, fresh, tries, effects, result>>

Persist_Nothing(c) == UNCHANGED stored
Persist(c) == stored' = fresh[c]

EndLogin(c) ==
    /\ pc[c] = "persist"
    /\ Persist(c)
    /\ mutex' = Nobody
    /\ Goto(c, "reread")
    /\ UNCHANGED <<token, service, kind, bad, use, fresh, tries, effects, result>>

\* The request is repeated once, with the token of that moment.
Reread(c) ==
    /\ pc[c] = "reread"
    /\ use' = [use EXCEPT ![c] = token]
    /\ tries' = [tries EXCEPT ![c] = Retries]
    /\ Goto(c, "recall")
    /\ UNCHANGED <<token, stored, service, mutex, kind, bad, fresh, effects, result>>

-----------------------------------------------------------------------------
\* Disconnect after its logout request: setToken(""), config.Set("").
ClearToken(c) ==
    /\ pc[c] = "clear"
    /\ token' = NoToken
    /\ Goto(c, "clearStored")
    /\ UNCHANGED <<stored, service, mutex, kind, bad, use, fresh, tries, effects, result>>

ClearStored(c) ==
    /\ pc[c] = "clearStored"
    /\ stored' = NoToken
    /\ Goto(c, "done")
    /\ UNCHANGED <<token, service, mutex, kind, bad, use, fresh, tries, effects, result>>

\* The service: a token expires; the account is put under suspicion.
Expire ==
    /\ \E t \in valid : valid' = valid \ {t}
    /\ UNCHANGED <<token, stored, issued, suspicious, mutex, pc, kind, bad, use,
                   fresh, tries, effects, result>>

Suspect ==
    /\ ~suspicious
    /\ suspicious' = TRUE
    /\ UNCHANGED <<token, stored, issued, valid, mutex, pc, kind, bad, use,
                   fresh, tries, effects, result>>

Finished ==
    /\ \A c \in Client : pc[c] = "done"
    /\ UNCHANGED vars

Step(c) ==
    \/ Request(c) \/ Login(c) \/ SignIn(c) \/ SetToken(c) \/ EndLogin(c) \/ Reread(c)
    \/ ClearToken(c) \/ ClearStored(c)

Next == (\E c \in Client : Begin(c) \/ Step(c)) \/ Expire \/ Suspect \/ Finished

Spec == Init /\ [][Next]_vars

\* Requests are answered or fail, and goroutines that can run do.
FairSpec == Spec /\ \A c \in Client : WF_vars(Step(c))

-----------------------------------------------------------------------------
(***************************************************************************)
(* A non-idempotent request takes effect at most once, although it is sent *)
(* again after a login: the pacer never repeats it, and a rejected token   *)
(* means that it was not carried out.                                      *)
(***************************************************************************)
WritesAtMostOnce == \A c \in Client : kind[c] # "read" => effects[c] <= 1

(***************************************************************************)
(* Any number of calls whose token was rejected log in once: a login is    *)
(* never sent while the remote holds a token the service accepts.          *)
(***************************************************************************)
NoNeedlessLogin == [][issued' # issued => token \notin valid]_vars

(***************************************************************************)
(* While nobody disconnects, the configuration holds the remote's token    *)
(* except in the middle of a login.                                        *)
(***************************************************************************)
TokenIsStored ==
    (\A c \in Client : kind[c] # "disconnect" /\ pc[c] # "persist") => stored = token

(***************************************************************************)
(* Every call returns: no endless login, nobody is stuck behind a failed   *)
(* one.                                                                    *)
(***************************************************************************)
EveryCallReturns == \A c \in Client : pc[c] = "call" ~> pc[c] = "done"

(***************************************************************************)
(* docs/123pan.md: a challenge ends requests before any password login, so *)
(* concurrent transfers do not cause a storm of logins.  A login that is   *)
(* answered with a challenge is not followed by the logins of the calls    *)
(* that were waiting for it.                                               *)
(***************************************************************************)
NoLoginStorm == Cardinality({c \in Client : result[c] = "loginChallenge"}) <= 1
=============================================================================
