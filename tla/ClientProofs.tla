---------------------------- MODULE ClientProofs ----------------------------
(***************************************************************************)
(* Proofs about the API client, Session, EndpointGate and Reconnect, and   *)
(* about the map of locks that the handlers of one account share,          *)
(* KeyedLocks.                                                             *)
(*                                                                         *)
(* A write takes effect at most once, a login is never sent while the      *)
(* remote holds a good token, and the configuration keeps the token: for   *)
(* any calls, any number of repetitions and any number of tokens.  The     *)
(* gate never falls below its interval on average, a reconnect saves only  *)
(* a token that was proven, and the map of locks keeps its promise; each   *)
(* has its argument further down.                                          *)
(*                                                                         *)
(* The argument for the login: a call gets to refreshMu only with a token  *)
(* that was rejected, and a token that is not valid never becomes valid    *)
(* again.  While the call holds refreshMu nobody else can set the token,   *)
(* except Disconnect, which clears it.  So between its look at the token   *)
(* and its login the remote's token is the rejected one, or none.          *)
(***************************************************************************)
EXTENDS MCClient, MCKeyedLocks, FiniteSetTheorems, TLAPS

\* refreshMu is held from the look at the token to its storage.
Holding == {"signin", "set", "persist"}
Exclusive == \A c \in Client : mutex = c <=> pc[c] \in Holding

\* Nobody has a token that was not given out.
Known ==
    /\ token <= issued
    /\ \A c \in Client : bad[c] <= issued /\ use[c] <= issued /\ fresh[c] <= issued

\* The first request uses the token read first; who logs in was rejected.
Rejected ==
    \A c \in Client :
        /\ pc[c] = "call" => use[c] = bad[c]
        /\ pc[c] \in {"login", "signin"} => bad[c] \notin valid

\* The token that was found rejected is still the remote's, or was cleared.
Waiting == \A c \in Client : pc[c] = "signin" => token \in {bad[c], NoToken}

\* How often the requests of a call may have had their effect so far.
Over == {"clear", "clearStored", "done"}
Counted ==
    \A c \in Client :
        /\ pc[c] = "idle" => effects[c] = 0
        /\ pc[c] = "call" => effects[c] + tries[c] <= Retries
        /\ pc[c] \in {"login", "signin", "set", "persist", "reread"} => effects[c] <= Retries
        /\ pc[c] = "recall" => effects[c] + tries[c] <= 2 * Retries
        /\ effects[c] <= 2 * Retries + 1

\* A write is over as soon as it may have had its effect.
WrittenOnce ==
    \A c \in Client :
        kind[c] # "read" => effects[c] <= 1 /\ (pc[c] \notin Over => effects[c] = 0)

\* Only Disconnect clears the token; without it a login stores what it set.
Saved ==
    /\ \A c \in Client : pc[c] \in {"clear", "clearStored"} => kind[c] = "disconnect"
    /\ (\A c \in Client : kind[c] # "disconnect") =>
          /\ \A c \in Client : pc[c] = "persist" => token = fresh[c]
          /\ (\A c \in Client : pc[c] # "persist") => stored = token

\* The inductive invariant.
IInv == TypeOK /\ Exclusive /\ Known /\ Rejected /\ Waiting /\ Counted /\ WrittenOnce /\ Saved

-----------------------------------------------------------------------------
(***************************************************************************)
(* NewFs leaves a state that satisfies the invariant.                      *)
(***************************************************************************)
LEMMA InitIInv == Init => IInv
<1> SUFFICES ASSUME Init PROVE IInv
  OBVIOUS
<1>1. TypeOK
  <2>1. 0 \in Token /\ 1 \in Token /\ 0 \in 0..Retries /\ 0 \in 0..2 * (Retries + 1)
    BY SessionAssumption DEF Token
  <2>2. valid \subseteq 1..issued
    BY DEF Init
  <2> QED
    BY <2>1, <2>2 DEF Init, TypeOK, NoToken, Phase
<1>2. Exclusive /\ Rejected /\ Waiting /\ Saved
  BY SessionAssumption DEF Init, Exclusive, Holding, Rejected, Waiting, Saved
<1>3. Known /\ Counted /\ WrittenOnce
  BY SessionAssumption DEF Init, Known, NoToken, Counted, WrittenOnce
<1> QED
  BY <1>1, <1>2, <1>3 DEF IInv

(***************************************************************************)
(* do and doNonIdempotent begin: the token is read.                        *)
(***************************************************************************)
LEMMA BeginIInv == ASSUME IInv, NEW c \in Client, Begin(c) PROVE IInv'
<1> USE SessionAssumption DEF IInv, Begin, Goto, service
<1>1. TypeOK'
  BY DEF TypeOK, Token, Phase
<1>2. Exclusive' /\ Known'
  BY DEF TypeOK, Exclusive, Holding, Known
<1>3. Rejected' /\ Waiting' /\ Saved'
  BY DEF TypeOK, Rejected, Waiting, Saved
<1>4. Counted' /\ WrittenOnce'
  BY DEF TypeOK, Counted, Over, WrittenOnce
<1> QED
  BY <1>1, <1>2, <1>3, <1>4

(***************************************************************************)
(* A request and its answer.  It changes neither the token nor who holds   *)
(* refreshMu, and tokens only lose their validity.                         *)
(***************************************************************************)
LEMMA RequestIInv == ASSUME IInv, NEW c \in Client, Request(c) PROVE IInv'
<1> USE SessionAssumption DEF IInv, Request, Goto, Finish
<1>1. CASE Succeed(c)
  <2> USE <1>1 DEF Succeed, TakesEffect
  <2>1. pc' \in [Client -> Phase] /\ pc'[c] \in Over /\ valid' \subseteq valid
    BY DEF TypeOK, Phase, Over
  <2>2. effects'[c] = effects[c] + 1 /\ effects[c] <= 2 * Retries
    BY DEF TypeOK, Counted
  <2>3. TypeOK'
    BY <2>1, <2>2 DEF TypeOK, Token
  <2>4. Exclusive' /\ Known' /\ Rejected' /\ Waiting' /\ Saved'
    BY <2>1 DEF TypeOK, Exclusive, Holding, Known, Rejected, Waiting, Saved
  <2>5. Counted' /\ WrittenOnce'
    BY <2>2 DEF TypeOK, Counted, WrittenOnce, Over
  <2> QED
    BY <2>3, <2>4, <2>5
<1>2. CASE Reject(c)
  <2> USE <1>2 DEF Reject
  <2>1. TypeOK'
    BY DEF TypeOK, Phase, Token
  <2>2. Exclusive' /\ Known' /\ Rejected' /\ Waiting' /\ Saved'
    BY DEF TypeOK, Exclusive, Holding, Known, Rejected, Waiting, Saved
  <2>3. Counted' /\ WrittenOnce'
    BY DEF TypeOK, Counted, WrittenOnce, Over
  <2> QED
    BY <2>1, <2>2, <2>3
<1>3. CASE Challenge(c)
  <2> USE <1>3 DEF Challenge
  <2>1. TypeOK'
    BY DEF TypeOK, Phase, Token
  <2>2. Exclusive' /\ Known' /\ Rejected' /\ Waiting' /\ Saved'
    BY DEF TypeOK, Exclusive, Holding, Known, Rejected, Waiting, Saved
  <2>3. Counted' /\ WrittenOnce'
    BY DEF TypeOK, Counted, WrittenOnce, Over
  <2> QED
    BY <2>1, <2>2, <2>3
<1>4. CASE Lose(c)
  <2> USE <1>4 DEF Lose, MayRepeat
  <2>1. /\ valid' \subseteq valid
        /\ \/ effects' = effects
           \/ effects' = [effects EXCEPT ![c] = @ + 1]
    BY DEF TakesEffect
  <2>2. effects[c] <= 2 * Retries
    BY DEF TypeOK, Counted
  <2>3. effects' \in [Client -> 0..2 * (Retries + 1)]
    BY <2>1, <2>2 DEF TypeOK
  <2>4. pc' \in [Client -> Phase] /\ tries' \in [Client -> 0..Retries]
    BY DEF TypeOK, Phase
  <2>5. TypeOK'
    BY <2>1, <2>3, <2>4 DEF TypeOK, Token
  <2>6. Exclusive' /\ Known' /\ Rejected' /\ Waiting' /\ Saved'
    <3>1. CASE UNCHANGED pc
      BY <2>1, <3>1 DEF TypeOK, Exclusive, Holding, Known, Rejected, Waiting, Saved
    <3>2. CASE pc' = [pc EXCEPT ![c] = IF kind[c] = "disconnect" THEN "clear" ELSE "done"]
      BY <2>1, <3>2 DEF TypeOK, Exclusive, Holding, Known, Rejected, Waiting, Saved
    <3> QED
      BY <3>1, <3>2
  <2>7. Counted'
    BY <2>1, <2>2 DEF TypeOK, Counted, Over
  <2>8. WrittenOnce'
    BY <2>1 DEF TypeOK, WrittenOnce, Over
  <2> QED
    BY <2>5, <2>6, <2>7, <2>8
<1> QED
  BY <1>1, <1>2, <1>3, <1>4

(***************************************************************************)
(* login finds a token somebody else has set, or takes refreshMu.  The     *)
(* remote's token is the rejected one then, or none.                       *)
(***************************************************************************)
LEMMA LoginIInv == ASSUME IInv, NEW c \in Client, Login(c) PROVE IInv'
<1> USE SessionAssumption DEF IInv, Login, Refreshed, Goto, service
<1>1. TypeOK'
  BY DEF TypeOK, Token, Phase
<1>2. Exclusive' /\ Known'
  BY DEF TypeOK, Exclusive, Holding, Known
<1>3. Rejected' /\ Waiting' /\ Saved'
  BY DEF TypeOK, Rejected, Waiting, Saved
<1>4. Counted' /\ WrittenOnce'
  BY DEF TypeOK, Counted, Over, WrittenOnce
<1> QED
  BY <1>1, <1>2, <1>3, <1>4

(***************************************************************************)
(* The login request and its answer: a new token may have been given out.  *)
(* No token that was valid or rejected before changes its standing.        *)
(***************************************************************************)
LEMMA SignInIInv == ASSUME IInv, NEW c \in Client, SignIn(c) PROVE IInv'
<1> USE SessionAssumption DEF IInv, SignIn, Goto
<1>0. \/ Issue
      \/ UNCHANGED <<issued, valid>>
  BY DEF GiveUpLogin
<1>1. /\ issued' \in Token /\ issued <= issued' /\ valid' \subseteq 1..issued'
      /\ \A t \in 0..issued : t \notin valid => t \notin valid'
  <2>1. issued \in Token /\ valid \subseteq 1..issued
    BY DEF TypeOK
  <2>2. CASE Issue
    BY <2>1, <2>2 DEF Token, Issue
  <2>3. CASE UNCHANGED <<issued, valid>>
    BY <2>1, <2>3 DEF Token
  <2> QED
    BY <1>0, <2>2, <2>3
<1>2. fresh' \in [Client -> Token] /\ \A d \in Client : fresh'[d] <= issued'
  <2>1. fresh \in [Client -> Token] /\ \A d \in Client : fresh[d] <= issued
    BY DEF TypeOK, Known
  <2>2. fresh' = fresh \/ fresh' = [fresh EXCEPT ![c] = issued']
    BY DEF GiveUpLogin
  <2>3. issued \in Int /\ issued' \in Int /\ \A t \in Token : t \in Int
    BY <1>1 DEF TypeOK, Token
  <2>4. fresh' \in [Client -> Token]
    BY ONLY <1>1, <2>1, <2>2
  <2>5. ASSUME NEW d \in Client PROVE fresh'[d] <= issued'
    <3>1. fresh'[d] = fresh[d] \/ fresh'[d] = issued'
      BY ONLY <2>1, <2>2
    <3>2. fresh[d] \in Int /\ fresh[d] <= issued
      BY ONLY <2>1, <2>3
    <3> QED
      BY ONLY <1>1, <2>3, <3>1, <3>2
  <2> QED
    BY ONLY <2>4, <2>5
<1>3. pc' \in [Client -> Phase] /\ tries' \in [Client -> 0..Retries]
  BY DEF TypeOK, Phase, GiveUpLogin, Finish, MayRepeat
<1>4. /\ pc[c] = "signin"
      /\ \/ pc' = pc /\ mutex' = mutex
         \/ pc' = [pc EXCEPT ![c] = "set"] /\ mutex' = mutex
         \/ /\ pc' = [pc EXCEPT ![c] = IF kind[c] = "disconnect" THEN "clear" ELSE "done"]
            /\ mutex' = Nobody
  BY DEF GiveUpLogin, Finish
<1>5. \A d \in Client \ {c} : pc'[d] = pc[d] /\ fresh'[d] = fresh[d] /\ tries'[d] = tries[d]
  BY DEF TypeOK, GiveUpLogin, Finish
<1>6. TypeOK'
  BY <1>1, <1>2, <1>3 DEF TypeOK, Token, GiveUpLogin, Finish
<1>7. Exclusive'
  BY <1>4 DEF TypeOK, Exclusive, Holding
<1>8. Known'
  BY <1>1, <1>2 DEF TypeOK, Token, Known
<1>9. Rejected'
  <2> SUFFICES ASSUME NEW d \in Client
               PROVE  /\ pc'[d] = "call" => use'[d] = bad'[d]
                      /\ pc'[d] \in {"login", "signin"} => bad'[d] \notin valid'
    BY DEF Rejected
  <2>1. pc'[d] \in {"call", "login", "signin"} => pc'[d] = pc[d]
    BY <1>4, <1>5 DEF TypeOK
  <2>2. bad[d] \in 0..issued
    BY DEF TypeOK, Token, Known
  <2> QED
    BY <1>1, <2>1, <2>2 DEF Rejected
<1>10. Waiting'
  BY <1>4 DEF TypeOK, Waiting
<1>11. Counted' /\ WrittenOnce'
  BY <1>4, <1>5 DEF TypeOK, Counted, Over, WrittenOnce
<1>12. Saved'
  BY <1>4, <1>5 DEF TypeOK, Saved
<1> QED
  BY <1>6, <1>7, <1>8, <1>9, <1>10, <1>11, <1>12

(***************************************************************************)
(* setToken: the holder of refreshMu sets the token, so nobody else is     *)
(* between its look at the token and its login.                            *)
(***************************************************************************)
LEMMA SetTokenIInv == ASSUME IInv, NEW c \in Client, SetToken(c) PROVE IInv'
<1> USE SessionAssumption DEF IInv, SetToken, Goto, service
<1>1. TypeOK'
  BY DEF TypeOK, Token, Phase
<1>2. Exclusive' /\ Known'
  BY DEF TypeOK, Exclusive, Holding, Known
<1>3. Rejected' /\ Waiting'
  BY DEF TypeOK, Rejected, Waiting, Exclusive, Holding
<1>4. Saved'
  <2>1. \A d \in Client : d # c => pc'[d] # "persist"
    BY DEF TypeOK, Exclusive, Holding
  <2> QED
    BY <2>1 DEF TypeOK, Saved
<1>5. Counted' /\ WrittenOnce'
  BY DEF TypeOK, Counted, Over, WrittenOnce
<1> QED
  BY <1>1, <1>2, <1>3, <1>4, <1>5

(***************************************************************************)
(* config.Set: the configuration gets the token that was set under the     *)
(* same refreshMu.                                                         *)
(***************************************************************************)
LEMMA EndLoginIInv == ASSUME IInv, NEW c \in Client, EndLogin(c) PROVE IInv'
<1> USE SessionAssumption DEF IInv, EndLogin, Persist, Goto, service
<1>1. TypeOK'
  BY DEF TypeOK, Token, Phase
<1>2. Exclusive' /\ Known'
  BY DEF TypeOK, Exclusive, Holding, Known
<1>3. Rejected' /\ Waiting' /\ Saved'
  BY DEF TypeOK, Rejected, Waiting, Saved
<1>4. Counted' /\ WrittenOnce'
  BY DEF TypeOK, Counted, Over, WrittenOnce
<1> QED
  BY <1>1, <1>2, <1>3, <1>4

(***************************************************************************)
(* The request is prepared again, with the token of that moment.           *)
(***************************************************************************)
LEMMA RereadIInv == ASSUME IInv, NEW c \in Client, Reread(c) PROVE IInv'
<1> USE SessionAssumption DEF IInv, Reread, Goto, service
<1>1. TypeOK'
  BY DEF TypeOK, Token, Phase
<1>2. Exclusive' /\ Known'
  BY DEF TypeOK, Exclusive, Holding, Known
<1>3. Rejected' /\ Waiting' /\ Saved'
  BY DEF TypeOK, Rejected, Waiting, Saved
<1>4. Counted' /\ WrittenOnce'
  BY DEF TypeOK, Counted, Over, WrittenOnce
<1> QED
  BY <1>1, <1>2, <1>3, <1>4

(***************************************************************************)
(* Disconnect clears the token and the configuration without refreshMu.    *)
(***************************************************************************)
LEMMA ClearIInv ==
    ASSUME IInv, NEW c \in Client, ClearToken(c) \/ ClearStored(c) PROVE IInv'
<1> USE SessionAssumption DEF IInv, ClearToken, ClearStored, Goto, service
<1>1. TypeOK'
  <2>1. NoToken \in Token
    BY DEF NoToken, Token
  <2> QED
    BY <2>1 DEF TypeOK, Phase
<1>2. Exclusive' /\ Known'
  BY DEF TypeOK, Token, NoToken, Exclusive, Holding, Known
<1>3. Rejected' /\ Waiting' /\ Saved'
  BY DEF TypeOK, Rejected, Waiting, Saved
<1>4. Counted' /\ WrittenOnce'
  BY DEF TypeOK, Counted, Over, WrittenOnce
<1> QED
  BY <1>1, <1>2, <1>3, <1>4

(***************************************************************************)
(* The service: a token expires, the account comes under suspicion.        *)
(***************************************************************************)
LEMMA ServiceIInv == ASSUME IInv, Expire \/ Suspect PROVE IInv'
<1> USE DEF IInv, Expire, Suspect
<1>1. valid' \subseteq valid
  OBVIOUS
<1>2. TypeOK'
  BY <1>1 DEF TypeOK
<1>3. Exclusive' /\ Known' /\ Waiting' /\ Counted' /\ WrittenOnce' /\ Saved'
  BY DEF Exclusive, Known, Waiting, Counted, WrittenOnce, Saved
<1>4. Rejected'
  BY <1>1 DEF Rejected
<1> QED
  BY <1>2, <1>3, <1>4

(***************************************************************************)
(* Nothing happens.                                                        *)
(***************************************************************************)
LEMMA StutterIInv == ASSUME IInv, UNCHANGED vars PROVE IInv'
BY DEF vars, service, IInv, TypeOK, Exclusive, Known, Rejected, Waiting, Counted,
       WrittenOnce, Saved

(***************************************************************************)
(* IInv is an inductive invariant of the session.                          *)
(***************************************************************************)
THEOREM Inductive == Spec => []IInv
<1>1. IInv /\ [Next]_vars => IInv'
  <2> SUFFICES ASSUME IInv, [Next]_vars PROVE IInv'
    OBVIOUS
  <2>1. ASSUME NEW c \in Client, Begin(c) \/ Step(c) PROVE IInv'
    BY <2>1, BeginIInv, RequestIInv, LoginIInv, SignInIInv, SetTokenIInv, EndLoginIInv,
       RereadIInv, ClearIInv DEF Step
  <2>2. CASE Expire \/ Suspect
    BY <2>2, ServiceIInv
  <2>3. CASE Finished \/ UNCHANGED vars
    BY <2>3, StutterIInv DEF Finished
  <2> QED
    BY <2>1, <2>2, <2>3 DEF Next
<1> QED
  BY <1>1, InitIInv, PTL DEF Spec

-----------------------------------------------------------------------------
(***************************************************************************)
(* The state of the remote and its calls is well-typed; in particular a    *)
(* call never repeats its request more often than pacer and login allow.   *)
(***************************************************************************)
THEOREM SessionTyped == Spec => []TypeOK
BY Inductive, PTL DEF IInv

(***************************************************************************)
(* A write that is sent again after a login has taken effect at most once. *)
(***************************************************************************)
THEOREM WritesOnce == Spec => []WritesAtMostOnce
<1>1. IInv => WritesAtMostOnce
  BY DEF IInv, WrittenOnce, WritesAtMostOnce
<1> QED
  BY <1>1, Inductive, PTL

(***************************************************************************)
(* Without a Disconnect the configuration holds the remote's token.        *)
(***************************************************************************)
THEOREM Stored == Spec => []TokenIsStored
<1>1. IInv => TokenIsStored
  BY DEF IInv, Saved, TokenIsStored
<1> QED
  BY <1>1, Inductive, PTL

(***************************************************************************)
(* A login is only sent while the remote holds no token the service        *)
(* accepts, whoever else is logging in, disconnecting or losing requests.  *)
(***************************************************************************)
THEOREM LoginsAreNeeded == Spec => NoNeedlessLogin
<1>1. ASSUME IInv, [Next]_vars, issued' # issued PROVE token \notin valid
  <2>1. PICK c \in Client : SignIn(c)
    BY <1>1 DEF Next, Begin, Step, Request, Login, SetToken, EndLogin, Reread, ClearToken,
                ClearStored, Expire, Suspect, Finished, vars, service
  <2>2. token \in {bad[c], NoToken} /\ bad[c] \notin valid
    BY <1>1, <2>1 DEF IInv, SignIn, Waiting, Rejected
  <2>3. NoToken \notin valid
    BY <1>1 DEF IInv, TypeOK, Token, NoToken
  <2> QED
    BY <2>2, <2>3
<1>2. IInv /\ [Next]_vars => [issued' # issued => token \notin valid]_vars
  BY <1>1
<1> QED
  BY <1>2, Inductive, PTL DEF Spec, NoNeedlessLogin

-----------------------------------------------------------------------------
(***************************************************************************)
(* The endpoint gate, for any callers, endpoints and interval.             *)
(*                                                                         *)
(* The argument: look at any time t from now on, and count the requests    *)
(* sent and the callers that may send one by then.  The slots given out    *)
(* are an interval apart, so a new slot finds this count, taken an         *)
(* interval earlier, one below its bound.                                  *)
(***************************************************************************)
\* Who may have sent a request to endpoint e by time t.
Due(e, t) == {c \in Caller : turn[c] # G!Idle /\ turn[c].endpoint = e /\ turn[c].slot <= t}

\* No slot lies behind the last one.
Ordered == \A c \in Caller : turn[c] # G!Idle => turn[c].slot <= last[turn[c].endpoint]

Spaced ==
    \A e \in Endpoint : \A c, d \in G!Waiting(e) :
        c # d => turn[c].slot >= turn[d].slot + Interval \/ turn[d].slot >= turn[c].slot + Interval

Paced ==
    \A e \in Endpoint : \A t \in Int :
        t >= now \/ t >= last[e] => sent[e] + Cardinality(Due(e, t)) <= t \div Interval + 1

\* The inductive invariant.
GateIInv == G!TypeOK /\ Ordered /\ Spaced /\ Paced

(***************************************************************************)
(* Whole intervals are counted monotonically and one by one.               *)
(***************************************************************************)
LEMMA Intervals ==
    ASSUME NEW a \in Int, NEW b \in Int, NEW k \in Nat \ {0}
    PROVE  /\ a \div k \in Int
           /\ a <= b => a \div k <= b \div k
           /\ (a - k) \div k + 1 = a \div k
OBVIOUS

(***************************************************************************)
(* What a caller waits for, and that the callers due are finitely many.    *)
(***************************************************************************)
LEMMA SlotIs ==
    /\ Interval \in Nat \ {0} /\ Horizon \in Nat /\ IsFiniteSet(Caller)
    /\ G!Slot \subseteq Int /\ -Interval..Horizon \subseteq G!Slot
<1>1. Interval \in Nat \ {0} /\ Horizon \in Nat
  BY MCClientAssumption DEF G!GateAssumption
<1>2. IsFiniteSet(Caller)
  BY MCClientAssumption DEF G!GateAssumption, G!IsFiniteSet, IsFiniteSet
<1> QED
  BY <1>1, <1>2 DEF G!Slot

\* Who waits at the gate has a slot of some endpoint.
LEMMA TurnIs ==
    ASSUME G!TypeOK, NEW c \in Caller, turn[c] # G!Idle
    PROVE  turn[c].endpoint \in Endpoint /\ turn[c].slot \in Int
BY SlotIs DEF G!TypeOK

\* The requests due by some time can be counted: each belongs to a caller.
LEMMA DueFinite ==
    ASSUME NEW e \in Endpoint, NEW t \in Int
    PROVE  IsFiniteSet(Due(e, t)) /\ Cardinality(Due(e, t)) \in Nat
<1>1. Due(e, t) \subseteq Caller
  BY DEF Due
<1> QED
  BY <1>1, SlotIs, FS_Subset, FS_CardinalityType

(***************************************************************************)
(* No endpoint was called yet.                                             *)
(***************************************************************************)
LEMMA GateInit == G!Init => GateIInv
<1> SUFFICES ASSUME G!Init PROVE GateIInv
  OBVIOUS
<1>1. G!TypeOK
  BY SlotIs DEF G!Init, G!TypeOK, G!Time
<1>2. Ordered /\ Spaced
  BY DEF G!Init, Ordered, Spaced, G!Waiting
<1>3. Paced
  <2> SUFFICES ASSUME NEW e \in Endpoint, NEW t \in Int, t >= now \/ t >= last[e]
               PROVE  sent[e] + Cardinality(Due(e, t)) <= t \div Interval + 1
    BY DEF Paced
  <2>1. Due(e, t) = {} /\ sent[e] = 0 /\ -Interval <= t
    BY SlotIs DEF G!Init, Due
  <2>2. -Interval = 0 - Interval /\ 0 \div Interval = 0
    BY SlotIs
  <2>3. (-Interval) \div Interval + 1 = 0
    BY <2>2, SlotIs, Intervals
  <2>4. (-Interval) \div Interval <= t \div Interval /\ t \div Interval \in Int
        /\ (-Interval) \div Interval \in Int
    BY <2>1, SlotIs, Intervals
  <2> QED
    BY <2>1, <2>3, <2>4, FS_EmptySet
<1> QED
  BY <1>1, <1>2, <1>3 DEF GateIInv

(***************************************************************************)
(* A caller takes the next slot, for which it sleeps unless it is due.     *)
(***************************************************************************)
LEMMA EnterGate == ASSUME GateIInv, NEW c \in Caller, NEW e \in Endpoint, G!Enter(c, e) PROVE GateIInv'
<1> USE DEF GateIInv
<1> DEFINE s == G!NextSlot(e)
<1>1. now \in Nat /\ last[e] \in Int /\ Interval \in Nat \ {0}
  BY SlotIs DEF G!TypeOK, G!Time, G!Slot
<1>2. s \in Int /\ s >= now /\ s >= last[e] + Interval
  BY <1>1 DEF G!NextSlot
<1>3. /\ turn[c] = G!Idle /\ s <= Horizon /\ last' = [last EXCEPT ![e] = s] /\ now' = now
      /\ IF s <= now
         THEN sent' = [sent EXCEPT ![e] = @ + 1] /\ turn' = turn
         ELSE turn' = [turn EXCEPT ![c] = [endpoint |-> e, slot |-> s]] /\ sent' = sent
  BY DEF G!Enter, G!Send
<1> HIDE DEF s
<1>4. s \in G!Slot
  BY <1>1, <1>2, <1>3, SlotIs
<1>5. [endpoint |-> e, slot |-> s] \in [endpoint : Endpoint, slot : G!Slot]
  BY <1>4
<1>6. G!TypeOK'
  BY <1>3, <1>4, <1>5 DEF G!TypeOK
<1>7. \A d \in Caller : turn[d] # G!Idle /\ turn[d].endpoint = e => turn[d].slot <= s - Interval
  BY <1>1, <1>2, TurnIs DEF Ordered
<1>8. Ordered'
  <2> SUFFICES ASSUME NEW d \in Caller, turn'[d] # G!Idle
               PROVE  turn'[d].slot <= last'[turn'[d].endpoint]
    BY DEF Ordered
  <2>1. CASE turn'[d] = turn[d]
    <3>1. turn[d].endpoint \in Endpoint /\ turn[d].slot \in Int /\ turn[d].slot <= last[turn[d].endpoint]
      BY <2>1, TurnIs DEF Ordered
    <3> QED
      BY <1>1, <1>2, <1>3, <2>1, <3>1 DEF G!TypeOK
  <2>2. CASE turn'[d] # turn[d]
    <3>1. turn'[d] = [endpoint |-> e, slot |-> s]
      BY <1>3, <2>2 DEF G!TypeOK
    <3> QED
      BY <1>2, <1>3, <3>1 DEF G!TypeOK
  <2> QED
    BY <2>1, <2>2
<1>9. Spaced'
  <2> SUFFICES ASSUME NEW f \in Endpoint, NEW a \in Caller, NEW b \in Caller, a # b,
                      turn'[a] # G!Idle, turn'[a].endpoint = f, turn'[b] # G!Idle, turn'[b].endpoint = f
               PROVE  turn'[a].slot >= turn'[b].slot + Interval \/ turn'[b].slot >= turn'[a].slot + Interval
    BY DEF Spaced, G!Waiting
  <2>1. \A d \in Caller : turn'[d] = turn[d] \/ (d = c /\ turn'[d] = [endpoint |-> e, slot |-> s])
    BY <1>3 DEF G!TypeOK
  <2>2. CASE turn'[a] = turn[a] /\ turn'[b] = turn[b]
    BY <2>2 DEF Spaced, G!Waiting
  <2>3. CASE turn'[a] # turn[a]
    <3>1. f = e /\ turn'[a].slot = s /\ turn'[b] = turn[b]
      BY <2>1, <2>3
    <3> QED
      BY <1>1, <1>2, <1>7, <3>1, TurnIs
  <2>4. CASE turn'[b] # turn[b]
    <3>1. f = e /\ turn'[b].slot = s /\ turn'[a] = turn[a]
      BY <2>1, <2>4
    <3> QED
      BY <1>1, <1>2, <1>7, <3>1, TurnIs
  <2> QED
    BY <2>2, <2>3, <2>4
<1>10. Paced'
  <2> SUFFICES ASSUME NEW f \in Endpoint, NEW t \in Int, t >= now \/ t >= last'[f]
               PROVE  sent'[f] + Cardinality(Due(f, t)') <= t \div Interval + 1
    BY <1>3 DEF Paced
  <2>1. sent[f] \in Nat /\ IsFiniteSet(Due(f, t)) /\ Cardinality(Due(f, t)) \in Nat
        /\ t \div Interval \in Int
    BY <1>1, DueFinite, Intervals DEF G!TypeOK
  <2>2. CASE f # e
    <3>1. sent'[f] = sent[f] /\ last'[f] = last[f]
      BY <1>3, <2>2 DEF G!TypeOK
    <3>2. Due(f, t)' = Due(f, t)
      BY <1>3, <2>2 DEF Due, G!TypeOK
    <3> QED
      BY <3>1, <3>2 DEF Paced
  <2>3. CASE f = e /\ t >= s
    <3>1. t - Interval \in Int /\ t - Interval >= last[e]
      BY <1>1, <1>2, <2>3
    <3>2. Due(e, t) = Due(e, t - Interval)
      BY <1>1, <1>2, <1>7, <2>3, TurnIs DEF Due
    <3>3. sent[e] + Cardinality(Due(e, t - Interval)) <= (t - Interval) \div Interval + 1
      BY <3>1 DEF Paced
    <3>4. (t - Interval) \div Interval + 1 = t \div Interval
      BY <1>1, Intervals
    <3>5. sent[e] + Cardinality(Due(e, t)) <= t \div Interval
      BY <3>2, <3>3, <3>4
    <3>6. CASE s <= now
      <4>1. Due(e, t)' = Due(e, t) /\ sent'[e] = sent[e] + 1
        BY <1>3, <3>6 DEF Due, G!TypeOK
      <4> QED
        BY <2>1, <2>3, <3>5, <4>1
    <3>7. CASE ~(s <= now)
      <4>1. turn'[c] = [endpoint |-> e, slot |-> s] /\ turn'[c] # G!Idle
        BY <1>1, <1>2, <1>3, <3>7 DEF G!TypeOK, G!Idle
      <4>2. \A d \in Caller \ {c} : turn'[d] = turn[d]
        BY <1>3, <3>7 DEF G!TypeOK
      <4>3. Due(f, t)' = Due(f, t) \cup {c}
        BY <2>3, <4>1, <4>2 DEF Due
      <4>4. sent'[f] = sent[f]
        BY <1>3, <3>7
      <4>5. c \notin Due(f, t)
        BY <1>3 DEF Due
      <4>6. Cardinality(Due(f, t)') = Cardinality(Due(f, t)) + 1
        BY <2>1, <4>3, <4>5, FS_AddElement
      <4> QED
        BY <2>1, <2>3, <3>5, <4>4, <4>6
    <3> QED
      BY <3>6, <3>7
  <2>4. CASE f = e /\ ~(t >= s)
    <3>1. t >= now /\ ~(s <= now)
      BY <1>1, <1>2, <1>3, <2>4 DEF G!TypeOK
    <3>2. Due(e, t)' = Due(e, t) /\ sent'[e] = sent[e]
      BY <1>1, <1>2, <1>3, <2>4, <3>1 DEF Due, G!TypeOK
    <3> QED
      BY <2>4, <3>1, <3>2 DEF Paced
  <2> QED
    BY <2>2, <2>3, <2>4
<1> QED
  BY <1>6, <1>8, <1>9, <1>10

(***************************************************************************)
(* A sleeping caller wakes and sends, or gives up.                         *)
(***************************************************************************)
LEMMA EndSleep == ASSUME GateIInv, NEW c \in Caller, G!Wake(c) \/ G!Leave(c) PROVE GateIInv'
<1> USE DEF GateIInv
<1> DEFINE e == turn[c].endpoint
<1>1. /\ turn[c] # G!Idle /\ turn' = [turn EXCEPT ![c] = G!Idle] /\ UNCHANGED <<now, last>>
      /\ \/ turn[c].slot <= now /\ sent' = [sent EXCEPT ![e] = @ + 1]
         \/ sent' = sent
  BY DEF G!Wake, G!Leave, G!Send
<1>2. e \in Endpoint /\ turn[c].slot \in Int /\ turn[c].slot <= last[e] /\ now \in Int /\ last[e] \in Int
  BY <1>1, TurnIs, SlotIs DEF Ordered, G!TypeOK, G!Time, G!Slot
<1>3. G!TypeOK' /\ Ordered' /\ Spaced'
  BY <1>1, <1>2 DEF G!TypeOK, Ordered, Spaced, G!Waiting
<1>4. Paced'
  <2> SUFFICES ASSUME NEW f \in Endpoint, NEW t \in Int, t >= now \/ t >= last[f]
               PROVE  sent'[f] + Cardinality(Due(f, t)') <= t \div Interval + 1
    BY <1>1 DEF Paced
  <2>1. sent[f] \in Nat /\ IsFiniteSet(Due(f, t)) /\ Cardinality(Due(f, t)) \in Nat
        /\ t \div Interval \in Int
    BY SlotIs, DueFinite, Intervals DEF G!TypeOK
  <2>2. sent[f] + Cardinality(Due(f, t)) <= t \div Interval + 1
    BY DEF Paced
  <2>3. Due(f, t)' = Due(f, t) \ {c}
    BY <1>1 DEF Due, G!TypeOK
  <2>4. Cardinality(Due(f, t)') = IF c \in Due(f, t) THEN Cardinality(Due(f, t)) - 1
                                                    ELSE Cardinality(Due(f, t))
    BY <2>1, <2>3, FS_RemoveElement
  <2>5. CASE sent'[f] = sent[f]
    BY <2>1, <2>2, <2>4, <2>5
  <2>6. CASE sent'[f] # sent[f]
    <3>1. f = e /\ turn[c].slot <= now /\ sent'[f] = sent[f] + 1
      BY <1>1, <1>2, <2>6 DEF G!TypeOK
    <3>2. c \in Due(f, t)
      BY <1>1, <1>2, <3>1 DEF Due
    <3> QED
      BY <2>1, <2>2, <2>4, <3>1, <3>2
  <2> QED
    BY <2>5, <2>6
<1> QED
  BY <1>3, <1>4

\* Time passes: what is due later has been counted already.
LEMMA TickGate == ASSUME GateIInv, G!Tick PROVE GateIInv'
<1> USE DEF GateIInv
<1>1. now < Horizon /\ now' = now + 1 /\ UNCHANGED <<last, turn, sent>>
  BY DEF G!Tick
<1>2. now \in Nat /\ \A e \in Endpoint : last[e] \in Int
  BY SlotIs DEF G!TypeOK, G!Time, G!Slot
<1>3. G!TypeOK'
  BY <1>1, <1>2, SlotIs DEF G!TypeOK, G!Time
<1>4. Ordered' /\ Spaced'
  BY <1>1 DEF Ordered, Spaced, G!Waiting
<1>5. Paced'
  BY <1>1, <1>2 DEF Paced, Due
<1> QED
  BY <1>3, <1>4, <1>5

(***************************************************************************)
(* Every state of the endpoint gate satisfies GateIInv: it is inductive.   *)
(***************************************************************************)
THEOREM GateInductive == G!Spec => []GateIInv
<1>1. GateIInv /\ [G!Next]_G!gate => GateIInv'
  <2> SUFFICES ASSUME GateIInv, [G!Next]_G!gate PROVE GateIInv'
    OBVIOUS
  <2>1. CASE G!Finished \/ UNCHANGED G!gate
    BY <2>1 DEF G!Finished, G!gate, GateIInv, G!TypeOK, Ordered, Spaced, G!Waiting, Paced, Due
  <2> QED
    BY <2>1, EnterGate, EndSleep, TickGate DEF G!Next
<1> QED
  BY <1>1, GateInit, PTL DEF G!Spec

(***************************************************************************)
(* No more than one request per whole interval has been sent to an         *)
(* endpoint, and one more, whoever gave up and however late timers fired.  *)
(***************************************************************************)
THEOREM RateIsKept == G!Spec => []NeverAheadOfRate
<1>1. GateIInv => NeverAheadOfRate
  <2> SUFFICES ASSUME GateIInv, NEW e \in Endpoint PROVE sent[e] <= now \div Interval + 1
    BY DEF NeverAheadOfRate, G!NeverAheadOfRate, GateIInv, Spaced
  <2>1. now \in Int /\ sent[e] \in Nat /\ now \div Interval \in Int
    BY SlotIs, Intervals DEF GateIInv, G!TypeOK, G!Time
  <2>2. sent[e] + Cardinality(Due(e, now)) <= now \div Interval + 1
    BY <2>1 DEF GateIInv, Paced
  <2> QED
    BY <2>1, <2>2, DueFinite
<1> QED
  BY <1>1, GateInductive, PTL

-----------------------------------------------------------------------------
(***************************************************************************)
(* Processes that start with the saved token, for any number of them and   *)
(* of tokens.  The argument: only a proven token reaches the step that     *)
(* saves it, and nothing before that step writes to the configuration.     *)
(***************************************************************************)
SavesProven ==
    /\ writer = "reconnect" => saved \in proven
    /\ \A p \in Process : at[p] = "save" => job[p] = "reconnect" /\ mine[p] \in proven

\* Somebody has saved a token: a remote that was opened, or a reconnect that is over.
SavedBy ==
    writer # "user" => \E p \in Process : job[p] = "open" \/ at[p] = "done"

\* The inductive invariant.
StartIInv == R!TypeOK /\ SavesProven /\ SavedBy

\* Tokens are numbers; 0 is none and 1 is a possible one.
LEMMA TokensAre ==
    MaxGiven \in Nat \ {0} /\ R!Token \subseteq Nat /\ 0 \in R!Token /\ 1 \in R!Token
BY MCClientAssumption DEF R!ReconnectAssumption, R!Token

\* The initial state satisfies the inductive invariant.
LEMMA StartInit == R!Init => StartIInv
<1> SUFFICES ASSUME R!Init PROVE StartIInv
  OBVIOUS
<1>1. saved \in R!Token /\ given = saved /\ good \subseteq R!Token /\ proven = good
  BY TokensAre DEF R!Init, R!NoToken
<1>2. R!TypeOK
  BY <1>1, TokensAre DEF R!Init, R!TypeOK, R!NoToken
<1>3. SavesProven /\ SavedBy
  BY DEF R!Init, SavesProven, SavedBy
<1> QED
  BY <1>2, <1>3 DEF StartIInv

(***************************************************************************)
(* A login saves its token at once only for a remote that is opened.       *)
(***************************************************************************)
LEMMA SignInStart == ASSUME StartIInv, NEW p \in Process, R!SignIn(p) PROVE StartIInv'
<1> USE DEF StartIInv
<1>1. CASE UNCHANGED <<saved, writer, given, good, mine>>
  <2>1. at' = [at EXCEPT ![p] = at'[p]] /\ at'[p] \in {"failed", "identify", "reidentify", "reroots"}
        /\ at[p] \in {"login", "relogin", "rootlogin"} /\ UNCHANGED <<guarded, job, proven>>
    BY DEF R!SignIn, R!AfterSignIn, R!Goto, R!TypeOK
  <2> QED
    BY <1>1, <2>1 DEF R!TypeOK, SavesProven, SavedBy
<1>2. CASE ~UNCHANGED <<saved, writer, given, good, mine>>
  <2>1. /\ given < MaxGiven /\ given' = given + 1 /\ good' = good \cup {given'}
        /\ mine' = [mine EXCEPT ![p] = given']
        /\ IF job[p] = "open" THEN saved' = given' /\ writer' = job[p] ELSE UNCHANGED <<saved, writer>>
        /\ at' = [at EXCEPT ![p] = at'[p]] /\ at'[p] \in {"identify", "reidentify", "reroots"}
        /\ at[p] \in {"login", "relogin", "rootlogin"} /\ UNCHANGED <<guarded, job, proven>>
    BY <1>2 DEF R!SignIn, R!AfterSignIn, R!Goto, R!StageLogin, R!Save, R!TypeOK
  <2>2. given' \in R!Token
    BY <2>1, TokensAre DEF R!TypeOK, R!Token
  <2>3. R!TypeOK'
    BY <2>1, <2>2 DEF R!TypeOK
  <2>4. SavesProven'
    BY <2>1 DEF R!TypeOK, SavesProven
  <2>5. SavedBy'
    BY <2>1 DEF R!TypeOK, SavedBy
  <2> QED
    BY <2>3, <2>4, <2>5
<1> QED
  BY <1>1, <1>2

(***************************************************************************)
(* The other steps of a process.                                           *)
(***************************************************************************)
LEMMA IdentifyStart ==
    ASSUME StartIInv, NEW p \in Process, R!Identify(p) \/ R!ValidateRoots(p)
    PROVE  StartIInv'
<1> USE DEF StartIInv
<1>1. /\ at' = [at EXCEPT ![p] = at'[p]] /\ at[p] \in {"identify", "reidentify", "roots", "reroots"}
      /\ at'[p] \in {"save", "roots", "relogin", "rootlogin", "done", "failed"}
      /\ proven' \in {proven, proven \cup {mine[p]}}
      /\ at'[p] = "save" => job[p] = "reconnect" /\ mine[p] \in proven'
      /\ UNCHANGED <<saved, given, good, guarded, job, mine, writer>>
  BY DEF R!Identify, R!ValidateRoots, R!Goto, R!TypeOK, R!service
<1>2. R!TypeOK'
  BY <1>1 DEF R!TypeOK
<1>3. SavesProven' /\ SavedBy'
  BY <1>1 DEF R!TypeOK, SavesProven, SavedBy
<1> QED
  BY <1>2, <1>3

\* reconnectAuthentication saves the token, which was proven before.
LEMMA SaveStart == ASSUME StartIInv, NEW p \in Process, R!SaveToken(p) PROVE StartIInv'
<1>1. /\ at[p] = "save" /\ at' = [at EXCEPT ![p] = "done"] /\ saved' = mine[p] /\ writer' = job[p]
      /\ UNCHANGED <<given, good, guarded, job, mine, proven>>
  BY DEF R!SaveToken, R!Save, R!Goto, R!service
<1> QED
  BY <1>1 DEF StartIInv, R!TypeOK, SavesProven, SavedBy

\* The steps before the login, and a death, save nothing.
LEMMA OtherStart ==
    ASSUME StartIInv, NEW p \in Process, R!Begin(p) \/ R!Die(p)
    PROVE  StartIInv'
<1>1. /\ at' = [at EXCEPT ![p] = at'[p]] /\ at[p] # "done"
      /\ at'[p] \in {"login", "identify", "failed"}
      /\ mine' \in {mine, [mine EXCEPT ![p] = saved]}
      /\ UNCHANGED <<saved, given, good, guarded, job, proven, writer>>
  BY DEF R!Begin, R!Die, R!Goto, R!service, StartIInv, R!TypeOK
<1> QED
  BY <1>1 DEF StartIInv, R!TypeOK, SavesProven, SavedBy

(***************************************************************************)
(* Every state of the processes that share a saved token satisfies         *)
(* StartIInv: it is inductive.                                             *)
(***************************************************************************)
THEOREM StartInductive == R!Spec => []StartIInv
<1>1. StartIInv /\ [R!Next]_R!session => StartIInv'
  <2> SUFFICES ASSUME StartIInv, [R!Next]_R!session PROVE StartIInv'
    OBVIOUS
  <2>1. CASE R!Expire \/ R!Verify \/ UNCHANGED R!session
    BY <2>1 DEF R!Expire, R!Verify, R!session, R!service, R!process, StartIInv, R!TypeOK,
                SavesProven, SavedBy
  <2> QED
    BY <2>1, SignInStart, IdentifyStart, SaveStart, OtherStart DEF R!Next
<1> QED
  BY <1>1, StartInit, PTL DEF R!Spec

(***************************************************************************)
(* What reconnect has saved is a token the account answered for, and while *)
(* it is under way or has failed the configuration keeps what it had.      *)
(***************************************************************************)
THEOREM ReconnectIsProven == R!Spec => []ReconnectProvesFirst
<1>1. StartIInv => ReconnectProvesFirst
  BY DEF StartIInv, SavesProven, SavedBy, ReconnectProvesFirst, R!ReconnectProvesFirst
<1> QED
  BY <1>1, StartInductive, PTL

-----------------------------------------------------------------------------
(***************************************************************************)
(* The map of locks: mutual exclusion, exact reference counts and the      *)
(* implementation of AccountLocks, for any finite set of goroutines, any   *)
(* set of keys and any supply of entries.                                  *)
(*                                                                         *)
(* The argument: an entry in the map has exactly as many references as     *)
(* goroutines registered with its key (RefsExact), so it is deleted only   *)
(* by the last of them, so all of them hold the same entry                 *)
(* (OneEntryPerKey), so owning the entry's mutex is owning the key.        *)
(***************************************************************************)
\* The map counts registrations with the cardinality of the instance's own copy
\* of FiniteSets, which is the cardinality the library's theorems are about.
LEMMA SameCount == \A S : /\ K!IsFiniteSet(S) <=> IsFiniteSet(S)
                         /\ K!Cardinality(S) = Cardinality(S)
<1>1. \A S : K!IsFiniteSet(S) <=> IsFiniteSet(S)
  BY DEF K!IsFiniteSet, IsFiniteSet
<1>2. \A S : K!Cardinality(S) = Cardinality(S)
  BY DEF K!Cardinality, Cardinality
<1> QED
  BY <1>1, <1>2

\* The goroutines are finitely many, and Nil is neither a goroutine nor an
\* entry of the map.
LEMMA LocksAre == IsFiniteSet(Proc) /\ Nil \notin Proc /\ Nil \notin Entry
BY MCLocksAssumption, SameCount DEF K!LocksAssumption

\* A goroutine holds keys only of its own request, all of them between lock()
\* and the unlock function, none before and after.
HoldsItsOwn ==
    \A p \in Proc :
        /\ stage[p] = "idle" <=> want[p] = {}
        /\ got[p] \subseteq want[p]
        /\ stage[p] = "inside" => got[p] = want[p]

\* A locked entry is owned by the goroutine that locked it.
Owns == \A p \in Proc : \A k \in got[p] : owner[slot[p][k]] = p

\* The inductive invariant.
LIInv == K!TypeOK /\ HoldsItsOwn /\ K!RefsExact /\ K!OneEntryPerKey /\ Owns

-----------------------------------------------------------------------------
(***************************************************************************)
(* The registrations of a key are finitely many: they are goroutines.      *)
(***************************************************************************)
LEMMA UsersFinite == \A k : IsFiniteSet(K!Users(k)) /\ Cardinality(K!Users(k)) \in Nat
<1>1. \A k : K!Users(k) \subseteq Proc
  BY DEF K!Users
<1> QED
  BY <1>1, LocksAre, FS_Subset, FS_CardinalityType

(***************************************************************************)
(* A key somebody is registered with has an entry, and that entry has a    *)
(* reference: new(lockEntry) never returns an entry of the map.            *)
(***************************************************************************)
LEMMA MappedIsReferenced ==
  ASSUME LIInv
  PROVE  /\ \A p \in Proc : \A k \in want[p] : locks[k] \in Entry /\ p \in K!Users(k)
         /\ \A k \in Key : locks[k] # Nil => locks[k] \in Entry /\ refs[locks[k]] # 0
<1>1. ASSUME NEW p \in Proc, NEW k \in want[p]
      PROVE  locks[k] \in Entry /\ p \in K!Users(k)
  <2>1. k \in Key /\ K!Registered(p)
    BY DEF LIInv, K!TypeOK, HoldsItsOwn, K!Registered
  <2>2. p \in K!Users(k)
    BY <2>1 DEF K!Users
  <2> QED
    BY <2>1, <2>2 DEF LIInv, K!TypeOK, K!RefsExact
<1>2. ASSUME NEW k \in Key, locks[k] # Nil
      PROVE  locks[k] \in Entry /\ refs[locks[k]] # 0
  <2>1. K!Users(k) # {} /\ refs[locks[k]] = Cardinality(K!Users(k))
    BY <1>2, SameCount DEF LIInv, K!RefsExact
  <2> QED
    BY <1>2, <2>1, UsersFinite, FS_EmptySet DEF LIInv, K!TypeOK
<1> QED
  BY <1>1, <1>2

(***************************************************************************)
(* The initial state satisfies the inductive invariant.                    *)
(***************************************************************************)
LEMMA LocksInit == K!Init => LIInv
<1> SUFFICES ASSUME K!Init PROVE LIInv
  OBVIOUS
<1>1. K!TypeOK
  BY DEF K!Init, K!TypeOK, K!Phase
<1>2. HoldsItsOwn /\ K!OneEntryPerKey /\ Owns
  BY DEF K!Init, HoldsItsOwn, K!OneEntryPerKey, Owns
<1>3. K!RefsExact
  BY DEF K!Init, K!RefsExact, K!Users, K!Registered
<1> QED
  BY <1>1, <1>2, <1>3 DEF LIInv

-----------------------------------------------------------------------------
(***************************************************************************)
(* lock(), under k.mu: registering keeps the invariant.                    *)
(***************************************************************************)
LEMMA RegisterKeeps ==
  ASSUME LIInv, NEW p \in Proc, NEW req \in SUBSET Key, req # {}, K!Register(p, req)
  PROVE  LIInv'
<1>p. PICK new \in K!Allocations(req) :
        /\ locks' = [k \in Key |-> IF k \in K!Missing(req) THEN new[k] ELSE locks[k]]
        /\ slot' = [slot EXCEPT ![p] = [k \in Key |-> IF k \in req THEN locks'[k] ELSE Nil]]
        /\ refs' = [e \in Entry |-> IF e \in {locks'[k] : k \in req}
                                    THEN refs[e] + 1 ELSE refs[e]]
  <2>1. PICK new \in K!Allocations(req) :
          LET entryOf == [k \in Key |-> IF k \in K!Missing(req) THEN new[k] ELSE locks[k]]
              used    == {entryOf[k] : k \in req}
          IN  /\ locks' = entryOf
              /\ slot' = [slot EXCEPT ![p] = [k \in Key |-> IF k \in req THEN entryOf[k] ELSE Nil]]
              /\ refs' = [e \in Entry |-> IF e \in used THEN refs[e] + 1 ELSE refs[e]]
    BY DEF K!Register, K!Counted
  <2> QED
    BY <2>1
<1>0. /\ stage[p] = "idle" /\ want[p] = {} /\ got[p] = {}
      /\ want' = [want EXCEPT ![p] = req]
      /\ stage' = [stage EXCEPT ![p] = "locking"]
      /\ owner' = owner /\ got' = got
  BY DEF K!Register, LIInv, HoldsItsOwn
<1>1. /\ \A k \in K!Missing(req) : new[k] \in Entry /\ refs[new[k]] = 0
      /\ \A j, k \in K!Missing(req) : new[j] = new[k] => j = k
      /\ K!Missing(req) \subseteq req
  BY DEF K!Allocations, K!Unreferenced, K!Missing
<1>2. \A k \in req : locks'[k] \in Entry
  BY <1>p, <1>1 DEF LIInv, K!TypeOK, K!Missing
<1>3. K!TypeOK'
  <2>1. locks' \in [Key -> Entry \cup {Nil}]
    BY <1>p, <1>1 DEF LIInv, K!TypeOK
  <2>2. refs' \in [Entry -> Nat]
    <3> DEFINE used == {locks'[k] : k \in req}
    <3>1. refs' = [e \in Entry |-> IF e \in used THEN refs[e] + 1 ELSE refs[e]]
      BY <1>p
    <3> HIDE DEF used
    <3> QED
      BY <3>1 DEF LIInv, K!TypeOK
  <2>3. slot' \in [Proc -> [Key -> Entry \cup {Nil}]]
    BY <1>p, <2>1 DEF LIInv, K!TypeOK
  <2> QED
    BY <1>0, <2>1, <2>2, <2>3 DEF LIInv, K!TypeOK, K!Phase
<1>4. HoldsItsOwn'
  BY <1>0 DEF LIInv, K!TypeOK, HoldsItsOwn
<1>5. \A j, k \in Key : j # k /\ locks'[j] # Nil => locks'[j] # locks'[k]
  <2> SUFFICES ASSUME NEW j \in Key, NEW k \in Key, j # k, locks'[j] # Nil,
                      locks'[j] = locks'[k]
               PROVE  FALSE
    OBVIOUS
  <2>1. CASE j \in K!Missing(req) /\ k \in K!Missing(req)
    BY <1>p, <1>1, <2>1
  <2>2. CASE j \notin K!Missing(req) /\ k \notin K!Missing(req)
    BY <1>p, <2>2 DEF LIInv, K!OneEntryPerKey
  <2>3. CASE (j \in K!Missing(req)) # (k \in K!Missing(req))
    BY <1>p, <1>1, <2>3, MappedIsReferenced
  <2> QED
    BY <2>1, <2>2, <2>3
<1>6. K!OneEntryPerKey'
  <2>1. \A q \in Proc \ {p} : \A k \in want[q] : locks'[k] = locks[k] /\ k \in Key
    BY <1>p, MappedIsReferenced, LocksAre DEF K!Missing, LIInv, K!TypeOK
  <2>2. \A q \in Proc : \A k \in want'[q] : slot'[q][k] = locks'[k]
    BY <1>p, <1>0, <2>1 DEF LIInv, K!TypeOK, K!OneEntryPerKey
  <2> QED
    BY <1>5, <2>2 DEF K!OneEntryPerKey
<1>7. \A k \in Key : K!Users(k)' = IF k \in req THEN K!Users(k) \cup {p} ELSE K!Users(k)
  BY <1>0 DEF K!Users, K!Registered, LIInv, K!TypeOK
<1>8. \A k : p \notin K!Users(k)
  BY <1>0 DEF K!Users
<1>9. K!RefsExact'
  <2> SUFFICES ASSUME NEW k \in Key
               PROVE  /\ locks'[k] = Nil <=> K!Users(k)' = {}
                      /\ locks'[k] # Nil => refs'[locks'[k]] = Cardinality(K!Users(k)')
    BY SameCount DEF K!RefsExact
  <2>1. CASE k \in req
    <3>1. refs'[locks'[k]] = refs[locks'[k]] + 1
      BY <1>p, <1>2, <2>1
    <3>2. Cardinality(K!Users(k)') = Cardinality(K!Users(k)) + 1
      BY <1>7, <1>8, <2>1, UsersFinite, FS_AddElement
    <3>3. refs[locks'[k]] = Cardinality(K!Users(k))
      <4>1. CASE k \in K!Missing(req)
        <5>1. K!Users(k) = {}
          BY <4>1, SameCount DEF K!Missing, LIInv, K!RefsExact
        <5> QED
          BY <1>p, <1>1, <4>1, <5>1, FS_EmptySet
      <4>2. CASE k \notin K!Missing(req)
        BY <1>p, <2>1, <4>2, SameCount DEF K!Missing, LIInv, K!RefsExact
      <4> QED
        BY <4>1, <4>2
    <3> QED
      BY <1>2, <1>7, <2>1, <3>1, <3>2, <3>3, LocksAre
  <2>2. CASE k \notin req
    <3>1. locks'[k] = locks[k] /\ K!Users(k)' = K!Users(k)
      BY <1>p, <1>7, <2>2 DEF K!Missing
    <3>2. locks[k] # Nil => refs'[locks[k]] = refs[locks[k]]
      BY <1>p, <1>5, <2>2, <3>1, MappedIsReferenced
    <3> QED
      BY <3>1, <3>2, SameCount DEF LIInv, K!RefsExact
  <2> QED
    BY <2>1, <2>2
<1>10. Owns'
  BY <1>p, <1>0 DEF LIInv, K!TypeOK, Owns
<1> QED
  BY <1>3, <1>4, <1>6, <1>9, <1>10 DEF LIInv

(***************************************************************************)
(* lock(), entry.mu.Lock(): locking an entry keeps the invariant.          *)
(***************************************************************************)
LEMMA AcquireKeeps ==
  ASSUME LIInv, NEW p \in Proc, NEW k \in Key, K!Acquire(p, k)
  PROVE  LIInv'
<1>1. /\ k \in want[p] /\ k \notin got[p]
      /\ slot[p][k] \in Entry
      /\ slot' = slot /\ want' = want /\ locks' = locks /\ refs' = refs
  BY MappedIsReferenced DEF K!Acquire, K!LocksNext, LIInv, K!OneEntryPerKey
<1>2. /\ stage[p] = "locking"
      /\ owner[slot[p][k]] = Nil
      /\ owner' = [owner EXCEPT ![slot[p][k]] = p]
      /\ got' = [got EXCEPT ![p] = got[p] \cup {k}]
      /\ stage' = [stage EXCEPT ![p] = IF got'[p] = want[p] THEN "inside" ELSE "locking"]
  BY DEF K!Acquire, K!LockReturns
<1>3. K!TypeOK'
  BY <1>1, <1>2 DEF LIInv, K!TypeOK, K!Phase
<1>4. HoldsItsOwn'
  BY <1>1, <1>2 DEF LIInv, K!TypeOK, HoldsItsOwn
<1>5. K!OneEntryPerKey'
  BY <1>1 DEF LIInv, K!OneEntryPerKey
<1>6. K!RefsExact'
  <2>1. \A j : K!Users(j)' = K!Users(j)
    BY <1>1, <1>2 DEF K!Users, K!Registered, LIInv, K!TypeOK
  <2> QED
    BY <1>1, <2>1 DEF LIInv, K!RefsExact
<1>7. Owns'
  <2> SUFFICES ASSUME NEW q \in Proc, NEW j \in got'[q]
               PROVE  owner'[slot[q][j]] = q
    BY <1>1 DEF Owns
  <2>1. CASE q = p /\ j = k
    BY <1>1, <1>2, <2>1 DEF LIInv, K!TypeOK
  <2>2. CASE ~(q = p /\ j = k)
    <3>1. j \in got[q]
      BY <1>2, <2>2 DEF LIInv, K!TypeOK
    <3>2. owner[slot[q][j]] = q
      BY <3>1 DEF LIInv, Owns
    <3> QED
      BY <1>2, <3>2, LocksAre DEF LIInv, K!TypeOK
  <2> QED
    BY <2>1, <2>2
<1> QED
  BY <1>3, <1>4, <1>5, <1>6, <1>7 DEF LIInv

(***************************************************************************)
(* The unlock function, entries[i].mu.Unlock(): unlocking keeps the        *)
(* invariant, since no other key of anybody has the same entry.            *)
(***************************************************************************)
LEMMA UnlockKeeps ==
  ASSUME LIInv, NEW p \in Proc, NEW k \in Key, K!Unlock(p, k)
  PROVE  LIInv'
<1>1. /\ k \in want[p] /\ k \in got[p]
      /\ slot[p][k] \in Entry
      /\ slot' = slot /\ want' = want /\ locks' = locks /\ refs' = refs
  BY MappedIsReferenced DEF K!Unlock, LIInv, K!OneEntryPerKey, HoldsItsOwn
<1>2. /\ stage[p] \in {"inside", "unlocking"}
      /\ owner' = [owner EXCEPT ![slot[p][k]] = Nil]
      /\ got' = [got EXCEPT ![p] = got[p] \ {k}]
      /\ stage' = [stage EXCEPT ![p] = "unlocking"]
  BY DEF K!Unlock
<1>3. K!TypeOK'
  BY <1>1, <1>2 DEF LIInv, K!TypeOK, K!Phase
<1>4. HoldsItsOwn'
  BY <1>1, <1>2 DEF LIInv, K!TypeOK, HoldsItsOwn
<1>5. K!OneEntryPerKey'
  BY <1>1 DEF LIInv, K!OneEntryPerKey
<1>6. K!RefsExact'
  <2>1. \A j : K!Users(j)' = K!Users(j)
    BY <1>1, <1>2 DEF K!Users, K!Registered, LIInv, K!TypeOK
  <2> QED
    BY <1>1, <2>1 DEF LIInv, K!RefsExact
<1>7. Owns'
  <2> SUFFICES ASSUME NEW q \in Proc, NEW j \in got'[q]
               PROVE  owner'[slot[q][j]] = q
    BY <1>1 DEF Owns
  <2>1. j \in got[q] /\ ~(q = p /\ j = k)
    BY <1>2 DEF LIInv, K!TypeOK
  <2>2. owner[slot[q][j]] = q /\ owner[slot[p][k]] = p
    BY <1>1, <2>1 DEF LIInv, Owns
  <2>3. slot[q][j] # slot[p][k]
    <3>1. CASE q # p
      BY <2>2, <3>1
    <3>2. CASE q = p
      <4>1. j \in want[p] /\ j \in Key /\ j # k
        BY <2>1, <3>2 DEF LIInv, K!TypeOK, HoldsItsOwn
      <4>2. locks[j] \in Entry /\ slot[p][j] = locks[j] /\ slot[p][k] = locks[k]
        BY <1>1, <4>1, MappedIsReferenced DEF LIInv, K!OneEntryPerKey
      <4> QED
        BY <3>2, <4>1, <4>2, LocksAre DEF LIInv, K!OneEntryPerKey
    <3> QED
      BY <3>1, <3>2
  <2> QED
    BY <1>2, <2>2, <2>3 DEF LIInv, K!TypeOK
<1> QED
  BY <1>3, <1>4, <1>5, <1>6, <1>7 DEF LIInv

(***************************************************************************)
(* The unlock function, under k.mu: giving up the references deletes only  *)
(* the entries no other goroutine is registered with.                      *)
(***************************************************************************)
LEMMA DeregisterKeeps ==
  ASSUME LIInv, NEW p \in Proc, K!Deregister(p)
  PROVE  LIInv'
<1> DEFINE req == want[p]
<1>0. /\ stage[p] = "unlocking" /\ got[p] = {}
      /\ want' = [want EXCEPT ![p] = {}]
      /\ stage' = [stage EXCEPT ![p] = "idle"]
      /\ slot' = [slot EXCEPT ![p] = [k \in Key |-> Nil]]
      /\ owner' = owner /\ got' = got
      /\ req \subseteq Key
  BY DEF K!Deregister, LIInv, K!TypeOK
<1>1. \A k \in req : slot[p][k] = locks[k] /\ locks[k] \in Entry /\ p \in K!Users(k)
  BY MappedIsReferenced DEF LIInv, K!OneEntryPerKey
<1>2. refs' = [e \in Entry |-> IF \E k \in req : locks[k] = e THEN refs[e] - 1 ELSE refs[e]]
  BY <1>1 DEF K!Deregister
<1>3. locks' = [k \in Key |-> IF k \in req /\ refs'[locks[k]] = 0 THEN Nil ELSE locks[k]]
  BY <1>1 DEF K!Deregister, K!Dropped
<1>4. \A k \in Key : K!Users(k)' = IF k \in req THEN K!Users(k) \ {p} ELSE K!Users(k)
  BY <1>0 DEF K!Users, K!Registered, LIInv, K!TypeOK
<1>5. \A k \in req : refs'[locks[k]] = Cardinality(K!Users(k)')
  <2> SUFFICES ASSUME NEW k \in req
               PROVE  refs'[locks[k]] = Cardinality(K!Users(k)')
    OBVIOUS
  <2>1. refs'[locks[k]] = refs[locks[k]] - 1
    BY <1>1, <1>2
  <2>2. refs[locks[k]] = Cardinality(K!Users(k))
    BY <1>0, <1>1, LocksAre, SameCount DEF LIInv, K!RefsExact
  <2>3. Cardinality(K!Users(k)') = Cardinality(K!Users(k)) - 1
    BY <1>0, <1>1, <1>4, UsersFinite, FS_RemoveElement
  <2> QED
    BY <2>1, <2>2, <2>3
<1>6. \A k \in Key \ req : locks[k] # Nil => refs'[locks[k]] = refs[locks[k]]
  <2> SUFFICES ASSUME NEW k \in Key \ req, locks[k] # Nil
               PROVE  refs'[locks[k]] = refs[locks[k]]
    OBVIOUS
  <2>1. \A j \in req : locks[j] # locks[k]
    BY <1>0 DEF LIInv, K!OneEntryPerKey
  <2> QED
    BY <1>2, <2>1, MappedIsReferenced
<1>7. \A k \in Key : IsFiniteSet(K!Users(k)') /\ Cardinality(K!Users(k)') \in Nat
  <2>1. \A k \in Key : K!Users(k)' \subseteq K!Users(k)
    BY <1>4
  <2> QED
    BY <2>1, UsersFinite, FS_Subset, FS_CardinalityType
<1>8. K!RefsExact'
  <2> SUFFICES ASSUME NEW k \in Key
               PROVE  /\ locks'[k] = Nil <=> K!Users(k)' = {}
                      /\ locks'[k] # Nil => refs'[locks'[k]] = Cardinality(K!Users(k)')
    BY SameCount DEF K!RefsExact
  <2>1. CASE k \in req
    <3>1. refs'[locks[k]] = 0 <=> K!Users(k)' = {}
      BY <1>5, <1>7, <2>1, FS_EmptySet
    <3>2. locks[k] # Nil
      BY <1>1, <2>1, LocksAre
    <3> QED
      BY <1>3, <1>5, <2>1, <3>1, <3>2
  <2>2. CASE k \notin req
    BY <1>3, <1>4, <1>6, <2>2, SameCount DEF LIInv, K!RefsExact
  <2> QED
    BY <2>1, <2>2
<1>9. K!TypeOK'
  <2>1. \A k \in req : refs[locks[k]] - 1 \in Nat
    <3>1. \A k \in req : refs[locks[k]] # 0
      BY <1>0, <1>1, MappedIsReferenced, LocksAre
    <3> QED
      BY <1>1, <3>1 DEF LIInv, K!TypeOK
  <2>2. refs' \in [Entry -> Nat]
    BY <1>2, <2>1 DEF LIInv, K!TypeOK
  <2>3. locks' \in [Key -> Entry \cup {Nil}]
    BY <1>3 DEF LIInv, K!TypeOK
  <2> QED
    BY <1>0, <2>2, <2>3 DEF LIInv, K!TypeOK, K!Phase
<1>10. HoldsItsOwn'
  BY <1>0 DEF LIInv, K!TypeOK, HoldsItsOwn
<1>11. K!OneEntryPerKey'
  <2>1. \A q \in Proc : \A k \in want'[q] : slot'[q][k] = locks'[k]
    <3> SUFFICES ASSUME NEW q \in Proc, NEW k \in want'[q]
                 PROVE  slot'[q][k] = locks'[k]
      OBVIOUS
    <3>1. q # p /\ k \in want[q] /\ k \in Key
      BY <1>0 DEF LIInv, K!TypeOK
    <3>2. q \in K!Users(k)'
      BY <1>4, <3>1, MappedIsReferenced
    <3>3. locks'[k] = locks[k]
      BY <1>3, <1>8, <3>1, <3>2 DEF K!RefsExact
    <3> QED
      BY <1>0, <3>1, <3>3 DEF LIInv, K!TypeOK, K!OneEntryPerKey
  <2>2. \A j, k \in Key : j # k /\ locks'[j] # Nil => locks'[j] # locks'[k]
    BY <1>3 DEF LIInv, K!OneEntryPerKey
  <2> QED
    BY <2>1, <2>2 DEF K!OneEntryPerKey
<1>12. Owns'
  BY <1>0 DEF LIInv, K!TypeOK, Owns
<1> QED
  BY <1>8, <1>9, <1>10, <1>11, <1>12 DEF LIInv

(***************************************************************************)
(* Every step keeps the inductive invariant.                               *)
(***************************************************************************)
LEMMA LocksNextStep == LIInv /\ [K!Next]_(K!vars) => LIInv'
<1> SUFFICES ASSUME LIInv, [K!Next]_(K!vars) PROVE LIInv'
  OBVIOUS
<1>1. ASSUME NEW p \in Proc, NEW req \in (SUBSET Key) \ {{}}, K!Register(p, req)
      PROVE  LIInv'
  <2>1. req \in SUBSET Key /\ req # {}
    OBVIOUS
  <2> QED
    BY <1>1, <2>1, RegisterKeeps
<1>2. ASSUME NEW p \in Proc, NEW k \in Key, K!Acquire(p, k)
      PROVE  LIInv'
  BY <1>2, AcquireKeeps
<1>3. ASSUME NEW p \in Proc, NEW k \in Key, K!Unlock(p, k)
      PROVE  LIInv'
  BY <1>3, UnlockKeeps
<1>4. ASSUME NEW p \in Proc, K!Deregister(p)
      PROVE  LIInv'
  BY <1>4, DeregisterKeeps
<1>5. CASE UNCHANGED K!vars
  <2>1. \A k : K!Users(k)' = K!Users(k)
    BY <1>5 DEF K!vars, K!Users, K!Registered
  <2>2. K!RefsExact'
    BY <1>5, <2>1 DEF K!vars, LIInv, K!RefsExact
  <2> QED
    BY <1>5, <2>2 DEF K!vars, LIInv, K!TypeOK, HoldsItsOwn, K!OneEntryPerKey, Owns
<1> QED
  BY <1>1, <1>2, <1>3, <1>4, <1>5 DEF K!Next

(***************************************************************************)
(* The inductive invariant rules out two goroutines inside with a common   *)
(* key: both would own the mutex of the key's one entry.                   *)
(***************************************************************************)
LEMMA OwnersExclude == LIInv => K!MutualExclusion
<1> SUFFICES ASSUME LIInv, NEW p \in Proc, NEW q \in Proc,
                    stage[p] = "inside", stage[q] = "inside",
                    NEW k \in want[p] \cap want[q]
             PROVE  p = q
  BY DEF K!MutualExclusion
<1>1. k \in got[p] /\ k \in got[q]
  BY DEF LIInv, HoldsItsOwn
<1>2. slot[p][k] = locks[k] /\ slot[q][k] = locks[k]
  BY DEF LIInv, K!OneEntryPerKey
<1> QED
  BY <1>1, <1>2 DEF LIInv, Owns

-----------------------------------------------------------------------------
(***************************************************************************)
(* Every variable of keyedLocks keeps its type: in particular no reference *)
(* count ever drops below zero.                                            *)
(***************************************************************************)
THEOREM LocksTyped == K!Spec => []K!TypeOK
<1>1. LIInv => K!TypeOK
  BY DEF LIInv
<1> QED
  BY <1>1, LocksInit, LocksNextStep, PTL DEF K!Spec

(***************************************************************************)
(* Two mutating operations never hold a common lock key.                   *)
(***************************************************************************)
THEOREM LocksExclude == K!Spec => []K!MutualExclusion
  BY LocksInit, LocksNextStep, OwnersExclude, PTL DEF K!Spec

(***************************************************************************)
(* The lock map holds exactly the entries in use, each counted exactly,    *)
(* and all goroutines of a key share its one entry.                        *)
(***************************************************************************)
THEOREM LocksCounted == K!Spec => [](RefsExact /\ K!OneEntryPerKey)
<1>1. LIInv => RefsExact /\ K!OneEntryPerKey
  BY SameCount DEF LIInv, RefsExact
<1> QED
  BY <1>1, LocksInit, LocksNextStep, PTL DEF K!Spec

(***************************************************************************)
(* keyedLocks implements AccountLocks: the step that locks the last entry  *)
(* is Enter, the first unlock is Leave, everything else is invisible.      *)
(***************************************************************************)
THEOREM LocksImplement == K!Spec => ImplementsAccountLocks
<1>1. K!Init => K!Abstract!Init
  BY DEF K!Init, K!Abstract!Init, K!Inside
<1>2. LIInv /\ LIInv' /\ [K!Next]_(K!vars) => [K!Abstract!Next]_(K!Inside)
  <2> SUFFICES ASSUME LIInv, LIInv', [K!Next]_(K!vars)
               PROVE  K!Abstract!Next \/ K!Inside' = K!Inside
    OBVIOUS
  <2>1. ASSUME NEW p \in Proc, NEW req \in (SUBSET Key) \ {{}}, K!Register(p, req)
        PROVE  K!Inside' = K!Inside
    BY <2>1 DEF K!Register, K!Inside, LIInv, K!TypeOK
  <2>2. ASSUME NEW p \in Proc, NEW k \in Key, K!Acquire(p, k)
        PROVE  K!Abstract!Next \/ K!Inside' = K!Inside
    <3>1. stage[p] = "locking" /\ want' = want
          /\ stage' = [stage EXCEPT ![p] = IF got'[p] = want[p] THEN "inside" ELSE "locking"]
      BY <2>2 DEF K!Acquire, K!LockReturns
    <3>2. CASE got'[p] # want[p]
      BY <3>1, <3>2 DEF K!Inside, LIInv, K!TypeOK
    <3>3. CASE got'[p] = want[p]
      <4>1. stage' = [stage EXCEPT ![p] = "inside"] /\ want[p] \in SUBSET Key /\ want[p] # {}
        BY <3>1, <3>3 DEF LIInv, K!TypeOK, HoldsItsOwn
      <4>2. K!Inside[p] = {} /\ K!Inside' = [K!Inside EXCEPT ![p] = want[p]]
        BY <3>1, <4>1 DEF K!Inside, LIInv, K!TypeOK
      <4>3. K!Abstract!Grantable(p, want[p])
        <5>1. K!MutualExclusion'
          BY OwnersExclude, PTL
        <5>2. ASSUME NEW q \in Proc \ {p}
              PROVE  K!Inside[q] \cap want[p] = {}
          BY <3>1, <4>1, <5>1 DEF K!MutualExclusion, K!Inside, LIInv, K!TypeOK
        <5> QED
          BY <5>2 DEF K!Abstract!Grantable
      <4>4. K!Abstract!Enter(p, want[p])
        BY <4>1, <4>2, <4>3 DEF K!Abstract!Enter
      <4> QED
        BY <4>1, <4>4 DEF K!Abstract!Next
    <3> QED
      BY <3>2, <3>3
  <2>3. ASSUME NEW p \in Proc, NEW k \in Key, K!Unlock(p, k)
        PROVE  K!Abstract!Next \/ K!Inside' = K!Inside
    <3>1. /\ stage[p] \in {"inside", "unlocking"} /\ want' = want
          /\ stage' = [stage EXCEPT ![p] = "unlocking"]
      BY <2>3 DEF K!Unlock
    <3>2. CASE stage[p] = "unlocking"
      BY <3>1, <3>2 DEF K!Inside, LIInv, K!TypeOK
    <3>3. CASE stage[p] = "inside"
      <4>1. K!Inside[p] # {} /\ K!Inside' = [K!Inside EXCEPT ![p] = {}]
        BY <3>1, <3>3 DEF K!Inside, LIInv, K!TypeOK, HoldsItsOwn
      <4>2. K!Abstract!Leave(p)
        BY <4>1 DEF K!Abstract!Leave
      <4> QED
        BY <4>2 DEF K!Abstract!Next
    <3> QED
      BY <3>1, <3>2, <3>3
  <2>4. ASSUME NEW p \in Proc, K!Deregister(p)
        PROVE  K!Inside' = K!Inside
    BY <2>4 DEF K!Deregister, K!Inside, LIInv, K!TypeOK
  <2>5. CASE UNCHANGED K!vars
    BY <2>5 DEF K!vars, K!Inside
  <2> QED
    BY <2>1, <2>2, <2>3, <2>4, <2>5 DEF K!Next
<1> QED
  BY <1>1, <1>2, LocksInit, LocksNextStep, PTL DEF K!Spec, ImplementsAccountLocks, K!ImplementsAccountLocks, K!Abstract!Spec
=============================================================================
