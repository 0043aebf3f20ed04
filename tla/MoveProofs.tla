----------------------------- MODULE MoveProofs -----------------------------
(***************************************************************************)
(* A move that reports success has its object at the target and nothing    *)
(* else is there, a plain error without failing listings leaves it where   *)
(* it was, and an object stranded between the two was reported: for any    *)
(* number of calls, objects, directories and names.                        *)
(*                                                                         *)
(* The argument: a call holds the keys of both directories, so two calls   *)
(* under their locks work in different directories (Apart), and after the  *)
(* refresh the object of a call stays in the directories of that call      *)
(* (Home).  So no other call touches the object or its target, and what a  *)
(* listing has shown about them remains true (Free, Seen).                 *)
(***************************************************************************)
EXTENDS MoveTransaction, LockedCallsProofs

\* The steps that run under the locks, and those after the refresh, by which
\* the object was at the place it was seen at.
Locked == {"refresh", "conflict", "final"} \cup Requesting
Secured == Locked \ {"refresh"}

\* A call has begun with an object, a source and a target; it has no result
\* before it returns.
Begun(c) ==
    /\ pc[c] # "idle" => item[c] \in Object /\ from[c] \in Place /\ to[c] \in Place
    /\ pc[c] = "idle" => item[c] = Nil
    /\ pc[c] # "done" => result[c] = "none"
    /\ sent[c] => pc[c] \in Requesting

\* Keys are held exactly under these steps.
Holds(c) == held[c] = IF pc[c] \in Locked THEN Keys(c) ELSE {}

\* A secured object is in one of the two directories its call has locked.
Home(c) ==
    pc[c] \in Secured => Visible(item[c]) /\ place[item[c]].dir \in {from[c].dir, to[c].dir}

\* Nothing else is at the target once the conflict check has passed.
Free(c) == pc[c] \in Requesting \cup {"final"} => ObjectsAt(to[c]) \subseteq {item[c]}

\* Which steps belong to which kind of move.
Course(c) ==
    /\ pc[c] = "rename" => from[c].dir = to[c].dir
    /\ pc[c] = "move" => from[c].name = to[c].name
    /\ pc[c] \in Requesting \ {"rename"} => from[c].dir # to[c].dir

\* Where the object is, as far as the listings so far have shown.
Seen(c) ==
    /\ pc[c] \in {"conflict", "rename", "move", "hide"} /\ ~sent[c] => place[item[c]] = from[c]
    /\ pc[c] \in {"rename", "move"} => place[item[c]] \in {from[c], to[c]}
    /\ pc[c] = "hide" => place[item[c]] \in {from[c], PlaceOf(from[c].dir, Hidden(c))}
    /\ pc[c] = "final" => place[item[c]] = to[c]

\* An object that only one call wants stays where that call saw it until then.
Alone(c) == \A d \in Client \ {c} : item[d] # item[c]
Waiting(c) == pc[c] \in {"lock", "refresh"} /\ Alone(c) => place[item[c]] = from[c]

\* StrandedIsReported, of one call.
Reported(c) ==
    /\ pc[c] = "done" /\ from[c].dir # to[c].dir /\ Alone(c)
    /\ place[item[c]].dir = to[c].dir /\ place[item[c]].name # to[c].name
    => result[c] \in {"recovery", "crashed"}

\* The inductive invariant.
Sound(c) ==
    Begun(c) /\ Holds(c) /\ Home(c) /\ Free(c) /\ Course(c) /\ Seen(c) /\ Waiting(c) /\ Reported(c)
IInv == TypeOK /\ Locks!Exclusive /\ \A c \in Client : Sound(c)

-----------------------------------------------------------------------------
(***************************************************************************)
(* The types in the form the lemmas about all calls have them.             *)
(***************************************************************************)
LEMMA Types ==
    ASSUME IInv
    PROVE  /\ place \in [Object -> Place \cup {Nowhere}] /\ held \in Keyrings
           /\ pc \in [Client -> Phase] /\ sent \in [Client -> BOOLEAN]
           /\ result \in [Client -> Result]
           /\ item \in [Client -> Object \cup {Nil}]
           /\ from \in [Client -> Place \cup {Nil}]
           /\ to \in [Client -> Place \cup {Nil}]
           /\ returned \in [Client -> BOOLEAN] /\ flaky \in BOOLEAN
BY DEF IInv, TypeOK, ControlTypeOK, Keyrings

(***************************************************************************)
(* No step of the code is the name of a result.                            *)
(***************************************************************************)
LEMMA StepsAreNotResults == Phase \cap Result = {}
BY DEF Phase, Requesting, Result

\* A call that has begun has an object, a place it leads from and one it leads
\* to.
LEMMA CallsHave ==
    ASSUME IInv, NEW c \in Client, pc[c] # "idle"
    PROVE  /\ item[c] \in Object /\ from[c] \in Place /\ to[c] \in Place
           /\ from[c].dir \in Dir /\ to[c].dir \in Dir
           /\ Keys(c) \in SUBSET LockKey
BY KeysAre, PlacesAre DEF IInv, Sound, Begun, Keys

(***************************************************************************)
(* Two calls under their locks work in different directories, and after    *)
(* their refreshes on different objects.                                   *)
(***************************************************************************)
LEMMA Apart ==
    ASSUME IInv, NEW c \in Client, NEW d \in Client, c # d,
           pc[c] \in Locked, pc[d] \in Locked
    PROVE  /\ {from[c].dir, to[c].dir} \cap {from[d].dir, to[d].dir} = {}
           /\ pc[c] \in Secured /\ pc[d] \in Secured => item[c] # item[d]
<1>1. held[c] \cap held[d] = {}
  BY DEF IInv, Locks!Exclusive
<1>2. /\ Parent(from[c].dir) \in held[c] /\ Parent(to[c].dir) \in held[c]
      /\ Parent(from[d].dir) \in held[d] /\ Parent(to[d].dir) \in held[d]
  BY DEF IInv, Sound, Holds, Keys
<1>3. {from[c].dir, to[c].dir} \cap {from[d].dir, to[d].dir} = {}
  BY <1>1, <1>2
<1> QED
  BY <1>3 DEF IInv, Sound, Home

(***************************************************************************)
(* A step of call c that moves at most the object of c, within the         *)
(* directories of c once it is secured, means nothing to another call.     *)
(***************************************************************************)
LEMMA OthersAreSound ==
    ASSUME IInv, NEW c \in Client, NEW d \in Client, c # d,
           UNCHANGED <<from, to>>,
           UNCHANGED <<pc[d], sent[d], result[d], held[d], item>>,
           \/ place' = place
           \/ \E q \in Place :
                /\ pc[c] \in Secured
                /\ q.dir \in {from[c].dir, to[c].dir}
                /\ place' = [place EXCEPT ![item[c]] = q]
    PROVE  Sound(d)'
<1>1. CASE place' = place
  BY <1>1 DEF IInv, Sound, Begun, Holds, Keys, Home, Free, Course, Seen, Waiting, Reported,
              Alone, ObjectsAt, Visible, Hidden
<1>2. ASSUME NEW q \in Place, pc[c] \in Secured, q.dir \in {from[c].dir, to[c].dir},
             place' = [place EXCEPT ![item[c]] = q]
      PROVE  Sound(d)'
  <2>1. /\ item[c] \in Object /\ from[c] \in Place /\ to[c] \in Place
        /\ place[item[c]].dir \in {from[c].dir, to[c].dir}
        /\ \A i \in Object : place'[i] = IF i = item[c] THEN q ELSE place[i]
    <3>1. pc[c] # "idle"
      BY <1>2 DEF Secured, Locked, Requesting
    <3> QED
      BY <1>2, <3>1, CallsHave, Types DEF IInv, Sound, Home
  <2>2. Begun(d)' /\ Holds(d)' /\ Course(d)'
    BY DEF IInv, Sound, Begun, Holds, Keys, Course
  <2>3. pc[d] \in Secured => item[d] # item[c] /\ place'[item[d]] = place[item[d]]
    <3> SUFFICES ASSUME pc[d] \in Secured
                 PROVE  item[d] # item[c] /\ place'[item[d]] = place[item[d]]
      OBVIOUS
    <3>1. item[d] \in Object /\ item[d] # item[c]
      BY <1>2, Apart, CallsHave DEF Secured, Locked, Requesting
    <3> QED
      BY <2>1, <3>1
  <2>4. Home(d)' /\ Seen(d)'
    BY <2>3 DEF IInv, Sound, Home, Seen, Visible, Hidden, Secured, Locked, Requesting
  <2>5. Free(d)'
    <3> SUFFICES ASSUME pc[d] \in Requesting \cup {"final"}
                 PROVE  ObjectsAt(to[d])' \subseteq {item[d]}
      BY DEF Free
    <3>1. q # to[d]
      BY <1>2, Apart DEF Secured, Locked
    <3>2. ObjectsAt(to[d])' \subseteq ObjectsAt(to[d])
      BY <2>1, <3>1 DEF ObjectsAt
    <3> QED
      BY <3>2 DEF IInv, Sound, Free
  <2>6. Waiting(d)' /\ Reported(d)'
    <3>1. Alone(d)' => Alone(d) /\ item[d] # item[c]
      BY DEF Alone
    <3>2. item[d] \in Object /\ item[d] # item[c] => place'[item[d]] = place[item[d]]
      BY <2>1
    <3>3. pc[d] # "idle" => item[d] \in Object
      BY CallsHave
    <3> QED
      BY <3>1, <3>2, <3>3 DEF IInv, Sound, Waiting, Reported
  <2> QED
    BY <2>2, <2>4, <2>5, <2>6 DEF Sound
<1> QED
  BY <1>1, <1>2

-----------------------------------------------------------------------------
(***************************************************************************)
(* In the beginning no call has begun.                                     *)
(***************************************************************************)
LEMMA InitIInv == Init => IInv
<1> SUFFICES ASSUME Init PROVE IInv
  OBVIOUS
<1>1. TypeOK
  BY MoveAssumption DEF Init, ControlInit, TypeOK, ControlTypeOK, Phase, Result, Place, AnyName
<1>2. Locks!Exclusive
  BY DEF Init, ControlInit, Locks!Exclusive
<1>3. ASSUME NEW c \in Client PROVE Sound(c)
  BY DEF Init, ControlInit, Sound, Begun, Holds, Home, Free, Course, Seen, Waiting, Reported,
         Locked, Secured, Requesting
<1> QED
  BY <1>1, <1>2, <1>3 DEF IInv

(***************************************************************************)
(* A call that begins saw its object where it is.                          *)
(***************************************************************************)
LEMMA BeginIInv == ASSUME IInv, NEW c \in Client, Begin(c) PROVE IInv'
<1>1. PICK i \in Object, d \in Dir, n \in Name :
        /\ Visible(i)
        /\ item' = [item EXCEPT ![c] = i]
        /\ from' = [from EXCEPT ![c] = place[i]]
        /\ to' = [to EXCEPT ![c] = PlaceOf(d, n)]
  BY DEF Begin
<1>2. /\ pc[c] = "idle" /\ pc' = [pc EXCEPT ![c] = "lock"]
      /\ UNCHANGED <<held, result, place, late, sent, returned, flaky>>
  BY DEF Begin, Goto
<1>3. place[i] \in Place /\ PlaceOf(d, n) \in Place
  BY <1>1, PlacesAre DEF Visible, AnyName
<1>4. TypeOK'
  <2>1. pc' \in [Client -> Phase]
    BY <1>2, Types DEF Phase
  <2> QED
    BY <1>1, <1>2, <1>3, <2>1, Types DEF TypeOK, ControlTypeOK, Keyrings
<1>5. Locks!Exclusive'
  BY <1>2, KeysKept DEF IInv
<1>6. Sound(c)'
  <2>1. item'[c] = i /\ from'[c] = place[i] /\ to'[c] = PlaceOf(d, n) /\ pc'[c] = "lock"
    BY <1>1, <1>2, Types
  <2>2. held[c] = {} /\ result[c] = "none" /\ ~sent[c]
    BY <1>2 DEF IInv, Sound, Begun, Holds, Locked, Requesting
  <2> QED
    BY <1>2, <1>3, <2>1, <2>2 DEF Sound, Begun, Holds, Home, Free, Course, Seen, Waiting, Reported,
         Locked, Secured, Requesting
<1>7. ASSUME NEW e \in Client, e # c PROVE Sound(e)'
  <2>1. item'[e] = item[e] /\ from'[e] = from[e] /\ to'[e] = to[e] /\ pc'[e] = pc[e]
    BY <1>1, <1>2, <1>7, Types
  <2>2. pc[e] # "idle" => item[e] # item[c]
    BY <1>2, PlacesAre, CallsHave DEF IInv, Sound, Begun
  <2>3. pc[e] # "idle" /\ Alone(e)' => Alone(e)
    BY <1>1, <2>1, <2>2, Types DEF Alone
  <2>4. Begun(e)' /\ Course(e)' /\ Home(e)' /\ Seen(e)'
    BY <1>2, <2>1 DEF IInv, Sound, Begun, Course, Home, Seen, Visible, Hidden
  <2>5. Holds(e)'
    BY <1>2, <2>1 DEF IInv, Sound, Holds, Keys
  <2>6. Free(e)'
    BY <1>2, <2>1 DEF IInv, Sound, Free, ObjectsAt
  <2>7. Waiting(e)' /\ Reported(e)'
    BY <1>2, <2>1, <2>3 DEF IInv, Sound, Waiting, Reported
  <2> QED
    BY <2>4, <2>5, <2>6, <2>7 DEF Sound
<1> QED
  BY <1>4, <1>5, <1>6, <1>7 DEF IInv

(***************************************************************************)
(* A call gets its keys at once, none of them held by another call.        *)
(***************************************************************************)
LEMMA TakeLocksIInv == ASSUME IInv, NEW c \in Client, TakeLocks(c) PROVE IInv'
<1>1. /\ pc[c] = "lock" /\ pc' = [pc EXCEPT ![c] = "refresh"]
      /\ Locks!Enter(c, Keys(c))
      /\ UNCHANGED <<sent, result, place, item, from, to, returned, flaky>>
  BY DEF TakeLocks, Lock
<1>2. held' = [held EXCEPT ![c] = Keys(c)] /\ held' \in Keyrings /\ Locks!Exclusive'
  BY <1>1, KeysTaken, CallsHave, Types DEF IInv
<1>3. TypeOK'
  <2>1. pc' \in [Client -> Phase]
    BY <1>1, Types DEF Phase
  <2> QED
    BY <1>1, <1>2, <2>1, Types DEF TypeOK, ControlTypeOK, Keyrings
<1>4. pc'[c] = "refresh" /\ held'[c] = Keys(c)
  BY <1>1, <1>2, Types DEF Keyrings
<1>5. Sound(c)'
  BY <1>1, <1>4 DEF IInv, Sound, Begun, Holds, Keys, Home, Free, Course, Seen, Waiting, Alone,
     Reported, Locked, Secured, Requesting
<1>6. ASSUME NEW d \in Client, d # c PROVE Sound(d)'
  <2>1. UNCHANGED <<pc[d], held[d], sent[d], result[d]>>
    BY <1>1, <1>2, <1>6, Types DEF Keyrings
  <2> QED
    BY <1>1, <1>6, <2>1, OthersAreSound
<1> QED
  BY <1>2, <1>3, <1>5, <1>6 DEF IInv

-----------------------------------------------------------------------------
(***************************************************************************)
(* A step that only reads or decides: it keeps the invariant of the other  *)
(* calls, and of its own call what does not depend on the step; a call     *)
(* that returns has only its object's place left to answer for.            *)
(***************************************************************************)
LEMMA DecideIInv ==
    ASSUME IInv, NEW c \in Client, pc[c] \in Locked,
           NEW next \in Secured \cup Result, Continue(c, next),
           UNCHANGED <<place, item, from, to, flaky>>,
           returned' \in [Client -> BOOLEAN], sent' = [sent EXCEPT ![c] = FALSE]
    PROVE  /\ TypeOK' /\ Locks!Exclusive'
           /\ \A d \in Client \ {c} : Sound(d)'
           /\ Begun(c)' /\ Holds(c)' /\ Waiting(c)' /\ ~sent'[c]
           /\ next \in Result => /\ pc'[c] = "done" /\ result'[c] = next
                                 /\ Home(c)' /\ Free(c)' /\ Course(c)' /\ Seen(c)'
           /\ next \in Secured => pc'[c] = next /\ result'[c] = "none" /\ Reported(c)'
<1>1. pc[c] # "idle" /\ pc[c] # "done"
  BY DEF Locked, Requesting
<1>2. /\ held' \in Keyrings /\ Locks!Exclusive'
      /\ next \in Result => /\ pc' = [pc EXCEPT ![c] = "done"]
                            /\ result' = [result EXCEPT ![c] = next]
                            /\ held' = [held EXCEPT ![c] = {}]
      /\ next \notin Result => pc' = [pc EXCEPT ![c] = next] /\ UNCHANGED <<result, held>>
  BY Continued, Types DEF IInv
<1>3. next \in Secured => next \notin Result /\ next \in Phase
  BY StepsAreNotResults DEF Secured, Locked, Phase
<1>4. /\ pc' \in [Client -> Phase] /\ result' \in [Client -> Result]
      /\ sent' \in [Client -> BOOLEAN]
  BY <1>2, <1>3, Types DEF Phase
<1>5. TypeOK'
  BY <1>2, <1>4, Types DEF TypeOK, ControlTypeOK, Keyrings
<1>6. ASSUME NEW d \in Client \ {c} PROVE Sound(d)'
  <2>1. UNCHANGED <<pc[d], held[d], sent[d], result[d]>>
    BY <1>2, <1>6, Types DEF Keyrings
  <2> QED
    BY <1>6, <2>1, OthersAreSound
<1>7. /\ next \in Result => pc'[c] = "done" /\ result'[c] = next /\ held'[c] = {}
      /\ next \in Secured => pc'[c] = next /\ result'[c] = result[c] /\ held'[c] = held[c]
      /\ ~sent'[c]
  BY <1>2, <1>3, Types DEF Keyrings
<1>8. Begun(c)'
  BY <1>1, <1>7 DEF IInv, Sound, Begun, Secured, Locked, Requesting
<1>9. Holds(c)'
  <2>1. Keys(c)' = Keys(c)
    BY DEF Keys
  <2> QED
    BY <1>7, <2>1 DEF IInv, Sound, Holds, Secured, Locked, Requesting
<1>10. Waiting(c)'
  BY <1>7 DEF Waiting, Secured, Locked, Requesting
<1>11. next \in Result => Home(c)' /\ Free(c)' /\ Course(c)' /\ Seen(c)'
  BY <1>7 DEF Home, Free, Course, Seen, Secured, Locked, Requesting
<1>12. next \in Secured => result'[c] = "none" /\ Reported(c)'
  BY <1>1, <1>7 DEF IInv, Sound, Begun, Reported, Secured, Locked, Requesting
<1> QED
  BY <1>2, <1>5, <1>6, <1>7, <1>8, <1>9, <1>10, <1>11, <1>12

(***************************************************************************)
(* A read goes on as its outcome says, or the call returns an error.       *)
(***************************************************************************)
LEMMA Looked ==
    ASSUME IInv, NEW c \in Client, NEW step \in {"refresh", "conflict", "final"}, NEW next,
           Look(c, step, next)
    PROVE  /\ pc[c] = step /\ pc[c] \in Locked
           /\ \E decided \in {next, "error"} : Continue(c, decided)
           /\ UNCHANGED <<place, item, from, to, flaky>>
           /\ returned' \in [Client -> BOOLEAN] /\ sent' = [sent EXCEPT ![c] = FALSE]
           /\ ~sent[c]
<1>1. pc[c] = step /\ UNCHANGED <<place, late, sent, item, from, to, returned, flaky>>
  BY DEF Look
<1>2. ~sent[c] /\ pc[c] \in Locked
  BY <1>1 DEF IInv, Sound, Begun, Locked, Requesting
<1>3. sent' = [sent EXCEPT ![c] = FALSE]
  BY <1>1, <1>2, Types
<1>4. \E decided \in {next, "error"} : Continue(c, decided)
  BY DEF Look, Continue, Result
<1> QED
  BY <1>1, <1>2, <1>3, <1>4, Types

\* Under the locks, the object is looked up again where it was.
LEMMA RefreshIInv ==
    ASSUME IInv, NEW c \in Client, Look(c, "refresh", AfterRefresh(c))
    PROVE  IInv'
<1>1. PICK decided \in {AfterRefresh(c), "error"} : Continue(c, decided)
  BY Looked
<1>2. decided \in {"ok", "error", "conflict"}
  BY DEF AfterRefresh
<1>3. decided \in Secured \cup Result
  BY <1>2 DEF Secured, Locked, Result
<1>4. /\ pc[c] = "refresh" /\ ~sent[c] /\ UNCHANGED <<place, item, from, to>>
      /\ from[c] \in Place
  BY Looked, CallsHave
<1>5. /\ TypeOK' /\ Locks!Exclusive' /\ \A d \in Client \ {c} : Sound(d)'
      /\ Begun(c)' /\ Holds(c)' /\ Waiting(c)' /\ ~sent'[c]
      /\ decided \in Result => pc'[c] = "done" /\ Home(c)' /\ Free(c)' /\ Course(c)' /\ Seen(c)'
      /\ decided \in Secured => pc'[c] = decided /\ Reported(c)'
  BY <1>1, <1>3, Looked, DecideIInv
<1>6. Sound(c)'
  <2>1. CASE decided = "conflict"
    <3>1. pc'[c] = "conflict" /\ Reported(c)'
      BY <1>5, <2>1 DEF Secured, Locked
    <3>2. place[item[c]] = from[c]
      BY <2>1 DEF AfterRefresh
    <3>3. Home(c)' /\ Free(c)' /\ Course(c)' /\ Seen(c)'
      BY <1>4, <3>1, <3>2 DEF Home, Visible, Free, Course, Seen, Requesting
    <3> QED
      BY <1>5, <3>1, <3>3 DEF Sound
  <2>2. CASE decided # "conflict"
    <3>1. decided \in Result /\ (decided = "ok" => from[c] = to[c])
      BY <1>2, <2>2 DEF AfterRefresh, Result
    <3>2. Reported(c)'
      <4>1. from[c] # to[c] => decided = "error"
        BY <1>2, <2>2, <3>1
      <4>2. Alone(c)' => place[item[c]] = from[c]
        BY <1>4 DEF IInv, Sound, Waiting, Alone
      <4> QED
        BY <1>4, <4>2 DEF Reported
    <3> QED
      BY <1>5, <3>1, <3>2 DEF Sound
  <2> QED
    BY <2>1, <2>2
<1> QED
  BY <1>5, <1>6 DEF IInv

\* moveItem looks for another object at the target.
LEMMA ConflictIInv ==
    ASSUME IInv, NEW c \in Client, Look(c, "conflict", AfterConflict(c))
    PROVE  IInv'
<1>1. PICK decided \in {AfterConflict(c), "error"} : Continue(c, decided)
  BY Looked
<1>2. decided \in {"error", "rename", "move", "hide"}
  BY DEF AfterConflict
<1>3. decided \in Secured \cup Result
  BY <1>2 DEF Secured, Locked, Requesting, Result
<1>4. /\ pc[c] = "conflict" /\ ~sent[c] /\ UNCHANGED <<place, item, from, to>>
      /\ from[c] \in Place /\ place[item[c]] = from[c]
  BY Looked, CallsHave DEF IInv, Sound, Seen
<1>5. /\ TypeOK' /\ Locks!Exclusive' /\ \A d \in Client \ {c} : Sound(d)'
      /\ Begun(c)' /\ Holds(c)' /\ Waiting(c)' /\ ~sent'[c]
      /\ decided \in Result => pc'[c] = "done" /\ Home(c)' /\ Free(c)' /\ Course(c)' /\ Seen(c)'
      /\ decided \in Secured => pc'[c] = decided /\ Reported(c)'
  BY <1>1, <1>3, Looked, DecideIInv
<1>6. Sound(c)'
  <2>1. CASE decided = "error"
    <3>1. Reported(c)'
      BY <1>4 DEF Reported
    <3> QED
      BY <1>5, <2>1, <3>1 DEF Sound, Result
  <2>2. CASE decided # "error"
    <3>1. decided = AfterConflict(c) /\ pc'[c] = decided /\ Reported(c)'
      BY <1>2, <1>5, <2>2 DEF Secured, Locked, Requesting
    <3>2. /\ ObjectsAt(to[c]) \subseteq {item[c]}
          /\ decided = "rename" => from[c].dir = to[c].dir
          /\ decided = "move" => from[c].name = to[c].name
          /\ decided # "rename" => from[c].dir # to[c].dir
      BY <2>2, <3>1 DEF AfterConflict
    <3>3. Home(c)' /\ Seen(c)'
      BY <1>2, <1>4, <1>5, <3>1 DEF Home, Visible, Seen
    <3>4. Free(c)' /\ Course(c)'
      BY <1>2, <1>4, <3>1, <3>2 DEF Free, Course, ObjectsAt
    <3> QED
      BY <1>5, <3>1, <3>3, <3>4 DEF Sound
  <2> QED
    BY <2>1, <2>2
<1> QED
  BY <1>5, <1>6 DEF IInv

\* fileByIDRequired: the last listing judges where the object is.
LEMMA FinalIInv ==
    ASSUME IInv, NEW c \in Client, Look(c, "final", AfterFinal(c))
    PROVE  IInv'
<1>1. PICK decided \in {AfterFinal(c), "error"} : Continue(c, decided)
  BY Looked
<1>2. decided \in Result
  BY DEF AfterFinal, Result
<1>3. UNCHANGED <<place, item, from, to>> /\ place[item[c]] = to[c]
  BY Looked DEF IInv, Sound, Seen
<1>4. /\ TypeOK' /\ Locks!Exclusive' /\ \A d \in Client \ {c} : Sound(d)'
      /\ Begun(c)' /\ Holds(c)' /\ Waiting(c)'
      /\ Home(c)' /\ Free(c)' /\ Course(c)' /\ Seen(c)'
  BY <1>1, <1>2, Looked, DecideIInv
<1>5. Reported(c)'
  BY <1>3 DEF Reported
<1> QED
  BY <1>4, <1>5 DEF IInv, Sound

-----------------------------------------------------------------------------
(***************************************************************************)
(* A request moves the object of its call, within the directories of the   *)
(* call, or has no effect.                                                 *)
(***************************************************************************)
LEMMA RequestMoves ==
    ASSUME IInv, NEW c \in Client, Send(c)
    PROVE  /\ pc[c] \in Requesting /\ item[c] \in Object /\ Visible(item[c])
           /\ \/ place' = place
              \/ \E q \in Place :
                   /\ place' = [place EXCEPT ![item[c]] = q]
                   /\ q.dir \in {from[c].dir, to[c].dir}
                   /\ pc[c] = "rename" => q = PlaceOf(place[item[c]].dir, to[c].name)
                   /\ pc[c] = "hide" => q = PlaceOf(place[item[c]].dir, Hidden(c))
                   /\ pc[c] = "move" => q = PlaceOf(to[c].dir, place[item[c]].name)
<1>1. pc[c] \in Requesting /\ Attempt(Request(c))
  BY DEF Send
<1>2. /\ item[c] \in Object /\ from[c] \in Place /\ to[c] \in Place
      /\ from[c].dir \in Dir /\ to[c].dir \in Dir
      /\ from[c].name \in AnyName /\ to[c].name \in AnyName
  BY <1>1, CallsHave, PlacesAre DEF Requesting
<1>3. /\ Visible(item[c]) /\ place[item[c]] \in Place
      /\ place[item[c]].dir \in {from[c].dir, to[c].dir}
      /\ place[item[c]].dir \in Dir /\ place[item[c]].name \in AnyName
  BY <1>1, PlacesAre DEF IInv, Sound, Home, Visible, Secured, Locked, Requesting
<1>4. CASE pc[c] \in {"move", "carry", "carryBack"}
  <2>1. PICK d \in {from[c].dir, to[c].dir} :
          Request(c) = Relocate(item[c], d) /\ (pc[c] = "move" => d = to[c].dir)
    BY <1>4 DEF Request
  <2>2. PlaceOf(d, place[item[c]].name) \in Place /\ PlaceOf(d, place[item[c]].name).dir = d
    BY <1>2, <1>3, <2>1, PlacesAre
  <2>3. \/ place' = place
        \/ place' = [place EXCEPT ![item[c]] = PlaceOf(d, place[item[c]].name)]
    <3>1. Attempt(Relocate(item[c], d))
      BY <1>1, <2>1
    <3> QED
      BY <3>1, Attempted, Effects
  <2> QED
    BY <1>1, <1>2, <1>3, <1>4, <2>1, <2>2, <2>3
<1>5. CASE pc[c] \in {"rename", "settle", "hide", "unhide", "unhideBack"}
  <2>1. Hidden(c) \in AnyName
    BY TempNamesAre DEF Hidden
  <2>2. PICK n \in AnyName :
          /\ Request(c) = Rename(item[c], n)
          /\ pc[c] = "rename" => n = to[c].name
          /\ pc[c] = "hide" => n = Hidden(c)
    BY <1>2, <1>5, <2>1 DEF Request
  <2>3. LET q == PlaceOf(place[item[c]].dir, n)
        IN  q \in Place /\ q.dir = place[item[c]].dir
    BY <1>3, <2>2, PlacesAre
  <2>4. \/ place' = place
        \/ place' = [place EXCEPT ![item[c]] = PlaceOf(place[item[c]].dir, n)]
    <3>1. Attempt(Rename(item[c], n))
      BY <1>1, <2>2
    <3> QED
      BY <3>1, Attempted, Effects
  <2> QED
    BY <1>1, <1>2, <1>3, <1>5, <2>2, <2>3, <2>4
<1> QED
  BY <1>1, <1>4, <1>5 DEF Requesting

\* A request moves the object of its call, or nothing.
LEMMA SendIInv == ASSUME IInv, NEW c \in Client, Send(c) PROVE IInv'
<1>1. /\ pc[c] \in Requesting /\ ~sent[c] /\ sent' = [sent EXCEPT ![c] = TRUE]
      /\ UNCHANGED <<held, pc, item, from, to, returned, result, flaky>>
      /\ pc[c] \in Secured /\ pc[c] \in Locked
  BY DEF Send, Secured, Locked, Requesting
<1>2. item[c] \in Object /\ Visible(item[c]) /\ from[c] \in Place /\ to[c] \in Place
  BY RequestMoves, CallsHave DEF Requesting
<1>3. TypeOK'
  <2>1. place' \in [Object -> Place \cup {Nowhere}]
    BY RequestMoves, Types
  <2> QED
    BY <1>1, <2>1, Types DEF TypeOK, ControlTypeOK, Keyrings
<1>4. Locks!Exclusive'
  BY <1>1, KeysKept DEF IInv
<1>5. ASSUME NEW d \in Client, d # c PROVE Sound(d)'
  <2>1. sent'[d] = sent[d]
    BY <1>1, <1>5, Types
  <2>2. \/ place' = place
        \/ \E q \in Place :
             /\ pc[c] \in Secured
             /\ q.dir \in {from[c].dir, to[c].dir}
             /\ place' = [place EXCEPT ![item[c]] = q]
    BY <1>1, RequestMoves
  <2> QED
    BY <1>1, <1>5, <2>1, <2>2, OthersAreSound
<1>6. Sound(c)'
  <2>1. sent'[c] = TRUE
    BY <1>1, Types
  <2>2. Begun(c)' /\ Holds(c)' /\ Course(c)'
    BY <1>1, <1>2, <2>1 DEF IInv, Sound, Begun, Holds, Keys, Course
  <2>3. Waiting(c)' /\ Reported(c)'
    BY <1>1 DEF Waiting, Reported, Requesting
  <2>4. Home(c)'
    <3>1. CASE place' = place
      BY <1>1, <3>1 DEF IInv, Sound, Home, Visible
    <3>2. CASE place' # place
      <4>1. PICK q \in Place : place' = [place EXCEPT ![item[c]] = q]
                              /\ q.dir \in {from[c].dir, to[c].dir}
        BY <3>2, RequestMoves
      <4>2. place'[item[c]] = q
        BY <1>2, <4>1, Types
      <4> QED
        BY <1>1, <4>1, <4>2 DEF Home, Visible
    <3> QED
      BY <3>1, <3>2
  <2>5. Free(c)'
    <3>1. \A i \in Object : i # item[c] => place'[i] = place[i]
      BY <1>2, RequestMoves, Types
    <3>2. ObjectsAt(to[c]) \subseteq {item[c]}
      BY <1>1 DEF IInv, Sound, Free
    <3>3. ObjectsAt(to[c])' \subseteq {item[c]}
      BY <1>1, <3>1, <3>2 DEF ObjectsAt
    <3> QED
      BY <1>1, <3>3 DEF Free
  <2>6. Seen(c)'
    <3>1. CASE pc[c] \notin {"rename", "move", "hide"}
      BY <1>1, <3>1 DEF Seen, Requesting
    <3>2. CASE pc[c] \in {"rename", "move", "hide"}
      <4>1. place[item[c]] = from[c]
        BY <1>1, <3>2 DEF IInv, Sound, Seen
      <4>2. from[c].dir \in Dir /\ to[c].dir \in Dir /\ to[c].name \in AnyName
        BY <1>2, PlacesAre
      <4>3. /\ pc[c] = "rename" => PlaceOf(from[c].dir, to[c].name) = to[c]
            /\ pc[c] = "move" => PlaceOf(to[c].dir, from[c].name) = to[c]
        BY <1>2, <4>2, PlacesAre DEF IInv, Sound, Course
      <4>4. \/ place'[item[c]] = from[c]
            \/ /\ pc[c] = "rename" => place'[item[c]] = to[c]
               /\ pc[c] = "move" => place'[item[c]] = to[c]
               /\ pc[c] = "hide" => place'[item[c]] = PlaceOf(from[c].dir, Hidden(c))
        BY <1>2, <4>1, <4>3, RequestMoves, Types
      <4> QED
        BY <1>1, <2>1, <3>2, <4>4 DEF Seen, Hidden
    <3> QED
      BY <3>1, <3>2
  <2> QED
    BY <2>2, <2>3, <2>4, <2>5, <2>6 DEF Sound
<1> QED
  BY <1>3, <1>4, <1>5, <1>6 DEF IInv

(***************************************************************************)
(* What a successful check shows.                                          *)
(***************************************************************************)
LEMMA AchievedMeans ==
    ASSUME IInv, NEW c \in Client, pc[c] \in Requesting, Achieved(c, Request(c))
    PROVE  /\ pc[c] \in {"rename", "move", "settle"} => place[item[c]] = to[c]
           /\ pc[c] \in {"unhide", "unhideBack"} => place[item[c]] = from[c]
<1>1. from[c] \in Place /\ to[c] \in Place /\ place[item[c]] \in Place
  BY CallsHave DEF Achieved, Visible, Requesting
<1>2. /\ place[item[c]].dir = Listed(c)
      /\ pc[c] = "move" => place[item[c]].name = to[c].name
      /\ Request(c).op = "rename" => place[item[c]].name = Request(c).name
  BY DEF Achieved
<1>3. pc[c] \in {"rename", "settle"} => Request(c) = Rename(item[c], to[c].name)
  BY DEF Request
<1>4. pc[c] \in {"unhide", "unhideBack"} => Request(c) = Rename(item[c], from[c].name)
  BY DEF Request
<1>5. /\ pc[c] \in {"rename", "move", "settle"} => place[item[c]].name = to[c].name
      /\ pc[c] \in {"unhide", "unhideBack"} => place[item[c]].name = from[c].name
  BY <1>2, <1>3, <1>4, Effects
<1>6. /\ pc[c] \in {"rename", "move", "settle"} => Listed(c) = to[c].dir
      /\ pc[c] \in {"unhide", "unhideBack"} => Listed(c) = from[c].dir
  BY DEF Listed
<1> QED
  BY <1>1, <1>2, <1>5, <1>6, PlacesAre

(***************************************************************************)
(* The check of a request decides what is done next.                       *)
(***************************************************************************)
LEMMA CheckIInv == ASSUME IInv, NEW c \in Client, Check(c) PROVE IInv'
<1>1. PICK seen \in BOOLEAN :
        /\ seen => Achieved(c, Request(c))
        /\ Continue(c, IF seen THEN Success(c) ELSE Failure(c))
        /\ returned' = [returned EXCEPT ![c] = IF pc[c] = "carryBack" THEN seen ELSE @]
  BY DEF Check
<1> DEFINE decided == IF seen THEN Success(c) ELSE Failure(c)
<1>2. /\ pc[c] \in Requesting /\ pc[c] \in Secured /\ pc[c] \in Locked
      /\ UNCHANGED <<place, item, from, to, flaky>>
      /\ sent' = [sent EXCEPT ![c] = FALSE]
  BY DEF Check, Secured, Locked, Requesting
<1>3. returned' \in [Client -> BOOLEAN]
  BY <1>1, Types
<1>4. /\ pc[c] \in {"rename", "settle"} /\ seen => decided = "final"
      /\ pc[c] = "move" /\ seen => decided = "ok"
      /\ pc[c] = "hide" /\ seen => decided = "carry"
      /\ pc[c] = "carry" /\ seen => decided = "settle"
      /\ pc[c] = "unhide" /\ seen => decided = "error"
      /\ pc[c] = "carryBack" /\ seen => decided = "unhideBack"
      /\ pc[c] = "unhideBack" /\ seen => decided \in {"error", "recovery"}
      /\ pc[c] \in {"rename", "move", "hide"} /\ ~seen => decided = "error"
      /\ pc[c] = "carry" /\ ~seen => decided = "unhide"
      /\ pc[c] = "settle" /\ ~seen => decided = "carryBack"
      /\ pc[c] = "carryBack" /\ ~seen => decided = "unhideBack"
      /\ pc[c] \in {"unhide", "unhideBack"} /\ ~seen => decided = "recovery"
  BY DEF Success, Failure
<1>5. decided \in Secured \cup Result
  BY <1>2, <1>4 DEF Secured, Locked, Requesting, Result
<1>6. Continue(c, decided)
  BY <1>1
<1> HIDE DEF decided
<1>7. /\ TypeOK' /\ Locks!Exclusive' /\ \A d \in Client \ {c} : Sound(d)'
      /\ Begun(c)' /\ Holds(c)' /\ Waiting(c)' /\ ~sent'[c]
      /\ decided \in Result => /\ pc'[c] = "done" /\ result'[c] = decided
                               /\ Home(c)' /\ Free(c)' /\ Course(c)' /\ Seen(c)'
      /\ decided \in Secured => pc'[c] = decided /\ Reported(c)'
  BY <1>2, <1>3, <1>5, <1>6, DecideIInv
<1>8. /\ Visible(item[c]) /\ place[item[c]].dir \in {from[c].dir, to[c].dir}
      /\ ObjectsAt(to[c]) \subseteq {item[c]}
      /\ pc[c] # "rename" => from[c].dir # to[c].dir
      /\ from[c] \in Place
  BY <1>2, CallsHave DEF IInv, Sound, Home, Free, Course, Requesting
<1>9. ASSUME decided \in Secured PROVE Sound(c)'
  <2>1. decided \in {"final", "carry", "settle", "unhide", "carryBack", "unhideBack"}
        /\ (decided # "final" => pc[c] # "rename")
    BY <1>2, <1>4, <1>9 DEF Requesting, Secured, Locked
  <2>2. decided = "final" => place[item[c]] = to[c]
    BY <1>1, <1>2, <1>4, AchievedMeans DEF Requesting
  <2>3. pc'[c] = decided
    BY <1>7, <1>9
  <2>4. Home(c)'
    BY <1>2, <1>8 DEF Home, Visible
  <2>5. Free(c)'
    BY <1>2, <1>8 DEF Free, ObjectsAt
  <2>6. Course(c)' /\ Seen(c)'
    BY <1>2, <1>8, <2>1, <2>2, <2>3 DEF Course, Seen, Requesting
  <2> QED
    BY <1>7, <1>9, <2>4, <2>5, <2>6 DEF Sound
<1>10. ASSUME decided \in Result PROVE Sound(c)'
  <2>1. Reported(c)'
    <3>1. CASE decided = "ok" \/ (pc[c] \in {"unhide", "unhideBack"} /\ seen)
      BY <1>1, <1>2, <1>4, <3>1, AchievedMeans DEF Reported, Requesting
    <3>2. CASE decided = "recovery"
      BY <1>7, <1>10, <3>2 DEF Reported
    <3>3. CASE decided = "error" /\ pc[c] \in {"rename", "move", "hide"}
      <4>1. pc[c] = "rename" => from[c].dir = to[c].dir
        BY DEF IInv, Sound, Course
      <4>2. pc[c] = "move" => place[item[c]] \in {from[c], to[c]}
        BY DEF IInv, Sound, Seen
      <4>3. pc[c] = "hide" => place[item[c]].dir = from[c].dir
        <5>1. from[c].dir \in Dir /\ Hidden(c) \in AnyName
          BY <1>8, PlacesAre, TempNamesAre DEF Hidden
        <5> QED
          BY <5>1, PlacesAre DEF IInv, Sound, Seen
      <4> QED
        BY <1>2, <3>3, <4>1, <4>2, <4>3 DEF Reported
    <3> QED
      BY <1>2, <1>4, <1>10, <3>1, <3>2, <3>3 DEF Requesting, Result
  <2> QED
    BY <1>7, <1>10, <2>1 DEF Sound
<1> QED
  BY <1>5, <1>7, <1>9, <1>10 DEF IInv

(***************************************************************************)
(* When the process dies, its calls end as crashed and its keys are free.  *)
(***************************************************************************)
LEMMA CrashIInv == ASSUME IInv, Crash PROVE IInv'
<1>1. /\ pc' = [c \in Client |-> IF Active(c) THEN "done" ELSE pc[c]]
      /\ result' = [c \in Client |-> IF Active(c) THEN "crashed" ELSE result[c]]
      /\ held' = [c \in Client |-> {}]
      /\ sent' = [c \in Client |-> FALSE]
      /\ UNCHANGED <<place, item, from, to, returned, flaky>>
  BY DEF Crash, Die
<1>2. held' \in Keyrings /\ Locks!Exclusive'
  BY <1>1, KeysLost
<1>3. TypeOK'
  <2>1. pc' \in [Client -> Phase] /\ result' \in [Client -> Result]
    BY <1>1, Types DEF Phase, Result
  <2> QED
    BY <1>1, <1>2, <2>1, Types DEF TypeOK, ControlTypeOK, Keyrings
<1>4. ASSUME NEW c \in Client PROVE Sound(c)'
  <2>1. /\ pc'[c] \in {"idle", "done"} /\ held'[c] = {} /\ ~sent'[c]
        /\ pc'[c] = "idle" => pc[c] = "idle" /\ result'[c] = result[c]
        /\ pc'[c] = "done" => \/ result'[c] = "crashed" /\ pc[c] # "idle"
                              \/ result'[c] = result[c] /\ pc[c] = "done"
    BY <1>1 DEF Active
  <2> QED
    BY <1>1, <2>1 DEF IInv, Sound, Begun, Holds, Home, Free, Course, Seen, Waiting, Reported, Alone,
       Locked, Secured, Requesting
<1> QED
  BY <1>2, <1>3, <1>4 DEF IInv

\* A step that changes nothing keeps the invariant.
LEMMA StutterIInv == ASSUME IInv, UNCHANGED vars PROVE IInv'
<1>1. UNCHANGED <<place, held, pc, sent, result, item, from, to, returned, flaky>>
  BY DEF vars, control
<1>2. TypeOK' /\ Locks!Exclusive'
  BY <1>1, KeysKept DEF IInv, TypeOK, ControlTypeOK
<1>3. ASSUME NEW c \in Client PROVE Sound(c)'
  BY <1>1 DEF IInv, Sound, Begun, Holds, Keys, Home, Free, Course, Seen, Waiting, Reported, Alone,
     ObjectsAt, Visible, Hidden
<1> QED
  BY <1>2, <1>3 DEF IInv

-----------------------------------------------------------------------------
(***************************************************************************)
(* The invariant holds in every reachable state.                           *)
(***************************************************************************)
THEOREM Inductive == Spec => []IInv
<1>1. IInv /\ [Next]_vars => IInv'
  <2> SUFFICES ASSUME IInv, [Next]_vars PROVE IInv'
    OBVIOUS
  <2>1. ASSUME NEW c \in Client, LookUp(c) PROVE IInv'
    BY <2>1, RefreshIInv, ConflictIInv, FinalIInv DEF LookUp
  <2> QED
    BY <2>1, BeginIInv, TakeLocksIInv, SendIInv, CheckIInv, CrashIInv, StutterIInv
       DEF Next, Step, Finished
<1> QED
  BY <1>1, InitIInv, PTL DEF Spec

(***************************************************************************)
(* Every step and every result of a move is one of those named.            *)
(***************************************************************************)
THEOREM MoveTyped == Spec => []TypeOK
<1>1. IInv => TypeOK
  BY DEF IInv
<1> QED
  BY <1>1, Inductive, PTL

(***************************************************************************)
(* An object that is at neither end of the move, in the target's directory *)
(* under another name, was announced: moveItem returned a RecoveryError,   *)
(* or its process was killed.                                              *)
(***************************************************************************)
THEOREM StrandedIsAnnounced == Spec => []StrandedIsReported
<1>1. IInv => StrandedIsReported
  BY DEF IInv, Sound, Reported, Alone, StrandedIsReported
<1> QED
  BY <1>1, Inductive, PTL

-----------------------------------------------------------------------------
(***************************************************************************)
(* Which steps give a call a result: the last one before it is done.       *)
(***************************************************************************)
LEMMA WhoReturns ==
    ASSUME IInv, Next, NEW c \in Client, pc[c] # "done", result'[c] \in {"ok", "error"}
    PROVE  LookUp(c) \/ Check(c)
<1>1. result[c] = "none"
  BY DEF IInv, Sound, Begun
<1>2. PICK d \in Client : LookUp(d) \/ Check(d)
  <2>1. ~Finished
    BY <1>1 DEF Finished, vars, control
  <2>2. ~Crash
    BY <1>1, Types DEF Crash, Die
  <2>3. ASSUME NEW d \in Client PROVE ~Begin(d) /\ ~TakeLocks(d) /\ ~Send(d)
    BY <1>1 DEF Begin, Goto, TakeLocks, Lock, Send
  <2> QED
    BY <2>1, <2>2, <2>3 DEF Next, Step
<1>3. PICK x : Continue(d, x)
  BY <1>2 DEF LookUp, Look, Check, Continue, Return, Result
<1>4. d = c
  BY <1>1, <1>3, Continued, Types DEF IInv
<1> QED
  BY <1>2, <1>4

(***************************************************************************)
(* The result of a step is what the step decided.                          *)
(***************************************************************************)
LEMMA Decides ==
    ASSUME IInv, NEW c \in Client, NEW step, Continue(c, step), pc[c] # "done",
           result'[c] # "none"
    PROVE  result'[c] = step
BY Continued, Types DEF IInv, Sound, Begun

(***************************************************************************)
(* moveItem, renameExact and moveExact: a success was verified, and stays  *)
(* true until the call returns, because the target is locked and was free. *)
(***************************************************************************)
THEOREM SuccessIsThere == Spec => SuccessIsExclusive
<1>1. ASSUME IInv, Next, NEW c \in Client, pc[c] # "done", from[c] # to[c], result'[c] = "ok"
      PROVE  ObjectsAt(to[c])' = {item[c]}
  <2>1. pc[c] \in {"final"} \cup Requesting /\ UNCHANGED <<place, to>> /\ place[item[c]] = to[c]
    <3>1. CASE LookUp(c)
      <4>1. PICK step \in {"refresh", "conflict", "final"},
                next \in {AfterRefresh(c), AfterConflict(c), AfterFinal(c)} :
              /\ Look(c, step, next)
              /\ step = "refresh" => next = AfterRefresh(c)
              /\ step = "conflict" => next = AfterConflict(c)
              /\ step = "final" => next = AfterFinal(c)
        BY <3>1 DEF LookUp
      <4>2. PICK decided \in {next, "error"} : Continue(c, decided)
        BY <1>1, <4>1, Looked
      <4>3. next = "ok" /\ pc[c] = step
        BY <1>1, <4>1, <4>2, Decides, Looked
      <4>4. step = "final"
        BY <1>1, <4>1, <4>3 DEF AfterRefresh, AfterConflict
      <4> QED
        BY <1>1, <4>1, <4>3, <4>4 DEF Look, IInv, Sound, Seen
    <3>2. CASE Check(c)
      <4>1. PICK seen \in BOOLEAN :
              /\ seen => Achieved(c, Request(c))
              /\ Continue(c, IF seen THEN Success(c) ELSE Failure(c))
        BY <3>2 DEF Check
      <4>2. (IF seen THEN Success(c) ELSE Failure(c)) = "ok"
        BY <1>1, <4>1, Decides
      <4>3. pc[c] \in Requesting /\ UNCHANGED <<place, to>>
        BY <3>2 DEF Check
      <4>4. seen /\ pc[c] = "move"
        BY <4>2, <4>3 DEF Success, Failure, Requesting
      <4> QED
        BY <1>1, <4>1, <4>3, <4>4, AchievedMeans
    <3> QED
      BY <1>1, <3>1, <3>2, WhoReturns
  <2>2. item[c] \in Object /\ ObjectsAt(to[c]) \subseteq {item[c]}
    BY <1>1, <2>1, CallsHave DEF IInv, Sound, Free, Requesting
  <2> QED
    BY <2>1, <2>2 DEF ObjectsAt
<1>2. IInv /\ [Next]_vars =>
        [\A c \in Client : pc[c] # "done" /\ from[c] # to[c] /\ result'[c] = "ok" =>
            ObjectsAt(to[c])' = {item[c]}]_vars
  BY <1>1
<1> QED
  BY <1>2, Inductive, PTL DEF Spec, SuccessIsExclusive

(***************************************************************************)
(* As long as no listing fails, a plain error was preceded by a check that *)
(* found the object where it was, whatever requests and responses are lost.*)
(***************************************************************************)
THEOREM ErrorIsHarmless == Spec => ErrorMeansUnmoved
<1>1. ASSUME IInv, Next, NEW c \in Client, ~flaky, pc[c] \in Requesting \cup {"final"},
             result'[c] = "error"
      PROVE  place'[item[c]] = from[c]
  <2>0. pc[c] # "done" /\ pc[c] # "idle"
    BY <1>1 DEF Requesting
  <2>1. CASE LookUp(c)
    <3>1. Look(c, "final", AfterFinal(c))
      BY <1>1, <2>1 DEF LookUp, Look, Requesting
    <3>2. Continue(c, AfterFinal(c)) /\ AfterFinal(c) = "ok"
      BY <1>1, <3>1 DEF Look, AfterFinal, IInv, Sound, Seen
    <3> QED
      BY <1>1, <2>0, <3>2, Decides
  <2>2. CASE Check(c)
    <3>1. PICK seen \in BOOLEAN :
            /\ seen <=> Achieved(c, Request(c))
            /\ Continue(c, IF seen THEN Success(c) ELSE Failure(c))
      BY <1>1, <2>2 DEF Check
    <3>2. (IF seen THEN Success(c) ELSE Failure(c)) = "error"
      BY <1>1, <2>0, <3>1, Decides
    <3>3. /\ pc[c] \in Requesting /\ place' = place
          /\ item[c] \in Object /\ from[c] \in Place /\ to[c] \in Place
      BY <1>1, <2>0, <2>2, CallsHave DEF Check
    <3>4. \/ seen /\ pc[c] \in {"unhide", "unhideBack"}
          \/ ~seen /\ pc[c] \in {"rename", "move", "hide"}
      BY <3>2, <3>3 DEF Success, Failure, Requesting
    <3>5. CASE seen
      BY <1>1, <3>1, <3>3, <3>4, <3>5, AchievedMeans
    <3>6. CASE ~seen
      <4>1. Visible(item[c]) /\ from[c].dir \in Dir /\ Hidden(c) \in AnyName
        <5>1. Visible(item[c])
          BY <1>1, <3>3 DEF IInv, Sound, Home, Secured, Locked, Requesting
        <5>2. Hidden(c) \in AnyName
          BY TempNamesAre DEF Hidden
        <5> QED
          BY <3>3, <5>1, <5>2, PlacesAre
      <4>2. /\ pc[c] \in {"rename", "move"} => place[item[c]] \in {from[c], to[c]}
            /\ pc[c] = "hide" => place[item[c]] \in {from[c], PlaceOf(from[c].dir, Hidden(c))}
        BY <1>1 DEF IInv, Sound, Seen
      <4>3. CASE pc[c] = "rename" /\ place[item[c]] = to[c]
        <5>1. Request(c) = Rename(item[c], to[c].name) /\ Listed(c) = to[c].dir
          BY <4>3 DEF Request, Listed
        <5>2. Achieved(c, Request(c))
          BY <4>1, <4>3, <5>1, Effects DEF Achieved
        <5> QED
          BY <3>1, <3>6, <5>2
      <4>4. CASE pc[c] = "move" /\ place[item[c]] = to[c]
        <5>1. Request(c) = Relocate(item[c], to[c].dir) /\ Listed(c) = to[c].dir
          BY <4>4 DEF Request, Listed
        <5>2. Achieved(c, Request(c))
          BY <4>1, <4>4, <5>1, Effects DEF Achieved
        <5> QED
          BY <3>1, <3>6, <5>2
      <4>5. CASE pc[c] = "hide" /\ place[item[c]] = PlaceOf(from[c].dir, Hidden(c))
        <5>1. Request(c) = Rename(item[c], Hidden(c)) /\ Listed(c) = from[c].dir
          BY <4>5 DEF Request, Listed
        <5>2. place[item[c]].dir = from[c].dir /\ place[item[c]].name = Hidden(c)
          BY <4>1, <4>5, PlacesAre
        <5>3. Achieved(c, Request(c))
          BY <4>1, <4>5, <5>1, <5>2, Effects DEF Achieved
        <5> QED
          BY <3>1, <3>6, <5>3
      <4> QED
        BY <3>3, <3>4, <3>6, <4>2, <4>3, <4>4, <4>5
    <3> QED
      BY <3>5, <3>6
  <2> QED
    BY <1>1, <2>0, <2>1, <2>2, WhoReturns
<1>2. IInv /\ [Next]_vars =>
        [\A c \in Client :
            ~flaky /\ pc[c] \in Requesting \cup {"final"} /\ result'[c] = "error"
              => place'[item[c]] = from[c]]_vars
  BY <1>1
<1> QED
  BY <1>2, Inductive, PTL DEF Spec, ErrorMeansUnmoved
=============================================================================
