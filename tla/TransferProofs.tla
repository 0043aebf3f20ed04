--------------------------- MODULE TransferProofs ---------------------------
(***************************************************************************)
(* What goes up and what comes down.                                       *)
(*                                                                         *)
(* An upload completes only whole, leaves no worker behind, asks for new   *)
(* URLs only when the current ones were rejected, and does what Put and    *)
(* Update rely on: for any number of parts, any batches, any number of     *)
(* workers, attempts and URL sets.  The parts into which it is cut are the *)
(* file, for any size and chunk.                                           *)
(*                                                                         *)
(* A listing is exact if nobody interferes and misses nothing if nobody    *)
(* moves anything in; offline-delete tells the truth; a download that ends *)
(* cleanly is whole: whatever the service answers, for any number of       *)
(* objects and tasks, any page size and any length.                        *)
(***************************************************************************)
EXTENDS MCUploadNew, MCReads, FiniteSetTheorems, TLAPS

\* Exactly the parts before next have a worker.
Started == \A p \in Part : worker[p] = "none" <=> p >= next

\* Between two batches all parts so far are stored.
Between == {"request", "inspect", "sign", "finish", "complete"}
Whole == pc \in Between => \A p \in Part : p < next => worker[p] = "stored"

\* A batch begins with a part, and completion follows the last part.
Reach ==
    /\ pc \in {"request", "inspect", "sign", "produce"} => next <= Parts
    /\ pc \in {"finish", "complete"} => next = Parts + 1
    /\ pc = "complete" => source = "good"
    /\ pc = "request" => object = "absent"

\* Who was rejected has seen a URL set that is not accepted any more; only the
\* leader looks again and asks.
Rejectees == {"rejected", "flight", "lead", "ask", "joined"}
Stale ==
    \A p \in Part :
        /\ worker[p] \in {"lead", "ask"} => leader = p
        /\ worker[p] \in Rejectees => failed[p] <= version /\ (failed[p] = version => ~live)
        /\ worker[p] = "ask" => failed[p] = version

\* A worker that goes on has an attempt left.
Trying == \A p \in Part : worker[p] \notin {"stored", "failed"} => tries[p] < Attempts

\* The inductive invariant.
IInv == TypeOK /\ Started /\ NoOrphanWorkers /\ Whole /\ Reach /\ Stale /\ Trying

-----------------------------------------------------------------------------
(***************************************************************************)
(* The last part is the last one of its batch, so a producer that goes on  *)
(* after a part has another one to read.                                   *)
(***************************************************************************)
LEMMA LastPart == LastOf(Parts) = Parts
<1> DEFINE x == Parts - 1
<1>1. x \in Nat /\ BatchSize \in Nat /\ BatchSize > 0
  BY UploadAssumption
<1>2. x < ((x \div BatchSize) + 1) * BatchSize
  BY <1>1
<1> QED
  BY <1>1, <1>2, UploadAssumption DEF LastOf, Batch

(***************************************************************************)
(* uploadNew begins in the invariant.                                      *)
(***************************************************************************)
LEMMA InitIInv == Init => IInv
<1> SUFFICES ASSUME Init PROVE IInv
  OBVIOUS
<1>1. TypeOK
  <2>1. 0 \in 0..Attempts /\ 0 \in 0..MaxVersion /\ 1 \in 1..Parts + 1
    BY UploadAssumption
  <2> QED
    BY <2>1 DEF Init, TypeOK, Idle
<1>2. Started /\ Whole /\ Reach /\ Stale /\ Trying
  BY UploadAssumption DEF Init, Started, Whole, Between, Reach, Stale, Rejectees, Trying, Part
<1>3. NoOrphanWorkers
  BY DEF Init, NoOrphanWorkers, Active, Idle
<1> QED
  BY <1>1, <1>2, <1>3 DEF IInv

(***************************************************************************)
(* A step of uploadNew that changes neither workers nor URLs, nor the      *)
(* producer: it goes on to a step that the invariant allows.               *)
(***************************************************************************)
LEMMA RequestIInv ==
    ASSUME IInv, Request \/ Inspect \/ Verify \/ Develop
    PROVE  IInv'
<1> USE UploadAssumption DEF IInv, Request, Inspect, AfterInspect, Verify, Develop, workers, urls
<1>1. TypeOK'
  <2>1. CASE Request
    <3>1. pc' \in {"error", "sign", "inspect"} /\ object' \in {"absent", "promised", "visible", "wrong"}
      BY <2>1 DEF TypeOK
    <3>2. \/ reply' = reply
          \/ reply' = [key |-> TRUE, id |-> TRUE]
          \/ reply' \in [key : BOOLEAN, id : BOOLEAN]
      BY <2>1, Zenon
    <3>3. reply \in [key : BOOLEAN, id : BOOLEAN]
      BY DEF TypeOK
    <3>4. [key |-> TRUE, id |-> TRUE] \in [key : BOOLEAN, id : BOOLEAN]
      OBVIOUS
    <3> QED
      BY <2>1, <3>1, <3>2, <3>3, <3>4 DEF TypeOK
  <2>2. CASE Inspect \/ Verify \/ Develop
    BY <2>2 DEF TypeOK
  <2> QED
    BY <2>1, <2>2
<1>2. Started' /\ Stale' /\ Trying'
  BY DEF Started, Stale, Trying
<1>3. NoOrphanWorkers'
  BY DEF TypeOK, NoOrphanWorkers, Active
<1>4. Whole' /\ Reach'
  BY DEF TypeOK, Whole, Between, Reach
<1> QED
  BY <1>1, <1>2, <1>3, <1>4

(***************************************************************************)
(* The URLs of a batch are signed while no worker is active.               *)
(***************************************************************************)
LEMMA SignIInv == ASSUME IInv, Sign PROVE IInv'
<1> USE UploadAssumption DEF IInv, Sign, workers, urls
<1>1. TypeOK'
  <2>1. 1 \in 0..MaxVersion
    OBVIOUS
  <2> QED
    BY <2>1 DEF TypeOK
<1>2. \A p \in Part : worker[p] \in Idle
  BY DEF NoOrphanWorkers, Active
<1>3. Started' /\ Whole' /\ Reach' /\ Trying'
  BY DEF Started, Whole, Between, Reach, Trying
<1>4. NoOrphanWorkers' /\ Stale'
  BY <1>2 DEF NoOrphanWorkers, Active, Stale, Idle, Rejectees
<1> QED
  BY <1>1, <1>3, <1>4

(***************************************************************************)
(* The producer reads a part and starts its worker, or stops.              *)
(***************************************************************************)
LEMMA ProduceIInv == ASSUME IInv, Produce \/ StopProducing PROVE IInv'
<1> USE UploadAssumption DEF IInv, workers, urls
<1>1. CASE StopProducing
  BY <1>1 DEF StopProducing, TypeOK, Started, NoOrphanWorkers, Active, Whole, Between, Reach, Stale,
                Trying
<1>2. CASE Produce /\ source = "short" /\ next = Parts
  BY <1>2 DEF Produce, TypeOK, Started, NoOrphanWorkers, Active, Whole, Between, Reach, Stale,
                Trying
<1>3. CASE Produce /\ ~(source = "short" /\ next = Parts)
  <2> USE <1>3 DEF Produce
  <2>1. next \in Part /\ next' = next + 1 /\ worker' = [worker EXCEPT ![next] = "put"]
    BY DEF TypeOK, Reach, Part
  <2>2. pc' \in {"produce", "wait"} /\ (pc' = "produce" => next # Parts)
    BY LastPart
  <2>3. TypeOK'
    BY <2>1, <2>2 DEF TypeOK, Part
  <2>4. Started'
    BY <2>1 DEF TypeOK, Started, Part
  <2>5. Reach'
    BY <2>1, <2>2 DEF TypeOK, Reach, Part
  <2>6. NoOrphanWorkers' /\ Whole' /\ Stale'
    BY <2>1, <2>2 DEF TypeOK, NoOrphanWorkers, Whole, Between, Stale, Rejectees
  <2>7. Trying'
    BY <2>1 DEF TypeOK, Trying, Started, Part
  <2> QED
    BY <2>3, <2>4, <2>5, <2>6, <2>7
<1> QED
  BY <1>1, <1>2, <1>3

(***************************************************************************)
(* group.Wait returns when no worker is active; without a failed worker    *)
(* all parts so far are stored.                                            *)
(***************************************************************************)
LEMMA WaitIInv == ASSUME IInv, Wait PROVE IInv'
<1> USE UploadAssumption DEF IInv, Wait, BatchOver, AfterBatch, workers, urls
<1>1. TypeOK'
  BY DEF TypeOK
<1>2. \A p \in Part : worker[p] \in Idle
  BY DEF Active
<1>3. Whole'
  BY <1>2 DEF TypeOK, Whole, Between, Started, Idle, Part
<1>4. Reach'
  BY DEF TypeOK, Reach
<1>5. Started' /\ NoOrphanWorkers' /\ Stale' /\ Trying'
  BY DEF Started, NoOrphanWorkers, Active, Stale, Trying
<1> QED
  BY <1>1, <1>3, <1>4, <1>5

(***************************************************************************)
(* The end of the source is checked, and the completion is requested.      *)
(***************************************************************************)
LEMMA CompleteIInv == ASSUME IInv, Finish \/ Complete PROVE IInv'
<1> USE DEF IInv, Finish, Complete, AfterComplete, Assembled, workers, urls
<1>1. TypeOK'
  BY DEF TypeOK
<1>2. Started' /\ Stale' /\ Trying'
  BY DEF Started, Stale, Trying
<1>3. NoOrphanWorkers' /\ Whole' /\ Reach'
  BY DEF TypeOK, NoOrphanWorkers, Active, Whole, Between, Reach
<1> QED
  BY <1>1, <1>2, <1>3

-----------------------------------------------------------------------------
(***************************************************************************)
(* Whatever a worker does while its batch is under way leaves the rest of  *)
(* the invariant alone, if it keeps the types, what is known of rejected   *)
(* workers and of attempts, and starts no worker.                          *)
(***************************************************************************)
LEMMA WorkerStep ==
    ASSUME IInv, UNCHANGED upload, pc \in {"produce", "wait"}, TypeOK', Stale', Trying',
           \A p \in Part : worker[p] = "none" <=> worker'[p] = "none"
    PROVE  IInv'
<1>1. Started' /\ NoOrphanWorkers' /\ Whole' /\ Reach'
  BY DEF IInv, upload, Started, NoOrphanWorkers, Whole, Between, Reach
<1> QED
  BY <1>1 DEF IInv

(***************************************************************************)
(* An attempt of some active workers ends: they try again or fail, the     *)
(* others stay as they are.                                                *)
(***************************************************************************)
LEMMA EndAttemptEffect ==
    ASSUME IInv, NEW S \in SUBSET Active, EndAttempt(S)
    PROVE  /\ tries' \in [Part -> 0..Attempts]
           /\ worker' \in [Part -> Idle \cup {"put", "rejected", "flight", "lead", "ask", "joined"}]
           /\ \A p \in S : worker[p] # "none" /\ worker'[p] \in {"put", "failed"}
           /\ \A p \in Part \ S : worker'[p] = worker[p]
           /\ Trying'
<1>1. \A p \in S : p \in Part /\ worker[p] \notin Idle
  BY DEF Active
<1>2. \A p \in Part : tries[p] \in 0..Attempts /\ (p \in S => tries[p] + 1 \in 0..Attempts)
  BY <1>1, UploadAssumption DEF IInv, TypeOK, Trying, Idle
<1>3. tries' \in [Part -> 0..Attempts]
  BY <1>2 DEF EndAttempt
<1>4. /\ worker' \in [Part -> Idle \cup {"put", "rejected", "flight", "lead", "ask", "joined"}]
      /\ \A p \in Part \ S : worker'[p] = worker[p]
  BY DEF IInv, TypeOK, EndAttempt, Idle
<1>5. \A p \in S : worker[p] # "none" /\ worker'[p] \in {"put", "failed"}
  BY <1>1 DEF EndAttempt, Idle
<1>6. Trying'
  BY <1>1 DEF IInv, Trying, EndAttempt, Idle
<1> QED
  BY <1>3, <1>4, <1>5, <1>6

(***************************************************************************)
(* Some active workers change their state, without an attempt.             *)
(***************************************************************************)
LEMMA BecomeEffect ==
    ASSUME IInv, NEW S \in SUBSET Active,
           NEW state \in {"stored", "failed", "rejected", "flight", "lead", "ask", "joined"},
           Become(S, state)
    PROVE  /\ tries' \in [Part -> 0..Attempts]
           /\ worker' \in [Part -> Idle \cup {"put", "rejected", "flight", "lead", "ask", "joined"}]
           /\ \A p \in S : worker[p] # "none" /\ worker'[p] = state
           /\ \A p \in Part \ S : worker'[p] = worker[p]
           /\ Trying'
<1>1. \A p \in S : p \in Part /\ worker[p] \notin Idle
  BY DEF Active
<1>2. Trying'
  BY <1>1 DEF IInv, Trying, Become, Idle
<1> QED
  BY <1>1, <1>2 DEF IInv, TypeOK, Become, Idle

(***************************************************************************)
(* Workers are active only while their batch is under way.                 *)
(***************************************************************************)
LEMMA ActiveBatch ==
    ASSUME IInv, NEW p \in Part, worker[p] \notin Idle
    PROVE  p \in Active /\ pc \in {"produce", "wait"}
BY DEF IInv, NoOrphanWorkers, Active

(***************************************************************************)
(* One PUT.                                                                *)
(***************************************************************************)
LEMMA PutIInv == ASSUME IInv, NEW p \in Part, Put(p) PROVE IInv'
<1>1. {p} \in SUBSET Active /\ pc \in {"produce", "wait"}
  BY ActiveBatch DEF Put, Idle
<1>2. UNCHANGED upload /\ UNCHANGED urls /\ leader' = leader /\ cancelled' = cancelled
  BY DEF Put
<1>3. CASE EndAttempt({p}) /\ UNCHANGED failed
  <2>1. TypeOK'
    BY <1>1, <1>2, <1>3, EndAttemptEffect DEF IInv, TypeOK, upload, urls
  <2>2. Stale'
    BY <1>1, <1>2, <1>3, EndAttemptEffect DEF IInv, Stale, Rejectees, urls
  <2> QED
    BY <1>1, <1>2, <1>3, <2>1, <2>2, EndAttemptEffect, WorkerStep
<1>4. CASE \E s \in {"stored", "failed"} : Become({p}, s) /\ UNCHANGED failed
  <2>1. PICK s \in {"stored", "failed"} : Become({p}, s) /\ UNCHANGED failed
    BY <1>4
  <2>2. TypeOK'
    BY <1>1, <1>2, <2>1, BecomeEffect DEF IInv, TypeOK, upload, urls
  <2>3. Stale'
    BY <1>1, <1>2, <2>1, BecomeEffect DEF IInv, Stale, Rejectees, urls
  <2> QED
    BY <1>1, <1>2, <2>1, <2>2, <2>3, BecomeEffect, WorkerStep
<1>5. CASE ~live /\ Become({p}, "rejected") /\ failed' = [failed EXCEPT ![p] = version]
  <2>1. TypeOK'
    BY <1>1, <1>2, <1>5, BecomeEffect DEF IInv, TypeOK, upload, urls
  <2>2. Stale'
    BY <1>1, <1>2, <1>5, BecomeEffect DEF IInv, TypeOK, Stale, Rejectees, urls
  <2> QED
    BY <1>1, <1>2, <1>5, <2>1, <2>2, BecomeEffect, WorkerStep
<1> QED
  BY <1>3, <1>4, <1>5 DEF Put

(***************************************************************************)
(* A rejected worker finds new URLs, or enters the singleflight group.     *)
(***************************************************************************)
LEMMA EnterIInv == ASSUME IInv, NEW p \in Part, LookFirst(p) \/ EnterFlight(p) PROVE IInv'
<1>1. {p} \in SUBSET Active /\ pc \in {"produce", "wait"}
  BY ActiveBatch DEF LookFirst, EnterFlight, Idle
<1>2. UNCHANGED upload /\ UNCHANGED urls /\ failed' = failed /\ cancelled' = cancelled
  BY DEF LookFirst, EnterFlight
<1>3. CASE EndAttempt({p}) /\ UNCHANGED leader
  <2>1. TypeOK'
    BY <1>1, <1>2, <1>3, EndAttemptEffect DEF IInv, TypeOK, upload, urls
  <2>2. Stale'
    BY <1>1, <1>2, <1>3, EndAttemptEffect DEF IInv, Stale, Rejectees, urls
  <2> QED
    BY <1>1, <1>2, <1>3, <2>1, <2>2, EndAttemptEffect, WorkerStep
<1>4. CASE worker[p] = "rejected" /\ Become({p}, "flight") /\ UNCHANGED leader
  <2>1. TypeOK'
    BY <1>1, <1>2, <1>4, BecomeEffect DEF IInv, TypeOK, upload, urls
  <2>2. Stale'
    BY <1>1, <1>2, <1>4, BecomeEffect DEF IInv, Stale, Rejectees, urls
  <2> QED
    BY <1>1, <1>2, <1>4, <2>1, <2>2, BecomeEffect, WorkerStep
<1>5. CASE worker[p] = "flight" /\ Become({p}, "joined") /\ UNCHANGED leader
  <2>1. TypeOK'
    BY <1>1, <1>2, <1>5, BecomeEffect DEF IInv, TypeOK, upload, urls
  <2>2. Stale'
    BY <1>1, <1>2, <1>5, BecomeEffect DEF IInv, Stale, Rejectees, urls
  <2> QED
    BY <1>1, <1>2, <1>5, <2>1, <2>2, BecomeEffect, WorkerStep
<1>6. CASE worker[p] = "flight" /\ leader = Nobody /\ leader' = p /\ Become({p}, "lead")
  <2>1. TypeOK'
    BY <1>1, <1>2, <1>6, BecomeEffect DEF IInv, TypeOK, upload, urls
  <2>2. \A q \in Part : worker[q] \notin {"lead", "ask"}
    BY <1>6, UploadAssumption DEF IInv, Stale, Part
  <2>3. Stale'
    BY <1>1, <1>2, <1>6, <2>2, BecomeEffect DEF IInv, Stale, Rejectees, urls
  <2> QED
    BY <1>1, <1>2, <1>6, <2>1, <2>3, BecomeEffect, WorkerStep
<1> QED
  BY <1>3, <1>4, <1>5, <1>6 DEF LookFirst, EnterFlight

(***************************************************************************)
(* The leader looks again, or asks for new URLs; it and all that wait for  *)
(* it go on together.                                                      *)
(***************************************************************************)
LEMMA LeadIInv == ASSUME IInv, NEW p \in Part, Lead(p) \/ Ask(p) PROVE IInv'
<1>1. /\ p \in Active /\ pc \in {"produce", "wait"}
      /\ worker[p] \in {"lead", "ask"}
  BY ActiveBatch DEF Lead, Ask, Idle
<1>2. Crew(p) \in SUBSET Active /\ p \in Crew(p)
  BY <1>1 DEF Crew, Active, Idle
<1>3. leader = p /\ \A q \in Part : worker[q] \in {"lead", "ask"} => q = p
  BY <1>1 DEF IInv, Stale
<1>4. UNCHANGED upload /\ failed' = failed /\ cancelled' = cancelled
  BY DEF Lead, Ask
<1>5. CASE EndAttempt(Crew(p)) /\ leader' = Nobody /\ UNCHANGED urls
  <2>1. TypeOK'
    BY <1>2, <1>4, <1>5, EndAttemptEffect DEF IInv, TypeOK, upload, urls
  <2>2. Stale'
    BY <1>2, <1>3, <1>4, <1>5, EndAttemptEffect DEF IInv, Stale, Rejectees, urls
  <2> QED
    BY <1>1, <1>2, <1>4, <1>5, <2>1, <2>2, EndAttemptEffect, WorkerStep
<1>6. CASE version = failed[p] /\ Become({p}, "ask") /\ UNCHANGED <<leader, urls>>
  <2>1. {p} \in SUBSET Active
    BY <1>1
  <2>2. TypeOK'
    BY <1>4, <1>6, <2>1, BecomeEffect DEF IInv, TypeOK, upload, urls
  <2>3. Stale'
    BY <1>1, <1>3, <1>4, <1>6, <2>1, BecomeEffect DEF IInv, Stale, Rejectees, urls
  <2> QED
    BY <1>1, <1>4, <1>6, <2>1, <2>2, <2>3, BecomeEffect, WorkerStep
<1>7. CASE Become(Crew(p), "failed") /\ leader' = Nobody /\ UNCHANGED urls
  <2>1. TypeOK'
    BY <1>2, <1>4, <1>7, BecomeEffect DEF IInv, TypeOK, upload, urls
  <2>2. Stale'
    BY <1>2, <1>3, <1>4, <1>7, BecomeEffect DEF IInv, Stale, Rejectees, urls
  <2> QED
    BY <1>1, <1>2, <1>4, <1>7, <2>1, <2>2, BecomeEffect, WorkerStep
<1>8. CASE /\ version < MaxVersion /\ version' = version + 1 /\ live' = TRUE
           /\ EndAttempt(Crew(p)) /\ leader' = Nobody
  <2>1. version' \in 0..MaxVersion
    BY <1>8, UploadAssumption DEF IInv, TypeOK
  <2>2. TypeOK'
    BY <1>2, <1>4, <1>8, <2>1, EndAttemptEffect DEF IInv, TypeOK, upload
  <2>3. ASSUME NEW q \in Part, worker'[q] \in Rejectees
        PROVE  q \notin Crew(p) /\ worker'[q] = worker[q] /\ worker[q] \notin {"lead", "ask"}
    BY <1>2, <1>3, <1>8, <2>3, EndAttemptEffect DEF Rejectees
  <2>4. \A q \in Part : failed[q] \in Nat /\ version \in Nat
    BY UploadAssumption DEF IInv, TypeOK
  <2>5. Stale'
    BY <1>4, <1>8, <2>3, <2>4 DEF IInv, Stale, Rejectees
  <2> QED
    BY <1>1, <1>2, <1>4, <1>8, <2>2, <2>5, EndAttemptEffect, WorkerStep
<1> QED
  BY <1>5, <1>6, <1>7, <1>8 DEF Lead, Ask, Replaced

(***************************************************************************)
(* The URLs expire, the context is cancelled, or nothing happens.          *)
(***************************************************************************)
LEMMA OtherIInv == ASSUME IInv, Expire \/ Cancel \/ UNCHANGED vars PROVE IInv'
<1>1. UNCHANGED upload /\ UNCHANGED workers /\ version' = version
  BY DEF Expire, Cancel, vars, urls
<1>2. live' \in BOOLEAN /\ cancelled' \in BOOLEAN /\ (~live => ~live')
  <2>1. live \in BOOLEAN /\ cancelled \in BOOLEAN
    BY DEF IInv, TypeOK
  <2>2. live' \in {live, FALSE} /\ cancelled' \in {cancelled, TRUE}
    BY DEF Expire, Cancel, vars, urls
  <2>3. live' \in BOOLEAN /\ cancelled' \in BOOLEAN
    BY <2>1, <2>2
  <2>4. ~live => ~live'
    BY <2>2
  <2> QED
    BY <2>3, <2>4
<1>3. TypeOK' /\ Stale'
  BY <1>1, <1>2 DEF IInv, TypeOK, Stale, upload, workers
<1>4. Started' /\ NoOrphanWorkers' /\ Whole' /\ Reach' /\ Trying'
  BY <1>1 DEF IInv, upload, workers, Started, NoOrphanWorkers, Active, Whole, Between, Reach, Trying
<1> QED
  BY <1>3, <1>4 DEF IInv

(***************************************************************************)
(* IInv is an inductive invariant of uploadNew.                            *)
(***************************************************************************)
THEOREM Inductive == Spec => []IInv
<1>1. IInv /\ [Next]_vars => IInv'
  <2> SUFFICES ASSUME IInv, [Next]_vars PROVE IInv'
    OBVIOUS
  <2>1. CASE Main
    BY <2>1, RequestIInv, SignIInv, ProduceIInv, WaitIInv, CompleteIInv DEF Main
  <2>2. ASSUME NEW p \in Part, Worker(p) PROVE IInv'
    BY <2>2, PutIInv, EnterIInv, LeadIInv DEF Worker
  <2>3. CASE Develop
    BY <2>3, RequestIInv
  <2>4. CASE Expire \/ Cancel \/ Finished \/ UNCHANGED vars
    BY <2>4, OtherIInv DEF Finished
  <2> QED
    BY <2>1, <2>2, <2>3, <2>4 DEF Next
<1> QED
  BY <1>1, InitIInv, PTL DEF Spec

-----------------------------------------------------------------------------
(***************************************************************************)
(* The state of an upload is well-typed; no part exceeds its attempts.     *)
(***************************************************************************)
THEOREM UploadTyped == Spec => []TypeOK
BY Inductive, PTL DEF IInv

(***************************************************************************)
(* upload_complete is requested only with every part stored.               *)
(***************************************************************************)
THEOREM OnlyWhole == Spec => []CompleteOnlyWhole
<1>1. IInv => CompleteOnlyWhole
  <2> SUFFICES ASSUME IInv, pc = "complete", NEW p \in Part
               PROVE  source = "good" /\ worker[p] = "stored"
    BY DEF CompleteOnlyWhole, IInv, Reach
  <2>1. p < next
    BY UploadAssumption DEF IInv, Reach, Part
  <2> QED
    BY <2>1 DEF IInv, Whole, Between, Reach
<1> QED
  BY <1>1, Inductive, PTL

(***************************************************************************)
(* New URLs are asked for only when the current ones are not accepted.     *)
(***************************************************************************)
THEOREM RefreshIsNeeded == Spec => []NoNeedlessRefresh
<1>1. IInv => NoNeedlessRefresh
  BY DEF IInv, Stale, Rejectees, NoNeedlessRefresh
<1> QED
  BY <1>1, Inductive, PTL

(***************************************************************************)
(* No worker is active outside its batch, not even after an error.         *)
(***************************************************************************)
THEOREM NoOrphans == Spec => []NoOrphanWorkers
BY Inductive, PTL DEF IInv

(***************************************************************************)
(* uploadNew does what Put and Update rely on: every step is a step of     *)
(* UploadPromise or leaves object and answer alone.                        *)
(***************************************************************************)
THEOREM Implements == Spec => KeepsPromise
<1>1. Init => Promise!Init
  BY DEF Init, Promise!Init, Answer
<1>2. IInv /\ IInv' /\ [Next]_vars => [Promise!Next]_Promise!vars
  <2> SUFFICES ASSUME IInv, [Next]_vars PROVE Promise!Next \/ UNCHANGED <<object, Answer>>
    BY DEF Promise!vars
  <2> USE DEF Promise!Next, Promise!Develop, Promise!ReturnObject, Promise!ReturnError, Answer
  <2>1. CASE Request
    BY <2>1 DEF IInv, TypeOK, Reach, Request
  <2>2. CASE Inspect \/ Verify
    BY <2>2 DEF IInv, TypeOK, Inspect, AfterInspect, Verify
  <2>3. CASE Develop
    BY <2>3 DEF Develop
  <2>4. CASE Sign \/ Produce \/ StopProducing \/ Wait \/ Finish
    BY <2>4 DEF Sign, Produce, StopProducing, Wait, AfterBatch, Finish
  <2>5. CASE Complete
    <3>1. Assembled = "visible"
      BY <2>5, UploadAssumption DEF IInv, Whole, Between, Reach, Part, Complete, Assembled
    <3> QED
      BY <2>5, <3>1 DEF IInv, TypeOK, Complete, AfterComplete
  <2>6. CASE (\E p \in Part : Worker(p)) \/ Expire \/ Cancel \/ Finished \/ UNCHANGED vars
    BY <2>6 DEF Worker, Put, LookFirst, EnterFlight, Lead, Ask, Expire, Cancel, Finished, vars, upload
  <2> QED
    BY <2>1, <2>2, <2>3, <2>4, <2>5, <2>6 DEF Next, Main
<1> QED
  BY <1>1, <1>2, Inductive, PTL DEF Spec, KeepsPromise, Promise!Spec

-----------------------------------------------------------------------------
(***************************************************************************)
(* How a file is cut (UploadParts), for every size, chunk and batch size.  *)
(*                                                                         *)
(* The argument: the reader is where the next part begins, or at the end   *)
(* of the file.  So the parts read so far are the ones that the numbers    *)
(* describe, and those signed for are all up to the end of the batch.      *)
(***************************************************************************)
Cut(p) == [part |-> p, from |-> (p - 1) * chunk, to |-> P!Least(p * chunk, size)]

CutTyped ==
    /\ step \in {"count", "sign", "read", "extra", "whole", "refused"}
    /\ size \in Nat /\ length \in Nat /\ chunk \in Nat \ {0}
    /\ first \in Nat \ {0} /\ number \in Nat \ {0} /\ position \in Nat

Reader ==
    /\ position = P!Least((number - 1) * chunk, size) /\ position <= length
    /\ parts = {Cut(p) : p \in 1..number - 1}
    /\ number <= P!PartCount + 1

Signing ==
    /\ 1..number - 1 \subseteq signed
    /\ step \in {"count", "sign"} => number = first /\ first <= P!PartCount /\ signed = 1..first - 1
    /\ step = "read" => first <= number /\ number <= P!Last /\ signed = 1..P!Last
    /\ step \in {"extra", "whole"} => number = P!PartCount + 1 /\ signed = 1..P!PartCount
    /\ step = "whole" => position = length

\* The inductive invariant.
CutIInv == CutTyped /\ Reader /\ Signing

(***************************************************************************)
(* Arithmetic that is needed below.                                        *)
(***************************************************************************)
LEMMA ProductOrder ==
    ASSUME NEW a \in Int, NEW b \in Int, NEW k \in Nat
    PROVE  /\ a * k \in Int /\ b * k \in Int
           /\ a <= b => a * k <= b * k
           /\ a * k < b * k => a < b
OBVIOUS

\* One part more or less is one chunk more or less.
LEMMA ProductStep ==
    ASSUME NEW a \in Int, NEW k \in Nat
    PROVE  a * k \in Int /\ (a - 1) * k = a * k - k /\ (a + 1) * k = a * k + k
OBVIOUS

\* Division leaves a rest smaller than the divisor.
LEMMA DivisionRest ==
    ASSUME NEW n \in Nat, NEW k \in Nat \ {0}
    PROVE  n \div k \in Nat /\ n % k \in 0..k - 1 /\ n = (n \div k) * k + (n % k)
OBVIOUS

(***************************************************************************)
(* uploadPartCount: so many chunks hold the file, and one less does not.   *)
(***************************************************************************)
LEMMA PartCountIs ==
    ASSUME size \in Nat, chunk \in Nat \ {0}
    PROVE  /\ P!PartCount \in Nat \ {0}
           /\ size <= P!PartCount * chunk
           /\ (P!PartCount - 1) * chunk < size \/ (size = 0 /\ P!PartCount = 1)
<1> DEFINE q == size \div chunk
           r == size % chunk
<1>1. q \in Nat /\ r \in 0..chunk - 1 /\ size = q * chunk + r
  BY DivisionRest
<1>2. q * chunk \in Nat /\ (q - 1) * chunk = q * chunk - chunk /\ (q + 1) * chunk = q * chunk + chunk
  BY <1>1
<1>3. P!PartCount = IF size = 0 THEN 1 ELSE IF r # 0 THEN q + 1 ELSE q
  BY DEF P!PartCount
<1> HIDE DEF q, r
<1>4. CASE size = 0
  BY <1>3, <1>4
<1>5. CASE size # 0 /\ r # 0
  <2>1. P!PartCount = q + 1 /\ (q + 1) - 1 = q
    BY <1>1, <1>3, <1>5
  <2> QED
    BY <1>1, <1>2, <1>5, <2>1
<1>6. CASE size # 0 /\ r = 0
  <2>1. P!PartCount = q /\ q # 0
    BY <1>1, <1>2, <1>3, <1>6
  <2> QED
    BY <1>1, <1>2, <1>6, <2>1
<1> QED
  BY <1>4, <1>5, <1>6

(***************************************************************************)
(* uploadBatches: a batch that has a first part has a last one.            *)
(***************************************************************************)
LEMMA LastIs ==
    ASSUME first \in Nat \ {0}, first <= P!PartCount, P!PartCount \in Nat \ {0}
    PROVE  P!Last \in Nat \ {0} /\ first <= P!Last /\ P!Last <= P!PartCount
BY MCPartsAssumption DEF P!PartsAssumption, P!Last, P!Least

(***************************************************************************)
(* A part begins where the one before it ended, and its size takes the     *)
(* reader to the beginning of the next one, or to the end of the file.     *)
(***************************************************************************)
LEMMA PartIs ==
    ASSUME CutTyped, Reader, number <= P!PartCount
    PROVE  /\ position = (number - 1) * chunk
           /\ position + P!PartSize = P!Least(number * chunk, size)
           /\ position + P!PartSize \in Nat
           /\ position < position + P!PartSize \/ size = 0
<1>1. size \in Nat /\ chunk \in Nat \ {0} /\ number \in Nat \ {0}
  BY DEF CutTyped
<1>2. /\ P!PartCount \in Nat \ {0}
      /\ (P!PartCount - 1) * chunk < size \/ (size = 0 /\ P!PartCount = 1)
  BY <1>1, PartCountIs
<1>3. (number - 1) * chunk <= (P!PartCount - 1) * chunk
  BY <1>1, <1>2, ProductOrder
<1>4. (number - 1) * chunk = number * chunk - chunk /\ number * chunk \in Int
      /\ (P!PartCount - 1) * chunk \in Int
  BY <1>1, <1>2, ProductStep
<1>5. (number - 1) * chunk <= size /\ ((number - 1) * chunk < size \/ size = 0)
  BY <1>1, <1>2, <1>3, <1>4
<1>6. 0 <= (number - 1) * chunk
  BY <1>1
<1>7. position = (number - 1) * chunk
  BY <1>1, <1>4, <1>5 DEF Reader, P!Least
<1>8. P!PartSize = P!Least(chunk, size - (number - 1) * chunk)
  BY <1>1, <1>4, <1>5 DEF P!PartSize, P!Least
<1>9. position + P!PartSize = P!Least(number * chunk, size)
  BY <1>1, <1>4, <1>7, <1>8 DEF P!Least
<1> QED
  BY <1>1, <1>4, <1>5, <1>6, <1>7, <1>9 DEF P!Least

(***************************************************************************)
(* Nothing is read yet.                                                    *)
(***************************************************************************)
LEMMA CutInit == P!Init => CutIInv
<1> SUFFICES ASSUME P!Init PROVE CutIInv
  OBVIOUS
<1>1. CutTyped
  BY MCPartsAssumption DEF P!PartsAssumption, P!Init, CutTyped
<1>2. P!PartCount \in Nat \ {0}
  BY <1>1, PartCountIs DEF CutTyped
<1>3. Reader
  BY <1>1, <1>2 DEF P!Init, Reader, CutTyped, P!Least
<1>4. Signing
  BY <1>2 DEF P!Init, Signing
<1> QED
  BY <1>1, <1>3, <1>4 DEF CutIInv

(***************************************************************************)
(* The number of parts, the end of a batch and the cuts do not change with *)
(* the steps that leave what they depend on alone.                         *)
(***************************************************************************)
LEMMA CutStays ==
    ASSUME UNCHANGED <<size, length, chunk>>
    PROVE  /\ P!PartCount' = P!PartCount
           /\ first' = first => P!Last' = P!Last
           /\ \A p : Cut(p)' = Cut(p)
BY DEF P!PartCount, P!Last, P!Least, Cut

(***************************************************************************)
(* uploadPresigned counts the parts, asks for a batch of URLs, and looks   *)
(* for a byte too many.                                                    *)
(***************************************************************************)
LEMMA CountCut == ASSUME CutIInv, P!Count PROVE CutIInv'
<1>1. UNCHANGED <<size, length, chunk, first, number, position, signed, parts>> /\ step = "count"
      /\ step' \in {"refused", "sign"}
  BY DEF P!Count, P!cutting
<1> QED
  BY <1>1, CutStays DEF CutIInv, CutTyped, Reader, Signing, P!Least

\* signParts: the next batch of parts is signed for.
LEMMA SignCut == ASSUME CutIInv, P!Sign PROVE CutIInv'
<1>1. UNCHANGED <<size, length, chunk, first, number, position, parts>> /\ step = "sign"
      /\ step' = "read" /\ signed' = signed \cup first..P!Last
  BY DEF P!Sign, P!cutting
<1>2. P!PartCount \in Nat \ {0}
  BY PartCountIs DEF CutIInv, CutTyped
<1>3. P!Last \in Nat \ {0} /\ first <= P!Last /\ number = first /\ signed = 1..first - 1
  BY <1>1, <1>2, LastIs DEF CutIInv, CutTyped, Signing
<1>4. signed' = 1..P!Last
  BY <1>1, <1>3 DEF CutIInv, CutTyped
<1>5. CutTyped' /\ Reader'
  BY <1>1, CutStays DEF CutIInv, CutTyped, Reader, P!Least
<1>6. Signing'
  BY <1>1, <1>3, <1>4, CutStays DEF CutIInv, CutTyped, Signing
<1> QED
  BY <1>5, <1>6 DEF CutIInv

\* The byte read behind the last part tells a source that is too long.
LEMMA ExtraCut == ASSUME CutIInv, P!Extra PROVE CutIInv'
<1>1. UNCHANGED <<size, length, chunk, first, number, position, signed, parts>> /\ step = "extra"
      /\ step' = IF position < length THEN "refused" ELSE "whole"
  BY DEF P!Extra, P!cutting
<1> QED
  BY <1>1, CutStays DEF CutIInv, CutTyped, Reader, Signing, P!Least

(***************************************************************************)
(* readExactPart: a part that the source still has is the cut of its       *)
(* number; otherwise the upload is refused.                                *)
(***************************************************************************)
LEMMA ReadCut == ASSUME CutIInv, P!ReadPart PROVE CutIInv'
<1> USE DEF CutIInv
<1>1. step = "read" /\ UNCHANGED <<size, length, chunk, signed>>
  BY DEF P!ReadPart, P!cutting
<1>2. P!PartCount \in Nat \ {0}
  BY PartCountIs DEF CutTyped
<1>3. number <= P!Last /\ signed = 1..P!Last /\ first <= number
  BY <1>1 DEF Signing
<1>4. P!Last \in Nat \ {0} /\ P!Last <= P!PartCount
  <2>1. first <= P!PartCount
    BY <1>2, <1>3, MCPartsAssumption DEF CutTyped, P!PartsAssumption, P!Last, P!Least
  <2> QED
    BY <1>2, <2>1, LastIs DEF CutTyped
<1>5. CASE position + P!PartSize > length
  <2>1. UNCHANGED <<first, number, position, parts>> /\ step' = "refused"
    BY <1>5 DEF P!ReadPart
  <2> QED
    BY <1>1, <2>1, CutStays DEF CutTyped, Reader, Signing, P!Least
<1>6. CASE ~(position + P!PartSize > length)
  <2>1. /\ parts' = parts \cup {[part |-> number, from |-> position, to |-> position + P!PartSize]}
        /\ position' = position + P!PartSize /\ number' = number + 1
        /\ first' = IF number = P!Last THEN number + 1 ELSE first
        /\ step' = IF number < P!Last THEN "read" ELSE IF P!Last < P!PartCount THEN "sign" ELSE "extra"
    BY <1>6 DEF P!ReadPart
  <2>2. /\ position = (number - 1) * chunk /\ position + P!PartSize = P!Least(number * chunk, size)
        /\ position + P!PartSize \in Nat
    BY <1>2, <1>3, <1>4, PartIs DEF CutTyped
  <2>3. CutTyped'
    BY <1>1, <2>1, <2>2 DEF CutTyped
  <2>4. Reader'
    <3>1. position' = P!Least((number' - 1) * chunk', size')
      BY <1>1, <2>1, <2>2 DEF CutTyped, P!Least
    <3>2. parts' = parts \cup {Cut(number)}
      BY <2>1, <2>2 DEF Cut
    <3>3. 1..number' - 1 = (1..number - 1) \cup {number}
      BY <2>1 DEF CutTyped
    <3>4. parts' = {Cut(p) : p \in 1..number' - 1}
      BY <3>2, <3>3 DEF Reader
    <3>5. position' <= length' /\ number' <= P!PartCount' + 1
      BY <1>1, <1>2, <1>3, <1>4, <1>6, <2>1, <2>2, CutStays DEF CutTyped
    <3> QED
      BY <1>1, <3>1, <3>4, <3>5, CutStays DEF Reader, P!Least
  <2>5. Signing'
    <3>1. CASE number < P!Last
      BY <1>1, <1>3, <1>4, <2>1, <3>1, CutStays DEF CutTyped, Signing
    <3>2. CASE number = P!Last
      BY <1>1, <1>2, <1>3, <1>4, <2>1, <3>2, CutStays DEF CutTyped, Signing
    <3> QED
      BY <1>3, <1>4, <3>1, <3>2 DEF CutTyped
  <2> QED
    BY <2>3, <2>4, <2>5
<1> QED
  BY <1>5, <1>6

(***************************************************************************)
(* Every state of the cut of a file into parts satisfies CutIInv: it is    *)
(* inductive.                                                              *)
(***************************************************************************)
THEOREM CutInductive == P!Spec => []CutIInv
<1>1. CutIInv /\ [P!Next]_P!vars => CutIInv'
  <2> SUFFICES ASSUME CutIInv, [P!Next]_P!vars PROVE CutIInv'
    OBVIOUS
  <2>1. CASE P!Finished \/ UNCHANGED P!vars
    <3>1. UNCHANGED <<step, size, length, chunk, first, number, position, signed, parts>>
      BY <2>1 DEF P!Finished, P!vars, P!cutting
    <3> QED
      BY <3>1, CutStays DEF CutIInv, CutTyped, Reader, Signing, P!Least
  <2> QED
    BY <2>1, CountCut, SignCut, ReadCut, ExtraCut DEF P!Next
<1> QED
  BY <1>1, CutInit, PTL DEF P!Spec

(***************************************************************************)
(* The parts are the file: each holds the bytes that its number stands     *)
(* for, none is missing or empty, each was signed for, and a source of     *)
(* another length is refused; for every size, chunk and batch size.        *)
(***************************************************************************)
THEOREM PartsAreTheFile == P!Spec => []CutIsExact
<1>1. CutIInv => CutIsExact
  <2> SUFFICES ASSUME CutIInv PROVE CutIsExact
    OBVIOUS
  <2> USE DEF CutIInv
  <2>1. size \in Nat /\ chunk \in Nat \ {0} /\ number \in Nat \ {0}
    BY DEF CutTyped
  <2>2. /\ P!PartCount \in Nat \ {0} /\ size <= P!PartCount * chunk
        /\ (P!PartCount - 1) * chunk < size \/ (size = 0 /\ P!PartCount = 1)
    BY <2>1, PartCountIs
  <2>3. ASSUME NEW p \in parts
        PROVE  p.part \in signed /\ p.from = (p.part - 1) * chunk /\ p.to <= p.from + chunk
    <3>1. PICK k \in 1..number - 1 : p = Cut(k)
      BY <2>3 DEF Reader
    <3>2. p.part = k /\ p.from = (k - 1) * chunk /\ p.to = P!Least(k * chunk, size)
      BY <3>1 DEF Cut
    <3>3. k * chunk \in Int /\ (k - 1) * chunk = k * chunk - chunk
      BY <2>1, <3>1, ProductStep
    <3>4. k \in signed
      BY <3>1 DEF Signing
    <3> QED
      BY <2>1, <3>2, <3>3, <3>4 DEF P!Least
  <2>4. ASSUME step = "whole"
        PROVE  /\ length = size
               /\ \A p \in parts : p.to = P!Least(p.part * chunk, size) /\ (p.from < p.to \/ size = 0)
               /\ \A byte \in 0..size - 1 : \E p \in parts : p.from <= byte /\ byte < p.to
               /\ signed = {p.part : p \in parts}
    <3>1. number = P!PartCount + 1 /\ signed = 1..P!PartCount /\ position = length
      BY <2>4 DEF Signing
    <3>2. parts = {Cut(k) : k \in 1..P!PartCount}
      BY <2>2, <3>1 DEF Reader
    <3>3. length = size
      BY <2>1, <2>2, <3>1, ProductStep DEF Reader, P!Least
    <3>4. ASSUME NEW p \in parts
          PROVE  p.to = P!Least(p.part * chunk, size) /\ (p.from < p.to \/ size = 0)
      <4>1. PICK k \in 1..P!PartCount : p = Cut(k)
        BY <3>2
      <4>2. p.part = k /\ p.from = (k - 1) * chunk /\ p.to = P!Least(k * chunk, size)
        BY <4>1 DEF Cut
      <4>3. k * chunk \in Int /\ (k - 1) * chunk = k * chunk - chunk
        BY <2>1, <4>1, ProductStep
      <4>4. (k - 1) * chunk <= (P!PartCount - 1) * chunk /\ (P!PartCount - 1) * chunk \in Int
        BY <2>1, <2>2, <4>1, ProductOrder
      <4> QED
        BY <2>1, <2>2, <4>2, <4>3, <4>4 DEF P!Least
    <3>5. ASSUME NEW byte \in 0..size - 1
          PROVE  \E p \in parts : p.from <= byte /\ byte < p.to
      <4> DEFINE k == (byte \div chunk) + 1
      <4>1. byte \div chunk \in Nat /\ byte % chunk \in 0..chunk - 1
            /\ byte = (byte \div chunk) * chunk + (byte % chunk)
        <5>1. byte \in Nat
          BY <2>1
        <5> QED
          BY <2>1, <5>1, DivisionRest
      <4>2. k \in Nat \ {0} /\ (k - 1) * chunk <= byte /\ byte < k * chunk
            /\ (k - 1) * chunk \in Int /\ k * chunk \in Int
        BY <2>1, <4>1, ProductStep
      <4> HIDE DEF k
      <4>3. P!PartCount * chunk \in Int
        BY <2>1, <2>2, ProductStep
      <4>4. (k - 1) * chunk < P!PartCount * chunk
        BY <2>1, <2>2, <4>2, <4>3
      <4>5. k - 1 < P!PartCount
        BY <2>1, <2>2, <4>2, <4>4, ProductOrder
      <4>6. k \in 1..P!PartCount
        BY <2>2, <4>2, <4>5
      <4>7. Cut(k) \in parts /\ Cut(k).from <= byte /\ byte < Cut(k).to
        BY <2>1, <3>2, <4>2, <4>6 DEF Cut, P!Least
      <4> QED
        BY <4>7
    <3>6. signed = {p.part : p \in parts}
      <4>1. \A k \in 1..P!PartCount : Cut(k).part = k
        BY DEF Cut
      <4> QED
        BY <3>1, <3>2, <4>1
    <3> QED
      BY <3>3, <3>4, <3>5, <3>6
  <2> QED
    BY <2>3, <2>4 DEF CutIsExact, P!CutIsExact
<1> QED
  BY <1>1, CutInductive, PTL

-----------------------------------------------------------------------------
(***************************************************************************)
(* The elements of a set of numbers have different ranks, from none above  *)
(* to all others above, so that a page of k of them has k at most, and the *)
(* first of a page is there if any that comes later is.                    *)
(***************************************************************************)
Above(S, i) == {j \in S : j > i}
UpTo(S, i) == {j \in S : j <= i}
PageOf(S, k, q) == {i \in S : Cardinality(Above(S, i)) \div k = q}

\* Those before an object and those up to it are all of them.
LEMMA RankIs ==
    ASSUME NEW S, S \subseteq Int, IsFiniteSet(S), NEW i \in S
    PROVE  /\ IsFiniteSet(Above(S, i)) /\ IsFiniteSet(UpTo(S, i))
           /\ Cardinality(Above(S, i)) \in Nat
           /\ Cardinality(UpTo(S, i)) \in Nat \ {0}
           /\ Cardinality(S) \in Nat
           /\ Cardinality(Above(S, i)) + Cardinality(UpTo(S, i)) = Cardinality(S)
<1>1. IsFiniteSet(Above(S, i)) /\ IsFiniteSet(UpTo(S, i))
  BY FS_Subset DEF Above, UpTo
<1>2. /\ Cardinality(Above(S, i)) \in Nat /\ Cardinality(UpTo(S, i)) \in Nat
      /\ Cardinality(S) \in Nat
  BY <1>1, FS_CardinalityType
<1>3. Cardinality(UpTo(S, i)) # 0
  BY <1>1, FS_EmptySet DEF UpTo
<1>4. Above(S, i) \cup UpTo(S, i) = S /\ Above(S, i) \cap UpTo(S, i) = {}
  <2>1. \A j \in S : j <= i <=> ~(j > i)
    <3>1. \A m, n \in Int : m <= n <=> ~(m > n)
      OBVIOUS
    <3> QED
      BY <3>1
  <2>2. \A j : j \in Above(S, i) <=> j \in S /\ j > i
    BY DEF Above
  <2>3. \A j : j \in UpTo(S, i) <=> j \in S /\ ~(j > i)
    BY <2>1 DEF UpTo
  <2> QED
    BY <2>2, <2>3
<1>5. Cardinality(Above(S, i)) + Cardinality(UpTo(S, i)) - 0 = Cardinality(S)
  BY <1>1, <1>4, FS_Union, FS_EmptySet
<1> QED
  BY <1>1, <1>2, <1>3, <1>5

\* Different objects have a different number of objects before them.
LEMMA RanksDiffer ==
    ASSUME NEW S, S \subseteq Int, IsFiniteSet(S), NEW i \in S, NEW j \in S, i # j
    PROVE  Cardinality(Above(S, i)) # Cardinality(Above(S, j))
<1>1. ASSUME NEW m \in S, NEW n \in S, m < n
      PROVE  Cardinality(Above(S, m)) # Cardinality(Above(S, n))
  <2>1. \A l \in S : (l > n => l > m) /\ n > m /\ ~(n > n)
    <3>1. \A x, y, z \in Int : y < z /\ x > z => x > y
      OBVIOUS
    <3>2. \A y, z \in Int : y < z => z > y /\ ~(z > z)
      OBVIOUS
    <3> QED
      BY <1>1, <3>1, <3>2
  <2>2. Above(S, n) \subseteq Above(S, m) /\ n \in Above(S, m) /\ n \notin Above(S, n)
    BY <1>1, <2>1 DEF Above
  <2> QED
    BY <2>2, RankIs, FS_Subset
<1>2. i < j \/ j < i
  OBVIOUS
<1> QED
  BY <1>1, <1>2

\* A page holds no more than fits: its objects have different ranks on it.
LEMMA PageIs ==
    ASSUME NEW S, S \subseteq Int, IsFiniteSet(S), NEW k \in Nat \ {0}, NEW q \in Int
    PROVE  /\ IsFiniteSet(PageOf(S, k, q))
           /\ Cardinality(PageOf(S, k, q)) \in Nat
           /\ Cardinality(PageOf(S, k, q)) <= k
<1> DEFINE T == PageOf(S, k, q)
           f == [i \in T |-> Cardinality(Above(S, i))]
           R == q * k .. q * k + k - 1
<1>1. \A i \in T : i \in S /\ Cardinality(Above(S, i)) \in Nat /\ Cardinality(Above(S, i)) \div k = q
  BY RankIs DEF PageOf
<1>2. \A n \in Nat : n \div k = q => n \in R
  OBVIOUS
<1>3. f \in [T -> R]
  BY <1>1, <1>2
<1>4. \A i, j \in T : f[i] = f[j] => i = j
  BY <1>1, RanksDiffer
<1>5. f \in Injection(T, R)
  BY <1>3, <1>4 DEF Injection, IsInjective
<1>6. q * k \in Int /\ IsFiniteSet(R) /\ Cardinality(R) = k
  <2>1. q * k \in Int
    OBVIOUS
  <2> QED
    BY <2>1, FS_Interval
<1>7. IsFiniteSet(T) /\ Cardinality(T) <= Cardinality(R)
  BY <1>5, <1>6, FS_Injection
<1> QED
  BY <1>6, <1>7, FS_CardinalityType

\* Every rank below the number of objects is the rank of one.
LEMMA RankTaken ==
    ASSUME NEW S, S \subseteq Int, IsFiniteSet(S), NEW m \in Nat, m < Cardinality(S)
    PROVE  \E i \in S : Cardinality(Above(S, i)) = m
<1> DEFINE n == Cardinality(S)
           f == [i \in S |-> Cardinality(Above(S, i))]
           R == 0 .. n - 1
<1>1. n \in Nat
  BY FS_CardinalityType
<1>2. f \in [S -> R]
  <2>1. ASSUME NEW i \in S PROVE Cardinality(Above(S, i)) \in R
    <3> HIDE DEF n
    <3>1. Cardinality(Above(S, i)) \in Nat /\ Cardinality(UpTo(S, i)) \in Nat \ {0}
          /\ Cardinality(Above(S, i)) + Cardinality(UpTo(S, i)) = n
      BY RankIs DEF n
    <3> QED
      BY <1>1, <3>1
  <2> QED
    BY <2>1
<1>3. f \in Injection(S, R)
  <2>1. \A i, j \in S : f[i] = f[j] => i = j
    BY RanksDiffer
  <2> QED
    BY <1>2, <2>1 DEF Injection, IsInjective
<1>4. IsFiniteSet(R) /\ Cardinality(R) = n
  <2> HIDE DEF n
  <2>1. 0 \in Int /\ n - 1 \in Int
    BY <1>1
  <2>2. IsFiniteSet(R) /\ Cardinality(R) = IF 0 > n - 1 THEN 0 ELSE n - 1 - 0 + 1
    BY <2>1, FS_Interval
  <2> QED
    BY <1>1, <2>2
<1>5. f \in Surjection(S, R)
  BY <1>3, <1>4, FS_Injection
<1>6. m \in R
  BY <1>1
<1> QED
  BY <1>5, <1>6 DEF Surjection
(***************************************************************************)
(* What is not on page q, nor before it, comes after it.                   *)
(***************************************************************************)
LEMMA NextPage ==
    ASSUME NEW b \in Nat, NEW k \in Nat \ {0}, NEW q \in Nat, b >= q * k, b \div k # q
    PROVE  b >= q * k + k
<1> SUFFICES ASSUME b < q * k + k PROVE FALSE
  BY q * k \in Nat
<1>1. q * k \in Nat
  OBVIOUS
<1>2. b \div k \in Nat /\ b % k \in 0..k - 1 /\ b = k * (b \div k) + (b % k)
  OBVIOUS
<1> DEFINE d == b \div k
<1> HIDE DEF d
<1>3. d \in Nat /\ k * d <= b /\ b < k * d + k
  BY <1>2 DEF d
<1>4. CASE d < q
  <2>1. d + 1 <= q
    BY <1>3, <1>4
  <2>2. (d + 1) * k <= q * k
    BY <1>3, <2>1
  <2>3. (d + 1) * k = k * d + k
    BY <1>3
  <2> QED
    BY <1>1, <1>3, <2>2, <2>3
<1>5. CASE q < d
  <2>1. q + 1 <= d
    BY <1>3, <1>5
  <2>2. (q + 1) * k <= d * k
    BY <1>3, <2>1
  <2>3. (q + 1) * k = q * k + k /\ d * k = k * d
    BY <1>3
  <2> QED
    BY <1>1, <1>3, <2>2, <2>3
<1> QED
  BY <1>3, <1>4, <1>5 DEF d

\* Each page begins where the one before ends.
LEMMA PagesGrow ==
    ASSUME NEW p \in Nat \ {0}
    PROVE  /\ PageSize \in Nat \ {0}
           /\ (p - 1) * PageSize \in Nat
           /\ ((p + 1) - 1) * PageSize = (p - 1) * PageSize + PageSize
<1>1. PageSize \in Nat \ {0}
  BY MCReadsAssumption DEF L!ListingAssumption
<1>2. p - 1 \in Nat
  OBVIOUS
<1>3. \A a, b \in Nat : a * b \in Nat /\ (a + 1) * b = a * b + b
  OBVIOUS
<1> QED
  BY <1>1, <1>2, <1>3

(***************************************************************************)
(* What page p passes over comes after it: with all up to its own ID it    *)
(* still fits behind that page, if it did behind the page before.          *)
(***************************************************************************)
LEMMA StillToCome ==
    ASSUME NEW S, S \subseteq Int, IsFiniteSet(S), NEW p \in Nat \ {0},
           NEW i \in S, i \notin PageOf(S, PageSize, p - 1),
           p = 1 \/ (p - 1) * PageSize + Cardinality(UpTo(S, i)) <= Cardinality(S)
    PROVE  ((p + 1) - 1) * PageSize + Cardinality(UpTo(S, i)) <= Cardinality(S)
<1> DEFINE b == Cardinality(Above(S, i))
           u == Cardinality(UpTo(S, i))
           t == Cardinality(S)
           full == (p - 1) * PageSize
<1>1. PageSize \in Nat \ {0} /\ p - 1 \in Nat /\ full \in Nat
      /\ ((p + 1) - 1) * PageSize = full + PageSize
  BY PagesGrow
<1>2. b \in Nat /\ u \in Nat /\ t \in Nat /\ b + u = t
  BY RankIs
<1>3. b \div PageSize # p - 1
  BY DEF PageOf
<1>4. b >= full
  <2>1. CASE p = 1
    <3>1. full = 0
      BY <1>1, <2>1
    <3> QED
      BY <1>2, <3>1
  <2>2. CASE full + u <= t
    <3> HIDE DEF b, u, t, full
    <3> QED
      BY <1>1, <1>2, <2>2
  <2> QED
    BY <2>1, <2>2
<1>5. b >= full + PageSize
  <2> HIDE DEF b
  <2> QED
    BY <1>1, <1>2, <1>3, <1>4, NextPage
<1> HIDE DEF b, u, t, full
<1>6. full + PageSize + u <= t
  BY <1>1, <1>2, <1>5
<1> QED
  BY <1>1, <1>6 DEF u, t

-----------------------------------------------------------------------------
(***************************************************************************)
(* A listing is exact if nobody changes the directory meanwhile, and       *)
(* misses nothing if nothing is moved in and the service is honest: for    *)
(* any directory, any page size and any number of pages and rounds.        *)
(*                                                                         *)
(* The first: what was received is there, each object once, and as many as *)
(* there are.  The second: new objects come with new, higher IDs, so for   *)
(* an object that stays the number of IDs up to its own never grows; as    *)
(* every page comes with the same total, the number of those before it     *)
(* never falls.  So its page cannot have passed without it.                *)
(***************************************************************************)
\* The IDs taken are the lowest ones.
LowestUsed == \A i \in used, j \in Object : j <= i => j \in used

\* What the pages of a round so far have come to.
Received ==
    /\ count = Cardinality(files)
    /\ page = 1 => files = {}
    /\ still => files \subseteq dir /\ (page > 1 => total = Cardinality(dir))
    /\ honest => count <= (page - 1) * PageSize
    /\ lister = "ok" => page > 1 /\ count = total

\* Who stays and has not come yet is not on the pages that have.
Expected == 
    honest /\ ~moved /\ page > 1 =>
        \A i \in steady \ files : (page - 1) * PageSize + Cardinality(UpTo(dir, i)) <= total

\* The inductive invariant.
ListingIInv == L!TypeOK /\ LowestUsed /\ Received /\ Expected

\* The objects are finitely many numbers, and the listing counts as the library
\* does.
LEMMA ObjectsAre ==
    /\ Object \subseteq Nat /\ Object \subseteq Int /\ IsFiniteSet(Object)
    /\ {PageSize, Rounds, MaxPages} \subseteq Nat \ {0} /\ MaxChanges \in Nat
    /\ InitialObjects \subseteq Object
    /\ \A S : L!Cardinality(S) = Cardinality(S)
<1>1. \A S : L!Cardinality(S) = Cardinality(S)
  BY DEF L!Cardinality, Cardinality
<1>2. \A S : L!IsFiniteSet(S) <=> IsFiniteSet(S)
  BY DEF L!IsFiniteSet, IsFiniteSet
<1> QED
  BY <1>1, <1>2, MCReadsAssumption DEF L!ListingAssumption

\* So is every part of them, and no larger.
LEMMA SubsetsAre ==
    ASSUME NEW S, S \subseteq Object
    PROVE  /\ IsFiniteSet(S) /\ S \subseteq Int
           /\ Cardinality(S) \in Nat /\ Cardinality(S) <= Cardinality(Object)
           /\ Cardinality(Object) \in Nat
BY ObjectsAre, FS_Subset, FS_CardinalityType

\* The initial state satisfies the inductive invariant.
LEMMA ListingInit == L!Init => ListingIInv
<1> SUFFICES ASSUME L!Init PROVE ListingIInv
  OBVIOUS
<1>1. L!TypeOK
  <2>1. Rounds \in Nat \ {0} /\ MaxPages \in Nat \ {0} /\ MaxChanges \in Nat
        /\ L!Cardinality(Object) \in Nat
    BY ObjectsAre, SubsetsAre
  <2>2. 1 \in 1..Rounds /\ 1 \in 1..MaxPages + 1 /\ 0 \in 0..MaxChanges
        /\ 0 \in 0..L!Cardinality(Object)
    BY <2>1
  <2>3. dir \subseteq used /\ used \subseteq Object
    <3>1. \A i \in Object : i <= i
      BY ObjectsAre
    <3> QED
      BY <3>1, ObjectsAre DEF L!Init
  <2> QED
    BY <2>2, <2>3 DEF L!Init, L!TypeOK
<1>2. LowestUsed
  <2>1. \A i, j, k \in Nat : i <= j /\ k <= i => k <= j
    OBVIOUS
  <2> QED
    BY <2>1, ObjectsAre DEF L!Init, LowestUsed
<1>3. Received
  BY FS_EmptySet, PagesGrow DEF L!Init, Received
<1> QED
  BY <1>1, <1>2, <1>3 DEF ListingIInv, Expected, L!Init

(***************************************************************************)
(* A page that fits is added.                                              *)
(***************************************************************************)
LEMMA TakePage ==
    ASSUME ListingIInv, L!Fetch, page <= MaxPages,
           NEW items \in L!Answers, NEW end \in BOOLEAN, NEW stalled \in BOOLEAN,
           L!Fits(items, L!Cardinality(dir), end, stalled),
           L!Take(items, L!Cardinality(dir), end), honest' = (honest /\ items = L!Items(page))
    PROVE  ListingIInv'
<1> DEFINE t == Cardinality(dir)
<1>0. L!Cardinality(dir) = t /\ L!Cardinality(items) = Cardinality(items)
  BY ObjectsAre
<1>1. /\ page \in Nat \ {0} /\ dir \subseteq Object /\ files \subseteq Object /\ count \in Nat
      /\ total \in Nat /\ steady \subseteq dir
  BY ObjectsAre, SubsetsAre DEF ListingIInv, L!TypeOK
<1>2. t \in Nat /\ t <= Cardinality(Object) /\ Cardinality(Object) \in Nat
      /\ IsFiniteSet(dir) /\ dir \subseteq Int
  BY <1>1, SubsetsAre
<1>3. \A p : L!Items(p) = PageOf(dir, PageSize, p - 1)
  BY ObjectsAre DEF L!Items, L!Before, PageOf, Above
<1>4. items \subseteq dir
  BY DEF L!Answers, L!Items
<1>5. /\ files' = files \cup items /\ count' = count + Cardinality(items) /\ total' = t
      /\ page' = page + 1 /\ lister' = IF end THEN "ok" ELSE "list"
      /\ UNCHANGED <<dir, used, changes, round, steady, still, moved>>
  BY <1>0 DEF L!Take, L!Fetch
<1>6. /\ items \cap files = {} /\ count + Cardinality(items) <= t
      /\ page > 1 => t = total
      /\ end => count + Cardinality(items) = t
  BY <1>0, <1>1 DEF L!Fits
<1>7. Cardinality(items) \in Nat /\ Cardinality(files) \in Nat
      /\ IsFiniteSet(items) /\ IsFiniteSet(files)
  BY <1>1, <1>4, SubsetsAre
<1>8. Cardinality(files \cup items) = count + Cardinality(items)
  <2>1. files \cap items = {} /\ Cardinality({}) = 0
    BY <1>6, FS_EmptySet
  <2>2. Cardinality(files \cup items) = Cardinality(files) + Cardinality(items) - 0
    BY <1>7, <2>1, FS_Union
  <2>3. Cardinality(files) = count
    BY DEF ListingIInv, Received
  <2> QED
    BY <1>1, <1>7, <2>2, <2>3
<1> DEFINE full == (page - 1) * PageSize
<1>9. full \in Nat /\ PageSize \in Nat \ {0} /\ (page' - 1) * PageSize = full + PageSize
  BY <1>1, <1>5, PagesGrow
<1>10. L!TypeOK'
  <2>1. L!Cardinality(Object) = Cardinality(Object) /\ MaxPages \in Nat /\ page \in 1..MaxPages + 1
    BY ObjectsAre DEF ListingIInv, L!TypeOK
  <2> HIDE DEF t
  <2>2. page' \in 1..MaxPages + 1 /\ total' \in 0..L!Cardinality(Object)
    BY <1>1, <1>2, <1>5, <2>1
  <2>3. count' \in 0..L!Cardinality(Object)
    BY <1>1, <1>2, <1>5, <1>6, <1>7, <2>1
  <2>4. files' \subseteq Object /\ lister' \in {"list", "ok", "error"} /\ honest' \in BOOLEAN
    BY <1>1, <1>4, <1>5
  <2> QED
    BY <1>5, <2>2, <2>3, <2>4 DEF ListingIInv, L!TypeOK
<1>11. LowestUsed'
  BY <1>5 DEF ListingIInv, LowestUsed
<1>12. Received'
  <2>1. honest' => count' <= (page' - 1) * PageSize
    <3>1. honest' => honest /\ Cardinality(items) <= PageSize
      <4>1. page - 1 \in Int
        BY <1>1
      <4>2. Cardinality(PageOf(dir, PageSize, page - 1)) <= PageSize
        BY <1>2, <1>9, <4>1, PageIs
      <4> QED
        BY <1>3, <4>2
    <3> HIDE DEF full
    <3> QED
      BY <1>1, <1>5, <1>7, <1>9, <3>1 DEF ListingIInv, Received, full
  <2> QED
    BY <1>1, <1>2, <1>4, <1>5, <1>6, <1>8, <2>1 DEF ListingIInv, Received
<1>13. Expected'
  <2> SUFFICES ASSUME honest', ~moved', NEW i \in steady' \ files'
               PROVE  (page' - 1) * PageSize + Cardinality(UpTo(dir, i)) <= t
    BY <1>5 DEF Expected
  <2>1. i \in dir /\ i \in steady \ files /\ i \notin PageOf(dir, PageSize, page - 1)
    BY <1>1, <1>3, <1>5
  <2>2. page = 1 \/ full + Cardinality(UpTo(dir, i)) <= t
    <3> SUFFICES ASSUME page > 1 PROVE full + Cardinality(UpTo(dir, i)) <= t
      BY <1>1
    <3>1. honest /\ ~moved /\ t = total
      BY <1>5, <1>6
    <3> QED
      BY <2>1, <3>1 DEF ListingIInv, Expected
  <2> QED
    BY <1>1, <1>2, <1>5, <2>1, <2>2, StillToCome
<1> QED
  BY <1>10, <1>11, <1>12, <1>13 DEF ListingIInv

\* listOnce: every outcome of a page request keeps the invariant.
LEMMA FetchListing == ASSUME ListingIInv, L!Fetch PROVE ListingIInv'
<1>1. CASE L!DropRound
  <2>1. /\ lister' \in {lister, "error"} /\ round' \in {round, round + 1} /\ round' <= Rounds
        /\ page' = 1 /\ total' = 0 /\ files' = {} /\ count' = 0
        /\ steady' = dir /\ still' = TRUE /\ moved' = FALSE /\ honest' = TRUE
        /\ UNCHANGED <<dir, used, changes>> /\ lister = "list"
    <3>1. round \in 1..Rounds /\ Rounds \in Nat
      BY ObjectsAre DEF ListingIInv, L!TypeOK
    <3> QED
      BY <1>1, <3>1 DEF L!Fetch, L!DropRound, L!NextRound
  <2>2. L!TypeOK'
    <3>1. /\ L!Cardinality(Object) \in Nat /\ MaxPages \in Nat \ {0} /\ Rounds \in Nat
          /\ round \in 1..Rounds
      BY ObjectsAre, SubsetsAre DEF ListingIInv, L!TypeOK
    <3>2. 1 \in 1..MaxPages + 1 /\ 0 \in 0..L!Cardinality(Object) /\ round' \in 1..Rounds
      BY <2>1, <3>1
    <3> QED
      BY <2>1, <3>2 DEF ListingIInv, L!TypeOK
  <2>3. LowestUsed' /\ Received' /\ Expected'
    BY <2>1, FS_EmptySet, PagesGrow DEF ListingIInv, LowestUsed, Received, Expected
  <2> QED
    BY <2>2, <2>3 DEF ListingIInv
<1>2. CASE page <= MaxPages /\ \E items \in L!Answers, end \in BOOLEAN, stalled \in {FALSE, page > 1} :
              /\ L!Fits(items, L!Cardinality(dir), end, stalled)
              /\ L!Take(items, L!Cardinality(dir), end)
              /\ honest' = (honest /\ items = L!Items(page))
  <2>1. PICK items \in L!Answers, end \in BOOLEAN, stalled \in BOOLEAN :
              /\ L!Fits(items, L!Cardinality(dir), end, stalled)
              /\ L!Take(items, L!Cardinality(dir), end)
              /\ honest' = (honest /\ items = L!Items(page))
    <3>1. {FALSE, page > 1} \subseteq BOOLEAN
      OBVIOUS
    <3> QED
      BY <1>2, <3>1
  <2> QED
    BY <1>2, <2>1, TakePage
<1> QED
  BY <1>1, <1>2 DEF L!Fetch

(***************************************************************************)
(* Other devices change the directory: who stays has no more IDs below     *)
(* its own than before, as new ones are higher than all that were taken.   *)
(***************************************************************************)
LEMMA ChangeListing ==
    ASSUME ListingIInv, NEW after, after \subseteq Object, L!Change(after),
           used' \subseteq Object, after \subseteq used', LowestUsed', honest' = honest, moved' \in BOOLEAN,
           ~moved' => ~moved /\ \A i \in steady' : UpTo(after, i) \subseteq UpTo(dir, i)
    PROVE  ListingIInv'
<1>1. /\ changes < MaxChanges /\ changes' = changes + 1 /\ dir' = after
      /\ steady' = steady \cap after /\ still' = FALSE /\ lister = "list"
      /\ UNCHANGED <<lister, round, page, total, files, count>>
  BY DEF L!Change, L!reader
<1>2. L!TypeOK'
  <2>1. changes' \in 0..MaxChanges
    BY <1>1, ObjectsAre DEF ListingIInv, L!TypeOK
  <2> QED
    BY <1>1, <2>1 DEF ListingIInv, L!TypeOK
<1>3. Received'
  BY <1>1 DEF ListingIInv, Received
<1>4. Expected'
  <2> SUFFICES ASSUME honest, ~moved', page > 1, NEW i \in steady' \ files
               PROVE  (page - 1) * PageSize + Cardinality(UpTo(after, i)) <= total
    BY <1>1 DEF Expected
  <2>1. i \in steady \ files /\ i \in dir /\ i \in after /\ dir \subseteq Object
    BY <1>1 DEF ListingIInv, L!TypeOK
  <2>2. Cardinality(UpTo(after, i)) <= Cardinality(UpTo(dir, i))
    <3>1. UpTo(after, i) \subseteq UpTo(dir, i) /\ IsFiniteSet(UpTo(dir, i))
      BY <1>1, <2>1, SubsetsAre, RankIs
    <3> QED
      BY <3>1, FS_Subset
  <2>3. Cardinality(UpTo(after, i)) \in Nat /\ Cardinality(UpTo(dir, i)) \in Nat
    BY <2>1, SubsetsAre, RankIs
  <2>4. (page - 1) * PageSize + Cardinality(UpTo(dir, i)) <= total
    BY <2>1 DEF ListingIInv, Expected
  <2>5. (page - 1) * PageSize \in Nat /\ total \in Nat
    BY PagesGrow, ObjectsAre, SubsetsAre DEF ListingIInv, L!TypeOK
  <2> QED
    BY <2>2, <2>3, <2>4, <2>5
<1> QED
  BY <1>2, <1>3, <1>4 DEF ListingIInv

\* Others create and delete objects or move them in.
LEMMA OthersListing ==
    ASSUME ListingIInv, L!CreateObject \/ L!DeleteObject \/ L!MoveIn
    PROVE  ListingIInv'
<1>1. dir \subseteq used /\ used \subseteq Object /\ dir \subseteq Object /\ dir \subseteq Int
      /\ steady \subseteq dir /\ moved \in BOOLEAN /\ LowestUsed /\ Object \subseteq Int
  BY ObjectsAre DEF ListingIInv, L!TypeOK
<1>2. ASSUME NEW i \in Object \ used, \A j \in Object \ used : i <= j,
             used' = used \cup {i}, L!Change(dir \cup {i}), UNCHANGED <<moved, honest>>
      PROVE  ListingIInv'
  <2>1. \A j \in used : j < i
    <3>1. \A j \in used : ~(i <= j)
      BY <1>1, <1>2 DEF LowestUsed
    <3>2. \A j \in Int : ~(i <= j) => j < i
      BY <1>1, <1>2
    <3> QED
      BY <1>1, <3>1, <3>2
  <2>2. LowestUsed'
    <3>1. ASSUME NEW j \in Object, j <= i, j \notin used PROVE j = i
      BY <1>1, <1>2, <3>1
    <3> QED
      BY <1>1, <1>2, <3>1 DEF LowestUsed
  <2>3. \A s \in steady : UpTo(dir \cup {i}, s) \subseteq UpTo(dir, s)
    <3>1. \A s \in dir : ~(i <= s)
      <4>1. \A m, n \in Int : m < n => ~(n <= m)
        OBVIOUS
      <4> QED
        BY <1>1, <2>1, <4>1
    <3> QED
      BY <1>1, <3>1 DEF UpTo
  <2>4. steady' \subseteq steady
    BY <1>2 DEF L!Change
  <2> HIDE DEF UpTo
  <2> QED
    BY <1>1, <1>2, <2>2, <2>3, <2>4, ChangeListing
<1>3. ASSUME NEW i \in dir, L!Change(dir \ {i}), UNCHANGED <<used, moved, honest>>
      PROVE  ListingIInv'
  <2>1. \A s : UpTo(dir \ {i}, s) \subseteq UpTo(dir, s)
    BY DEF UpTo
  <2>2. LowestUsed'
    BY <1>1, <1>3 DEF LowestUsed
  <2> QED
    BY <1>1, <1>3, <2>1, <2>2, ChangeListing
<1>4. ASSUME NEW i \in used \ dir, L!Change(dir \cup {i}), moved' = TRUE, UNCHANGED <<used, honest>>
      PROVE  ListingIInv'
  <2>1. LowestUsed'
    BY <1>1, <1>4 DEF LowestUsed
  <2> QED
    BY <1>1, <1>4, <2>1, ChangeListing
<1> QED
  BY <1>1, <1>2, <1>3, <1>4 DEF L!CreateObject, L!DeleteObject, L!MoveIn

(***************************************************************************)
(* Every state of a listing satisfies ListingIInv: it is inductive.        *)
(***************************************************************************)
THEOREM ListingInductive == L!Spec => []ListingIInv
<1>1. ListingIInv /\ [L!Next]_L!vars => ListingIInv'
  <2> SUFFICES ASSUME ListingIInv, [L!Next]_L!vars PROVE ListingIInv'
    OBVIOUS
  <2>1. CASE L!Finished \/ UNCHANGED L!vars
    BY <2>1 DEF L!Finished, L!vars, L!reader, L!observed, ListingIInv, L!TypeOK, LowestUsed, Received, Expected
  <2> QED
    BY <2>1, FetchListing, OthersListing DEF L!Next
<1> QED
  BY <1>1, ListingInit, PTL DEF L!Spec

(***************************************************************************)
(* A listing of a directory that nobody changed meanwhile is exact,        *)
(* whatever the service did to its pages (listAll).                        *)
(***************************************************************************)
THEOREM ListingsAreExact == L!Spec => []ExactIfStill
<1>1. ASSUME ListingIInv PROVE ExactIfStill
  <2> SUFFICES ASSUME lister = "ok", still PROVE files = dir
    BY DEF ExactIfStill, L!ExactIfStill
  <2>1. files \subseteq dir /\ dir \subseteq Object /\ Cardinality(files) = Cardinality(dir)
    BY <1>1 DEF ListingIInv, L!TypeOK, Received
  <2> QED
    BY <2>1, SubsetsAre, FS_Subset
<1> QED
  BY <1>1, ListingInductive, PTL

(***************************************************************************)
(* Creations and deletions between two pages hide no object that was there *)
(* all the time, unless something was moved in or the service left         *)
(* something out (listAll).                                                *)
(***************************************************************************)
THEOREM NobodyIsMissed == L!Spec => []NothingMissed
<1>1. ASSUME ListingIInv PROVE NothingMissed
  <2> SUFFICES ASSUME lister = "ok", ~moved, honest, NEW i \in steady, i \notin files PROVE FALSE
    BY DEF NothingMissed, L!NothingMissed
  <2> DEFINE full == (page - 1) * PageSize
             u == Cardinality(UpTo(dir, i))
  <2>1. page > 1 /\ count = total /\ count <= full /\ full + u <= total
    BY <1>1 DEF ListingIInv, Received, Expected
  <2>2. u \in Nat \ {0}
    BY <1>1, SubsetsAre, RankIs DEF ListingIInv, L!TypeOK
  <2>3. full \in Nat
    <3>1. page \in Nat \ {0}
      BY <1>1 DEF ListingIInv, L!TypeOK
    <3> QED
      BY <3>1, PagesGrow
  <2>4. total \in Nat
    <3>1. L!Cardinality(Object) = Cardinality(Object) /\ Cardinality(Object) \in Nat
      BY ObjectsAre, SubsetsAre
    <3> QED
      BY <1>1, <3>1 DEF ListingIInv, L!TypeOK
  <2> HIDE DEF full, u
  <2> QED
    BY <2>1, <2>2, <2>3, <2>4
<1> QED
  BY <1>1, ListingInductive, PTL

-----------------------------------------------------------------------------
(***************************************************************************)
(* offline-delete tells the truth: for any tasks, any page size and any    *)
(* number of pages.                                                        *)
(*                                                                         *)
(* A task of the command that is still there and not received lies behind  *)
(* the pages so far (its ID is an old one, so new tasks do not count), and *)
(* there is nothing behind the last page.  And a list that is complete is  *)
(* complete only once the command ends: as long as it goes on, the pages   *)
(* so far hold less than the total.                                        *)
(***************************************************************************)
\* The IDs given out are the lowest ones.
LowestPast == \A i \in past, j \in Task : j <= i => j \in past

\* A command deletes before it lists, and lists from the first page on.
Commanded ==
    /\ ids \subseteq past
    /\ command = "delete" => commander \in {"delete", "list", "ok", "error"}
    /\ commander = "delete" => command = "delete"
    /\ commander \in {"idle", "resolve", "submit", "delete"} => oPage = 1

\* What the pages so far have come to.
Paged ==
    /\ oPage = 1 => found = {}
    /\ oStill /\ oPage > 1 => found \subseteq tasks /\ oTotal = Cardinality(tasks)
    /\ Cardinality(found) <= (oPage - 1) * PageSize
    /\ commander = "list" /\ oPage > 1 => (oPage - 1) * PageSize < oTotal

\* A task of the command that is left and was not received is yet to come.
Pending ==
    oHonest /\ oPage > 1 =>
        \A i \in (ids \cap tasks) \ found : (oPage - 1) * PageSize + Cardinality(UpTo(tasks, i)) <= oTotal

\* The inductive invariant.
OfflineIInv == O!TypeOK /\ LowestPast /\ Commanded /\ Paged /\ Pending /\ DeleteTellsTheTruth

\* The tasks are finitely many numbers, and the command counts as the library
\* does.
LEMMA TasksAre ==
    /\ Task \subseteq Nat /\ Task \subseteq Int /\ IsFiniteSet(Task)
    /\ {PageSize, MaxPages} \subseteq Nat \ {0} /\ MaxChanges \in Nat
    /\ InitialTasks \subseteq Task
    /\ \A S : O!Cardinality(S) = Cardinality(S)
<1>1. \A S : O!Cardinality(S) = Cardinality(S)
  BY DEF O!Cardinality, Cardinality
<1>2. \A S : O!IsFiniteSet(S) <=> IsFiniteSet(S)
  BY DEF O!IsFiniteSet, IsFiniteSet
<1> QED
  BY <1>1, <1>2, MCReadsAssumption DEF O!OfflineAssumption

\* So is every part of them, and no larger.
LEMMA SomeTasksAre ==
    ASSUME NEW S, S \subseteq Task
    PROVE  /\ IsFiniteSet(S) /\ S \subseteq Int
           /\ Cardinality(S) \in Nat /\ Cardinality(S) <= Cardinality(Task)
           /\ Cardinality(Task) \in Nat
BY TasksAre, FS_Subset, FS_CardinalityType

\* The initial state satisfies the inductive invariant.
LEMMA OfflineInit == O!Init => OfflineIInv
<1> SUFFICES ASSUME O!Init PROVE OfflineIInv
  OBVIOUS
<1>1. O!TypeOK
  <2>1. MaxPages \in Nat \ {0} /\ MaxChanges \in Nat /\ O!Cardinality(Task) \in Nat
    BY TasksAre, SomeTasksAre
  <2>2. 1 \in 1..MaxPages + 1 /\ 0 \in 0..MaxChanges /\ 0 \in 0..O!Cardinality(Task)
    BY <2>1
  <2>3. tasks \subseteq past /\ past \subseteq Task
    <3>1. \A i \in Task : i <= i
      BY TasksAre
    <3> QED
      BY <3>1, TasksAre DEF O!Init
  <2> QED
    BY <2>2, <2>3 DEF O!Init, O!TypeOK
<1>2. LowestPast
  <2>1. \A i, j, k \in Nat : i <= j /\ k <= i => k <= j
    OBVIOUS
  <2> QED
    BY <2>1, TasksAre DEF O!Init, LowestPast
<1>3. Commanded /\ Pending /\ DeleteTellsTheTruth
  BY DEF O!Init, Commanded, Pending, DeleteTellsTheTruth, O!DeleteTellsTheTruth
<1>4. Paged
  <2>1. Cardinality(found) = 0 /\ oPage = 1 /\ (oPage - 1) * PageSize = 0
    BY TasksAre, FS_EmptySet DEF O!Init
  <2> QED
    BY <2>1 DEF O!Init, Paged
<1> QED
  BY <1>1, <1>2, <1>3, <1>4 DEF OfflineIInv

(***************************************************************************)
(* What an accepted task changes: it is newer than every task of the       *)
(* command, so that none of them has more IDs up to its own than before.   *)
(***************************************************************************)
LEMMA Accepted ==
    ASSUME OfflineIInv, NEW t \in Task, O!Accept(t)
    PROVE  /\ tasks' \subseteq past' /\ past' \subseteq Task /\ past \subseteq past'
           /\ LowestPast'
           /\ \A i \in ids \cap tasks' : i \in tasks /\ UpTo(tasks', i) \subseteq UpTo(tasks, i)
<1>1. /\ tasks \subseteq past /\ past \subseteq Task /\ Task \subseteq Int /\ ids \subseteq past
      /\ LowestPast
  BY TasksAre DEF OfflineIInv, O!TypeOK, Commanded
<1>2. /\ t \in Task \ past /\ \A u \in Task \ past : t <= u
      /\ tasks' = tasks \cup {t} /\ past' = past \cup {t}
  BY DEF O!Accept
<1>3. \A i \in past : ~(t <= i)
  BY <1>1, <1>2 DEF LowestPast
<1>4. LowestPast'
  <2>1. ASSUME NEW j \in Task, j <= t, j \notin past PROVE j = t
    BY <1>1, <1>2, <2>1
  <2> QED
    BY <1>1, <1>2, <2>1 DEF LowestPast
<1>5. \A i \in ids \cap tasks' : i \in tasks /\ UpTo(tasks', i) \subseteq UpTo(tasks, i)
  BY <1>1, <1>2, <1>3 DEF UpTo
<1> QED
  BY <1>1, <1>2, <1>4, <1>5

(***************************************************************************)
(* Other clients add and delete tasks.                                     *)
(***************************************************************************)
LEMMA OthersOffline == ASSUME OfflineIInv, O!ChangeTasks PROVE OfflineIInv'
<1>1. /\ commander \in {"delete", "list"} /\ oStill' = FALSE
      /\ oChanges < MaxChanges /\ oChanges' = oChanges + 1
      /\ UNCHANGED <<commander, command, ids, refused, oPage, oTotal, found, oHonest>>
  BY DEF O!ChangeTasks, O!call
<1>2. /\ tasks' \subseteq past' /\ past' \subseteq Task /\ past \subseteq past'
      /\ LowestPast'
      /\ \A i \in ids \cap tasks' : i \in tasks /\ UpTo(tasks', i) \subseteq UpTo(tasks, i)
  <2>1. ASSUME NEW t \in tasks, tasks' = tasks \ {t}, UNCHANGED past
        PROVE  /\ tasks' \subseteq past' /\ past' \subseteq Task /\ past \subseteq past'
               /\ LowestPast'
               /\ \A i \in ids \cap tasks' : i \in tasks /\ UpTo(tasks', i) \subseteq UpTo(tasks, i)
    BY <2>1 DEF OfflineIInv, O!TypeOK, LowestPast, UpTo
  <2> QED
    BY <2>1, Accepted DEF O!ChangeTasks
<1>3. O!TypeOK'
  <2>1. oChanges' \in 0..MaxChanges
    BY <1>1, TasksAre DEF OfflineIInv, O!TypeOK
  <2> QED
    BY <1>1, <1>2, <2>1 DEF OfflineIInv, O!TypeOK
<1>4. Commanded' /\ Paged' /\ DeleteTellsTheTruth'
  BY <1>1, <1>2 DEF OfflineIInv, Commanded, Paged, DeleteTellsTheTruth, O!DeleteTellsTheTruth
<1>5. Pending'
  <2> SUFFICES ASSUME oHonest, oPage > 1, NEW i \in (ids \cap tasks') \ found
               PROVE  (oPage - 1) * PageSize + Cardinality(UpTo(tasks', i)) <= oTotal
    BY <1>1 DEF Pending
  <2> DEFINE u == Cardinality(UpTo(tasks, i))
             v == Cardinality(UpTo(tasks', i))
             full == (oPage - 1) * PageSize
  <2>1. i \in (ids \cap tasks) \ found /\ tasks \subseteq Task /\ tasks' \subseteq Task
    BY <1>2 DEF OfflineIInv, O!TypeOK
  <2>2. v <= u /\ u \in Nat /\ v \in Nat
    <3>1. UpTo(tasks', i) \subseteq UpTo(tasks, i) /\ IsFiniteSet(UpTo(tasks, i))
      BY <1>2, <2>1, SomeTasksAre, RankIs
    <3> QED
      BY <2>1, <3>1, SomeTasksAre, RankIs, FS_Subset
  <2>3. full + u <= oTotal
    BY <2>1 DEF OfflineIInv, Pending
  <2>4. full \in Nat
    <3>1. oPage \in Nat \ {0}
      BY DEF OfflineIInv, O!TypeOK
    <3> QED
      BY <3>1, PagesGrow
  <2>5. oTotal \in Nat
    BY TasksAre, SomeTasksAre DEF OfflineIInv, O!TypeOK
  <2> HIDE DEF u, v, full
  <2>6. full + v <= oTotal
    BY <2>2, <2>3, <2>4, <2>5
  <2> QED
    BY <2>6 DEF v, full
<1> QED
  BY <1>2, <1>3, <1>4, <1>5 DEF OfflineIInv

(***************************************************************************)
(* The steps of a command before it lists the tasks.                       *)
(***************************************************************************)
LEMMA StepsOffline ==
    ASSUME OfflineIInv,
           \/ \E c \in {"add", "status", "delete"}, given \in SUBSET past : O!Command(c, given)
           \/ O!Resolve \/ O!Submit \/ O!RequestDeletion
    PROVE  OfflineIInv'
<1>1. CASE \E c \in {"add", "status", "delete"}, given \in SUBSET past : O!Command(c, given)
  <2>1. PICK c \in {"add", "status", "delete"}, given \in SUBSET past : O!Command(c, given)
    BY <1>1
  <2>2. /\ command' = c /\ ids' = given /\ oPage = 1
        /\ commander' \in {"resolve", "list", "delete"} /\ (c = "delete" <=> commander' = "delete")
        /\ UNCHANGED <<tasks, past, oChanges, refused, oPage, oTotal, found, oStill, oHonest>>
    BY <2>1 DEF O!Command, O!paging, OfflineIInv, Commanded
  <2> QED
    BY <2>2 DEF OfflineIInv, O!TypeOK, LowestPast, Commanded, Paged, Pending,
                DeleteTellsTheTruth, O!DeleteTellsTheTruth
<1>2. CASE O!Resolve
  BY <1>2 DEF O!Resolve, O!paging, OfflineIInv, O!TypeOK, LowestPast, Commanded, Paged, Pending,
              DeleteTellsTheTruth, O!DeleteTellsTheTruth
<1>3. CASE O!Submit
  <2>1. /\ commander = "submit" /\ commander' \in {"ok", "error"} /\ oPage = 1 /\ command # "delete"
        /\ UNCHANGED <<oChanges, command, ids, refused, oPage, oTotal, found, oStill, oHonest>>
    BY <1>3 DEF O!Submit, O!paging, OfflineIInv, Commanded
  <2>2. /\ tasks' \subseteq past' /\ past' \subseteq Task /\ past \subseteq past'
        /\ LowestPast'
    <3>1. CASE UNCHANGED <<tasks, past>>
      BY <3>1 DEF OfflineIInv, O!TypeOK, LowestPast
    <3> QED
      BY <1>3, <3>1, Accepted DEF O!Submit
  <2> QED
    BY <2>1, <2>2 DEF OfflineIInv, O!TypeOK, Commanded, Paged, Pending,
                      DeleteTellsTheTruth, O!DeleteTellsTheTruth
<1>4. CASE O!RequestDeletion
  BY <1>4 DEF O!RequestDeletion, O!paging, OfflineIInv, O!TypeOK, LowestPast, Commanded, Paged, Pending,
              DeleteTellsTheTruth, O!DeleteTellsTheTruth
<1> QED
  BY <1>1, <1>2, <1>3, <1>4

(***************************************************************************)
(* A page that fits is added, and the last one is judged.                  *)
(***************************************************************************)
LEMMA ReceivePage ==
    ASSUME OfflineIInv, commander = "list", oPage <= MaxPages,
           UNCHANGED <<tasks, past, oChanges, command, ids, refused>>,
           NEW items \in O!Answers,
           O!Fits(items, O!Cardinality(tasks)), O!Receive(items, O!Cardinality(tasks))
    PROVE  OfflineIInv'
<1> DEFINE t == Cardinality(tasks)
           full == (oPage - 1) * PageSize
<1>0. O!Cardinality(tasks) = t /\ \A S : O!Cardinality(S) = Cardinality(S)
  BY TasksAre
<1>1. /\ oPage \in Nat \ {0} /\ tasks \subseteq Task /\ found \subseteq Task /\ oTotal \in Nat
      /\ ids \subseteq past /\ MaxPages \in Nat
  <2>1. O!Cardinality(Task) \in Nat /\ MaxPages \in Nat
    BY TasksAre, SomeTasksAre
  <2> QED
    BY <2>1 DEF OfflineIInv, O!TypeOK, Commanded
<1>2. t \in Nat /\ t <= Cardinality(Task) /\ Cardinality(Task) \in Nat
      /\ IsFiniteSet(tasks) /\ tasks \subseteq Int
  BY <1>1, SomeTasksAre
<1>3. \A p : O!Items(p) = PageOf(tasks, PageSize, p - 1)
  BY TasksAre DEF O!Items, O!Before, PageOf, Above
<1>4. items \subseteq tasks
  BY DEF O!Answers, O!Items
<1>5. /\ full \in Nat /\ PageSize \in Nat \ {0}
      /\ (oPage' - 1) * PageSize = full + PageSize
      /\ oPage * PageSize = full + PageSize
  <2>1. oPage' = oPage + 1
    BY DEF O!Receive
  <2>2. (oPage + 1) - 1 = oPage
    BY <1>1
  <2> QED
    BY <1>1, <2>1, <2>2, PagesGrow
<1>6. /\ found' = found \cup items /\ oTotal' = t /\ oPage' = oPage + 1
      /\ oStill' = (oPage = 1 \/ oStill) /\ oHonest' = (oHonest /\ items = O!Items(oPage))
  BY <1>0 DEF O!Receive
<1>7. commander' = IF items # {} /\ full + PageSize < t THEN "list"
                   ELSE IF Cardinality(found') = t THEN O!Verdict(found') ELSE "error"
  <2>1. O!LastPage(items, t) <=> ~(items # {} /\ full + PageSize < t)
    <3>1. oPage * PageSize >= t <=> ~(full + PageSize < t)
      <4> HIDE DEF full, t
      <4> QED
        BY <1>2, <1>5
    <3> QED
      BY <3>1 DEF O!LastPage
  <2> HIDE DEF full, t
  <2> QED
    BY <1>0, <2>1 DEF O!Receive
<1>8. /\ items \cap found = {} /\ Cardinality(found') <= t
      /\ oPage > 1 => t = oTotal
  BY <1>0, <1>1, <1>6 DEF O!Fits
<1>9. Cardinality(items) \in Nat /\ Cardinality(items) <= PageSize
  <2>1. oPage - 1 \in Int /\ (oPage - 1) - 1 \in Int
    BY <1>1
  <2>2. PICK q \in Int : items \subseteq PageOf(tasks, PageSize, q)
    BY <1>3, <2>1 DEF O!Answers
  <2> DEFINE whole == PageOf(tasks, PageSize, q)
  <2>3. IsFiniteSet(whole) /\ Cardinality(whole) \in Nat /\ Cardinality(whole) <= PageSize
    BY <1>2, <1>5, PageIs
  <2>4. Cardinality(items) <= Cardinality(whole) /\ Cardinality(items) \in Nat
    BY <1>1, <1>4, <2>2, <2>3, FS_Subset, SomeTasksAre
  <2> HIDE DEF whole
  <2> QED
    BY <1>5, <2>3, <2>4
<1>10. /\ Cardinality(found) \in Nat /\ Cardinality(found') \in Nat
       /\ Cardinality(found') <= full + PageSize
  <2>1. IsFiniteSet(found) /\ IsFiniteSet(items) /\ Cardinality(found) \in Nat
    BY <1>1, <1>4, SomeTasksAre
  <2>2. found \cap items = {} /\ Cardinality({}) = 0
    BY <1>8, FS_EmptySet
  <2>3. Cardinality(found') = Cardinality(found) + Cardinality(items) - 0
    BY <1>6, <2>1, <2>2, FS_Union
  <2>4. Cardinality(found) <= full
    BY DEF OfflineIInv, Paged
  <2> HIDE DEF full
  <2> QED
    BY <1>5, <1>9, <2>1, <2>3, <2>4
<1>11. /\ oPage' \in Nat \ {0} /\ oPage' # 1 /\ oPage' > 1
       /\ oStill' => found' \subseteq tasks
       /\ oStill' \in BOOLEAN /\ oHonest' \in BOOLEAN
  BY <1>1, <1>4, <1>6 DEF OfflineIInv, O!TypeOK, Paged
<1>12. O!TypeOK'
  <2>1. oPage' \in 1..MaxPages + 1
    BY <1>1, <1>6
  <2>2. oTotal' \in 0..O!Cardinality(Task)
    <3> HIDE DEF t
    <3> QED
      BY <1>0, <1>2, <1>6
  <2>3. found' \subseteq Task /\ commander' \in {"list", "ok", "error"}
    BY <1>1, <1>4, <1>6, <1>7 DEF O!Verdict
  <2> QED
    BY <1>11, <2>1, <2>2, <2>3 DEF OfflineIInv, O!TypeOK
<1>13. LowestPast' /\ Commanded'
  BY <1>7 DEF OfflineIInv, LowestPast, Commanded, O!Verdict
<1>14. Paged'
  <2>1. commander' = "list" => (oPage' - 1) * PageSize < oTotal'
    BY <1>5, <1>6, <1>7 DEF O!Verdict
  <2>2. Cardinality(found') <= (oPage' - 1) * PageSize
    BY <1>5, <1>10
  <2> QED
    BY <1>6, <1>11, <2>1, <2>2 DEF Paged
<1>15. ASSUME oHonest', NEW i \in (ids \cap tasks) \ found'
       PROVE  full + PageSize + Cardinality(UpTo(tasks, i)) <= t
  <2>1. i \in tasks /\ i \in (ids \cap tasks) \ found /\ i \notin PageOf(tasks, PageSize, oPage - 1)
    BY <1>3, <1>6, <1>15
  <2>2. oPage = 1 \/ full + Cardinality(UpTo(tasks, i)) <= t
    <3> SUFFICES ASSUME oPage > 1 PROVE full + Cardinality(UpTo(tasks, i)) <= t
      BY <1>1
    <3>1. oHonest /\ t = oTotal
      BY <1>6, <1>8, <1>15
    <3> QED
      BY <2>1, <3>1 DEF OfflineIInv, Pending
  <2>3. ((oPage + 1) - 1) * PageSize + Cardinality(UpTo(tasks, i)) <= t
    BY <1>1, <1>2, <2>1, <2>2, StillToCome
  <2> HIDE DEF full, t
  <2> QED
    BY <1>5, <1>6, <2>3
<1>16. Pending'
  BY <1>5, <1>6, <1>15 DEF Pending
<1>17. DeleteTellsTheTruth'
  <2> SUFFICES ASSUME command = "delete"
               PROVE  /\ commander' = "ok" /\ (oHonest' \/ oStill') => ids \cap tasks = {}
                      /\ commander' = "error" /\ oStill' /\ Cardinality(found') = oTotal' => ids \cap tasks # {}
    BY <1>0 DEF DeleteTellsTheTruth, O!DeleteTellsTheTruth
  <2>1. Cardinality(found') = t /\ oStill' => found' = tasks
    BY <1>2, <1>11, FS_Subset
  <2>2. commander' = "ok" => Cardinality(found') = t /\ ids \cap found' = {}
    BY <1>7 DEF O!Verdict
  <2>3. commander' = "error" /\ Cardinality(found') = t => ids \cap found' # {}
    BY <1>7 DEF O!Verdict
  <2>4. ASSUME commander' = "ok", oHonest', NEW i \in ids \cap tasks PROVE FALSE
    <3> DEFINE u == Cardinality(UpTo(tasks, i))
    <3>1. full + PageSize + u <= t
      BY <1>15, <2>2, <2>4
    <3>2. u \in Nat \ {0}
      BY <1>2, <2>4, RankIs
    <3>3. full + PageSize < t
      <4> HIDE DEF full, u, t
      <4> QED
        BY <1>2, <1>5, <3>1, <3>2
    <3>4. items = {}
      BY <1>7, <2>4, <3>3
    <3>5. full < t
      <4> HIDE DEF full, t
      <4> QED
        BY <1>2, <1>5, <3>3
    <3>6. PICK j \in tasks : Cardinality(Above(tasks, j)) = full
      BY <1>2, <1>5, <3>5, RankTaken
    <3>7. full \div PageSize = oPage - 1
      <4>1. \A a \in Nat, k \in Nat \ {0} : (a * k) \div k = a
        OBVIOUS
      <4>2. oPage - 1 \in Nat
        BY <1>1
      <4> QED
        BY <1>5, <4>1, <4>2
    <3>8. j \in O!Items(oPage)
      BY <1>3, <3>6, <3>7 DEF PageOf
    <3> QED
      BY <1>6, <2>4, <3>4, <3>8
  <2> QED
    BY <1>6, <2>1, <2>2, <2>3, <2>4
<1> QED
  BY <1>12, <1>13, <1>14, <1>16, <1>17 DEF OfflineIInv

\* listOfflineTasks: every outcome of a page request keeps the invariant.
LEMMA FetchOffline == ASSUME OfflineIInv, O!FetchTasks PROVE OfflineIInv'
<1>1. CASE O!Fail
  <2>1. /\ commander = "list" /\ commander' = "error"
        /\ UNCHANGED <<tasks, past, oChanges, command, ids, refused, oPage, oTotal, found, oStill, oHonest>>
    BY <1>1 DEF O!FetchTasks, O!Fail, O!paging
  <2>2. oPage > 1 => Cardinality(found) # oTotal
    <3>1. Cardinality(found) \in Nat /\ (oPage - 1) * PageSize \in Nat
      <4>1. oPage \in Nat \ {0} /\ found \subseteq Task
        BY DEF OfflineIInv, O!TypeOK
      <4> QED
        BY <4>1, SomeTasksAre, PagesGrow
    <3>2. oTotal \in Nat
      BY TasksAre, SomeTasksAre DEF OfflineIInv, O!TypeOK
    <3>3. \A a, b, c \in Nat : a <= b /\ b < c => a # c
      OBVIOUS
    <3> QED
      BY <2>1, <3>1, <3>2, <3>3 DEF OfflineIInv, Paged
  <2>3. DeleteTellsTheTruth'
    BY <2>1, <2>2, TasksAre DEF DeleteTellsTheTruth, O!DeleteTellsTheTruth
  <2> QED
    BY <2>1, <2>3 DEF OfflineIInv, O!TypeOK, LowestPast, Commanded, Paged, Pending
<1>2. CASE ~O!Fail
  BY <1>2, ReceivePage DEF O!FetchTasks
<1> QED
  BY <1>1, <1>2

(***************************************************************************)
(* Every state of the offline commands satisfies OfflineIInv: it is        *)
(* inductive.                                                              *)
(***************************************************************************)
THEOREM OfflineInductive == O!Spec => []OfflineIInv
<1>1. OfflineIInv /\ [O!Next]_O!vars => OfflineIInv'
  <2> SUFFICES ASSUME OfflineIInv, [O!Next]_O!vars PROVE OfflineIInv'
    OBVIOUS
  <2>1. CASE O!Finished \/ UNCHANGED O!vars
    BY <2>1 DEF O!Finished, O!vars, O!call, O!paging, OfflineIInv, O!TypeOK, LowestPast, Commanded, Paged,
                Pending, DeleteTellsTheTruth, O!DeleteTellsTheTruth
  <2> QED
    BY <2>1, StepsOffline, FetchOffline, OthersOffline DEF O!Next, O!Step
<1> QED
  BY <1>1, OfflineInit, PTL DEF O!Spec

(***************************************************************************)
(* offline-delete succeeds only if none of its tasks is left, and reports  *)
(* a failure after a complete list only if one is, whatever became of its  *)
(* request (offlineDelete, listOfflineTasks).                              *)
(***************************************************************************)
THEOREM DeletionsAreJudged == O!Spec => []DeleteTellsTheTruth
<1>1. OfflineIInv => DeleteTellsTheTruth
  BY DEF OfflineIInv
<1> QED
  BY <1>1, OfflineInductive, PTL

-----------------------------------------------------------------------------
(***************************************************************************)
(* A download that ends cleanly is whole, and an honest service is enough: *)
(* for objects of any size, any ranges and any responses.                  *)
(*                                                                         *)
(* While the reader runs, what is left and what was handed out are the     *)
(* bytes asked for together, and the body began where they do; if the      *)
(* service was honest, the body holds exactly what is left.  The probe is  *)
(* made with nothing left, so its flag says that all were handed out.      *)
(***************************************************************************)
\* A normalized range ends within the object.
Bounded == D!Ranged => asked[1].end <= long - 1

\* All bytes asked for, from the right place.
AllOut == delivered = D!Expected /\ body.from = D!Start

\* What the reader and the body have in common.
Reading ==
    /\ phase \in {"idle", "url", "resolve", "get"} => delivered = 0
    /\ phase \in {"idle", "url", "resolve", "get", "read"} => ~checked
    /\ phase = "read" =>
          /\ D!ValidRange /\ body.from = D!Start /\ remaining + delivered = D!Expected
          /\ ~faulted => body.left = remaining /\ body.ends = "eof"
    /\ checked => AllOut

\* The inductive invariant.
DownloadIInv == D!TypeOK /\ Bounded /\ Reading /\ CleanEndIsWhole /\ HonestServiceSuffices

\* The first element of a sequence that is not empty.
LEMMA FirstIs ==
    ASSUME NEW S, NEW s \in Seq(S), s # <<>>
    PROVE  1 \in 1..Len(s) /\ s[1] \in S
OBVIOUS

\* A valid range ends within the object, so what is asked for is a number of
\* bytes.
LEMMA RangeIs ==
    ASSUME D!TypeOK, Bounded, D!ValidRange
    PROVE  /\ MaxLength \in Nat /\ long \in 0..MaxLength
           /\ D!Start \in Int /\ D!Start >= 0 /\ D!End \in Int
           /\ D!Expected \in Nat /\ D!Expected <= long
           /\ D!Expected > 0 => D!Start <= MaxLength
<1>1. MaxLength \in Nat /\ long \in 0..MaxLength /\ asked \in Seq([start : Int, end : Int])
  BY MCReadsAssumption DEF D!DownloadAssumption, D!TypeOK
<1>2. CASE D!Ranged
  <2>1. 1 \in 1..Len(asked) /\ asked[1] \in [start : Int, end : Int]
    BY <1>1, <1>2, FirstIs DEF D!Ranged
  <2>2. 0 <= asked[1].start /\ asked[1].start <= asked[1].end /\ asked[1].end <= long - 1
    BY <1>2, <2>1 DEF D!ValidRange, Bounded
  <2> QED
    BY <1>1, <1>2, <2>1, <2>2 DEF D!Start, D!End, D!Expected
<1>3. CASE ~D!Ranged
  BY <1>1, <1>3 DEF D!Start, D!End, D!Expected
<1> QED
  BY <1>2, <1>3

\* The initial state satisfies the inductive invariant.
LEMMA DownloadInit == D!Init => DownloadIInv
<1> SUFFICES ASSUME D!Init PROVE DownloadIInv
  OBVIOUS
<1>1. MaxLength \in Nat
  BY MCReadsAssumption DEF D!DownloadAssumption
<1>2. D!TypeOK
  <2>1. asked \in Seq([start : Int, end : Int])
    BY DEF D!Init
  <2>2. body \in D!Body
    BY <1>1 DEF D!Init, D!Body
  <2>3. /\ phase = "idle" /\ long \in 0..MaxLength /\ attempt \in 1..2
        /\ remaining \in 0..MaxLength /\ delivered \in 0..MaxLength
        /\ checked \in BOOLEAN /\ faulted \in BOOLEAN
    <3>1. 0 \in 0..MaxLength /\ 1 \in 1..2
      BY <1>1
    <3> QED
      BY <3>1, Zenon DEF D!Init
  <2> QED
    BY <2>1, <2>2, <2>3 DEF D!TypeOK
<1> QED
  BY <1>2 DEF D!Init, DownloadIInv, Bounded, Reading, CleanEndIsWhole, HonestServiceSuffices,
              D!CleanEndIsWhole, D!HonestServiceSuffices, D!Ranged

(***************************************************************************)
(* Open normalizes the ranges to the object, if it can.                    *)
(***************************************************************************)
LEMMA OpenDownload ==
    ASSUME DownloadIInv, NEW s \in 0..MaxLength, NEW o \in Options, D!Open(s, o)
    PROVE  DownloadIInv'
<1>1. MaxLength \in Nat /\ o \in Seq(D!Range) /\ Len(o) \in Nat
  BY MCReadsAssumption DEF D!DownloadAssumption
<1>2. /\ phase = "idle" /\ long' = s
      /\ asked' = [i \in 1..Len(o) |-> D!FixRange(o[i], s)]
      /\ phase' = IF s = 0 THEN "eof" ELSE "url"
      /\ UNCHANGED <<attempt, remaining, checked, body, delivered, faulted>>
  BY DEF D!Open, D!reader
<1>3. \A i \in 1..Len(o) : /\ D!FixRange(o[i], s) \in [start : Int, end : Int]
                           /\ D!FixRange(o[i], s).end <= s - 1
  <2> SUFFICES ASSUME NEW i \in 1..Len(o)
               PROVE  /\ D!FixRange(o[i], s) \in [start : Int, end : Int]
                      /\ D!FixRange(o[i], s).end <= s - 1
    OBVIOUS
  <2>1. o[i] \in D!Range
    BY <1>1
  <2>2. o[i].start \in Int /\ o[i].end \in Int /\ s \in Int
    BY <1>1, <2>1 DEF D!Range, D!Edge, D!None
  <2> QED
    BY <2>2 DEF D!FixRange, D!None
<1>4. asked' \in Seq([start : Int, end : Int])
  BY <1>1, <1>2, <1>3
<1>5. Bounded'
  <2> SUFFICES ASSUME asked' # <<>> PROVE asked'[1].end <= s - 1
    BY <1>2 DEF Bounded, D!Ranged
  <2>1. 1 \in 1..Len(o)
    BY <1>1, <1>2
  <2> QED
    BY <1>2, <1>3, <2>1
<1>6. D!TypeOK'
  BY <1>2, <1>4 DEF DownloadIInv, D!TypeOK
<1> QED
  BY <1>2, <1>5, <1>6 DEF DownloadIInv, Reading, CleanEndIsWhole, HonestServiceSuffices,
                          D!CleanEndIsWhole, D!HonestServiceSuffices

(***************************************************************************)
(* A link fails, or leads on.                                              *)
(***************************************************************************)
LEMMA FollowDownload ==
    ASSUME DownloadIInv, D!Follow("url", "resolve") \/ D!Follow("resolve", "get")
    PROVE  DownloadIInv'
<1>1. /\ phase \in {"url", "resolve"} /\ phase' \in {"resolve", "get", "error"}
      /\ phase' = "error" => faulted' = TRUE
      /\ phase' # "error" => faulted' = faulted
      /\ UNCHANGED <<long, asked, attempt, remaining, checked, body, delivered>>
  BY DEF D!Follow, D!reader
<1>2. faulted' \in BOOLEAN
  BY <1>1 DEF DownloadIInv, D!TypeOK
<1>3. D!TypeOK' /\ Bounded'
  BY <1>1, <1>2 DEF DownloadIInv, D!TypeOK, Bounded, D!Ranged
<1>4. Reading' /\ CleanEndIsWhole' /\ HonestServiceSuffices'
  BY <1>1 DEF DownloadIInv, Reading, CleanEndIsWhole, HonestServiceSuffices,
              D!CleanEndIsWhole, D!HonestServiceSuffices
<1> QED
  BY <1>3, <1>4 DEF DownloadIInv

(***************************************************************************)
(* A response is accepted, worth another attempt, or the end.              *)
(***************************************************************************)
LEMMA GetDownload == ASSUME DownloadIInv, D!Get PROVE DownloadIInv'
<1>1. /\ phase = "get" /\ delivered = 0 /\ ~checked
      /\ UNCHANGED <<long, asked, checked, delivered>>
  BY DEF D!Get, DownloadIInv, Reading
<1>2. /\ D!Start' = D!Start /\ D!Expected' = D!Expected /\ D!ValidRange' = D!ValidRange
      /\ Bounded'
  BY <1>1 DEF D!Start, D!End, D!Expected, D!ValidRange, D!Ranged, DownloadIInv, Bounded
<1>3. ASSUME phase' \in {"url", "error"}, attempt' \in {attempt, 2}, UNCHANGED <<remaining, body>>,
             faulted' \in BOOLEAN, phase' = "error" => faulted' \/ ~D!ValidRange
      PROVE  DownloadIInv'
  <2>1. D!TypeOK'
    <3>1. attempt' \in 1..2
      BY <1>3 DEF DownloadIInv, D!TypeOK
    <3> QED
      BY <1>1, <1>3, <3>1 DEF DownloadIInv, D!TypeOK
  <2>2. Reading' /\ CleanEndIsWhole' /\ HonestServiceSuffices'
    BY <1>1, <1>2, <1>3 DEF Reading, CleanEndIsWhole, HonestServiceSuffices,
                            D!CleanEndIsWhole, D!HonestServiceSuffices
  <2> QED
    BY <1>2, <2>1, <2>2 DEF DownloadIInv
<1>4. CASE phase' = "error" /\ faulted' = TRUE /\ UNCHANGED <<attempt, remaining, body>>
  BY <1>3, <1>4
<1>5. ASSUME NEW r \in D!Response, D!Receive(r) PROVE DownloadIInv'
  <2>1. faulted' = (faulted \/ ~(D!Honest(r) \/ (r.status = 403 /\ attempt = 1)))
    BY <1>5 DEF D!Receive
  <2>2. CASE D!Accepts(r)
    <3>1. /\ phase' = "read" /\ remaining' = D!Expected /\ attempt' = attempt
          /\ body' = [from |-> IF r.status = 206 THEN r.first ELSE 0, left |-> r.left, ends |-> r.ends]
      BY <1>5, <2>2 DEF D!Receive
    <3>2. D!ValidRange /\ r.status # 403 /\ (IF r.status = 206 THEN r.first ELSE 0) = D!Start
      BY <2>2 DEF D!Accepts, D!Start
    <3>3. /\ MaxLength \in Nat /\ long \in 0..MaxLength /\ D!Expected \in Nat /\ D!Expected <= long
      BY <3>2, RangeIs DEF DownloadIInv
    <3>4. r.first \in 0..MaxLength /\ r.left \in 0..MaxLength + 1 /\ r.ends \in {"eof", "error"}
      BY DEF D!Response
    <3>5. D!TypeOK'
      <4>1. remaining' \in 0..MaxLength
        BY <3>1, <3>3
      <4>2. body' \in D!Body
        <5>1. (IF r.status = 206 THEN r.first ELSE 0) \in 0..MaxLength + 1 /\ r.left \in 0..MaxLength + 2
          BY <3>3, <3>4
        <5> QED
          BY <3>1, <3>4, <5>1 DEF D!Body
      <4>3. faulted' \in BOOLEAN
        BY <2>1
      <4> QED
        BY <1>1, <3>1, <4>1, <4>2, <4>3 DEF DownloadIInv, D!TypeOK
    <3>6. Reading'
      <4>1. body'.from = D!Start /\ body'.left = r.left /\ body'.ends = r.ends
        BY <3>1, <3>2
      <4>2. ~faulted' => r.left = D!Expected /\ r.ends = "eof"
        BY <2>1, <3>2 DEF D!Honest
      <4>3. remaining' + delivered' = D!Expected
        BY <1>1, <3>1, <3>3
      <4> QED
        BY <1>1, <1>2, <3>1, <3>2, <4>1, <4>2, <4>3 DEF Reading
    <3> QED
      BY <1>2, <3>1, <3>5, <3>6 DEF DownloadIInv, CleanEndIsWhole, HonestServiceSuffices,
                                    D!CleanEndIsWhole, D!HonestServiceSuffices
  <2>3. CASE ~D!Accepts(r)
    <3>1. /\ phase' \in {"url", "error"} /\ attempt' \in {attempt, 2} /\ UNCHANGED <<remaining, body>>
          /\ phase' = "error" => ~D!MayRetry(r)
      BY <1>5, <2>3 DEF D!Receive
    <3>2. D!Honest(r) => ~D!ValidRange
      BY <2>3 DEF D!Honest, D!Accepts
    <3> QED
      BY <1>3, <2>1, <3>1, <3>2 DEF D!MayRetry
  <2> QED
    BY <2>2, <2>3
<1> QED
  BY <1>4, <1>5 DEF D!Get

(***************************************************************************)
(* The reader hands out bytes, probes for more than were announced, and is *)
(* read again after it reported them.                                      *)
(***************************************************************************)
LEMMA ReadDownload ==
    ASSUME DownloadIInv, (\E n \in 0..MaxLength : D!Read(n)) \/ D!Probe \/ D!ReadAgain
    PROVE  DownloadIInv'
<1>1. UNCHANGED <<long, asked, attempt, faulted>>
  BY DEF D!Read, D!Probe, D!ReadAgain, D!reader
<1>2. /\ D!Start' = D!Start /\ D!Expected' = D!Expected /\ D!ValidRange' = D!ValidRange
      /\ Bounded'
  BY <1>1 DEF D!Start, D!End, D!Expected, D!ValidRange, D!Ranged, DownloadIInv, Bounded
<1>3. /\ D!TypeOK /\ MaxLength \in Nat
      /\ remaining \in 0..MaxLength /\ delivered \in 0..MaxLength
      /\ body \in D!Body /\ body.left \in 0..MaxLength + 2
  BY MCReadsAssumption DEF D!DownloadAssumption, DownloadIInv, D!TypeOK, D!Body
<1>4. ASSUME phase = "read"
      PROVE  /\ D!ValidRange /\ body.from = D!Start /\ remaining + delivered = D!Expected /\ ~checked
             /\ ~faulted => body.left = remaining /\ body.ends = "eof"
             /\ D!Expected \in Nat /\ D!Expected <= MaxLength
  <2>1. /\ D!ValidRange /\ body.from = D!Start /\ remaining + delivered = D!Expected /\ ~checked
        /\ ~faulted => body.left = remaining /\ body.ends = "eof"
    BY <1>4 DEF DownloadIInv, Reading
  <2>2. /\ D!Expected \in Nat /\ D!Expected <= long /\ long \in 0..MaxLength
    BY <2>1, RangeIs DEF DownloadIInv
  <2> QED
    BY <1>3, <2>1, <2>2
<1>5. ASSUME NEW n \in 0..MaxLength, D!Read(n) PROVE DownloadIInv'
  <2>1. /\ phase = "read" /\ remaining > 0 /\ n <= remaining /\ n <= body.left
        /\ remaining' = remaining - n /\ delivered' = delivered + n /\ checked' = checked
        /\ body' = [body EXCEPT !.left = @ - n]
    BY <1>5 DEF D!Read
  <2>2. phase' = "read" \/ (body.left = n /\ phase' = D!EndOfBody)
    BY <1>5, <2>1 DEF D!Read
  <2>3. /\ body'.from = body.from /\ body'.ends = body.ends /\ body'.left = body.left - n
        /\ body' \in D!Body
    <3>1. body.left - n \in 0..MaxLength + 2
      BY <1>3, <2>1
    <3> QED
      BY <1>3, <2>1, <3>1 DEF D!Body
  <2>4. remaining' + delivered' = D!Expected /\ remaining' \in 0..MaxLength /\ delivered' \in 0..MaxLength
    BY <1>3, <1>4, <2>1
  <2>5. ~faulted => body'.left = remaining' /\ body'.ends = "eof"
    BY <1>3, <1>4, <2>1, <2>3
  <2>6. phase' = "eof" => remaining' = 0 /\ delivered' = D!Expected
    BY <1>3, <2>2, <2>4 DEF D!EndOfBody
  <2>7. phase' = "error" => faulted
    BY <1>3, <2>2, <2>3, <2>5 DEF D!EndOfBody
  <2>8. D!TypeOK'
    <3>1. phase' \in {"read", "eof", "error"}
      BY <2>2 DEF D!EndOfBody
    <3> QED
      BY <1>1, <1>3, <2>1, <2>3, <2>4, <3>1 DEF D!TypeOK
  <2>9. Reading'
    BY <1>1, <1>2, <1>4, <2>1, <2>2, <2>3, <2>4, <2>5 DEF Reading, D!EndOfBody
  <2> QED
    BY <1>1, <1>2, <1>4, <2>1, <2>3, <2>6, <2>7, <2>8, <2>9
       DEF DownloadIInv, CleanEndIsWhole, HonestServiceSuffices, D!CleanEndIsWhole, D!HonestServiceSuffices
<1>6. CASE D!Probe
  <2>1. /\ phase = "read" /\ remaining = 0 /\ checked' = TRUE /\ UNCHANGED <<remaining, body, delivered>>
        /\ phase' = IF body.left = 0 /\ body.ends = "eof" THEN "eof" ELSE "error"
    BY <1>6 DEF D!Probe
  <2>2. AllOut /\ delivered = D!Expected
    BY <1>3, <1>4, <2>1 DEF AllOut
  <2>3. D!TypeOK'
    BY <1>1, <1>3, <2>1 DEF D!TypeOK
  <2>4. AllOut'
    BY <1>2, <2>1, <2>2 DEF AllOut
  <2>5. phase' = "error" => faulted
    BY <1>4, <2>1
  <2> QED
    BY <1>1, <1>2, <2>1, <2>3, <2>4, <2>5
       DEF DownloadIInv, Reading, AllOut, CleanEndIsWhole, HonestServiceSuffices,
           D!CleanEndIsWhole, D!HonestServiceSuffices
<1>7. CASE D!ReadAgain
  <2>1. phase = "error" /\ checked /\ phase' = "eof" /\ UNCHANGED <<remaining, checked, body, delivered>>
    BY <1>7 DEF D!ReadAgain, D!reader
  <2>2. D!TypeOK'
    BY <1>1, <1>3, <2>1 DEF D!TypeOK
  <2>3. AllOut'
    BY <1>2, <2>1 DEF DownloadIInv, Reading, AllOut
  <2> QED
    BY <1>1, <1>2, <2>1, <2>2, <2>3
       DEF DownloadIInv, Reading, AllOut, CleanEndIsWhole, HonestServiceSuffices,
           D!CleanEndIsWhole, D!HonestServiceSuffices
<1> QED
  BY <1>5, <1>6, <1>7

(***************************************************************************)
(* Every state of a download satisfies DownloadIInv: it is inductive.      *)
(***************************************************************************)
THEOREM DownloadInductive == D!Spec => []DownloadIInv
<1>1. DownloadIInv /\ [D!Next]_D!vars => DownloadIInv'
  <2> SUFFICES ASSUME DownloadIInv, [D!Next]_D!vars PROVE DownloadIInv'
    OBVIOUS
  <2>1. CASE D!Finished \/ UNCHANGED D!vars
    BY <2>1 DEF D!Finished, D!vars, D!reader, DownloadIInv, D!TypeOK, Bounded, Reading, AllOut,
                CleanEndIsWhole, HonestServiceSuffices, D!CleanEndIsWhole, D!HonestServiceSuffices,
                D!ValidRange, D!Ranged, D!Expected, D!Start, D!End
  <2> QED
    BY <2>1, OpenDownload, FollowDownload, GetDownload, ReadDownload DEF D!Next, D!Step
<1> QED
  BY <1>1, DownloadInit, PTL DEF D!Spec

(***************************************************************************)
(* A caller that reads to a clean end has all the bytes it asked for and   *)
(* no other ones (Open, exactReadCloser.Read).                             *)
(***************************************************************************)
THEOREM CleanEndsAreWhole == D!Spec => []CleanEndIsWhole
<1>1. DownloadIInv => CleanEndIsWhole
  BY DEF DownloadIInv
<1> QED
  BY <1>1, DownloadInductive, PTL

(***************************************************************************)
(* No honest response to a valid range is refused, and one expired link is *)
(* replaced (validateDownloadResponse, Open).                              *)
(***************************************************************************)
THEOREM HonestServiceIsEnough == D!Spec => []HonestServiceSuffices
<1>1. DownloadIInv => HonestServiceSuffices
  BY DEF DownloadIInv
<1> QED
  BY <1>1, DownloadInductive, PTL

-----------------------------------------------------------------------------
(***************************************************************************)
(* A behaviour of the three readers, of which one runs, is a behaviour of  *)
(* each; so each property holds of them together.                          *)
(***************************************************************************)
THEOREM ReadersRun == ReadsSpec => L!Spec /\ O!Spec /\ D!Spec
<1>1. ReadsInit => L!Init /\ O!Init /\ D!Init
  BY DEF ReadsInit
<1>2. [ReadsNext]_all => [L!Next]_L!vars
  BY DEF ReadsNext, all, listing, L!vars, L!reader, L!observed
<1>3. [ReadsNext]_all => [O!Next]_O!vars
  BY DEF ReadsNext, all, offline, O!vars, O!call, O!paging
<1>4. [ReadsNext]_all => [D!Next]_D!vars
  BY DEF ReadsNext, all, download, D!vars, D!reader
<1> QED
  BY <1>1, <1>2, <1>3, <1>4, PTL DEF ReadsSpec, L!Spec, O!Spec, D!Spec

(***************************************************************************)
(* All that is said of the readers holds in every behaviour of a run.      *)
(***************************************************************************)
THEOREM EveryReaderKeepsItsWord ==
    ReadsSpec => [](ExactIfStill /\ NothingMissed /\ DeleteTellsTheTruth /\ CleanEndIsWhole /\ HonestServiceSuffices)
BY ReadersRun, ListingsAreExact, NobodyIsMissed, DeletionsAreJudged, CleanEndsAreWhole,
   HonestServiceIsEnough, PTL
=============================================================================
