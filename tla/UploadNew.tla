----------------------------- MODULE UploadNew -----------------------------
(***************************************************************************)
(* uploadNew: one upload, from the upload request to the verified object   *)
(* (upload.go, multipart.go).  The service may know the content already    *)
(* (reuse); otherwise the file goes up in parts, batch by batch: a         *)
(* producer reads the parts and starts a worker for each, at most          *)
(* Concurrency at a time, and the workers PUT them to presigned URLs.      *)
(* URLs expire; the workers of a batch refresh them together through a     *)
(* singleflight group.                                                     *)
(***************************************************************************)
EXTENDS Integers, FiniteSets

CONSTANTS Parts,        \* number of parts of the file (uploadPartCount)
          BatchSize,    \* parts per batch of URLs (uploadBatchSize)
          Concurrency,  \* workers at a time (upload_concurrency)
          Attempts,     \* attempts per part
          MaxVersion,   \* bound: URL sets the service signs for one batch
          Nobody        \* leader of no refresh

ASSUME UploadAssumption ==
    /\ {Parts, BatchSize, Concurrency, Attempts, MaxVersion} \subseteq Nat \ {0}
    /\ Nobody \notin 1..Parts

Part == 1..Parts

VARIABLES pc,        \* the step of uploadNew and uploadPresigned
          object,    \* the file on the drive: "absent", "promised", "visible", "wrong"
          reply,     \* what the upload request returned: key and ID there?
          source,    \* what reading the source turns out to give
          next,      \* the part the producer reads next
          broken,    \* producerErr # nil
          worker,    \* the state of the worker of each part
          tries,     \* its failed attempts
          failed,    \* the URL set of its rejected PUT (failedURL)
          version,   \* the batch's current URL set
          live,      \* does the service accept that URL set?
          leader,    \* who runs the refresh of the singleflight group
          cancelled  \* the caller's context is cancelled

upload == <<pc, object, reply, source, next, broken>>
workers == <<worker, tries, failed, leader>>
urls == <<version, live>>
vars == <<upload, workers, urls, cancelled>>

Idle == {"none", "stored", "failed"}

TypeOK ==
    /\ pc \in {"request", "inspect", "sign", "produce", "wait", "finish", "complete",
               "verify", "ok", "error"}
    /\ object \in {"absent", "promised", "visible", "wrong"}
    /\ reply \in [key : BOOLEAN, id : BOOLEAN]
    /\ source \in {"good", "changed", "short", "long"}
    /\ next \in 1..Parts + 1
    /\ broken \in BOOLEAN /\ cancelled \in BOOLEAN /\ live \in BOOLEAN
    /\ worker \in [Part -> Idle \cup {"put", "rejected", "flight", "lead", "ask", "joined"}]
    /\ tries \in [Part -> 0..Attempts]
    /\ failed \in [Part -> 0..MaxVersion]
    /\ version \in 0..MaxVersion
    /\ leader \in Part \cup {Nobody}

Init ==
    /\ pc = "request"
    /\ object = "absent"
    /\ reply = [key |-> FALSE, id |-> FALSE]
    /\ source \in {"good", "changed", "short", "long"}
    /\ next = 1
    /\ broken = FALSE
    /\ worker = [p \in Part |-> "none"]
    /\ tries = [p \in Part |-> 0]
    /\ failed = [p \in Part |-> 0]
    /\ version = 0
    /\ live = FALSE
    /\ leader = Nobody
    /\ cancelled = FALSE

-----------------------------------------------------------------------------
\* X_Suffix is a deliberate mistake in X, used to show that a property can
\* fail; no action of the specification uses it.

Active == {p \in Part : worker[p] \notin Idle}

\* errgroup: the context of a batch ends with its first failed worker.
GroupDone == cancelled \/ \E p \in Part : worker[p] = "failed"

\* The batch a part belongs to, and its last part.
Batch(p) == (p - 1) \div BatchSize
LastOf(p) == LET end == (Batch(p) + 1) * BatchSize IN IF end < Parts THEN end ELSE Parts

\* The upload request, sent once: it fails, names an upload, or says that the
\* content is known, with or without an ID and a key to upload to.
Request ==
    /\ pc = "request"
    /\ \/ object' \in {"absent", "promised", "visible"} /\ pc' = "error" /\ UNCHANGED reply
       \/ pc' = "sign" /\ reply' = [key |-> TRUE, id |-> TRUE] /\ UNCHANGED object
       \/ /\ object' \in {"absent", "promised", "visible", "wrong"}
          /\ reply' \in [key : BOOLEAN, id : BOOLEAN]
          /\ pc' = "inspect"
    /\ UNCHANGED <<source, next, broken, workers, urls, cancelled>>

\* rapidUpload after a reuse: inspectUpload, then the supplied key if the
\* object is not listed, else verifyUpload.
AfterInspect ==
    IF object = "visible" THEN "ok"
    ELSE IF object = "wrong" \/ ~reply.id THEN "error"
    ELSE IF reply.key THEN "sign"
    ELSE "verify"

Inspect ==
    /\ pc = "inspect"
    /\ pc' \in {AfterInspect, "error"}
    /\ UNCHANGED <<object, reply, source, next, broken, workers, urls, cancelled>>

\* The service: a promised object appears, or never will.
Develop ==
    /\ object = "promised"
    /\ object' \in {"visible", "absent"}
    /\ UNCHANGED <<pc, reply, source, next, broken, workers, urls, cancelled>>

-----------------------------------------------------------------------------
\* uploadPresigned: the URLs of the next batch (and, before the first,
\* checkNewMultipartUpload).
Sign ==
    /\ pc = "sign"
    /\ \/ pc' = "produce" /\ version' = 1 /\ live' = TRUE
       \/ pc' = "error" /\ UNCHANGED urls
    /\ UNCHANGED <<object, reply, source, next, broken, workers, cancelled>>

SlotFree == Cardinality(Active) < Concurrency

\* The producer takes a slot, reads a part and starts its worker.
Produce ==
    /\ pc = "produce"
    /\ ~broken
    /\ SlotFree
    /\ IF source = "short" /\ next = Parts
       THEN broken' = TRUE /\ pc' = "wait" /\ UNCHANGED <<next, worker>>
       ELSE /\ worker' = [worker EXCEPT ![next] = "put"]
            /\ next' = next + 1
            /\ pc' = IF next = LastOf(next) THEN "wait" ELSE pc
            /\ UNCHANGED broken
    /\ UNCHANGED <<object, reply, source, tries, failed, leader, urls, cancelled>>

\* The producer sees the end of the group's context instead.
StopProducing ==
    /\ pc = "produce"
    /\ GroupDone
    /\ broken' = TRUE
    /\ pc' = "wait"
    /\ UNCHANGED <<object, reply, source, next, workers, urls, cancelled>>

\* group.Wait, and the errors of the producer and of the workers.
AfterBatch_IgnoreWorkers == IF broken THEN "error" ELSE IF next <= Parts THEN "sign" ELSE "finish"
AfterBatch ==
    IF broken \/ \E p \in Part : worker[p] = "failed" THEN "error"
    ELSE IF next <= Parts THEN "sign"
    ELSE "finish"

BatchOver == Active = {}

Wait ==
    /\ pc = "wait"
    /\ BatchOver
    /\ pc' = AfterBatch
    /\ UNCHANGED <<object, reply, source, next, broken, workers, urls, cancelled>>

\* No byte may follow, and the MD5 must be the declared one.
Finish ==
    /\ pc = "finish"
    /\ pc' = IF source = "good" THEN "complete" ELSE "error"
    /\ UNCHANGED <<object, reply, source, next, broken, workers, urls, cancelled>>

\* The service assembles the parts it has.
Assembled == IF \A p \in Part : worker[p] = "stored" THEN "visible" ELSE "wrong"

\* upload_complete is sent once.  Verified afterwards, whatever is answered,
\* except for an answer that describes another file.
AfterComplete_Trusting == {"ok", "verify", "error"}
AfterComplete == {"verify", "error"}

Complete ==
    /\ pc = "complete"
    /\ IF object \in {"absent", "promised"}
       THEN object' \in {object, "promised", Assembled}
       ELSE UNCHANGED object
    /\ pc' \in AfterComplete
    /\ UNCHANGED <<reply, source, next, broken, workers, urls, cancelled>>

\* verifyUpload: until the object is listed or the deadline has passed.
Verify ==
    /\ pc = "verify"
    /\ \/ object = "visible" /\ pc' = "ok"
       \/ pc' = "error"
    /\ UNCHANGED <<object, reply, source, next, broken, workers, urls, cancelled>>

-----------------------------------------------------------------------------
\* An attempt of each part of S is over without success.
EndAttempt(S) ==
    /\ tries' = [p \in Part |-> IF p \in S THEN tries[p] + 1 ELSE tries[p]]
    /\ worker' = [p \in Part |->
            IF p \notin S THEN worker[p] ELSE IF tries[p] + 1 < Attempts THEN "put" ELSE "failed"]

Become(S, state) ==
    /\ worker' = [p \in Part |-> IF p \in S THEN state ELSE worker[p]]
    /\ UNCHANGED tries

\* One PUT to the part's current URL: 200, 403, an error to try again after, or
\* the end (also that of the context).
Put(p) ==
    /\ worker[p] = "put"
    /\ \/ live /\ Become({p}, "stored") /\ UNCHANGED failed
       \/ ~live /\ Become({p}, "rejected") /\ failed' = [failed EXCEPT ![p] = version]
       \/ ~GroupDone /\ EndAttempt({p}) /\ UNCHANGED failed
       \/ Become({p}, "failed") /\ UNCHANGED failed
    /\ UNCHANGED <<upload, urls, leader, cancelled>>

Replaced_Never(p) == FALSE
Replaced(p) == version # failed[p]

\* refreshURLs: the first look at the current URL, outside the group.
LookFirst(p) ==
    /\ worker[p] = "rejected"
    /\ IF version = failed[p] THEN Become({p}, "flight") ELSE EndAttempt({p})
    /\ UNCHANGED <<upload, urls, failed, leader, cancelled>>

\* refresh.Do: lead, or wait for who leads.
EnterFlight(p) ==
    /\ worker[p] = "flight"
    /\ IF leader = Nobody
       THEN leader' = p /\ Become({p}, "lead")
       ELSE Become({p}, "joined") /\ UNCHANGED leader
    /\ UNCHANGED <<upload, urls, failed, cancelled>>

\* The leader and all that wait for it get one result.
Crew_Alone(p) == {p}
Crew(p) == {p} \cup {q \in Part : worker[q] = "joined"}

\* The second look, by the leader; then it asks for new URLs.
Lead(p) ==
    /\ worker[p] = "lead"
    /\ IF Replaced(p)
       THEN EndAttempt(Crew(p)) /\ leader' = Nobody
       ELSE Become({p}, "ask") /\ UNCHANGED leader
    /\ UNCHANGED <<upload, urls, failed, cancelled>>

Ask(p) ==
    /\ worker[p] = "ask"
    /\ leader' = Nobody
    /\ \/ /\ version < MaxVersion
          /\ version' = version + 1
          /\ live' = TRUE
          /\ EndAttempt(Crew(p))
       \/ Become(Crew(p), "failed") /\ UNCHANGED urls
    /\ UNCHANGED <<upload, failed, cancelled>>

\* The service: the URLs expire.  The caller: the context is cancelled.
Expire ==
    /\ live
    /\ live' = FALSE
    /\ UNCHANGED <<upload, workers, version, cancelled>>

Cancel ==
    /\ ~cancelled
    /\ cancelled' = TRUE
    /\ UNCHANGED <<upload, workers, urls>>

Finished == pc \in {"ok", "error"} /\ Active = {} /\ UNCHANGED vars

Main == Request \/ Inspect \/ Sign \/ Produce \/ StopProducing \/ Wait \/ Finish \/ Complete \/ Verify

Worker(p) == Put(p) \/ LookFirst(p) \/ EnterFlight(p) \/ Lead(p) \/ Ask(p)

Next == Main \/ (\E p \in Part : Worker(p)) \/ Develop \/ Expire \/ Cancel \/ Finished

Spec == Init /\ [][Next]_vars

\* Goroutines go on; requests return or fail, listings have a deadline.
FairSpec == Spec /\ WF_vars(Main) /\ \A p \in Part : WF_vars(Worker(p))

-----------------------------------------------------------------------------
(***************************************************************************)
(* upload_complete is requested only when every part of every batch was    *)
(* stored, with the declared content, whatever failed, was repeated or was *)
(* cancelled before.                                                       *)
(***************************************************************************)
CompleteOnlyWhole == pc = "complete" => source = "good" /\ \A p \in Part : worker[p] = "stored"

(***************************************************************************)
(* docs/123pan.md: concurrent 403s are coordinated into one refresh of the *)
(* batch.  New URLs are never asked for while the current ones are good.   *)
(***************************************************************************)
NoNeedlessRefresh == \A p \in Part : worker[p] = "ask" => ~live

(***************************************************************************)
(* No worker outlives its batch: when uploadPresigned goes on or returns,  *)
(* with an error too, nobody still writes parts or holds their bytes.      *)
(***************************************************************************)
NoOrphanWorkers == pc \notin {"produce", "wait"} => Active = {}

(***************************************************************************)
(* uploadNew keeps its promise to Put and Update.                          *)
(***************************************************************************)
Answer == IF pc \in {"ok", "error"} THEN pc ELSE "none"

Promise == INSTANCE UploadPromise WITH answer <- Answer
KeepsPromise == Promise!Spec

(***************************************************************************)
(* Every upload returns: the producer does not wait for ever for a slot,   *)
(* nor a worker for a refresh.                                             *)
(***************************************************************************)
UploadReturns == <>(pc \in {"ok", "error"})
=============================================================================
