----------------------------- MODULE SceneJobs -----------------------------
(***************************************************************************)
(* The scene-description pipeline: the domain service that owns the jobs,  *)
(* the upload sessions and the provider ledger (services/domain), the SQS  *)
(* worker that claims a job and calls the provider (services/worker), the  *)
(* processing queue, the preview bucket and the passing of time.           *)
(*                                                                         *)
(* One action is one database transaction, with the dispatch that follows  *)
(* its commit; a worker may crash between any two of them.                 *)
(***************************************************************************)
EXTENDS SceneLedger

CONSTANTS
  Workers,          \* concurrent executions of the enrichment Lambda
  NoPhoto,
  Costs,            \* amounts the provider may bill for one call
  RedeliveryOutlastsLease
     \* environment: a message is redelivered only once the lease of the
     \* delivery that died has expired

ASSUME WorkersAssumption == IsFiniteSet(Workers) /\ NoPhoto \notin Photos
ASSUME CostsAssumption == Costs # {} /\ Costs \subseteq 1 .. Reservation
ASSUME RedeliveryAssumption == RedeliveryOutlastsLease \in BOOLEAN

VARIABLES
  month,      \* the current usage month
  active,     \* photos whose asset is Active (the others are Trashed)
  described,  \* photos with a current description
  job, ledger,
  upload,     \* upload[p][n]: status of the photo's n-th upload session
  object,     \* object[p]: sessions whose preview is in the bucket
  queue,      \* messages that SQS still holds
  worker,
  calls,      \* history: provider calls opened, per month they were paid in
  billed      \* history: what the provider bills for them

serverVars == <<active, described, job, ledger, upload, object>>
history == <<calls, billed>>
vars == <<month, active, described, job, ledger, upload, object, queue,
          worker, calls, billed>>

(* "Lapsed" is a session still stored as Uploading whose lease ran out.    *)
UploadStatus == {"None", "Uploading", "Lapsed", "Completed", "Expired",
                 "Cancelled"}
OpenUpload == {"Uploading", "Lapsed"}      \* active_lease_marker = 1

Phase == {"idle", "claimed", "refused", "reserved", "paid", "answered",
          "cleanup", "ack"}
Answer == {"None", "Success", "Invalid", "Auth", "Quota", "Transient",
           "Internal"}

WorkerRecord ==
  [phase : Phase, msg : Messages \cup {NoMessage},
   photo : Photos \cup {NoPhoto}, up : {None} \cup UploadIds,
   paid : {None} \cup Months, answer : Answer, cost : {0} \cup Costs]

Idle == [phase |-> "idle", msg |-> NoMessage, photo |-> NoPhoto, up |-> None,
         paid |-> None, answer |-> "None", cost |-> 0]

TypeOK ==
  /\ month \in Months
  /\ active \subseteq Photos
  /\ described \subseteq Photos
  /\ job \in [Photos -> JobRecord]
  /\ ledger \in [Months -> LedgerRow]
  /\ upload \in [Photos -> [UploadIds -> UploadStatus]]
  /\ object \in [Photos -> SUBSET UploadIds]
  /\ queue \subseteq [id : Messages, photo : Photos]
  /\ worker \in [Workers -> WorkerRecord]
  /\ \A w \in Workers :
       worker[w].phase # "idle" => worker[w].photo \in Photos
  /\ calls \in [Months -> Nat]
  /\ billed \in [Months -> Nat]

Init ==
  /\ month = 1
  /\ active = Photos
  /\ described = {}
  /\ job = [p \in Photos |-> NoJob]
  /\ ledger = [m \in Months |-> EmptyRow]
  /\ upload = [p \in Photos |-> [n \in UploadIds |-> "None"]]
  /\ object = [p \in Photos |-> {}]
  /\ queue = {}
  /\ worker = [w \in Workers |-> Idle]
  /\ calls = [m \in Months |-> 0]
  /\ billed = [m \in Months |-> 0]

-----------------------------------------------------------------------------
(* Transactions read and write the books. *)
books == [jobs |-> job, ledger |-> ledger]
Commit(b) == job' = b.jobs /\ ledger' = b.ledger

Busy == {w \in Workers : worker[w].phase # "idle"}
FreshMessages ==
  Messages \ ({m.id : m \in queue} \cup {job[p].lease : p \in Photos}
                                   \cup {worker[w].msg : w \in Busy})

(* A dispatch that arrives; once all identities are in use, the copies     *)
(* already queued stand for it.                                            *)
Send(p) ==
  IF FreshMessages = {} THEN UNCHANGED queue
  ELSE \E id \in FreshMessages :
         queue' = queue \cup {[id |-> id, photo |-> p]}

(* _dispatch_after_commit: a failed dispatch is logged and forgotten.      *)
DispatchAfterCommit(p) == Send(p) \/ UNCHANGED queue

(* Sessions of a photo cancelled together with their previews.             *)
CancelUploads(p) ==
  LET live == {n \in UploadIds :
                 upload[p][n] \in OpenUpload \cup {"Completed"}} IN
  /\ upload' = [upload EXCEPT ![p] =
       [n \in UploadIds |-> IF n \in live THEN "Cancelled" ELSE @[n]]]
  /\ object' = [object EXCEPT ![p] = @ \ live]

-----------------------------------------------------------------------------
(* The client's operations *)

(* prepare_enrichment, for the row of one photo.  The row is selected for  *)
(* a description, or for a geocode when both types are requested; in       *)
(* either case the request of an existing job is rewritten if it differs.  *)
DescriptionActionable(p) ==
  p \notin described /\ job[p].status \in {"None", "Preparing"}

PrepareEnrichment(p, geocodeActionable) ==
  /\ p \in active
  /\ DescriptionActionable(p) \/ geocodeActionable
  /\ job' = [job EXCEPT ![p] =
       IF @.status = "None" THEN [@ EXCEPT !.status = "Preparing"]
       ELSE [@ EXCEPT !.req = None, !.cost = None, !.used = None,
                      !.blocked = FALSE, !.staging = None]]
  /\ UNCHANGED <<month, active, described, ledger, upload, object, queue,
                 worker, history>>

(* _expire_temporary_uploads covers every photo of the account.            *)
LapsedPhotos == {p \in Photos : \E n \in UploadIds : upload[p][n] = "Lapsed"}

ExpiredUploads ==
  [p \in Photos |-> [n \in UploadIds |->
     IF upload[p][n] = "Lapsed" THEN "Expired" ELSE upload[p][n]]]

WithoutLapsedObjects ==
  [p \in Photos |-> {n \in object[p] : upload[p][n] # "Lapsed"}]

ReleaseLapsed(b) ==
  Release({p \in LapsedPhotos : b.jobs[p].status = "Preparing"}, b)

(* create_upload_plan: a deferral that has come due is reopened, stale     *)
(* sessions of the account are expired, then a lease is held, the job is   *)
(* deferred for lack of quota, or a session is created.                    *)
Due_M(p) == job[p].status = "DeferredQuota" /\ job[p].due < month
Due(p) == job[p].status = "DeferredQuota" /\ job[p].due <= month

Reopened(p) ==
  IF Due(p)
    THEN ResetAttempts(p, Park(p, "Preparing", "None", 0, Release({p}, books)))
    ELSE books

DeferredPlan(p, b) ==
  Park(p, "DeferredQuota",
       IF b.jobs[p].blocked THEN "CircuitOpen" ELSE "MonthlyLimit",
       month + 1, b)

UnusedUploads(p) == {n \in UploadIds : upload[p][n] = "None"}

LeaseHeld_M(p) == FALSE
LeaseHeld(p) == \E n \in UploadIds : ExpiredUploads[p][n] = "Uploading"

CreateUploadPlan(p) ==
  LET b == ReleaseLapsed(Reopened(p)) IN
  /\ p \in active
  /\ p \notin described
  /\ b.jobs[p].status = "Preparing"
  /\ object' = WithoutLapsedObjects
  /\ \/ /\ LeaseHeld(p)
        /\ Commit(b)
        /\ upload' = ExpiredUploads
     \/ /\ ~LeaseHeld(p)
        /\ ~CanReserve(p, month, b)
        /\ Commit(DeferredPlan(p, Reserve(p, month, b)))
        /\ upload' = ExpiredUploads
     \/ /\ ~LeaseHeld(p)
        /\ CanReserve(p, month, b)
        /\ Commit(Reserve(p, month, b))
        /\ \E n \in UnusedUploads(p) :
             /\ \A k \in UnusedUploads(p) : n <= k
             /\ upload' = [ExpiredUploads EXCEPT ![p][n] = "Uploading"]
  /\ UNCHANGED <<month, active, described, queue, worker, history>>

(* The client's signed PUT. *)
PutPreview(p, n) ==
  /\ upload[p][n] = "Uploading"
  /\ n \notin object[p]
  /\ object' = [object EXCEPT ![p] = @ \cup {n}]
  /\ UNCHANGED <<month, active, described, job, ledger, upload, queue,
                 worker, history>>

(* get_upload_session expires the session it finds lapsed. *)
GetUploadSession(p, n) ==
  /\ upload[p][n] = "Lapsed"
  /\ upload' = [upload EXCEPT ![p][n] = "Expired"]
  /\ object' = [object EXCEPT ![p] = @ \ {n}]
  /\ Commit(IF job[p].status = "Preparing" THEN Release({p}, books)
                                           ELSE books)
  /\ UNCHANGED <<month, active, described, queue, worker, history>>

(* complete_upload: the only way from Preparing to Queued. *)
CompleteUpload(p, n) ==
  /\ upload[p][n] = "Uploading"
  /\ job[p].status = "Preparing"
  /\ n \in object[p]
  /\ upload' = [upload EXCEPT ![p][n] = "Completed"]
  /\ Commit(Park(p, "Queued", "None", 0,
                 WithJob(p, [job[p] EXCEPT !.staging = n], books)))
  /\ DispatchAfterCommit(p)
  /\ UNCHANGED <<month, active, described, object, worker, history>>

(* cancel_upload also accepts a session that has expired. *)
CancelUpload(p, n) ==
  /\ upload[p][n] \in OpenUpload \cup {"Expired"}
  /\ job[p].status = "Preparing"
  /\ upload' = [upload EXCEPT ![p][n] = "Cancelled"]
  /\ object' = [object EXCEPT ![p] = @ \ {n}]
  /\ Commit(Release({p}, ClearStaging(p, books)))
  /\ UNCHANGED <<month, active, described, queue, worker, history>>

(* retry_job; a retry while the circuit is open closes it and promotes the *)
(* other jobs it deferred (_promote_circuit_deferred_jobs).                *)
RetryAllowed(j) ==
  \/ j.status = "Failed" /\ j.attempt < MaxAttempts
  \/ j.status = "DeferredQuota"
  \/ j.status = "Cancelled" /\ j.code = "Skipped"

Promoted(p, b) ==
  [jobs |-> [q \in Photos |->
     IF /\ q # p
        /\ b.jobs[q].status = "DeferredQuota"
        /\ b.jobs[q].code = "CircuitOpen"
     THEN [b.jobs[q] EXCEPT
             !.status = "Preparing", !.attempt = 0, !.code = "None",
             !.due = 0, !.blocked = FALSE, !.staging = None,
             !.lease = NoMessage, !.expired = FALSE]
     ELSE b.jobs[q]],
   ledger |-> b.ledger]

RetryJob(p) ==
  LET b == IF job[p].status = "DeferredQuota" THEN ResetAttempts(p, books)
                                              ELSE books
      c == IF ledger[month].open THEN Promoted(p, CloseCircuit(month, b))
                                 ELSE b
  IN
  /\ RetryAllowed(job[p])
  /\ Commit(Park(p, "Preparing", "None", 0,
                 ClearStaging(p, Release({p}, c))))
  /\ UNCHANGED <<month, active, described, upload, object, queue, worker,
                 history>>

(* cancel_job: the user skips the photo. *)
CancelJob(p) ==
  /\ job[p].status \notin {"None", "Succeeded", "Cancelled"}
  /\ Commit(Park(p, "Cancelled", "Skipped", 0, SettleByCall(p, books)))
  /\ CancelUploads(p)
  /\ UNCHANGED <<month, active, described, queue, worker, history>>

(* The last occurrence of the photo is deleted: _trash_if_unreferenced and *)
(* _cancel_asset_processing.                                               *)
Trash(p) ==
  /\ p \in active
  /\ active' = active \ {p}
  /\ Commit(IF job[p].status \in {"Preparing", "Queued", "Running",
                                  "DeferredQuota"}
            THEN Park(p, "Cancelled", "MediaTrashed", 0,
                      SettleByCall(p, books))
            ELSE books)
  /\ CancelUploads(p)
  /\ UNCHANGED <<month, described, queue, worker, history>>

(* An occurrence of the photo reappears: _restore_asset. *)
Restore(p) ==
  /\ p \notin active
  /\ active' = active \cup {p}
  /\ UNCHANGED <<month, described, job, ledger, upload, object, queue,
                 worker, history>>

-----------------------------------------------------------------------------
(* The worker: DescriptionMessageProcessor.process_message, transaction by *)
(* transaction.                                                            *)
Goto(w, phase) == worker' = [worker EXCEPT ![w].phase = phase]

Receivable(m) ==
  /\ m.id \notin {worker[v].msg : v \in Busy}
  /\ RedeliveryOutlastsLease =>
       ~(job[m.photo].lease = m.id /\ ~job[m.photo].expired)

Take(w, m, phase, up) ==
  worker' = [worker EXCEPT ![w] =
    [Idle EXCEPT !.phase = phase, !.msg = m.id, !.photo = m.photo, !.up = up]]

(* claim_description_job.  The payload, the asset, the upload and the      *)
(* description are looked at before the job's status is.                   *)
PayloadMissing(p) == job[p].staging = None
PreviewStale(p) ==
  \/ p \notin active
  \/ upload[p][job[p].staging] # "Completed"

LeaseRanOut_M(p) ==     \* an exhausted job is left to somebody else
  job[p].status = "Running" /\ job[p].expired /\ job[p].attempt < MaxAttempts
LeaseRanOut(p) == job[p].status = "Running" /\ job[p].expired
HoldsLease_M(p, id) ==  \* the token is not compared
  job[p].status = "Running" /\ ~job[p].expired
HoldsLease(p, id) ==
  job[p].status = "Running" /\ job[p].lease = id /\ ~job[p].expired

ChargeLostCall(p) ==
  IF LeaseRanOut(p) /\ CallStarted(job[p])
    THEN SettleCost(p, TRUE, Reservation, books) ELSE books

CloseExhausted(p, b) ==
  IF CallStarted(b.jobs[p]) THEN SettleCost(p, TRUE, Reservation, b)
                            ELSE Release({p}, b)

Claimable(p) == job[p].status = "Queued" \/ LeaseRanOut(p)

ClaimDiscards(w, m) ==
  LET p == m.photo IN
  /\ \/ /\ PayloadMissing(p)
        /\ Commit(Release({p}, Park(p, "Failed", "Failure", 0, books)))
     \/ /\ ~PayloadMissing(p) /\ PreviewStale(p)
        /\ Commit(Release({p}, Park(p, "Cancelled", "StalePreview", 0, books)))
     \/ /\ ~PayloadMissing(p) /\ ~PreviewStale(p) /\ p \in described
        /\ Commit(Park(p, "Succeeded", "None", 0, Release({p}, books)))
  /\ Take(w, m, "ack", None)

ClaimIgnores(w, m) ==
  LET p == m.photo IN
  /\ ~Claimable(p) /\ ~HoldsLease(p, m.id)
  /\ Take(w, m, "ack", None)
  /\ UNCHANGED <<job, ledger>>

Exhausted_M(p) == job[p].attempt > MaxAttempts
Exhausted(p) == job[p].attempt >= MaxAttempts

ClaimExhausted(w, m) ==
  LET p == m.photo IN
  /\ Claimable(p) /\ Exhausted(p)
  /\ LET b == CloseExhausted(p, ChargeLostCall(p)) IN
     Commit(WithJob(p, [b.jobs[p] EXCEPT !.status = "Failed",
                                         !.code = "Failure"], b))
  /\ Take(w, m, "ack", None)

ClaimStarts(w, m) ==
  LET p == m.photo IN
  /\ Claimable(p) /\ ~Exhausted(p)
  /\ LET b == ChargeLostCall(p) IN
     Commit(WithJob(p, [b.jobs[p] EXCEPT
                          !.status = "Running", !.attempt = @ + 1,
                          !.code = "None", !.lease = m.id,
                          !.expired = FALSE], b))
  /\ Take(w, m, "claimed", job[p].staging)

ClaimAgain(w, m) ==
  /\ HoldsLease(m.photo, m.id)
  /\ Take(w, m, "claimed", job[m.photo].staging)
  /\ UNCHANGED <<job, ledger>>

Intact(p) == ~PayloadMissing(p) /\ ~PreviewStale(p) /\ p \notin described

Claim(w, m) ==
  /\ worker[w].phase = "idle"
  /\ m \in queue
  /\ Receivable(m)
  /\ \/ ClaimDiscards(w, m)
     \/ /\ Intact(m.photo)
        /\ \/ ClaimIgnores(w, m)
           \/ ClaimExhausted(w, m)
           \/ ClaimStarts(w, m)
           \/ ClaimAgain(w, m)
  /\ UNCHANGED <<month, active, described, upload, object, queue, history>>

(* _claimed_description_job: every later transaction of the delivery       *)
(* starts with this check and does nothing when it fails.                  *)
Claimed(w) ==
  LET p == worker[w].photo IN
  /\ HoldsLease(p, worker[w].msg)
  /\ job[p].staging # None
  /\ job[p].staging = worker[w].up
  /\ p \in active
  /\ upload[p][job[p].staging] = "Completed"

(* fail_description and the disposition process_message gives the message: *)
(* a retried job keeps its message in the queue.                           *)
FailDescription(w, answer, called) ==
  LET p == worker[w].photo
      retryable == answer = "Transient"
      retry == retryable /\ job[p].attempt < MaxAttempts
      b == Settle(p, called, Reservation, books)
      c == IF called /\ answer = "Auth" THEN OpenCircuit(month, b) ELSE b
  IN
  \/ /\ ~Claimed(w)
     /\ Goto(w, "ack")
     /\ UNCHANGED <<job, ledger>>
  \/ /\ Claimed(w) /\ retry
     /\ Commit(Park(p, "Queued", "Failure", 0, c))
     /\ worker' = [worker EXCEPT ![w] = Idle]
  \/ /\ Claimed(w) /\ ~retry
     /\ Commit(Park(p, "Failed", "Failure", 0, c))
     /\ Goto(w, IF answer \in {"Auth", "Internal"} THEN "cleanup" ELSE "ack")

(* defer_description_quota *)
DeferDescription(w, called) ==
  LET p == worker[w].photo
      b == Settle(p, called, Reservation, books)
      c == IF called THEN OpenCircuit(month, b) ELSE b
      circuit == ~called /\ job[p].blocked
  IN
  \/ /\ ~Claimed(w)
     /\ Goto(w, "ack")
     /\ UNCHANGED <<job, ledger>>
  \/ /\ Claimed(w)
     /\ Commit(Park(p, "DeferredQuota",
                    IF circuit THEN "CircuitOpen" ELSE "MonthlyLimit",
                    month + 1, c))
     /\ Goto(w, "cleanup")

workerOnly == <<month, active, described, upload, object, queue>>

(* The configuration changed, or the preview URL could not be signed.      *)
FailBeforeReserving(w) ==
  /\ worker[w].phase = "claimed"
  /\ \E answer \in {"Internal", "Auth", "Transient"} :
       FailDescription(w, answer, FALSE)
  /\ UNCHANGED <<workerOnly, history>>

(* reserve_description_provider_call *)
ReserveProviderCall(w) ==
  LET p == worker[w].photo IN
  /\ worker[w].phase = "claimed"
  /\ IF Claimed(w)
     THEN /\ Commit(Reserve(p, month, books))
          /\ Goto(w, IF CanReserve(p, month, books) THEN "reserved"
                                                    ELSE "refused")
     ELSE /\ Goto(w, "refused")
          /\ UNCHANGED <<job, ledger>>
  /\ UNCHANGED <<workerOnly, history>>

DeferRefused(w) ==
  /\ worker[w].phase = "refused"
  /\ DeferDescription(w, FALSE)
  /\ UNCHANGED <<workerOnly, history>>

(* consume_description_provider_call *)
ConsumeProviderCall(w) ==
  LET p == worker[w].photo IN
  /\ worker[w].phase = "reserved"
  /\ IF Claimed(w) /\ job[p].req # None
     THEN /\ LET b == SettleRequest(p, TRUE, books) IN
             Commit(WithJob(p, [b.jobs[p] EXCEPT !.used = job[p].req], b))
          /\ worker' = [worker EXCEPT ![w].phase = "paid",
                                      ![w].paid = job[p].req]
     ELSE /\ Goto(w, "ack")
          /\ UNCHANGED <<job, ledger>>
  /\ UNCHANGED <<workerOnly, history>>

(* The credential could not be loaded: no call is made. *)
CredentialUnavailable(w) ==
  /\ worker[w].phase = "paid"
  /\ FailDescription(w, "Auth", FALSE)
  /\ UNCHANGED <<workerOnly, history>>

(* The provider call and its answer. *)
CallProvider(w, answer, cost) ==
  /\ worker[w].phase = "paid"
  /\ worker' = [worker EXCEPT ![w].phase = "answered", ![w].answer = answer,
                              ![w].cost = cost]
  /\ calls' = [calls EXCEPT ![worker[w].paid] = @ + 1]
  /\ billed' = [billed EXCEPT ![worker[w].paid] = @ + cost]
  /\ UNCHANGED <<month, serverVars, queue>>

(* complete_description: an answer that fails validation is charged the    *)
(* reservation, a valid one its usage, or the reservation again when it    *)
(* reports no usage or one that costs more.                                *)
CompleteDescription(w) ==
  LET p == worker[w].photo IN
  /\ worker[w].phase = "answered"
  /\ worker[w].answer \in {"Success", "Invalid"}
  /\ \/ /\ ~Claimed(w)
        /\ Goto(w, "ack")
        /\ UNCHANGED <<described, job, ledger>>
     \/ /\ Claimed(w) /\ worker[w].answer = "Invalid"
        /\ Commit(Park(p, "Failed", "Failure", 0,
                       Settle(p, TRUE, Reservation, books)))
        /\ Goto(w, "cleanup")
        /\ UNCHANGED described
     \/ /\ Claimed(w) /\ worker[w].answer = "Success"
        /\ described' = described \cup {p}
        /\ \E charge \in {worker[w].cost, Reservation} :
             Commit(Park(p, "Succeeded", "None", 0,
                         Settle(p, TRUE, charge, books)))
        /\ Goto(w, "cleanup")
  /\ UNCHANGED <<month, active, upload, object, queue, history>>

HandleProviderFailure(w) ==
  /\ worker[w].phase = "answered"
  /\ \/ /\ worker[w].answer = "Quota"
        /\ DeferDescription(w, TRUE)
     \/ /\ worker[w].answer \in {"Auth", "Transient", "Internal"}
        /\ FailDescription(w, worker[w].answer, TRUE)
  /\ UNCHANGED <<workerOnly, history>>

(* _cleanup_if_safe, after a DELETE decision only. *)
CleanUp_M(w) ==         \* every preview of the photo is deleted
  /\ worker[w].phase = "cleanup"
  /\ object' = [object EXCEPT ![worker[w].photo] = {}]
  /\ Goto(w, "ack")
  /\ UNCHANGED <<month, active, described, job, ledger, upload, queue,
                 history>>
CleanUp(w) ==
  /\ worker[w].phase = "cleanup"
  /\ object' = [object EXCEPT ![worker[w].photo] = @ \ {worker[w].up}]
  /\ Goto(w, "ack")
  /\ UNCHANGED <<month, active, described, job, ledger, upload, queue,
                 history>>

(* The Lambda reports the message as processed and SQS deletes it.         *)
Acknowledge(w) ==
  /\ worker[w].phase = "ack"
  /\ queue' = {m \in queue : m.id # worker[w].msg}
  /\ worker' = [worker EXCEPT ![w] = Idle]
  /\ UNCHANGED <<month, serverVars, history>>

(* The execution dies or times out: SQS delivers the message again, or     *)
(* moves it to the dead-letter queue after the last receive.               *)
Crash(w) ==
  /\ worker[w].phase # "idle"
  /\ worker' = [worker EXCEPT ![w] = Idle]
  /\ \/ UNCHANGED queue
     \/ queue' = {m \in queue : m.id # worker[w].msg}
  /\ UNCHANGED <<month, serverVars, history>>

(* redispatch_due_jobs, for the row of one job.  The sweep arrives on the  *)
(* same queue, so an idle worker runs it.  It dispatches after its commit; *)
(* when that fails (~arrives) the job waits for the next sweep.            *)
Requeued(p, b) ==
  IF b.jobs[p].attempt >= MaxAttempts
    THEN Park(p, "Failed", "Failure", 0, b)
    ELSE Park(p, "Queued", "None", 0, b)

SweepRow(p, arrives) ==
  \/ /\ Due(p)
     /\ Commit(Park(p, "Preparing", "None", 0,
                 ClearStaging(p, ResetAttempts(p, Release({p}, books)))))
     /\ UNCHANGED queue
  \/ /\ job[p].status = "Queued" \/ LeaseRanOut(p)
     /\ LET b == Requeued(p, IF LeaseRanOut(p) THEN SettleByCall(p, books)
                                               ELSE books)
        IN /\ Commit(b)
           /\ IF arrives /\ b.jobs[p].status = "Queued" THEN Send(p)
                                                         ELSE UNCHANGED queue

Sweep(w, p, arrives) ==
  /\ worker[w].phase = "idle"
  /\ SweepRow(p, arrives)
  /\ UNCHANGED <<month, active, described, upload, object, worker, history>>

-----------------------------------------------------------------------------
(* Time *)
LeaseExpires(p) ==
  /\ job[p].status = "Running"
  /\ ~job[p].expired
  /\ job' = [job EXCEPT ![p].expired = TRUE]
  /\ UNCHANGED <<month, active, described, ledger, upload, object, queue,
                 worker, history>>

UploadLapses(p, n) ==
  /\ upload[p][n] = "Uploading"
  /\ upload' = [upload EXCEPT ![p][n] = "Lapsed"]
  /\ UNCHANGED <<month, active, described, job, ledger, object, queue,
                 worker, history>>

MonthTurns ==
  /\ month < MaxMonth
  /\ month' = month + 1
  /\ UNCHANGED <<serverVars, queue, worker, history>>

-----------------------------------------------------------------------------
Client(p) ==
  \/ \E geo \in BOOLEAN : PrepareEnrichment(p, geo)
  \/ CreateUploadPlan(p)
  \/ \E n \in UploadIds : \/ PutPreview(p, n) \/ GetUploadSession(p, n)
                          \/ CompleteUpload(p, n) \/ CancelUpload(p, n)
  \/ RetryJob(p) \/ CancelJob(p) \/ Trash(p) \/ Restore(p)

CallAny(w) ==
  \E answer \in Answer \ {"None"}, cost \in Costs : CallProvider(w, answer, cost)

WorkerStep(w) ==
  \/ FailBeforeReserving(w) \/ ReserveProviderCall(w) \/ DeferRefused(w)
  \/ ConsumeProviderCall(w) \/ CredentialUnavailable(w) \/ CallAny(w)
  \/ CompleteDescription(w) \/ HandleProviderFailure(w)
  \/ CleanUp(w) \/ Acknowledge(w)

Time ==
  \/ \E p \in Photos : \/ LeaseExpires(p)
                       \/ \E n \in UploadIds : UploadLapses(p, n)
  \/ MonthTurns

Next ==
  \/ \E p \in Photos : Client(p)
  \/ \E w \in Workers : \/ \E m \in queue : Claim(w, m)
                        \/ WorkerStep(w)
                        \/ Crash(w)
                        \/ \E p \in Photos, arrives \in BOOLEAN : Sweep(w, p, arrives)
  \/ Time

Spec == Init /\ [][Next]_vars
-----------------------------------------------------------------------------
(* Safety *)

(* The monthly ceilings are never exceeded, counting what is reserved as   *)
(* spent: whatever the order of reservations, settlements, releases and    *)
(* reversals of all jobs (_reserve_description_usage).                      *)
CeilingsHold == CeilingsHoldIn(books)

(* Every reservation a job still holds is backed by reserved units of its  *)
(* month, so no settlement is ever clipped by min() and no job can spend   *)
(* the units of another (_settle_provider_reservation).                    *)
ReservationsBacked == ReservationsBackedIn(books)

(* What the provider bills for the calls of a month is covered by what the *)
(* ledger has charged or still reserves in it: a call is paid for whether  *)
(* the worker survives it, loses its lease, or the user skips or deletes   *)
(* the photo meanwhile.                                                    *)
BillCovered ==
  \A m \in Months :
    billed[m] <= ledger[m].usdProcessed + ledger[m].usdReserved

(* A queued or running job that names a preview finds it: its session is   *)
(* the completed one and the object is still in the bucket, although       *)
(* cleanups, cancellations and expiries of other sessions run late.        *)
PreviewKept ==
  \A p \in Photos :
    job[p].status \in {"Queued", "Running"} /\ job[p].staging # None =>
      /\ upload[p][job[p].staging] = "Completed"
      /\ job[p].staging \in object[p]

(* No upload lease stays open beside a job that is already queued, running *)
(* or over with a description, so no client can swap its preview.          *)
NoOpenUploadBehindQueue ==
  \A p \in Photos :
    job[p].status \in {"Queued", "Running", "Succeeded"} =>
      \A n \in UploadIds : upload[p][n] \notin OpenUpload

(* At most one delivery passes the claim check of a photo: two workers     *)
(* never both believe they own the job (_claimed_description_job).         *)
OneOwner ==
  \A v, w \in Busy :
    v # w /\ worker[v].photo = worker[w].photo => ~(Claimed(v) /\ Claimed(w))

(* No call is opened in a month whose circuit is open: the worker saw it   *)
(* closed when it reserved and nobody opened it since.                     *)
CircuitStopsCalls ==
  [][calls' # calls => ~ledger[month].open]_vars

-----------------------------------------------------------------------------
(* Liveness.  The worker runs while it has work (WF of its steps), SQS     *)
(* delivers every message in the end, the sweep is one of them and some    *)
(* sweep's dispatch arrives (SF: they compete for the worker), and leases  *)
(* run out (WF).  Crashes, the client and the calendar are not fair, and   *)
(* any number of dispatches may be lost.                                   *)
Fairness ==
  /\ \A w \in Workers :
       /\ WF_vars(WorkerStep(w))
       /\ \A p \in Photos : SF_vars(Sweep(w, p, TRUE))
       /\ SF_vars(\E m \in queue : Claim(w, m))
  /\ \A p \in Photos : WF_vars(LeaseExpires(p))

FairSpec == Spec /\ Fairness

(* A queued job is never lost: whatever messages are dropped and workers   *)
(* die, it reaches an outcome (or goes back to the client).                *)
QueuedJobsFinish ==
  \A p \in Photos :
    job[p].status \in {"Queued", "Running"}
      ~> job[p].status \notin {"Queued", "Running"}

(* A quota deferral that has come due is reopened without the client.      *)
DueDeferralsReopen ==
  \A p \in Photos :
    job[p].status = "DeferredQuota" /\ job[p].due <= month
      ~> job[p].status # "DeferredQuota" \/ job[p].due > month

=============================================================================
