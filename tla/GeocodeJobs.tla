---------------------------- MODULE GeocodeJobs ----------------------------
(***************************************************************************)
(* Reverse geocoding: the jobs that look up the address of a photo's       *)
(* coordinates, the reuse of addresses resolved nearby, the monthly limit  *)
(* on provider calls (services/domain/service.py) and the worker that runs *)
(* them (services/worker/processor.py).                                    *)
(*                                                                         *)
(* A job belongs to a photo and a revision of its coordinates.  Manifests  *)
(* move photos while their jobs are queued or running, and share or clear  *)
(* addresses on their own.  One action is one transaction, with the        *)
(* dispatch after its commit.                                              *)
(***************************************************************************)
EXTENDS Integers, FiniteSets

CONSTANTS
  Photos,
  Places,          \* coordinates, as points of a line
  Radius,          \* geocode_reuse_radius_meters
  Unresolved,      \* a location without provider data
  Workers,         \* concurrent executions of the enrichment Lambda
  MaxAttempts,     \* ProcessingJob.max_attempts
  MonthlyLimit,    \* geocode_monthly_call_limit
  MaxMonth,        \* bound: months of the calendar
  MaxCopies        \* bound: messages of one job in flight

ASSUME PhotosAssumption == IsFiniteSet(Photos)
ASSUME WorkersAssumption == IsFiniteSet(Workers)
ASSUME PlacesAssumption ==
  /\ Places \subseteq Int
  /\ IsFiniteSet(Places)
  /\ Unresolved \notin Places
ASSUME BoundsAssumption ==
  /\ MaxAttempts \in Nat \ {0}
  /\ MaxMonth \in Nat \ {0}
  /\ MaxCopies \in Nat \ {0}
ASSUME LimitsAssumption == Radius \in Nat /\ MonthlyLimit \in Nat

VARIABLES
  month,      \* the current usage month
  active,     \* photos whose asset is Active (the others are Trashed)
  at,         \* at[p]: coordinates of the photo's location
  address,    \* address[p]: where the address it shows was looked up
  job,        \* job[<<p, c>>]: the Geocode job of photo p at coordinates c
  ledger,     \* Request row of the geocode provider, per month
  queue,      \* messages that SQS still holds
  worker,
  calls       \* history: provider calls opened, per month they were paid in

vars == <<month, active, at, address, job, ledger, queue, worker, calls>>

None == 0
Months == 1 .. MaxMonth
Copies == 1 .. MaxCopies
Jobs == Photos \X Places

JobStatus == {"None", "Queued", "Running", "DeferredQuota", "Failed",
              "Cancelled", "Succeeded"}
FailureCode == {"None", "Failure", "Quota", "CircuitOpen", "StaleCoordinates",
                "MediaTrashed"}

JobRecord ==
  [status  : JobStatus,
   attempt : 0 .. MaxAttempts,
   code    : FailureCode,
   due     : 0 .. (MaxMonth + 1),      \* month of next_attempt_at_utc
   req     : {None} \cup Months,       \* providerUsageReservation
   blocked : BOOLEAN,                  \* quotaBlockReason = CircuitOpen
   lease   : {None} \cup Copies,       \* lease_token_hash
   expired : BOOLEAN]                  \* lease_expires_at_utc has passed

NoJob == [status |-> "None", attempt |-> 0, code |-> "None", due |-> 0,
          req |-> None, blocked |-> FALSE, lease |-> None, expired |-> FALSE]

LedgerRow == [exists : BOOLEAN, open : BOOLEAN, reserved : Nat, processed : Nat]
EmptyRow == [exists |-> FALSE, open |-> FALSE, reserved |-> 0, processed |-> 0]

Message == [copy : Copies, job : Jobs]

Phase == {"idle", "claimed", "found", "unresolved", "refused", "reserved",
          "paid", "answered", "ack"}
Answer == {"None", "Success", "Auth", "Quota", "Transient", "Internal"}

WorkerRecord ==
  [phase : Phase, copy : {None} \cup Copies, job : Jobs \cup {<<>>},
   result : Places \cup {Unresolved}, paid : {None} \cup Months,
   answer : Answer]

TypeOK ==
  /\ month \in Months
  /\ active \subseteq Photos
  /\ at \in [Photos -> Places]
  /\ address \in [Photos -> Places \cup {Unresolved}]
  /\ job \in [Jobs -> JobRecord]
  /\ ledger \in [Months -> LedgerRow]
  /\ queue \subseteq Message
  /\ worker \in [Workers -> WorkerRecord]
  /\ \A w \in Workers : worker[w].phase # "idle" => worker[w].job \in Jobs
  /\ calls \in [Months -> Nat]

IdleWorker ==
  [phase |-> "idle", copy |-> None, job |-> <<>>, result |-> Unresolved,
   paid |-> None, answer |-> "None"]

(* The photos are catalogued, nothing is resolved. *)
Init ==
  /\ month = 1
  /\ active = Photos
  /\ at \in [Photos -> Places]
  /\ address = [p \in Photos |-> Unresolved]
  /\ job = [k \in Jobs |-> NoJob]
  /\ ledger = [m \in Months |-> EmptyRow]
  /\ queue = {}
  /\ worker = [w \in Workers |-> IdleWorker]
  /\ calls = [m \in Months |-> 0]

-----------------------------------------------------------------------------
(* Definitions whose name ends in _M are mutants: what the definition after *)
(* them would be with a plausible bug.  The specification never uses them.  *)

(* A transaction takes the books and leaves others. *)
books == [jobs |-> job, ledger |-> ledger]
Commit(b) == job' = b.jobs /\ ledger' = b.ledger

WithJob(k, j, b) ==
  [jobs |-> [b.jobs EXCEPT ![k] = j], ledger |-> b.ledger]
WithRow(m, row, b) ==
  [jobs |-> b.jobs, ledger |-> [b.ledger EXCEPT ![m] = row]]

Lesser(x, y) == IF x <= y THEN x ELSE y

(* _settle_provider_reservation *)
Settle_M(k, consumed, b) ==      \* the reservation stays on the job
  LET m == b.jobs[k].req IN
  IF m = None THEN b ELSE
  WithRow(m, [b.ledger[m] EXCEPT !.reserved = @ - Lesser(@, 1)], b)
Settle(k, consumed, b) ==
  LET m == b.jobs[k].req
      units == Lesser(b.ledger[m].reserved, 1)
      spent == IF consumed THEN units ELSE 0
  IN
  IF m = None THEN b ELSE
  [jobs |-> [b.jobs EXCEPT ![k].req = None],
   ledger |-> [b.ledger EXCEPT ![m] =
      [b.ledger[m] EXCEPT !.reserved = @ - units, !.processed = @ + spent]]]

(* reserve_provider_call in month now, once the claim is confirmed: the    *)
(* books it leaves and whether it succeeds.  A reservation of this month   *)
(* is kept, one of another month is given back.                            *)
Realigned(k, now, b) ==
  LET c == Settle(k, FALSE, b)
  IN  WithRow(now, [c.ledger[now] EXCEPT !.exists = TRUE], c)

Fits_M(row) == row.reserved < MonthlyLimit     \* what was spent is forgotten
Fits(row) == row.processed + row.reserved + 1 <= MonthlyLimit

CanReserve(k, now, b) ==
  IF b.jobs[k].req = now
    THEN ~b.ledger[now].open
    ELSE LET row == Realigned(k, now, b).ledger[now]
         IN ~row.open /\ Fits(row)

SetBlocked(k, value, b) ==
  WithJob(k, [b.jobs[k] EXCEPT !.blocked = value], b)

Reserved(k, now, b) ==
  LET c == WithJob(k, [b.jobs[k] EXCEPT !.req = now, !.blocked = FALSE], b)
  IN  WithRow(now, [b.ledger[now] EXCEPT !.reserved = @ + 1], c)

Reserve(k, now, b) ==
  IF b.jobs[k].req = now
    THEN SetBlocked(k, b.ledger[now].open, b)
    ELSE LET c == Realigned(k, now, b) IN
         IF c.ledger[now].open THEN SetBlocked(k, TRUE, c)
         ELSE IF Fits(c.ledger[now]) THEN Reserved(k, now, c)
         ELSE c

(* _open_provider_circuit touches the current month's row if there is one. *)
OpenCircuit(now, b) ==
  WithRow(now, [b.ledger[now] EXCEPT !.open = @ \/ b.ledger[now].exists], b)

(* A transition: status, failure code, next attempt; the lease is dropped. *)
Park(k, status, code, due, b) ==
  WithJob(k, [b.jobs[k] EXCEPT
                !.status = status, !.code = code, !.due = due,
                !.lease = None, !.expired = FALSE], b)

Restarted(k, b) ==
  Park(k, "Queued", "None", 0, WithJob(k, [b.jobs[k] EXCEPT !.attempt = 0], b))

-----------------------------------------------------------------------------
(* Dispatch.  A message is a copy of its job's identity; once MaxCopies    *)
(* are in flight, the copies already queued stand for another.             *)
Busy == {w \in Workers : worker[w].phase # "idle"}
JobOf(w) == worker[w].job

FreshCopies(k) ==
  Copies \ ({m.copy : m \in {m \in queue : m.job = k}}
            \cup {worker[w].copy : w \in {w \in Busy : JobOf(w) = k}}
            \cup {job[k].lease})

Sent(K) ==
  {m \in Message : /\ m.job \in K
                   /\ m.copy \in FreshCopies(m.job)
                   /\ \A n \in FreshCopies(m.job) : m.copy <= n}

(* _dispatch_after_commit: any of the dispatches may be lost. *)
DispatchAfterCommit(K) == \E D \in SUBSET K : queue' = queue \cup Sent(D)

-----------------------------------------------------------------------------
(* Addresses: resolved_nearby takes the nearest resolved location within   *)
(* the radius, whatever its asset's state.                                 *)
Distance(c, d) == IF c <= d THEN d - c ELSE c - d
Near(c, d) == Distance(c, d) <= Radius

Resolved(S, c) == {q \in S : address[q] # Unresolved /\ Near(at[q], c)}
Nearest(S, c) ==
  {q \in Resolved(S, c) :
     \A r \in Resolved(S, c) : Distance(at[q], c) <= Distance(at[r], c)}

(* A manifest entry with coordinates: _upsert_location, for a photo that   *)
(* is restored if it was in the trash.  Its own old location is one of     *)
(* those it may take the address from; without any, or when can_reuse      *)
(* refuses the nearest, the address is cleared.                            *)
UpsertLocation(p, c) ==
  /\ at' = [at EXCEPT ![p] = c]
  /\ active' = active \cup {p}
  /\ \/ address' = [address EXCEPT ![p] = Unresolved]
     \/ \E q \in Nearest(Photos, c) :
          address' = [address EXCEPT ![p] = address[q]]
  /\ UNCHANGED <<month, job, ledger, queue, worker, calls>>

(* A manifest entry without coordinates restores the photo only. *)
Restore(p) ==
  /\ p \notin active
  /\ active' = active \cup {p}
  /\ UNCHANGED <<month, at, address, job, ledger, queue, worker, calls>>

(* The last occurrence is deleted: _cancel_asset_processing charges the    *)
(* reservation of a running job.                                           *)
Trash(p) ==
  LET open == {"Queued", "Running", "DeferredQuota"}
      closing == {k \in Jobs : k[1] = p /\ job[k].status \in open}
      units(m, running) ==
        Cardinality({k \in closing :
                       /\ job[k].req = m
                       /\ (job[k].status = "Running") = running})
      charged(m) == Lesser(ledger[m].reserved, units(m, TRUE))
      freed(m) == Lesser(ledger[m].reserved, units(m, TRUE) + units(m, FALSE))
  IN
  /\ p \in active
  /\ active' = active \ {p}
  /\ job' = [k \in Jobs |->
       IF k \in closing
         THEN [job[k] EXCEPT !.status = "Cancelled", !.code = "MediaTrashed",
                             !.due = 0, !.req = None, !.lease = None,
                             !.expired = FALSE]
         ELSE job[k]]
  /\ ledger' = [m \in Months |->
       [ledger[m] EXCEPT !.reserved = @ - freed(m),
                         !.processed = @ + charged(m)]]
  /\ UNCHANGED <<month, at, address, queue, worker, calls>>

(* prepare_enrichment, for the row of one photo: a job is created for its  *)
(* coordinates, or the finished one is queued again with a new request.    *)
PrepareEnrichment(p) ==
  LET k == <<p, at[p]>> IN
  /\ p \in active
  /\ address[p] = Unresolved
  /\ job[k].status \in {"None", "Succeeded"}
  /\ job' = [job EXCEPT ![k] = [NoJob EXCEPT !.status = "Queued"]]
  /\ DispatchAfterCommit({k})
  /\ UNCHANGED <<month, active, at, address, ledger, worker, calls>>

(* retry_job; while the circuit is open it closes it and promotes the      *)
(* other jobs the circuit deferred.                                        *)
RetryAllowed(j) ==
  \/ j.status = "Failed" /\ j.attempt < MaxAttempts
  \/ j.status = "DeferredQuota"

Promotable(k) ==
  {i \in Jobs \ {k} : job[i].status = "DeferredQuota"
                      /\ job[i].code = "CircuitOpen"}

Promoted(K, b) ==
  [jobs |-> [i \in Jobs |->
     IF i \in K
       THEN [b.jobs[i] EXCEPT
               !.status = "Queued", !.attempt = 0, !.code = "None", !.due = 0,
               !.blocked = FALSE, !.lease = None, !.expired = FALSE]
       ELSE b.jobs[i]],
   ledger |-> b.ledger]

RetryJob(k) ==
  LET recovery == ledger[month].open
      others == IF recovery THEN Promotable(k) ELSE {}
      b == WithRow(month, [ledger[month] EXCEPT !.open = FALSE], books)
      c == WithJob(k, [job[k] EXCEPT
                         !.attempt = IF job[k].status = "DeferredQuota"
                                       THEN 0 ELSE @], b)
  IN
  /\ RetryAllowed(job[k])
  /\ Commit(Park(k, "Queued", "None", 0, Promoted(others, c)))
  /\ DispatchAfterCommit(others \cup {k})
  /\ UNCHANGED <<month, active, at, address, worker, calls>>

-----------------------------------------------------------------------------
(* The worker: GeocodeMessageProcessor.process_message, transaction by     *)
(* transaction.                                                            *)
Goto(w, phase) == worker' = [worker EXCEPT ![w].phase = phase]

Stale_M(k) == k[1] \notin active     \* the coordinates are not compared
Stale(k) == k[1] \notin active \/ at[k[1]] # k[2]

LeaseRanOut_M(k) == FALSE       \* an abandoned job is left to the next retry
LeaseRanOut(k) == job[k].status = "Running" /\ job[k].expired
HoldsLease(k, copy) ==
  job[k].status = "Running" /\ job[k].lease = copy /\ ~job[k].expired

CancelStale_M(k) ==     \* the reservation stays behind
  Commit(Park(k, "Cancelled", "StaleCoordinates", 0, books))
CancelStale(k) ==
  Commit(Park(k, "Cancelled", "StaleCoordinates", 0, Settle(k, TRUE, books)))

Take(w, m, phase) ==
  worker' = [worker EXCEPT ![w] =
    [IdleWorker EXCEPT !.phase = phase, !.copy = m.copy, !.job = m.job]]

Claimable(k) == job[k].status = "Queued" \/ LeaseRanOut(k)

ClaimStale(w, m) ==     \* whatever the status of the job
  /\ Stale(m.job)
  /\ CancelStale(m.job)
  /\ Take(w, m, "ack")

ClaimIgnores(w, m) ==
  /\ ~Stale(m.job)
  /\ ~Claimable(m.job) /\ ~HoldsLease(m.job, m.copy)
  /\ Take(w, m, "ack")
  /\ UNCHANGED <<job, ledger>>

Exhausted_M(k) == job[k].attempt > MaxAttempts
Exhausted(k) == job[k].attempt >= MaxAttempts

ClaimExhausted(w, m) ==
  LET b == Settle(m.job, TRUE, books) IN
  /\ ~Stale(m.job) /\ Claimable(m.job) /\ Exhausted(m.job)
  /\ Commit(WithJob(m.job, [b.jobs[m.job] EXCEPT !.status = "Failed",
                                                 !.code = "Failure"], b))
  /\ Take(w, m, "ack")

ClaimStarts(w, m) ==
  /\ ~Stale(m.job) /\ Claimable(m.job) /\ ~Exhausted(m.job)
  /\ Commit(WithJob(m.job, [job[m.job] EXCEPT
                              !.status = "Running", !.attempt = @ + 1,
                              !.code = "None", !.lease = m.copy,
                              !.expired = FALSE], books))
  /\ Take(w, m, "claimed")

ClaimAgain(w, m) ==
  /\ ~Stale(m.job) /\ HoldsLease(m.job, m.copy)
  /\ Take(w, m, "claimed")
  /\ UNCHANGED <<job, ledger>>

Claim(w, m) ==
  /\ worker[w].phase = "idle"
  /\ m \in queue
  /\ ~\E v \in Busy : JobOf(v) = m.job /\ worker[v].copy = m.copy
  /\ \/ ClaimStale(w, m) \/ ClaimIgnores(w, m) \/ ClaimExhausted(w, m)
     \/ ClaimStarts(w, m) \/ ClaimAgain(w, m)
  /\ UNCHANGED <<month, active, at, address, queue, calls>>

(* _claimed_geocode_job: a later transaction of a delivery that lost its   *)
(* lease does nothing; one whose photo moved cancels the job.              *)
Owns(w) == HoldsLease(JobOf(w), worker[w].copy)
Confirmed(w) == Owns(w) /\ ~Stale(JobOf(w))

Unconfirmed(w, phase) ==
  /\ ~Confirmed(w)
  /\ IF Owns(w) THEN CancelStale(JobOf(w)) ELSE UNCHANGED <<job, ledger>>
  /\ Goto(w, phase)

(* find_reusable_location *)
FindReusable(w) ==
  LET p == JobOf(w)[1]
      near == Nearest(Photos \ {p}, at[p])
  IN
  /\ worker[w].phase = "claimed"
  /\ \/ Unconfirmed(w, "unresolved")
     \/ /\ Confirmed(w)
        /\ \/ Goto(w, "unresolved")
           \/ \E q \in near :
                worker' = [worker EXCEPT ![w].phase = "found",
                                         ![w].result = address[q]]
        /\ UNCHANGED <<job, ledger>>
  /\ UNCHANGED <<month, active, at, address, queue, calls>>

(* reserve_provider_call *)
ReserveProviderCall(w) ==
  /\ worker[w].phase = "unresolved"
  /\ \/ Unconfirmed(w, "refused")
     \/ /\ Confirmed(w)
        /\ Commit(Reserve(JobOf(w), month, books))
        /\ Goto(w, IF CanReserve(JobOf(w), month, books) THEN "reserved"
                                                         ELSE "refused")
  /\ UNCHANGED <<month, active, at, address, queue, calls>>

(* defer_geocode_quota *)
DeferGeocode(w, called) ==
  LET k == JobOf(w)
      b == Settle(k, called, books)
      c == IF called THEN OpenCircuit(month, b) ELSE b
      circuit == ~called /\ job[k].blocked
  IN
  \/ Unconfirmed(w, "ack")
  \/ /\ Confirmed(w)
     /\ Commit(Park(k, "DeferredQuota",
                    IF circuit THEN "CircuitOpen" ELSE "Quota", month + 1, c))
     /\ Goto(w, "ack")

DeferRefused(w) ==
  /\ worker[w].phase = "refused"
  /\ DeferGeocode(w, FALSE)
  /\ UNCHANGED <<month, active, at, address, queue, calls>>

(* consume_provider_call *)
ConsumeProviderCall(w) ==
  LET k == JobOf(w) IN
  /\ worker[w].phase = "reserved"
  /\ \/ Unconfirmed(w, "ack")
     \/ /\ Confirmed(w)
        /\ Commit(Settle(k, TRUE, books))
        /\ worker' = [worker EXCEPT
             ![w].phase = IF job[k].req = None THEN "ack" ELSE "paid",
             ![w].paid = job[k].req]
  /\ UNCHANGED <<month, active, at, address, queue, calls>>

(* The call to Amazon Location, for the coordinates of the claim. *)
CallProvider(w, answer) ==
  /\ worker[w].phase = "paid"
  /\ worker' = [worker EXCEPT
       ![w].phase = "answered", ![w].answer = answer,
       ![w].result = IF answer = "Success" THEN JobOf(w)[2]
                                           ELSE Unresolved]
  /\ calls' = [calls EXCEPT ![worker[w].paid] = @ + 1]
  /\ UNCHANGED <<month, active, at, address, job, ledger, queue>>

(* complete_geocode, with the address of a neighbour or of the provider. *)
CompleteGeocode(w) ==
  LET k == JobOf(w)
      reused == worker[w].phase = "found"
  IN
  /\ reused \/ (worker[w].phase = "answered" /\ worker[w].answer = "Success")
  /\ \/ Unconfirmed(w, "ack") /\ UNCHANGED address
     \/ /\ Confirmed(w)
        /\ address' = [address EXCEPT ![k[1]] = worker[w].result]
        /\ Commit(Park(k, "Succeeded", "None", 0, Settle(k, ~reused, books)))
        /\ Goto(w, "ack")
  /\ UNCHANGED <<month, active, at, queue, calls>>

(* fail_geocode: a retried job keeps its message in the queue. *)
FailGeocode(w) ==
  LET k == JobOf(w)
      answer == worker[w].answer
      retry == answer = "Transient" /\ job[k].attempt < MaxAttempts
      b == Settle(k, TRUE, books)
      c == IF answer = "Auth" THEN OpenCircuit(month, b) ELSE b
  IN
  /\ worker[w].phase = "answered"
  /\ answer \in {"Auth", "Transient", "Internal"}
  /\ \/ Unconfirmed(w, "ack")
     \/ /\ Confirmed(w) /\ retry
        /\ Commit(Park(k, "Queued", "Failure", 0, c))
        /\ worker' = [worker EXCEPT ![w] = IdleWorker]
     \/ /\ Confirmed(w) /\ ~retry
        /\ Commit(Park(k, "Failed", "Failure", 0, c))
        /\ Goto(w, "ack")
  /\ UNCHANGED <<month, active, at, address, queue, calls>>

HandleQuota(w) ==
  /\ worker[w].phase = "answered"
  /\ worker[w].answer = "Quota"
  /\ DeferGeocode(w, TRUE)
  /\ UNCHANGED <<month, active, at, address, queue, calls>>

Delivered(w) ==
  queue' = queue \ {[copy |-> worker[w].copy, job |-> JobOf(w)]}

(* The Lambda reports the message as processed and SQS deletes it. *)
Acknowledge(w) ==
  /\ worker[w].phase = "ack"
  /\ Delivered(w)
  /\ worker' = [worker EXCEPT ![w] = IdleWorker]
  /\ UNCHANGED <<month, active, at, address, job, ledger, calls>>

(* The execution dies: redelivery, or the dead-letter queue. *)
Crash(w) ==
  /\ worker[w].phase # "idle"
  /\ worker' = [worker EXCEPT ![w] = IdleWorker]
  /\ UNCHANGED queue \/ Delivered(w)
  /\ UNCHANGED <<month, active, at, address, job, ledger, calls>>

(* redispatch_due_jobs, for the row of one job. *)
Due_M(k) == job[k].status = "DeferredQuota" /\ job[k].due < month
Due(k) == job[k].status = "DeferredQuota" /\ job[k].due <= month

SweepRow(k) ==
  LET b == Settle(k, TRUE, books) IN
  IF Due(k) THEN Restarted(k, Settle(k, FALSE, books))
  ELSE IF Exhausted(k)
    THEN Park(k, "Failed", "Failure", 0, IF LeaseRanOut(k) THEN b ELSE books)
    ELSE Park(k, "Queued", "None", 0, IF LeaseRanOut(k) THEN b ELSE books)

Sweep(w, k, arrives) ==
  /\ worker[w].phase = "idle"
  /\ Due(k) \/ Claimable(k)
  /\ Commit(SweepRow(k))
  /\ IF arrives /\ job'[k].status = "Queued" THEN queue' = queue \cup Sent({k})
                                             ELSE UNCHANGED queue
  /\ UNCHANGED <<month, active, at, address, worker, calls>>

-----------------------------------------------------------------------------
(* Time *)
LeaseExpires(k) ==
  /\ job[k].status = "Running"
  /\ ~job[k].expired
  /\ job' = [job EXCEPT ![k].expired = TRUE]
  /\ UNCHANGED <<month, active, at, address, ledger, queue, worker, calls>>

MonthTurns ==
  /\ month < MaxMonth
  /\ month' = month + 1
  /\ UNCHANGED <<active, at, address, job, ledger, queue, worker, calls>>

-----------------------------------------------------------------------------
Client ==
  \/ \E p \in Photos : \/ \E c \in Places : UpsertLocation(p, c)
                       \/ Restore(p) \/ Trash(p) \/ PrepareEnrichment(p)
  \/ \E k \in Jobs : RetryJob(k)

WorkerStep(w) ==
  \/ FindReusable(w) \/ ReserveProviderCall(w) \/ DeferRefused(w)
  \/ ConsumeProviderCall(w)
  \/ \E answer \in Answer \ {"None"} : CallProvider(w, answer)
  \/ CompleteGeocode(w) \/ FailGeocode(w) \/ HandleQuota(w) \/ Acknowledge(w)

Next ==
  \/ Client
  \/ \E w \in Workers :
       \/ \E m \in queue : Claim(w, m)
       \/ WorkerStep(w)
       \/ Crash(w)
       \/ \E k \in Jobs, arrives \in BOOLEAN : Sweep(w, k, arrives)
  \/ \E k \in Jobs : LeaseExpires(k)
  \/ MonthTurns

Spec == Init /\ [][Next]_vars

-----------------------------------------------------------------------------
(* Safety *)

(* Every call opened in a month is counted, and the count with what is     *)
(* still reserved stays within the limit: retries, redeliveries, moved and *)
(* deleted photos never buy a call the ledger does not know of.            *)
WithinLimit(rows) ==
  \A m \in Months : rows[m].processed + rows[m].reserved <= MonthlyLimit

BudgetKept ==
  /\ \A m \in Months : calls[m] <= ledger[m].processed
  /\ WithinLimit(ledger)

(* Reserved units always belong to a lookup that is running, so none is    *)
(* lost to the month: whatever ends a lookup, or interrupts it, settles    *)
(* its reservation, in the month it was made.                              *)
UnitsOwned ==
  \A m \in Months :
    ledger[m].reserved =
      Cardinality({k \in Jobs : job[k].status = "Running" /\ job[k].req = m})

(* A photo shows an address that was looked up at its place, or at one     *)
(* linked to it by reuses that each stay within the radius: neither a late *)
(* answer nor an address shared meanwhile survives a move.                 *)
Linked(c, d) ==
  \A e \in Places :
    Lesser(c, d) <= e /\ (e < c \/ e < d)
      => \E f \in Places : e < f /\ Near(e, f)

AddressNearby ==
  \A p \in Photos : address[p] # Unresolved => Linked(address[p], at[p])

-----------------------------------------------------------------------------
(* Liveness, with the fairness of SceneJobs: the worker runs, messages     *)
(* that stay are delivered, some sweep's dispatch arrives, leases run out. *)
Fairness ==
  /\ \A w \in Workers :
       /\ WF_vars(WorkerStep(w))
       /\ \A k \in Jobs : SF_vars(Sweep(w, k, TRUE))
       /\ \A m \in Message : SF_vars(Claim(w, m))
  /\ \A k \in Jobs : WF_vars(LeaseExpires(k))

FairSpec == Spec /\ Fairness

(* A queued lookup is never lost: it reaches an outcome, whatever messages *)
(* and workers die and wherever the photo moves.                           *)
LookupsFinish ==
  \A k \in Jobs :
    job[k].status \in {"Queued", "Running"}
      ~> job[k].status \notin {"Queued", "Running"}

(* A lookup deferred for lack of quota is taken up again when its month    *)
(* comes, without the client.                                              *)
DueLookupsResume ==
  \A k \in Jobs :
    job[k].status = "DeferredQuota" /\ job[k].due <= month
      ~> job[k].status # "DeferredQuota" \/ job[k].due > month

=============================================================================
