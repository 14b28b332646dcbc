---------------------------- MODULE SceneLedger ----------------------------
(***************************************************************************)
(* The provider ledger of one account and the reservations its scene       *)
(* description jobs hold against it (services/domain/service.py).          *)
(*                                                                         *)
(* ProviderUsageMonth has one row per month and unit type.  The Request    *)
(* and the Usd row of a month are created together, so they are one record *)
(* here.  A job's reservations live in its request_json; only the state    *)
(* "Reserved" is ever acted on, so a reservation is the month it was taken *)
(* in and None stands for a missing, released or consumed one.             *)
(*                                                                         *)
(* Each operator below is one helper of the service.  It takes and returns *)
(* the books: the jobs and the ledger, which the enclosing transaction     *)
(* commits together.                                                       *)
(***************************************************************************)
EXTENDS Integers, FiniteSets

CONSTANTS
  Photos,          \* photos of the account; one Description job per photo
  Messages,        \* identities of queue messages
  NoMessage,       \* the empty lease_token_hash
  MaxAttempts,     \* ProcessingJob.max_attempts
  MaxUploads,      \* bound: upload sessions created per photo
  MaxMonth,        \* bound: months of the calendar
  RequestLimit,    \* scene_description_monthly_call_limit
  UsdLimit,        \* scene_description_monthly_usd_limit
  Reservation      \* scene_description_reserved_usd_per_request

ASSUME PhotosAssumption == IsFiniteSet(Photos)
ASSUME LeaseAssumption == NoMessage \notin Messages
ASSUME BoundsAssumption ==
  /\ MaxAttempts \in Nat \ {0}
  /\ MaxUploads \in Nat \ {0}
  /\ MaxMonth \in Nat \ {0}
ASSUME LimitsAssumption ==
  /\ RequestLimit \in Nat
  /\ UsdLimit \in Nat
  /\ Reservation \in Nat \ {0}

None == 0
Months == 1 .. MaxMonth
UploadIds == 1 .. MaxUploads

JobStatus == {"None", "Preparing", "Queued", "Running", "DeferredQuota",
              "Failed", "Cancelled", "Succeeded"}

(* failure_code, reduced to what the code branches on: the reasons a user  *)
(* may give for skipping are one code, and so are all ordinary failures.   *)
FailureCode == {"None", "Failure", "MonthlyLimit", "CircuitOpen",
                "StalePreview", "MediaTrashed", "Skipped"}

JobRecord ==
  [status  : JobStatus,
   attempt : 0 .. MaxAttempts,
   code    : FailureCode,
   due     : 0 .. (MaxMonth + 1),         \* month of next_attempt_at_utc
   req     : {None} \cup Months,          \* providerUsageReservation
   cost    : {None} \cup Months,          \* providerCostReservation
   used    : {None} \cup Months,          \* providerRequestConsumption
   blocked : BOOLEAN,                     \* quotaBlockReason = CircuitOpen
   staging : {None} \cup UploadIds,       \* uploadSessionId, stagingObjectKey
   lease   : Messages \cup {NoMessage},   \* lease_token_hash
   expired : BOOLEAN]                     \* lease_expires_at_utc has passed

LedgerRow ==
  [exists : BOOLEAN, open : BOOLEAN,
   reqReserved : Nat, reqProcessed : Nat,
   usdReserved : Nat, usdProcessed : Nat]

Books == [jobs : [Photos -> JobRecord], ledger : [Months -> LedgerRow]]

NoJob == [status |-> "None", attempt |-> 0, code |-> "None", due |-> 0,
          req |-> None, cost |-> None, used |-> None, blocked |-> FALSE,
          staging |-> None, lease |-> NoMessage, expired |-> FALSE]

EmptyRow == [exists |-> FALSE, open |-> FALSE,
             reqReserved |-> 0, reqProcessed |-> 0,
             usdReserved |-> 0, usdProcessed |-> 0]

-----------------------------------------------------------------------------
(* Definitions whose name ends in _M are mutants: what the definition after *)
(* them would be with a plausible bug.  The specification never uses them.  *)

Lesser(a, b) == IF a <= b THEN a ELSE b

ReqHolders(S, jobs, m) == {p \in S : jobs[p].req = m}
CostHolders(S, jobs, m) == {p \in S : jobs[p].cost = m}

(* _description_provider_call_started: the cost is still reserved and the  *)
(* request reservation is gone, hence consumed.                            *)
CallStarted_M(j) == j.cost # None /\ j.req # None
CallStarted(j) == j.cost # None /\ j.req = None

(* The books with another record for one job, or another row for a month.  *)
WithJob(p, j, b) ==
  [jobs |-> [b.jobs EXCEPT ![p] = j], ledger |-> b.ledger]
WithRow(m, row, b) ==
  [jobs |-> b.jobs, ledger |-> [b.ledger EXCEPT ![m] = row]]

(* _release_description_provider_request for every photo of S: both        *)
(* reservations go back to the months they were taken in.                  *)
Release_M(S, b) ==      \* the reservations are not marked Released
  [jobs |-> b.jobs,
   ledger |-> [m \in Months |->
      [b.ledger[m] EXCEPT
         !.reqReserved =
            @ - Lesser(@, Cardinality(ReqHolders(S, b.jobs, m)))]]]
Release(S, b) ==
  [jobs |-> [p \in Photos |->
      IF p \in S THEN [b.jobs[p] EXCEPT !.req = None, !.cost = None]
                 ELSE b.jobs[p]],
   ledger |-> [m \in Months |->
      [b.ledger[m] EXCEPT
         !.reqReserved =
            @ - Lesser(@, Cardinality(ReqHolders(S, b.jobs, m))),
         !.usdReserved =
            @ - Lesser(@, Reservation * Cardinality(CostHolders(S, b.jobs, m)))]]]

(* _settle_provider_reservation *)
SettleRequest_M(p, consumed, b) ==     \* settled in the ledger only
  LET m == b.jobs[p].req IN
  IF m = None THEN b
  ELSE WithRow(m, [b.ledger[m] EXCEPT !.reqReserved = @ - Lesser(@, 1)], b)
SettleRequest(p, consumed, b) ==
  LET m == b.jobs[p].req
      units == Lesser(b.ledger[m].reqReserved, 1)
      spent == IF consumed THEN units ELSE 0
  IN
  IF m = None THEN b ELSE
  [jobs |-> [b.jobs EXCEPT ![p].req = None],
   ledger |-> [b.ledger EXCEPT ![m] =
      [b.ledger[m] EXCEPT !.reqReserved = @ - units,
                          !.reqProcessed = @ + spent]]]

(* _settle_description_cost_reservation: a started call is charged, one    *)
(* that was never made gives its consumed request back.                    *)
SettleCost(p, called, charge, b) ==
  LET j == b.jobs[p]
      freed(m) == IF m = j.cost THEN Lesser(b.ledger[m].usdReserved, Reservation)
                                ELSE 0
      spent(m) == IF m = j.cost /\ called THEN charge ELSE 0
      undone(m) == IF m = j.used /\ ~called
                     THEN Lesser(b.ledger[m].reqProcessed, 1) ELSE 0
  IN
  IF j.cost = None THEN b ELSE
  [jobs |-> [b.jobs EXCEPT ![p] =
      [j EXCEPT !.cost = None, !.used = IF called THEN j.used ELSE None]],
   ledger |-> [m \in Months |->
      [b.ledger[m] EXCEPT !.usdReserved = @ - freed(m),
                          !.usdProcessed = @ + spent(m),
                          !.reqProcessed = @ - undone(m)]]]

(* The pair of settlements every closing transaction makes. *)
Settle(p, called, charge, b) ==
  SettleCost(p, called, charge, SettleRequest(p, called, b))

SettleByCall(p, b) == Settle(p, CallStarted(b.jobs[p]), Reservation, b)

-----------------------------------------------------------------------------
(* _reserve_description_usage in month now: whether it succeeds, and the   *)
(* books it leaves.  Two matching reservations are kept; a lone one is     *)
(* released first; anything of another month is overwritten.               *)
BothMatch(p, now, b) == b.jobs[p].req = now /\ b.jobs[p].cost = now
OneMatches(p, now, b) == b.jobs[p].req = now \/ b.jobs[p].cost = now

Realigned(p, now, b) ==
  LET c == IF OneMatches(p, now, b) THEN Release({p}, b) ELSE b
  IN  WithRow(now, [c.ledger[now] EXCEPT !.exists = TRUE], c)

Fits_M(row) ==          \* compared before the new units are added
  /\ row.reqProcessed + row.reqReserved <= RequestLimit
  /\ row.usdProcessed + row.usdReserved <= UsdLimit
Fits(row) ==
  /\ row.reqProcessed + row.reqReserved + 1 <= RequestLimit
  /\ row.usdProcessed + row.usdReserved + Reservation <= UsdLimit

SetBlocked(p, value, b) ==
  WithJob(p, [b.jobs[p] EXCEPT !.blocked = value], b)

Reserved(p, now, b) ==
  LET j == b.jobs[p]
      row == b.ledger[now]
  IN
  [jobs |-> [b.jobs EXCEPT ![p] =
      [j EXCEPT !.req = now, !.cost = now, !.blocked = FALSE]],
   ledger |-> [b.ledger EXCEPT ![now] =
      [row EXCEPT !.reqReserved = @ + 1, !.usdReserved = @ + Reservation]]]

CanReserve_M(p, now, b) ==      \* the circuit is not looked at
  BothMatch(p, now, b) \/ Fits(Realigned(p, now, b).ledger[now])
CanReserve(p, now, b) ==
  IF BothMatch(p, now, b)
    THEN ~b.ledger[now].open
    ELSE LET row == Realigned(p, now, b).ledger[now]
         IN ~row.open /\ Fits(row)

Reserve(p, now, b) ==
  IF BothMatch(p, now, b)
    THEN SetBlocked(p, b.ledger[now].open, b)
    ELSE LET c == Realigned(p, now, b) IN
         IF c.ledger[now].open THEN SetBlocked(p, TRUE, c)
         ELSE IF Fits(c.ledger[now]) THEN Reserved(p, now, c)
         ELSE c

(* _open_provider_circuit and _close_provider_circuit touch only the row   *)
(* of the current month, and only if it exists.                            *)
OpenCircuit(now, b) ==
  WithRow(now, [b.ledger[now] EXCEPT !.open = @ \/ b.ledger[now].exists], b)

CloseCircuit(now, b) ==
  WithRow(now, [b.ledger[now] EXCEPT !.open = FALSE], b)

-----------------------------------------------------------------------------
(* What every transaction must leave behind. *)
ReservationsBackedIn(b) ==
  \A m \in Months :
    /\ Cardinality(ReqHolders(Photos, b.jobs, m)) <= b.ledger[m].reqReserved
    /\ Reservation * Cardinality(CostHolders(Photos, b.jobs, m))
         <= b.ledger[m].usdReserved

CeilingsHoldIn(b) ==
  \A m \in Months :
    /\ b.ledger[m].reqProcessed + b.ledger[m].reqReserved <= RequestLimit
    /\ b.ledger[m].usdProcessed + b.ledger[m].usdReserved <= UsdLimit

BooksOK(b) == b \in Books /\ ReservationsBackedIn(b) /\ CeilingsHoldIn(b)

-----------------------------------------------------------------------------
(* The operators below change a job and leave the ledger alone. *)

(* _clear_description_staging_request *)
ClearStaging(p, b) == WithJob(p, [b.jobs[p] EXCEPT !.staging = None], b)

(* What every transition assigns: status, failure code, next attempt; the  *)
(* lease is dropped.                                                       *)
Park(p, status, code, due, b) ==
  WithJob(p, [b.jobs[p] EXCEPT
                !.status = status, !.code = code, !.due = due,
                !.lease = NoMessage, !.expired = FALSE], b)

ResetAttempts(p, b) == WithJob(p, [b.jobs[p] EXCEPT !.attempt = 0], b)

=============================================================================
