------------------------ MODULE GeocodeJobsProofs ------------------------
(***************************************************************************)
(* Theorems of the reverse-geocoding jobs, for any photos, places, radius, *)
(* workers, copies of messages, attempts, months and limit: types,         *)
(* addresses that belong where they are shown, units that are owned by a   *)
(* running lookup, and the monthly budget of calls.                        *)
(*                                                                         *)
(* AddressNearby is not inductive by itself: a worker carries an address   *)
(* from one transaction to a later one. Carried adds that the address was  *)
(* found for the coordinates of its job, which complete_geocode compares   *)
(* with those of the photo.                                                *)
(*                                                                         *)
(* UnitsOwned counts the running lookups that hold a unit. What is kept,   *)
(* transaction by transaction, is that the units reserved are those that   *)
(* jobs hold, and that a job which stops running has given its unit up     *)
(* (UnitsOK). BudgetKept compares calls with units that were counted       *)
(* before; Margin adds the deliveries that have counted their call and are *)
(* about to make it.                                                       *)
(***************************************************************************)
EXTENDS GeocodeJobs, FiniteSetTheorems, TLAPS

Books == [jobs : [Jobs -> JobRecord], ledger : [Months -> LedgerRow]]
BooksOK(b) == b \in Books /\ WithinLimit(b.ledger)

(* What a worker is about to write belongs to the place of its job. *)
Carries(w) ==
  \/ worker[w].phase = "found"
  \/ worker[w].phase = "answered" /\ worker[w].answer = "Success"

Carried ==
  \A w \in Workers : Carries(w) =>
    worker[w].result \in Places /\ Linked(worker[w].result, JobOf(w)[2])

WorkersOK ==
  /\ worker \in [Workers -> WorkerRecord]
  /\ \A w \in Workers : worker[w].phase # "idle" => worker[w].job \in Jobs
  /\ Carried

MapOK ==
  /\ at \in [Photos -> Places]
  /\ address \in [Photos -> Places \cup {Unresolved}]
  /\ AddressNearby

RestOK ==
  /\ month \in Months
  /\ active \subseteq Photos
  /\ queue \subseteq Message
  /\ calls \in [Months -> Nat]

IInv == RestOK /\ MapOK /\ WorkersOK /\ BooksOK(books)

-----------------------------------------------------------------------------
(* The books *)

LEMMA WithJobOK ==
  ASSUME NEW b, BooksOK(b), NEW k \in Jobs, NEW j \in JobRecord
  PROVE  BooksOK(WithJob(k, j, b)) /\ WithJob(k, j, b).ledger = b.ledger
         /\ WithJob(k, j, b).jobs = [b.jobs EXCEPT ![k] = j]
BY DEF BooksOK, Books, WithJob

LEMMA WithRowOK ==
  ASSUME NEW b, BooksOK(b), NEW m \in Months, NEW row \in LedgerRow,
         row.processed + row.reserved <= MonthlyLimit
  PROVE  BooksOK(WithRow(m, row, b)) /\ WithRow(m, row, b).jobs = b.jobs
<1> DEFINE c == WithRow(m, row, b)
<1>1. c.jobs = b.jobs /\ c.ledger = [b.ledger EXCEPT ![m] = row]
  BY DEF WithRow
<1>2. c \in Books
  BY DEF BooksOK, Books, WithRow
<1>3. \A n \in Months : c.ledger[n] = IF n = m THEN row ELSE b.ledger[n]
  BY <1>1 DEF BooksOK, Books
<1>4. WithinLimit(c.ledger)
  BY <1>3 DEF BooksOK, WithinLimit
<1> QED
  BY <1>1, <1>2, <1>4 DEF BooksOK

LEMMA RowSettled ==
  ASSUME NEW row \in LedgerRow, row.processed + row.reserved <= MonthlyLimit,
         NEW units \in Nat, units <= row.reserved,
         NEW spent \in Nat, spent <= units
  PROVE  LET new == [row EXCEPT !.reserved = @ - units, !.processed = @ + spent]
         IN  new \in LedgerRow /\ new.processed + new.reserved <= MonthlyLimit
<1>1. row.reserved - units \in Nat /\ row.processed + spent \in Nat
  BY DEF LedgerRow
<1>2. (row.processed + spent) + (row.reserved - units) <= MonthlyLimit
  BY LimitsAssumption DEF LedgerRow
<1> QED
  BY <1>1, <1>2 DEF LedgerRow

LEMMA SettleOK ==
  ASSUME NEW b, BooksOK(b), NEW k \in Jobs, NEW consumed \in BOOLEAN
  PROVE  BooksOK(Settle(k, consumed, b))
<1> DEFINE m == b.jobs[k].req
           row == b.ledger[m]
           units == Lesser(row.reserved, 1)
           spent == IF consumed THEN units ELSE 0
           new == [row EXCEPT !.reserved = @ - units, !.processed = @ + spent]
           j == [b.jobs[k] EXCEPT !.req = None]
<1>1. CASE m = None
  BY <1>1 DEF Settle
<1>2. CASE m # None
  <2>1. b.jobs[k] \in JobRecord /\ m \in Months
    BY <1>2 DEF BooksOK, Books, JobRecord
  <2>2. j \in JobRecord
    BY <2>1 DEF JobRecord
  <2>3. row \in LedgerRow /\ row.processed + row.reserved <= MonthlyLimit
    BY <2>1 DEF BooksOK, Books, WithinLimit
  <2>4. /\ units \in Nat /\ spent \in Nat
        /\ units <= row.reserved /\ spent <= units
    BY <2>3 DEF LedgerRow, Lesser
  <2>5. new \in LedgerRow /\ new.processed + new.reserved <= MonthlyLimit
    BY <2>3, <2>4, RowSettled
  <2>6. Settle(k, consumed, b) = WithRow(m, new, WithJob(k, j, b))
    BY <1>2 DEF Settle, WithRow, WithJob
  <2>7. BooksOK(WithJob(k, j, b))
    BY <2>2, WithJobOK
  <2> HIDE DEF new, j
  <2>8. BooksOK(WithRow(m, new, WithJob(k, j, b)))
    BY <2>1, <2>5, <2>7, WithRowOK
  <2> QED
    BY <2>6, <2>8
<1> QED
  BY <1>1, <1>2

LEMMA RealignedOK ==
  ASSUME NEW b, BooksOK(b), NEW k \in Jobs, NEW now \in Months
  PROVE  BooksOK(Realigned(k, now, b))
<1> DEFINE c == Settle(k, FALSE, b)
           row == c.ledger[now]
           new == [row EXCEPT !.exists = TRUE]
<1>1. BooksOK(c)
  BY SettleOK
<1> HIDE DEF c
<1>2. row \in LedgerRow /\ row.processed + row.reserved <= MonthlyLimit
  BY <1>1 DEF BooksOK, Books, WithinLimit
<1>3. new \in LedgerRow /\ new.processed + new.reserved <= MonthlyLimit
  BY <1>2 DEF LedgerRow
<1> HIDE DEF new
<1> QED
  BY <1>1, <1>3, WithRowOK DEF Realigned, c, new

LEMMA SetBlockedOK ==
  ASSUME NEW b, BooksOK(b), NEW k \in Jobs, NEW value \in BOOLEAN
  PROVE  BooksOK(SetBlocked(k, value, b))
<1> DEFINE j == [b.jobs[k] EXCEPT !.blocked = value]
<1>1. j \in JobRecord
  BY DEF BooksOK, Books, JobRecord
<1> QED
  BY <1>1, WithJobOK DEF SetBlocked

LEMMA ReserveOK ==
  ASSUME NEW b, BooksOK(b), NEW k \in Jobs, NEW now \in Months
  PROVE  BooksOK(Reserve(k, now, b))
<1> DEFINE c == Realigned(k, now, b)
<1>1. BooksOK(c)
  BY RealignedOK
<1>2. CASE b.jobs[k].req = now
  <2>1. b.ledger[now].open \in BOOLEAN
    BY DEF BooksOK, Books, LedgerRow
  <2> QED
    BY <1>2, <2>1, SetBlockedOK DEF Reserve
<1>3. ASSUME Fits(c.ledger[now])
      PROVE  BooksOK(Reserved(k, now, c))
  <2> HIDE DEF c
  <2> DEFINE j == [c.jobs[k] EXCEPT !.req = now, !.blocked = FALSE]
             row == c.ledger[now]
             new == [row EXCEPT !.reserved = @ + 1]
  <2>1. j \in JobRecord
    <3>1. c.jobs[k] \in JobRecord
      BY <1>1 DEF BooksOK, Books
    <3> QED
      BY <3>1 DEF JobRecord
  <2>2. row \in LedgerRow
    BY <1>1 DEF BooksOK, Books
  <2>3. new \in LedgerRow /\ new.processed + new.reserved <= MonthlyLimit
    BY <2>2, <1>3 DEF LedgerRow, Fits
  <2> QED
    BY <1>1, <2>1, <2>3, WithJobOK, WithRowOK DEF Reserved
<1>4. CASE b.jobs[k].req # now
  <2>1. CASE c.ledger[now].open
    BY <1>1, <1>4, <2>1, SetBlockedOK DEF Reserve
  <2>2. CASE ~c.ledger[now].open /\ Fits(c.ledger[now])
    BY <1>3, <1>4, <2>2 DEF Reserve
  <2>3. CASE ~c.ledger[now].open /\ ~Fits(c.ledger[now])
    BY <1>1, <1>4, <2>3 DEF Reserve
  <2> QED
    BY <2>1, <2>2, <2>3
<1> QED
  BY <1>2, <1>4

LEMMA OpenCircuitOK ==
  ASSUME NEW b, BooksOK(b), NEW now \in Months
  PROVE  BooksOK(OpenCircuit(now, b))
<1> DEFINE row == b.ledger[now]
           new == [row EXCEPT !.open = @ \/ row.exists]
<1>1. row \in LedgerRow /\ row.processed + row.reserved <= MonthlyLimit
  BY DEF BooksOK, Books, WithinLimit
<1>2. new \in LedgerRow /\ new.processed + new.reserved <= MonthlyLimit
  <2> HIDE DEF row
  <2> QED
    BY <1>1 DEF LedgerRow
<1> QED
  BY <1>2, WithRowOK DEF OpenCircuit

LEMMA ParkOK ==
  ASSUME NEW b, BooksOK(b), NEW k \in Jobs, NEW status \in JobStatus,
         NEW code \in FailureCode, NEW due \in 0 .. (MaxMonth + 1)
  PROVE  BooksOK(Park(k, status, code, due, b))
<1> DEFINE j == [b.jobs[k] EXCEPT
                   !.status = status, !.code = code, !.due = due,
                   !.lease = None, !.expired = FALSE]
<1>1. j \in JobRecord
  BY DEF BooksOK, Books, JobRecord
<1> QED
  BY <1>1, WithJobOK DEF Park

LEMMA Committed ==
  ASSUME NEW b, BooksOK(b), Commit(b)
  PROVE  BooksOK(books)'
<1>1. b = [jobs |-> b.jobs, ledger |-> b.ledger]
  BY DEF BooksOK, Books
<1>2. BooksOK([jobs |-> job', ledger |-> ledger'])
  BY <1>1 DEF Commit
<1> QED
  BY <1>2 DEF books

LEMMA NotCommitted ==
  ASSUME BooksOK(books), UNCHANGED <<job, ledger>>
  PROVE  BooksOK(books)'
BY DEF books

LEMMA BooksTyped ==
  ASSUME BooksOK(books)
  PROVE  job \in [Jobs -> JobRecord] /\ ledger \in [Months -> LedgerRow]
BY DEF BooksOK, Books, books

-----------------------------------------------------------------------------
(* Places *)

LEMMA LinkedRefl ==
  ASSUME NEW c \in Places
  PROVE  Linked(c, c)
BY PlacesAssumption DEF Linked, Lesser

LEMMA LinkedNear ==
  ASSUME NEW a \in Places, NEW b \in Places, NEW c \in Places,
         Linked(a, b), Near(b, c)
  PROVE  Linked(a, c)
<1> SUFFICES ASSUME NEW e \in Places, Lesser(a, c) <= e, e < a \/ e < c
             PROVE  \E f \in Places : e < f /\ Near(e, f)
  BY DEF Linked
<1>0. a \in Int /\ b \in Int /\ c \in Int /\ e \in Int /\ Radius \in Int
  BY PlacesAssumption, LimitsAssumption
<1>1. CASE Lesser(a, b) <= e /\ (e < a \/ e < b)
  BY <1>1 DEF Linked
<1>2. CASE Lesser(b, c) <= e /\ (e < b \/ e < c)
  <2>1. CASE b <= c
    <3>1. e < c /\ Near(e, c)
      BY <1>0, <1>2, <2>1 DEF Near, Distance, Lesser
    <3> QED
      BY <3>1
  <2>2. CASE c <= b
    <3>1. e < b /\ Near(e, b)
      BY <1>0, <1>2, <2>2 DEF Near, Distance, Lesser
    <3> QED
      BY <3>1
  <2> QED
    BY <1>0, <2>1, <2>2
<1> QED
  BY <1>0, <1>1, <1>2 DEF Lesser

(* An address taken from a neighbour belongs to the place it is taken to. *)
LEMMA NearestLinked ==
  ASSUME MapOK, NEW S \in SUBSET Photos, NEW c \in Places, NEW q \in Nearest(S, c)
  PROVE  address[q] \in Places /\ Linked(address[q], c)
<1>1. q \in Photos /\ address[q] # Unresolved /\ Near(at[q], c)
  BY DEF Nearest, Resolved
<1>2. address[q] \in Places /\ at[q] \in Places
  BY <1>1 DEF MapOK
<1>3. Linked(address[q], at[q])
  BY <1>1 DEF MapOK, AddressNearby
<1> QED
  BY <1>1, <1>2, <1>3, LinkedNear

-----------------------------------------------------------------------------
(* Workers *)

LEMMA WorkerSet ==
  ASSUME WorkersOK, NEW w \in Workers, NEW r \in WorkerRecord,
         worker' = [worker EXCEPT ![w] = r],
         r.phase # "idle" => r.job \in Jobs,
         r.phase = "found" \/ (r.phase = "answered" /\ r.answer = "Success")
           => r.result \in Places /\ Linked(r.result, r.job[2])
  PROVE  WorkersOK'
<1>1. \A v \in Workers : worker'[v] = IF v = w THEN r ELSE worker[v]
  BY DEF WorkersOK
<1>2. worker' \in [Workers -> WorkerRecord]
  BY DEF WorkersOK
<1>3. \A v \in Workers : worker'[v].phase # "idle" => worker'[v].job \in Jobs
  BY <1>1 DEF WorkersOK
<1>4. Carried'
  BY <1>1 DEF WorkersOK, Carried, Carries, JobOf
<1> QED
  BY <1>2, <1>3, <1>4 DEF WorkersOK

LEMMA WorkerIdles ==
  ASSUME WorkersOK, NEW w \in Workers,
         worker' = [worker EXCEPT ![w] = IdleWorker]
  PROVE  WorkersOK'
<1>1. IdleWorker \in WorkerRecord /\ IdleWorker.phase = "idle"
  BY DEF IdleWorker, WorkerRecord, Phase, Answer
<1> QED
  BY <1>1, WorkerSet

LEMMA WorkerGoes ==
  ASSUME WorkersOK, NEW w \in Workers, worker[w].phase # "idle",
         NEW phase \in Phase \ {"idle", "found", "answered"}, Goto(w, phase)
  PROVE  WorkersOK'
<1> DEFINE r == [worker[w] EXCEPT !.phase = phase]
<1>1. worker[w] \in WorkerRecord /\ worker[w].job \in Jobs
  BY DEF WorkersOK
<1>2. r \in WorkerRecord /\ r.phase = phase /\ r.job \in Jobs
  BY <1>1 DEF WorkerRecord
<1>3. worker' = [worker EXCEPT ![w] = r]
  BY DEF Goto
<1> HIDE DEF r
<1> QED
  BY <1>2, <1>3, WorkerSet

LEMMA WorkerTakes ==
  ASSUME WorkersOK, NEW w \in Workers, NEW m \in Message,
         NEW phase \in {"ack", "claimed"}, Take(w, m, phase)
  PROVE  WorkersOK'
<1> DEFINE r == [IdleWorker EXCEPT !.phase = phase, !.copy = m.copy, !.job = m.job]
<1>1. r \in WorkerRecord /\ r.phase = phase /\ r.job \in Jobs
  BY DEF IdleWorker, WorkerRecord, Phase, Answer, Message
<1>2. worker' = [worker EXCEPT ![w] = r]
  BY DEF Take
<1> HIDE DEF r
<1> QED
  BY <1>1, <1>2, WorkerSet

-----------------------------------------------------------------------------
(* Frames *)

LEMMA MapSame ==
  ASSUME MapOK, UNCHANGED <<at, address>>
  PROVE  MapOK'
BY DEF MapOK, AddressNearby

LEMMA WorkersSame ==
  ASSUME WorkersOK, UNCHANGED worker
  PROVE  WorkersOK'
BY DEF WorkersOK, Carried, Carries, JobOf

LEMMA RestSame ==
  ASSUME RestOK, UNCHANGED <<month, active, calls>>, queue' \subseteq Message
  PROVE  RestOK'
BY DEF RestOK

LEMMA DispatchTyped ==
  ASSUME RestOK, NEW K, DispatchAfterCommit(K)
  PROVE  queue' \subseteq Message
BY DEF RestOK, DispatchAfterCommit, Sent

LEMMA JobValues ==
  /\ {"None", "Queued", "Running", "Failed", "Cancelled", "Succeeded",
      "DeferredQuota"} \subseteq JobStatus
  /\ {"None", "Failure", "Quota", "CircuitOpen", "StaleCoordinates",
      "MediaTrashed"} \subseteq FailureCode
  /\ 0 \in 0 .. MaxAttempts /\ 0 \in 0 .. (MaxMonth + 1)
  /\ \A m \in Months : m + 1 \in 0 .. (MaxMonth + 1)
BY BoundsAssumption DEF JobStatus, FailureCode, Months

(* The usual conclusions of a transaction. *)
LEMMA ParkOutcomes ==
  ASSUME NEW b, BooksOK(b), NEW k \in Jobs
  PROVE  /\ BooksOK(Park(k, "Queued", "None", 0, b))
         /\ BooksOK(Park(k, "Queued", "Failure", 0, b))
         /\ BooksOK(Park(k, "Failed", "Failure", 0, b))
         /\ BooksOK(Park(k, "Succeeded", "None", 0, b))
         /\ BooksOK(Park(k, "Cancelled", "StaleCoordinates", 0, b))
         /\ \A m \in Months :
              /\ BooksOK(Park(k, "DeferredQuota", "CircuitOpen", m + 1, b))
              /\ BooksOK(Park(k, "DeferredQuota", "Quota", m + 1, b))
BY JobValues, ParkOK

LEMMA CancelStaleOK ==
  ASSUME BooksOK(books), NEW k \in Jobs, CancelStale(k)
  PROVE  BooksOK(books)'
<1>1. BooksOK(Settle(k, TRUE, books))
  BY SettleOK
<1>2. BooksOK(Park(k, "Cancelled", "StaleCoordinates", 0, Settle(k, TRUE, books)))
  BY <1>1, ParkOutcomes
<1> QED
  BY <1>2, Committed DEF CancelStale

-----------------------------------------------------------------------------
(* The client's operations *)

LEMMA UpsertStep ==
  ASSUME IInv, NEW p \in Photos, NEW c \in Places, UpsertLocation(p, c)
  PROVE  IInv'
<1>1. /\ at' = [at EXCEPT ![p] = c] /\ active' \subseteq Photos
      /\ UNCHANGED <<month, job, ledger, queue, worker, calls>>
  BY DEF UpsertLocation, IInv, RestOK
<1>2. PICK a : /\ address' = [address EXCEPT ![p] = a]
               /\ a = Unresolved \/ (a \in Places /\ Linked(a, c))
  <2>1. CASE address' = [address EXCEPT ![p] = Unresolved]
    BY <2>1
  <2>2. CASE \E q \in Nearest(Photos, c) :
               address' = [address EXCEPT ![p] = address[q]]
    BY <2>2, NearestLinked DEF IInv
  <2> QED
    BY <2>1, <2>2 DEF UpsertLocation
<1>3. MapOK'
  <2>1. /\ at' \in [Photos -> Places]
        /\ address' \in [Photos -> Places \cup {Unresolved}]
    BY <1>1, <1>2 DEF IInv, MapOK
  <2>2. ASSUME NEW q \in Photos, address'[q] # Unresolved
        PROVE  Linked(address'[q], at'[q])
    <3>1. CASE q = p
      BY <1>1, <1>2, <2>2, <3>1 DEF IInv, MapOK
    <3>2. CASE q # p
      <4>1. address'[q] = address[q] /\ at'[q] = at[q]
        BY <1>1, <1>2, <3>2 DEF IInv, MapOK
      <4> QED
        BY <2>2, <4>1 DEF IInv, MapOK, AddressNearby
    <3> QED
      BY <3>1, <3>2
  <2>3. AddressNearby'
    BY <2>2 DEF AddressNearby
  <2> QED
    BY <2>1, <2>3 DEF MapOK
<1> QED
  BY <1>1, <1>3, WorkersSame, NotCommitted DEF IInv, RestOK

LEMMA RestoreStep ==
  ASSUME IInv, NEW p \in Photos, Restore(p)
  PROVE  IInv'
BY MapSame, WorkersSame, NotCommitted DEF IInv, RestOK, Restore

LEMMA ClippedTwice ==
  ASSUME NEW n \in Nat, NEW x \in Nat, NEW y \in Nat
  PROVE  /\ Lesser(n, x + y) \in Nat /\ Lesser(n, x + y) <= n
         /\ Lesser(n, x) \in Nat /\ Lesser(n, x) <= Lesser(n, x + y)
BY DEF Lesser

LEMMA TrashStep ==
  ASSUME IInv, NEW p \in Photos, Trash(p)
  PROVE  IInv'
<1> DEFINE closing == {k \in Jobs : k[1] = p /\ job[k].status \in
                                      {"Queued", "Running", "DeferredQuota"}}
           units(m, running) ==
             Cardinality({k \in closing :
                            /\ job[k].req = m
                            /\ (job[k].status = "Running") = running})
           charged(m) == Lesser(ledger[m].reserved, units(m, TRUE))
           freed(m) == Lesser(ledger[m].reserved, units(m, TRUE) + units(m, FALSE))
           closed(k) == [job[k] EXCEPT !.status = "Cancelled", !.code = "MediaTrashed",
                                       !.due = 0, !.req = None, !.lease = None,
                                       !.expired = FALSE]
           row(m) == [ledger[m] EXCEPT !.reserved = @ - freed(m),
                                       !.processed = @ + charged(m)]
<1>1. /\ job' = [k \in Jobs |-> IF k \in closing THEN closed(k) ELSE job[k]]
      /\ ledger' = [m \in Months |-> row(m)]
      /\ active' \subseteq Photos
      /\ UNCHANGED <<month, at, address, queue, worker, calls>>
  BY DEF Trash, IInv, RestOK
<1>2. job \in [Jobs -> JobRecord] /\ ledger \in [Months -> LedgerRow]
  BY BooksTyped DEF IInv
<1>3. job' \in [Jobs -> JobRecord]
  <2>1. ASSUME NEW k \in Jobs  PROVE closed(k) \in JobRecord
    <3>1. job[k] \in JobRecord
      BY <1>2
    <3> QED
      BY <3>1, JobValues DEF JobRecord
  <2> HIDE DEF closed, closing
  <2> QED
    BY <1>1, <1>2, <2>1
<1>4. ASSUME NEW m \in Months, NEW running \in BOOLEAN
      PROVE  units(m, running) \in Nat
  <2>1. IsFiniteSet(Jobs)
    BY PhotosAssumption, PlacesAssumption, FS_Product DEF Jobs
  <2>2. IsFiniteSet({k \in closing : /\ job[k].req = m
                                    /\ (job[k].status = "Running") = running})
    BY <2>1, FS_Subset
  <2> QED
    BY <2>2, FS_CardinalityType
<1> HIDE DEF units
<1>5. ASSUME NEW m \in Months
      PROVE  row(m) \in LedgerRow /\ row(m).processed + row(m).reserved <= MonthlyLimit
  <2>1. ledger[m] \in LedgerRow /\ ledger[m].processed + ledger[m].reserved <= MonthlyLimit
    BY <1>2 DEF IInv, BooksOK, WithinLimit, books
  <2>2. units(m, TRUE) \in Nat /\ units(m, FALSE) \in Nat
    BY <1>4
  <2>3. ledger[m].reserved \in Nat
    BY <2>1 DEF LedgerRow
  <2>4. /\ freed(m) \in Nat /\ freed(m) <= ledger[m].reserved
        /\ charged(m) \in Nat /\ charged(m) <= freed(m)
    BY <2>2, <2>3, ClippedTwice
  <2> QED
    BY <2>1, <2>4, RowSettled
<1> HIDE DEF row
<1>6. ledger' \in [Months -> LedgerRow] /\ WithinLimit(ledger')
  BY <1>1, <1>5 DEF WithinLimit
<1>7. BooksOK(books)'
  BY <1>3, <1>6 DEF BooksOK, Books, books
<1> QED
  BY <1>1, <1>7, MapSame, WorkersSame DEF IInv, RestOK

LEMMA PrepareStep ==
  ASSUME IInv, NEW p \in Photos, PrepareEnrichment(p)
  PROVE  IInv'
<1> DEFINE k == <<p, at[p]>>
           j == [NoJob EXCEPT !.status = "Queued"]
<1>1. k \in Jobs
  BY DEF IInv, MapOK, Jobs
<1>2. j \in JobRecord
  BY JobValues DEF NoJob, JobRecord
<1>3. Commit(WithJob(k, j, books))
  BY DEF PrepareEnrichment, Commit, WithJob, books
<1>4. BooksOK(books)'
  <2> HIDE DEF j, k
  <2> QED
    BY <1>1, <1>2, <1>3, WithJobOK, Committed DEF IInv
<1>5. RestOK'
  BY DispatchTyped, RestSame DEF IInv, PrepareEnrichment
<1> QED
  BY <1>4, <1>5, MapSame, WorkersSame DEF IInv, PrepareEnrichment

LEMMA PromotedOK ==
  ASSUME NEW b, BooksOK(b), NEW K \in SUBSET Jobs
  PROVE  BooksOK(Promoted(K, b))
<1> DEFINE c == Promoted(K, b)
           new(i) == [b.jobs[i] EXCEPT
                        !.status = "Queued", !.attempt = 0, !.code = "None",
                        !.due = 0, !.blocked = FALSE, !.lease = None,
                        !.expired = FALSE]
<1>1. ASSUME NEW i \in Jobs  PROVE new(i) \in JobRecord
  <2>1. b.jobs[i] \in JobRecord
    BY DEF BooksOK, Books
  <2> QED
    BY <2>1, JobValues DEF JobRecord
<1>2. /\ c = [jobs |-> c.jobs, ledger |-> b.ledger]
      /\ c.jobs = [i \in Jobs |-> IF i \in K THEN new(i) ELSE b.jobs[i]]
  BY DEF Promoted
<1> HIDE DEF new, c
<1>3. c.jobs \in [Jobs -> JobRecord] /\ c.ledger = b.ledger
  BY <1>1, <1>2 DEF BooksOK, Books
<1>4. BooksOK(c)
  BY <1>2, <1>3 DEF BooksOK, Books
<1> QED
  BY <1>4 DEF c

LEMMA RetryStep ==
  ASSUME IInv, NEW k \in Jobs, RetryJob(k)
  PROVE  IInv'
<1> DEFINE others == IF ledger[month].open THEN Promotable(k) ELSE {}
           row == [ledger[month] EXCEPT !.open = FALSE]
           b == WithRow(month, row, books)
           j == [job[k] EXCEPT !.attempt = IF job[k].status = "DeferredQuota"
                                             THEN 0 ELSE @]
           c == WithJob(k, j, b)
           d == Promoted(others, c)
<1>1. /\ Commit(Park(k, "Queued", "None", 0, d))
      /\ DispatchAfterCommit(others \cup {k})
      /\ UNCHANGED <<month, active, at, address, worker, calls>>
  BY DEF RetryJob
<1>2. BooksOK(b)
  <2>1. /\ month \in Months /\ ledger[month] \in LedgerRow
        /\ ledger[month].processed + ledger[month].reserved <= MonthlyLimit
    BY BooksTyped DEF IInv, RestOK, BooksOK, WithinLimit, books
  <2>2. row \in LedgerRow /\ row.processed + row.reserved <= MonthlyLimit
    BY <2>1 DEF LedgerRow
  <2> HIDE DEF row
  <2> QED
    BY <2>1, <2>2, WithRowOK DEF IInv
<1>3. j \in JobRecord
  <2>1. job[k] \in JobRecord
    BY BooksTyped DEF IInv
  <2> QED
    BY <2>1, BoundsAssumption DEF JobRecord
<1> HIDE DEF j, b
<1>4. BooksOK(c)
  BY <1>2, <1>3, WithJobOK
<1>5. others \in SUBSET Jobs
  BY DEF Promotable
<1> HIDE DEF c, others
<1>6. BooksOK(Park(k, "Queued", "None", 0, d))
  BY <1>4, <1>5, PromotedOK, ParkOutcomes
<1> HIDE DEF d
<1>7. BooksOK(books)' /\ RestOK'
  BY <1>1, <1>6, Committed, DispatchTyped, RestSame DEF IInv
<1> QED
  BY <1>1, <1>7, MapSame, WorkersSame DEF IInv

-----------------------------------------------------------------------------
(* The worker's transactions *)

LEMMA ClaimStep ==
  ASSUME IInv, NEW w \in Workers, NEW m \in queue, Claim(w, m)
  PROVE  IInv'
<1> DEFINE k == m.job
<1>1. m \in Message /\ k \in Jobs
  BY DEF IInv, RestOK, Message
<1>2. UNCHANGED <<month, active, at, address, queue, calls>>
  BY DEF Claim
<1>3. BooksOK(books) /\ job[k] \in JobRecord
  BY <1>1, BooksTyped DEF IInv
<1>4. BooksOK(books)' /\ \E phase \in {"ack", "claimed"} : Take(w, m, phase)
  <2>1. CASE ClaimStale(w, m)
    BY <1>1, <1>3, <2>1, CancelStaleOK DEF ClaimStale
  <2>2. CASE ClaimIgnores(w, m)
    BY <1>3, <2>2, NotCommitted DEF ClaimIgnores
  <2>3. CASE ClaimExhausted(w, m)
    <3> DEFINE b == Settle(k, TRUE, books)
               j == [b.jobs[k] EXCEPT !.status = "Failed", !.code = "Failure"]
    <3>1. BooksOK(b)
      BY <1>1, <1>3, SettleOK
    <3>2. Commit(WithJob(k, j, b)) /\ Take(w, m, "ack")
      BY <2>3 DEF ClaimExhausted
    <3> HIDE DEF b
    <3>3. b.jobs[k] \in JobRecord
      BY <1>1, <3>1 DEF BooksOK, Books
    <3>4. j \in JobRecord
      BY <3>3, JobValues DEF JobRecord
    <3> HIDE DEF j
    <3> QED
      BY <1>1, <3>1, <3>2, <3>4, WithJobOK, Committed
  <2>4. CASE ClaimStarts(w, m)
    <3> DEFINE j == [job[k] EXCEPT
                       !.status = "Running", !.attempt = @ + 1,
                       !.code = "None", !.lease = m.copy, !.expired = FALSE]
    <3>1. Commit(WithJob(k, j, books)) /\ Take(w, m, "claimed")
      BY <2>4 DEF ClaimStarts
    <3>2. job[k].attempt + 1 \in 0 .. MaxAttempts
      BY <1>3, <2>4, BoundsAssumption DEF ClaimStarts, Exhausted, JobRecord
    <3>3. m.copy \in Copies
      BY <1>1 DEF Message
    <3>4. j \in JobRecord
      BY <1>3, <3>2, <3>3, JobValues DEF JobRecord
    <3> HIDE DEF j
    <3> QED
      BY <1>1, <1>3, <3>1, <3>4, WithJobOK, Committed
  <2>5. CASE ClaimAgain(w, m)
    BY <1>3, <2>5, NotCommitted DEF ClaimAgain
  <2> QED
    BY <2>1, <2>2, <2>3, <2>4, <2>5 DEF Claim
<1>5. WorkersOK'
  BY <1>1, <1>4, WorkerTakes DEF IInv
<1> QED
  BY <1>2, <1>4, <1>5, MapSame, RestSame DEF IInv, RestOK

(* What every later transaction starts from. *)
LEMMA WorkerHasJob ==
  ASSUME IInv, NEW w \in Workers, worker[w].phase # "idle"
  PROVE  /\ JobOf(w) \in Jobs /\ JobOf(w)[1] \in Photos /\ JobOf(w)[2] \in Places
         /\ worker[w] \in WorkerRecord /\ worker[w].job = JobOf(w)
         /\ BooksOK(books) /\ job[JobOf(w)] \in JobRecord
BY BooksTyped DEF IInv, WorkersOK, JobOf, Jobs

LEMMA UnconfirmedStep ==
  ASSUME IInv, NEW w \in Workers, worker[w].phase # "idle",
         NEW phase \in Phase \ {"idle", "found", "answered"}, Unconfirmed(w, phase)
  PROVE  BooksOK(books)' /\ WorkersOK'
<1>1. BooksOK(books)'
  <2>1. JobOf(w) \in Jobs /\ BooksOK(books)
    BY WorkerHasJob
  <2> QED
    BY <2>1, CancelStaleOK, NotCommitted DEF Unconfirmed
<1>2. WorkersOK'
  BY WorkerGoes DEF Unconfirmed, IInv
<1> QED
  BY <1>1, <1>2

LEMMA FindStep ==
  ASSUME IInv, NEW w \in Workers, FindReusable(w)
  PROVE  IInv'
<1> DEFINE p == JobOf(w)[1]
           near == Nearest(Photos \ {p}, at[p])
<1>1. worker[w].phase # "idle" /\ UNCHANGED <<month, active, at, address, queue, calls>>
  BY DEF FindReusable
<1>2. BooksOK(books)' /\ WorkersOK'
  <2>1. CASE Unconfirmed(w, "unresolved")
    BY <1>1, <2>1, UnconfirmedStep DEF Phase
  <2>2. CASE Confirmed(w) /\ Goto(w, "unresolved") /\ UNCHANGED <<job, ledger>>
    BY <1>1, <2>2, NotCommitted, WorkerGoes DEF IInv, Phase
  <2>3. CASE /\ Confirmed(w) /\ UNCHANGED <<job, ledger>>
             /\ \E q \in near :
                  worker' = [worker EXCEPT ![w].phase = "found",
                                           ![w].result = address[q]]
    <3>1. PICK q \in near :
            worker' = [worker EXCEPT ![w].phase = "found", ![w].result = address[q]]
      BY <2>3
    <3>2. at[p] = JobOf(w)[2]
      BY <2>3 DEF Confirmed, Stale
    <3>3. address[q] \in Places /\ Linked(address[q], JobOf(w)[2])
      <4>1. at[p] \in Places
        BY <1>1, <3>2, WorkerHasJob
      <4> QED
        BY <3>2, <4>1, NearestLinked DEF IInv
    <3> DEFINE r == [worker[w] EXCEPT !.phase = "found", !.result = address[q]]
    <3>4. /\ r \in WorkerRecord /\ r.phase = "found" /\ r.result = address[q]
          /\ r.job = JobOf(w) /\ r.job \in Jobs
      BY <1>1, <3>3, WorkerHasJob DEF WorkerRecord, Phase
    <3>5. worker' = [worker EXCEPT ![w] = r]
      BY <3>1 DEF IInv, WorkersOK
    <3> HIDE DEF r
    <3>6. WorkersOK'
      BY <3>3, <3>4, <3>5, WorkerSet DEF IInv
    <3> QED
      BY <2>3, <3>6, NotCommitted DEF IInv
  <2> QED
    BY <2>1, <2>2, <2>3 DEF FindReusable
<1> QED
  BY <1>1, <1>2, MapSame, RestSame DEF IInv, RestOK

LEMMA ReserveStep ==
  ASSUME IInv, NEW w \in Workers, ReserveProviderCall(w)
  PROVE  IInv'
<1>1. worker[w].phase # "idle" /\ UNCHANGED <<month, active, at, address, queue, calls>>
  BY DEF ReserveProviderCall
<1>2. BooksOK(books)' /\ WorkersOK'
  <2>1. CASE Unconfirmed(w, "refused")
    BY <1>1, <2>1, UnconfirmedStep DEF Phase
  <2>2. CASE /\ Commit(Reserve(JobOf(w), month, books))
             /\ Goto(w, IF CanReserve(JobOf(w), month, books) THEN "reserved"
                                                              ELSE "refused")
    <3>1. BooksOK(Reserve(JobOf(w), month, books))
      BY <1>1, WorkerHasJob, ReserveOK DEF IInv, RestOK
    <3>2. Goto(w, "reserved") \/ Goto(w, "refused")
      BY <2>2
    <3>3. WorkersOK'
      BY <1>1, <3>2, WorkerGoes DEF IInv, Phase
    <3> QED
      BY <2>2, <3>1, <3>3, Committed
  <2> QED
    BY <2>1, <2>2 DEF ReserveProviderCall
<1> QED
  BY <1>1, <1>2, MapSame, RestSame DEF IInv, RestOK

LEMMA DeferStep ==
  ASSUME IInv, NEW w \in Workers, DeferRefused(w) \/ HandleQuota(w)
  PROVE  IInv'
<1>1. worker[w].phase # "idle" /\ UNCHANGED <<month, active, at, address, queue, calls>>
  BY DEF DeferRefused, HandleQuota
<1>2. PICK called \in BOOLEAN : DeferGeocode(w, called)
  BY DEF DeferRefused, HandleQuota
<1>3. BooksOK(books)' /\ WorkersOK'
  <2>1. CASE Unconfirmed(w, "ack")
    BY <1>1, <2>1, UnconfirmedStep DEF Phase
  <2>2. CASE ~Unconfirmed(w, "ack")
    <3> DEFINE k == JobOf(w)
               b == Settle(k, called, books)
               c == IF called THEN OpenCircuit(month, b) ELSE b
    <3>1. k \in Jobs /\ month \in Months /\ BooksOK(books)
      BY <1>1, WorkerHasJob DEF IInv, RestOK
    <3>2. BooksOK(b)
      BY <3>1, SettleOK
    <3>3. BooksOK(c)
      BY <3>1, <3>2, OpenCircuitOK
    <3>4. /\ \/ Commit(Park(k, "DeferredQuota", "CircuitOpen", month + 1, c))
             \/ Commit(Park(k, "DeferredQuota", "Quota", month + 1, c))
          /\ Goto(w, "ack")
      BY <1>2, <2>2 DEF DeferGeocode
    <3> HIDE DEF k, c
    <3>5. BooksOK(books)'
      BY <3>1, <3>3, <3>4, ParkOutcomes, Committed
    <3> QED
      BY <1>1, <3>4, <3>5, WorkerGoes DEF IInv, Phase
  <2> QED
    BY <2>1, <2>2
<1> QED
  BY <1>1, <1>3, MapSame, RestSame DEF IInv, RestOK

LEMMA ConsumeStep ==
  ASSUME IInv, NEW w \in Workers, ConsumeProviderCall(w)
  PROVE  IInv'
<1> DEFINE k == JobOf(w)
<1>1. worker[w].phase # "idle" /\ UNCHANGED <<month, active, at, address, queue, calls>>
  BY DEF ConsumeProviderCall
<1>2. BooksOK(books)' /\ WorkersOK'
  <2>1. CASE Unconfirmed(w, "ack")
    BY <1>1, <2>1, UnconfirmedStep DEF Phase
  <2>2. CASE /\ Commit(Settle(k, TRUE, books))
             /\ worker' = [worker EXCEPT
                  ![w].phase = IF job[k].req = None THEN "ack" ELSE "paid",
                  ![w].paid = job[k].req]
    <3> DEFINE phase == IF job[k].req = None THEN "ack" ELSE "paid"
               r == [worker[w] EXCEPT !.phase = phase, !.paid = job[k].req]
    <3>1. /\ k \in Jobs /\ worker[w] \in WorkerRecord /\ worker[w].job = k
          /\ BooksOK(books) /\ job[k] \in JobRecord
      BY <1>1, WorkerHasJob
    <3>2. job[k].req \in {None} \cup Months
      BY <3>1 DEF JobRecord
    <3>3. phase \in {"ack", "paid"} /\ phase \in Phase
      BY DEF Phase
    <3> HIDE DEF phase
    <3>4. r \in WorkerRecord /\ r.phase = phase /\ r.job \in Jobs
      BY <3>1, <3>2, <3>3 DEF WorkerRecord
    <3>5. worker' = [worker EXCEPT ![w] = r]
      BY <2>2 DEF IInv, WorkersOK, phase
    <3> HIDE DEF r
    <3>6. WorkersOK'
      BY <3>3, <3>4, <3>5, WorkerSet DEF IInv
    <3>7. BooksOK(Settle(k, TRUE, books))
      BY <3>1, SettleOK
    <3> QED
      BY <2>2, <3>6, <3>7, Committed
  <2> QED
    BY <2>1, <2>2 DEF ConsumeProviderCall
<1> QED
  BY <1>1, <1>2, MapSame, RestSame DEF IInv, RestOK

LEMMA CallStep ==
  ASSUME IInv, NEW w \in Workers, NEW answer \in Answer \ {"None"},
         CallProvider(w, answer)
  PROVE  IInv'
<1> DEFINE res == IF answer = "Success" THEN JobOf(w)[2] ELSE Unresolved
           r == [worker[w] EXCEPT !.phase = "answered", !.answer = answer,
                                  !.result = res]
<1>1. /\ worker[w].phase = "paid"
      /\ worker' = [worker EXCEPT ![w].phase = "answered", ![w].answer = answer,
                                  ![w].result = res]
      /\ calls' = [calls EXCEPT ![worker[w].paid] = @ + 1]
      /\ UNCHANGED <<month, active, at, address, job, ledger, queue>>
  BY DEF CallProvider
<1>2. /\ worker[w] \in WorkerRecord /\ worker[w].job = JobOf(w)
      /\ JobOf(w) \in Jobs /\ JobOf(w)[2] \in Places
  BY <1>1, WorkerHasJob
<1>3. /\ res \in Places \cup {Unresolved}
      /\ answer = "Success" => res \in Places /\ Linked(res, JobOf(w)[2])
  BY <1>2, LinkedRefl
<1> HIDE DEF res
<1>4. /\ r \in WorkerRecord /\ r.phase = "answered" /\ r.answer = answer
      /\ r.result = res /\ r.job = JobOf(w)
  BY <1>2, <1>3 DEF WorkerRecord, Phase
<1>5. worker' = [worker EXCEPT ![w] = r]
  BY <1>1 DEF IInv, WorkersOK
<1> HIDE DEF r
<1>6. WorkersOK'
  BY <1>2, <1>3, <1>4, <1>5, WorkerSet DEF IInv
<1>7. calls' \in [Months -> Nat]
  <2>1. \A m \in Months : calls[m] + 1 \in Nat
    BY DEF IInv, RestOK
  <2>2. calls' \in [Months -> Nat]
    BY <1>1, <2>1 DEF IInv, RestOK
  <2> QED
    BY <2>2
<1> QED
  BY <1>1, <1>6, <1>7, MapSame, NotCommitted DEF IInv, RestOK

LEMMA CompleteStep ==
  ASSUME IInv, NEW w \in Workers, CompleteGeocode(w)
  PROVE  IInv'
<1> DEFINE k == JobOf(w)
           reused == worker[w].phase = "found"
<1>1. /\ worker[w].phase # "idle" /\ Carries(w)
      /\ UNCHANGED <<month, active, at, queue, calls>>
  BY DEF CompleteGeocode, Carries
<1>2. CASE Unconfirmed(w, "ack") /\ UNCHANGED address
  <2>1. BooksOK(books)' /\ WorkersOK'
    BY <1>1, <1>2, UnconfirmedStep DEF Phase
  <2> QED
    BY <1>1, <1>2, <2>1, MapSame, RestSame DEF IInv, RestOK
<1>3. CASE /\ Confirmed(w)
           /\ address' = [address EXCEPT ![k[1]] = worker[w].result]
           /\ Commit(Park(k, "Succeeded", "None", 0, Settle(k, ~reused, books)))
           /\ Goto(w, "ack")
  <2>1. k \in Jobs /\ k[1] \in Photos /\ k[2] \in Places /\ BooksOK(books)
    BY <1>1, WorkerHasJob
  <2>2. BooksOK(books)'
    <3>1. reused \in BOOLEAN /\ (~reused) \in BOOLEAN
      OBVIOUS
    <3> HIDE DEF reused
    <3>2. BooksOK(Settle(k, ~reused, books))
      BY <2>1, <3>1, SettleOK
    <3>3. BooksOK(Park(k, "Succeeded", "None", 0, Settle(k, ~reused, books)))
      BY <2>1, <3>2, ParkOutcomes
    <3> QED
      BY <1>3, <3>3, Committed DEF reused
  <2>3. WorkersOK'
    BY <1>1, <1>3, WorkerGoes DEF IInv, Phase
  <2>4. MapOK'
    <3>1. worker[w].result \in Places /\ Linked(worker[w].result, k[2])
      BY <1>1 DEF IInv, WorkersOK, Carried
    <3>2. at[k[1]] = k[2]
      BY <1>3 DEF Confirmed, Stale
    <3>3. ASSUME NEW q \in Photos, address'[q] # Unresolved
          PROVE  Linked(address'[q], at[q])
      <4>1. CASE q = k[1]
        BY <1>3, <2>1, <3>1, <3>2, <4>1 DEF IInv, MapOK
      <4>2. CASE q # k[1]
        <5>1. address'[q] = address[q]
          BY <1>3, <4>2 DEF IInv, MapOK
        <5> QED
          BY <3>3, <5>1 DEF IInv, MapOK, AddressNearby
      <4> QED
        BY <4>1, <4>2
    <3>4. AddressNearby'
      BY <1>1, <3>3 DEF AddressNearby
    <3> QED
      BY <1>1, <1>3, <3>1, <3>4 DEF IInv, MapOK
  <2> QED
    BY <1>1, <2>2, <2>3, <2>4, RestSame DEF IInv, RestOK
<1> QED
  BY <1>2, <1>3 DEF CompleteGeocode

LEMMA FailStep ==
  ASSUME IInv, NEW w \in Workers, FailGeocode(w)
  PROVE  IInv'
<1> DEFINE k == JobOf(w)
           b == Settle(k, TRUE, books)
           c == IF worker[w].answer = "Auth" THEN OpenCircuit(month, b) ELSE b
<1>1. worker[w].phase # "idle" /\ UNCHANGED <<month, active, at, address, queue, calls>>
  BY DEF FailGeocode
<1>2. BooksOK(c) /\ k \in Jobs
  <2>1. k \in Jobs /\ month \in Months /\ BooksOK(books)
    BY <1>1, WorkerHasJob DEF IInv, RestOK
  <2>2. BooksOK(b)
    BY <2>1, SettleOK
  <2> QED
    BY <2>1, <2>2, OpenCircuitOK
<1>3. \/ Unconfirmed(w, "ack")
      \/ /\ Commit(Park(k, "Queued", "Failure", 0, c))
         /\ worker' = [worker EXCEPT ![w] = IdleWorker]
      \/ Commit(Park(k, "Failed", "Failure", 0, c)) /\ Goto(w, "ack")
  BY DEF FailGeocode
<1> HIDE DEF c, k
<1>4. BooksOK(books)' /\ WorkersOK'
  <2>1. CASE Unconfirmed(w, "ack")
    BY <1>1, <2>1, UnconfirmedStep DEF Phase
  <2>2. CASE /\ Commit(Park(k, "Queued", "Failure", 0, c))
             /\ worker' = [worker EXCEPT ![w] = IdleWorker]
    BY <1>2, <2>2, ParkOutcomes, Committed, WorkerIdles DEF IInv
  <2>3. CASE Commit(Park(k, "Failed", "Failure", 0, c)) /\ Goto(w, "ack")
    <3>1. BooksOK(books)'
      BY <1>2, <2>3, ParkOutcomes, Committed
    <3>2. WorkersOK'
      BY <1>1, <2>3, WorkerGoes DEF IInv, Phase
    <3> QED
      BY <3>1, <3>2
  <2> QED
    BY <1>3, <2>1, <2>2, <2>3
<1> QED
  BY <1>1, <1>4, MapSame, RestSame DEF IInv, RestOK

LEMMA ReturnStep ==
  ASSUME IInv, NEW w \in Workers, Acknowledge(w) \/ Crash(w)
  PROVE  IInv'
<1>1. /\ worker' = [worker EXCEPT ![w] = IdleWorker] /\ queue' \subseteq queue
      /\ UNCHANGED <<month, active, at, address, job, ledger, calls>>
  BY DEF Acknowledge, Crash, Delivered
<1> QED
  BY <1>1, WorkerIdles, MapSame, NotCommitted DEF IInv, RestOK

LEMMA SweepStep ==
  ASSUME IInv, NEW w \in Workers, NEW k \in Jobs, NEW arrives \in BOOLEAN,
         Sweep(w, k, arrives)
  PROVE  IInv'
<1>1. BooksOK(SweepRow(k))
  <2> DEFINE b == IF LeaseRanOut(k) THEN Settle(k, TRUE, books) ELSE books
             d == Settle(k, FALSE, books)
             j == [d.jobs[k] EXCEPT !.attempt = 0]
  <2>1. BooksOK(b) /\ BooksOK(d)
    BY SettleOK DEF IInv
  <2> HIDE DEF d
  <2>2. j \in JobRecord
    <3>1. d.jobs[k] \in JobRecord
      BY <2>1 DEF BooksOK, Books
    <3> QED
      BY <3>1, JobValues DEF JobRecord
  <2> HIDE DEF j
  <2>3. BooksOK(Park(k, "Queued", "None", 0, WithJob(k, j, d)))
    BY <2>1, <2>2, WithJobOK, ParkOutcomes
  <2> HIDE DEF b
  <2>4. BooksOK(Park(k, "Failed", "Failure", 0, b)) /\ BooksOK(Park(k, "Queued", "None", 0, b))
    BY <2>1, ParkOutcomes
  <2> QED
    BY <2>3, <2>4 DEF SweepRow, Restarted, b, d, j
<1>2. /\ BooksOK(books)' /\ queue' \subseteq Message
      /\ UNCHANGED <<month, active, at, address, worker, calls>>
  <2>1. queue' \subseteq queue \cup Message
    BY DEF Sweep, Sent
  <2> QED
    BY <1>1, <2>1, Committed DEF Sweep, IInv, RestOK
<1> QED
  BY <1>2, WorkersSame, MapSame, RestSame DEF IInv

-----------------------------------------------------------------------------
(* Theorems *)

LEMMA TimeStep ==
  ASSUME IInv, MonthTurns \/ \E k \in Jobs : LeaseExpires(k)
  PROVE  IInv'
<1>1. CASE MonthTurns
  <2>1. month' \in Months
    BY <1>1, BoundsAssumption DEF MonthTurns, IInv, RestOK, Months
  <2> QED
    BY <1>1, <2>1, MapSame, WorkersSame, NotCommitted DEF MonthTurns, IInv, RestOK
<1>2. ASSUME NEW k \in Jobs, LeaseExpires(k)
      PROVE  IInv'
  <2> DEFINE j == [job[k] EXCEPT !.expired = TRUE]
  <2>1. /\ Commit(WithJob(k, j, books))
        /\ UNCHANGED <<month, active, at, address, queue, worker, calls>>
    BY <1>2 DEF LeaseExpires, Commit, WithJob, books
  <2>2. j \in JobRecord
    <3>1. job[k] \in JobRecord
      BY BooksTyped DEF IInv
    <3> QED
      BY <3>1 DEF JobRecord
  <2> HIDE DEF j
  <2>3. BooksOK(books)'
    BY <2>1, <2>2, WithJobOK, Committed DEF IInv
  <2> QED
    BY <2>1, <2>3, MapSame, WorkersSame DEF IInv, RestOK
<1> QED
  BY <1>1, <1>2

LEMMA InitOK == Init => IInv
<1> SUFFICES ASSUME Init  PROVE IInv
  OBVIOUS
<1>1. RestOK
  BY BoundsAssumption DEF Init, RestOK, Months
<1>2. MapOK
  BY DEF Init, MapOK, AddressNearby
<1>3. WorkersOK
  <2>1. IdleWorker \in WorkerRecord /\ IdleWorker.phase = "idle"
    BY DEF IdleWorker, WorkerRecord, Phase, Answer
  <2>2. \A w \in Workers : worker[w] = IdleWorker
    BY DEF Init
  <2> QED
    BY <2>1, <2>2 DEF Init, WorkersOK, Carried, Carries
<1>4. BooksOK(books)
  <2>1. NoJob \in JobRecord
    BY JobValues DEF NoJob, JobRecord
  <2>2. EmptyRow \in LedgerRow /\ EmptyRow.processed + EmptyRow.reserved <= MonthlyLimit
    BY LimitsAssumption DEF EmptyRow, LedgerRow
  <2> QED
    BY <2>1, <2>2 DEF Init, BooksOK, Books, WithinLimit, books
<1> QED
  BY <1>1, <1>2, <1>3, <1>4 DEF IInv

LEMMA NextOK == IInv /\ [Next]_vars => IInv'
<1> SUFFICES ASSUME IInv, [Next]_vars  PROVE IInv'
  OBVIOUS
<1>1. CASE Client
  BY <1>1, UpsertStep, RestoreStep, TrashStep, PrepareStep, RetryStep DEF Client
<1>2. ASSUME NEW w \in Workers, WorkerStep(w)
      PROVE  IInv'
  BY <1>2, FindStep, ReserveStep, DeferStep, ConsumeStep, CallStep, CompleteStep,
     FailStep, ReturnStep DEF WorkerStep
<1>3. ASSUME NEW w \in Workers,
             \/ \E m \in queue : Claim(w, m)
             \/ Crash(w)
             \/ \E k \in Jobs, arrives \in BOOLEAN : Sweep(w, k, arrives)
      PROVE  IInv'
  BY <1>3, ClaimStep, ReturnStep, SweepStep
<1>4. CASE MonthTurns \/ \E k \in Jobs : LeaseExpires(k)
  BY <1>4, TimeStep
<1>5. CASE UNCHANGED vars
  BY <1>5, MapSame, WorkersSame, NotCommitted DEF vars, IInv, RestOK
<1> QED
  BY <1>1, <1>2, <1>3, <1>4, <1>5 DEF Next

(* Types, the limit, the addresses shown and those the workers carry hold  *)
(* in every reachable state.                                               *)
THEOREM Inductive == Spec => []IInv
BY InitOK, NextOK, PTL DEF Spec

(* Every reachable state is well typed: no attempt counter passes its      *)
(* maximum and no ledger column goes below zero.                           *)
THEOREM TypeCorrect == Spec => []TypeOK
<1>1. IInv => TypeOK
  BY BooksTyped DEF IInv, RestOK, MapOK, WorkersOK, TypeOK
<1> QED
  BY <1>1, Inductive, PTL

(* The calls counted and reserved in a month never exceed the limit.       *)
THEOREM LimitKept == Spec => []WithinLimit(ledger)
<1>1. IInv => WithinLimit(ledger)
  BY DEF IInv, BooksOK, books
<1> QED
  BY <1>1, Inductive, PTL

(* A photo shows only addresses that belong where it is, for any number of *)
(* photos and workers that move, share, clear and look up at once.         *)
THEOREM AddressesNearby == Spec => []AddressNearby
<1>1. IInv => AddressNearby
  BY DEF IInv, MapOK
<1> QED
  BY <1>1, Inductive, PTL
-----------------------------------------------------------------------------
(* Units: a reserved unit is that of one running job, and a spent unit     *)
(* stays spent.  Transactions are compared by the books they leave.        *)

Holders(b, m) == {k \in Jobs : b.jobs[k].req = m}

UnitsOK(b) ==
  /\ \A k \in Jobs : b.jobs[k].req # None => b.jobs[k].status = "Running"
  /\ \A m \in Months : b.ledger[m].reserved = Cardinality(Holders(b, m))

Grows(b, c) ==
  \A m \in Months : b.ledger[m].processed <= c.ledger[m].processed

LEMMA HoldersFinite ==
  ASSUME NEW b, NEW m
  PROVE  IsFiniteSet(Holders(b, m)) /\ Cardinality(Holders(b, m)) \in Nat
<1>1. IsFiniteSet(Jobs)
  BY PhotosAssumption, PlacesAssumption, FS_Product DEF Jobs
<1>2. IsFiniteSet(Holders(b, m))
  BY <1>1, FS_Subset DEF Holders
<1> QED
  BY <1>2, FS_CardinalityType

LEMMA GrowsTrans ==
  ASSUME NEW b, NEW c, NEW d, BooksOK(b), BooksOK(c), BooksOK(d),
         Grows(b, c), Grows(c, d)
  PROVE  Grows(b, d)
<1> SUFFICES ASSUME NEW m \in Months
             PROVE  b.ledger[m].processed <= d.ledger[m].processed
  BY DEF Grows
<1>1. /\ b.ledger[m].processed \in Nat /\ c.ledger[m].processed \in Nat
      /\ d.ledger[m].processed \in Nat
  BY DEF BooksOK, Books, LedgerRow
<1>2. /\ b.ledger[m].processed <= c.ledger[m].processed
      /\ c.ledger[m].processed <= d.ledger[m].processed
  BY DEF Grows
<1> QED
  BY <1>1, <1>2

LEMMA GrowsSame ==
  ASSUME NEW b, NEW c, BooksOK(b),
         \A m \in Months : c.ledger[m].processed = b.ledger[m].processed
  PROVE  Grows(b, c)
<1>1. \A m \in Months : b.ledger[m].processed \in Nat
  BY DEF BooksOK, Books, LedgerRow
<1> QED
  BY <1>1 DEF Grows

(* A job that changes without its reservation changes no unit. *)
LEMMA WithJobUnits ==
  ASSUME NEW b, BooksOK(b), UnitsOK(b), NEW k \in Jobs, NEW j \in JobRecord,
         j.req = b.jobs[k].req, j.req = None \/ j.status = "Running"
  PROVE  UnitsOK(WithJob(k, j, b)) /\ Grows(b, WithJob(k, j, b))
<1> DEFINE c == WithJob(k, j, b)
<1>1. /\ c.ledger = b.ledger
      /\ \A i \in Jobs : c.jobs[i] = IF i = k THEN j ELSE b.jobs[i]
  BY DEF WithJob, BooksOK, Books
<1> HIDE DEF c
<1>2. \A m \in Months : Holders(c, m) = Holders(b, m)
  BY <1>1 DEF Holders
<1>3. UnitsOK(c)
  BY <1>1, <1>2 DEF UnitsOK
<1>4. Grows(b, c)
  BY <1>1, GrowsSame
<1> QED
  BY <1>3, <1>4 DEF c

LEMMA WithRowUnits ==
  ASSUME NEW b, BooksOK(b), UnitsOK(b), NEW m \in Months, NEW row \in LedgerRow,
         row.reserved = b.ledger[m].reserved,
         row.processed = b.ledger[m].processed
  PROVE  UnitsOK(WithRow(m, row, b)) /\ Grows(b, WithRow(m, row, b))
<1> DEFINE c == WithRow(m, row, b)
<1>1. /\ c.jobs = b.jobs
      /\ \A n \in Months : c.ledger[n] = IF n = m THEN row ELSE b.ledger[n]
  BY DEF WithRow, BooksOK, Books
<1> HIDE DEF c
<1>2. \A n \in Months : Holders(c, n) = Holders(b, n)
  BY <1>1 DEF Holders
<1>3. UnitsOK(c)
  BY <1>1, <1>2 DEF UnitsOK
<1>4. \A n \in Months : c.ledger[n].processed = b.ledger[n].processed
  BY <1>1
<1>5. Grows(b, c)
  BY <1>4, GrowsSame
<1> QED
  BY <1>3, <1>5 DEF c

(* Settling takes exactly the unit of the job, and spends it if consumed. *)
LEMMA SettleUnits ==
  ASSUME NEW b, BooksOK(b), UnitsOK(b), NEW k \in Jobs, NEW consumed \in BOOLEAN
  PROVE  LET c == Settle(k, consumed, b) IN
         /\ UnitsOK(c) /\ Grows(b, c)
         /\ c.jobs[k] = [b.jobs[k] EXCEPT !.req = None]
         /\ b.jobs[k].req # None /\ consumed =>
              c.ledger[b.jobs[k].req].processed =
                b.ledger[b.jobs[k].req].processed + 1
<1> DEFINE m == b.jobs[k].req
           row == b.ledger[m]
           units == Lesser(row.reserved, 1)
           spent == IF consumed THEN units ELSE 0
           new == [row EXCEPT !.reserved = @ - units, !.processed = @ + spent]
           j == [b.jobs[k] EXCEPT !.req = None]
           c == Settle(k, consumed, b)
<1>0. b.jobs[k] \in JobRecord
  BY DEF BooksOK, Books
<1>1. CASE m = None
  <2>1. c = b
    BY <1>1 DEF Settle
  <2>2. b.jobs[k] = j
    BY <1>0, <1>1 DEF JobRecord
  <2>3. Grows(b, b)
    BY GrowsSame
  <2> QED
    BY <1>1, <2>1, <2>2, <2>3
<1>2. CASE m # None
  <2>1. m \in Months /\ j \in JobRecord /\ j.req = None /\ j.status = b.jobs[k].status
    BY <1>0, <1>2 DEF JobRecord
  <2>2. row \in LedgerRow
    BY <2>1 DEF BooksOK, Books
  <2>3. k \in Holders(b, m) /\ row.reserved = Cardinality(Holders(b, m))
    BY <2>1 DEF Holders, UnitsOK
  <2>4. row.reserved \in Nat /\ row.processed \in Nat /\ row.reserved >= 1
    BY <2>2, <2>3, HoldersFinite, FS_EmptySet DEF LedgerRow
  <2>5. units = 1 /\ spent \in {0, 1} /\ (consumed => spent = 1)
    BY <2>4 DEF Lesser
  <2>6. /\ new.reserved = row.reserved - 1
        /\ new.processed = row.processed + spent
    BY <2>2, <2>5 DEF LedgerRow
  <2>7. /\ c.jobs = [b.jobs EXCEPT ![k] = j]
        /\ c.ledger = [b.ledger EXCEPT ![m] = new]
    BY <1>2 DEF Settle
  <2> HIDE DEF c, new, units, spent, row, j
  <2>8. /\ \A i \in Jobs : c.jobs[i] = IF i = k THEN j ELSE b.jobs[i]
        /\ \A n \in Months : c.ledger[n] = IF n = m THEN new ELSE b.ledger[n]
    BY <2>7 DEF BooksOK, Books
  <2>9. /\ Holders(c, m) = Holders(b, m) \ {k}
        /\ \A n \in Months : n # m => Holders(c, n) = Holders(b, n)
    BY <1>2, <2>1, <2>8 DEF Holders, Months, None
  <2>10. Cardinality(Holders(c, m)) = Cardinality(Holders(b, m)) - 1
    BY <2>3, <2>9, HoldersFinite, FS_RemoveElement
  <2>11. UnitsOK(c)
    <3>1. \A i \in Jobs : c.jobs[i].req # None => c.jobs[i].status = "Running"
      BY <2>1, <2>8 DEF UnitsOK
    <3>2. ASSUME NEW n \in Months
          PROVE  c.ledger[n].reserved = Cardinality(Holders(c, n))
      BY <2>3, <2>6, <2>8, <2>9, <2>10 DEF UnitsOK, row
    <3> QED
      BY <3>1, <3>2 DEF UnitsOK
  <2>12. Grows(b, c)
    <3>1. ASSUME NEW n \in Months
          PROVE  b.ledger[n].processed <= c.ledger[n].processed
      <4>1. b.ledger[n].processed \in Nat
        BY DEF BooksOK, Books, LedgerRow
      <4>2. CASE n = m
        BY <2>4, <2>5, <2>6, <2>8, <4>2 DEF row
      <4>3. CASE n # m
        BY <2>8, <4>1, <4>3
      <4> QED
        BY <4>2, <4>3
    <3> QED
      BY <3>1 DEF Grows
  <2>13. consumed => c.ledger[m].processed = b.ledger[m].processed + 1
    BY <2>1, <2>5, <2>6, <2>8 DEF row
  <2>14. c.jobs[k] = j
    BY <2>8
  <2> QED
    BY <2>11, <2>12, <2>13, <2>14 DEF c, j
<1> QED
  BY <1>1, <1>2
LEMMA RealignedUnits ==
  ASSUME NEW b, BooksOK(b), UnitsOK(b), NEW k \in Jobs, NEW now \in Months
  PROVE  LET c == Realigned(k, now, b) IN
         /\ UnitsOK(c) /\ Grows(b, c)
         /\ c.jobs[k] = [b.jobs[k] EXCEPT !.req = None]
<1> DEFINE d == Settle(k, FALSE, b)
           row == d.ledger[now]
           new == [row EXCEPT !.exists = TRUE]
<1>1. /\ BooksOK(d) /\ UnitsOK(d) /\ Grows(b, d)
      /\ d.jobs[k] = [b.jobs[k] EXCEPT !.req = None]
  BY SettleOK, SettleUnits
<1> HIDE DEF d
<1>2. row \in LedgerRow /\ row.processed + row.reserved <= MonthlyLimit
  BY <1>1 DEF BooksOK, Books, WithinLimit
<1>3. /\ new \in LedgerRow /\ new.processed + new.reserved <= MonthlyLimit
      /\ new.reserved = row.reserved /\ new.processed = row.processed
  BY <1>2 DEF LedgerRow
<1> HIDE DEF new, row
<1>4. /\ BooksOK(WithRow(now, new, d)) /\ UnitsOK(WithRow(now, new, d))
      /\ Grows(d, WithRow(now, new, d)) /\ WithRow(now, new, d).jobs = d.jobs
  BY <1>1, <1>3, WithRowOK, WithRowUnits DEF row
<1>5. Grows(b, WithRow(now, new, d))
  BY <1>1, <1>4, GrowsTrans
<1>6. Realigned(k, now, b) = WithRow(now, new, d)
  BY DEF Realigned, new, row, d
<1> QED
  BY <1>1, <1>4, <1>5, <1>6

LEMMA SetBlockedUnits ==
  ASSUME NEW b, BooksOK(b), UnitsOK(b), NEW k \in Jobs, NEW value \in BOOLEAN
  PROVE  UnitsOK(SetBlocked(k, value, b)) /\ Grows(b, SetBlocked(k, value, b))
<1> DEFINE j == [b.jobs[k] EXCEPT !.blocked = value]
<1>1. b.jobs[k] \in JobRecord /\ (b.jobs[k].req # None => b.jobs[k].status = "Running")
  BY DEF BooksOK, Books, UnitsOK
<1>2. j \in JobRecord /\ j.req = b.jobs[k].req /\ j.status = b.jobs[k].status
  BY <1>1 DEF JobRecord
<1>3. SetBlocked(k, value, b) = WithJob(k, j, b)
  BY DEF SetBlocked
<1> HIDE DEF j
<1> QED
  BY <1>1, <1>2, <1>3, WithJobUnits

(* A new reservation is one more unit of the month, and one more holder. *)
LEMMA ReservedUnits ==
  ASSUME NEW b, BooksOK(b), UnitsOK(b), NEW k \in Jobs, NEW now \in Months,
         b.jobs[k].req = None, b.jobs[k].status = "Running"
  PROVE  UnitsOK(Reserved(k, now, b)) /\ Grows(b, Reserved(k, now, b))
<1> DEFINE c == Reserved(k, now, b)
           j == [b.jobs[k] EXCEPT !.req = now, !.blocked = FALSE]
           row == b.ledger[now]
           new == [row EXCEPT !.reserved = @ + 1]
<1>1. b.jobs[k] \in JobRecord /\ row \in LedgerRow
  BY DEF BooksOK, Books
<1>2. j.req = now /\ j.status = "Running" /\ now # None
  BY <1>1 DEF JobRecord, Months, None
<1>3. new.reserved = row.reserved + 1 /\ new.processed = row.processed
  BY <1>1 DEF LedgerRow
<1>4. c.jobs = [b.jobs EXCEPT ![k] = j] /\ c.ledger = [b.ledger EXCEPT ![now] = new]
  BY DEF Reserved, WithJob, WithRow
<1> HIDE DEF c, j, new
<1>5. /\ \A i \in Jobs : c.jobs[i] = IF i = k THEN j ELSE b.jobs[i]
      /\ \A n \in Months : c.ledger[n] = IF n = now THEN new ELSE b.ledger[n]
  BY <1>4 DEF BooksOK, Books
<1>6. /\ Holders(c, now) = Holders(b, now) \cup {k} /\ k \notin Holders(b, now)
      /\ \A n \in Months : n # now => Holders(c, n) = Holders(b, n)
  BY <1>2, <1>5 DEF Holders, Months, None
<1>7. Cardinality(Holders(c, now)) = Cardinality(Holders(b, now)) + 1
  BY <1>6, HoldersFinite, FS_AddElement
<1>8. UnitsOK(c)
  BY <1>2, <1>3, <1>5, <1>6, <1>7 DEF UnitsOK
<1>9. Grows(b, c)
  BY <1>3, <1>5, GrowsSame
<1> QED
  BY <1>8, <1>9 DEF c

LEMMA ReserveUnits ==
  ASSUME NEW b, BooksOK(b), UnitsOK(b), NEW k \in Jobs, NEW now \in Months,
         b.jobs[k].status = "Running"
  PROVE  UnitsOK(Reserve(k, now, b)) /\ Grows(b, Reserve(k, now, b))
<1> DEFINE c == Realigned(k, now, b)
<1>1. CASE b.jobs[k].req = now
  <2>1. b.ledger[now].open \in BOOLEAN
    BY DEF BooksOK, Books, LedgerRow
  <2> QED
    BY <1>1, <2>1, SetBlockedUnits DEF Reserve
<1>2. CASE b.jobs[k].req # now
  <2>1. /\ BooksOK(c) /\ UnitsOK(c) /\ Grows(b, c)
        /\ c.jobs[k] = [b.jobs[k] EXCEPT !.req = None]
    BY RealignedOK, RealignedUnits
  <2>2. \/ Reserve(k, now, b) = SetBlocked(k, TRUE, c)
        \/ Reserve(k, now, b) = Reserved(k, now, c)
        \/ Reserve(k, now, b) = c
    BY <1>2 DEF Reserve
  <2> HIDE DEF c
  <2>3. c.jobs[k].req = None /\ c.jobs[k].status = "Running"
    <3>1. b.jobs[k] \in JobRecord
      BY DEF BooksOK, Books
    <3> QED
      BY <2>1, <3>1 DEF JobRecord
  <2>4. /\ UnitsOK(SetBlocked(k, TRUE, c)) /\ Grows(c, SetBlocked(k, TRUE, c))
        /\ BooksOK(SetBlocked(k, TRUE, c))
    BY <2>1, SetBlockedOK, SetBlockedUnits
  <2>5. UnitsOK(Reserved(k, now, c)) /\ Grows(c, Reserved(k, now, c))
    BY <2>1, <2>3, ReservedUnits
  <2>6. BooksOK(Reserve(k, now, b))
    BY ReserveOK
  <2> QED
    BY <2>1, <2>2, <2>4, <2>5, <2>6, GrowsTrans
<1> QED
  BY <1>1, <1>2

LEMMA OpenCircuitUnits ==
  ASSUME NEW b, BooksOK(b), UnitsOK(b), NEW now \in Months
  PROVE  /\ UnitsOK(OpenCircuit(now, b)) /\ Grows(b, OpenCircuit(now, b))
         /\ OpenCircuit(now, b).jobs = b.jobs
<1> DEFINE row == b.ledger[now]
           new == [row EXCEPT !.open = @ \/ row.exists]
<1>1. row \in LedgerRow
  BY DEF BooksOK, Books
<1>2. /\ new \in LedgerRow /\ new.reserved = row.reserved
      /\ new.processed = row.processed
  <2> HIDE DEF row
  <2> QED
    BY <1>1 DEF LedgerRow
<1>3. OpenCircuit(now, b) = WithRow(now, new, b)
  BY DEF OpenCircuit
<1>4. WithRow(now, new, b).jobs = b.jobs
  BY DEF WithRow
<1> HIDE DEF new
<1> QED
  BY <1>2, <1>3, <1>4, WithRowUnits

(* A job may leave the running state once its reservation is settled. *)
LEMMA ParkUnits ==
  ASSUME NEW b, BooksOK(b), UnitsOK(b), NEW k \in Jobs, NEW status \in JobStatus,
         NEW code \in FailureCode, NEW due \in 0 .. (MaxMonth + 1),
         b.jobs[k].req = None
  PROVE  UnitsOK(Park(k, status, code, due, b)) /\ Grows(b, Park(k, status, code, due, b))
<1> DEFINE j == [b.jobs[k] EXCEPT
                   !.status = status, !.code = code, !.due = due,
                   !.lease = None, !.expired = FALSE]
<1>1. b.jobs[k] \in JobRecord
  BY DEF BooksOK, Books
<1>2. j \in JobRecord /\ j.req = None
  BY <1>1 DEF JobRecord
<1>3. Park(k, status, code, due, b) = WithJob(k, j, b)
  BY DEF Park
<1> HIDE DEF j
<1> QED
  BY <1>2, <1>3, WithJobUnits
LEMMA SettledParks ==
  ASSUME NEW b, BooksOK(b), UnitsOK(b), NEW k \in Jobs, NEW consumed \in BOOLEAN,
         NEW now \in Months, NEW c,
         \/ c = Settle(k, consumed, b)
         \/ c = OpenCircuit(now, Settle(k, consumed, b)),
         NEW status \in JobStatus, NEW code \in FailureCode,
         NEW due \in 0 .. (MaxMonth + 1)
  PROVE  LET d == Park(k, status, code, due, c)
         IN  BooksOK(d) /\ UnitsOK(d) /\ Grows(b, d)
<1> DEFINE s == Settle(k, consumed, b)
           d == Park(k, status, code, due, c)
<1>1. /\ BooksOK(s) /\ UnitsOK(s) /\ Grows(b, s)
      /\ s.jobs[k] = [b.jobs[k] EXCEPT !.req = None]
  BY SettleOK, SettleUnits
<1>2. c = s \/ c = OpenCircuit(now, s)
  OBVIOUS
<1> HIDE DEF s
<1>3. /\ BooksOK(OpenCircuit(now, s)) /\ UnitsOK(OpenCircuit(now, s))
      /\ Grows(s, OpenCircuit(now, s)) /\ OpenCircuit(now, s).jobs = s.jobs
  BY <1>1, OpenCircuitOK, OpenCircuitUnits
<1>4. Grows(b, OpenCircuit(now, s))
  BY <1>1, <1>3, GrowsTrans
<1>5. BooksOK(c) /\ UnitsOK(c) /\ Grows(b, c) /\ c.jobs[k].req = None
  <2>1. b.jobs[k] \in JobRecord
    BY DEF BooksOK, Books
  <2>2. s.jobs[k].req = None
    BY <1>1, <2>1 DEF JobRecord
  <2> QED
    BY <1>1, <1>2, <1>3, <1>4, <2>2
<1>6. BooksOK(d) /\ UnitsOK(d) /\ Grows(c, d)
  BY <1>5, ParkOK, ParkUnits
<1> HIDE DEF d
<1>7. Grows(b, d)
  BY <1>5, <1>6, GrowsTrans
<1> QED
  BY <1>6, <1>7 DEF d

-----------------------------------------------------------------------------
(* Transactions *)

Grown == \A m \in Months : ledger[m].processed <= ledger'[m].processed

UnitsKept == UnitsOK(books)' /\ Grown

LEMMA CommitUnits ==
  ASSUME NEW b, BooksOK(b), UnitsOK(b), Grows(books, b), Commit(b)
  PROVE  UnitsKept
<1>1. b.jobs = job' /\ b.ledger = ledger'
  BY DEF Commit
<1>2. UnitsOK([jobs |-> job', ledger |-> ledger'])
  BY <1>1 DEF UnitsOK, Holders
<1>3. Grown
  BY <1>1 DEF Grown, Grows, books
<1> QED
  BY <1>2, <1>3 DEF UnitsKept, books

LEMMA SameUnits ==
  ASSUME BooksOK(books), UnitsOK(books), UNCHANGED <<job, ledger>>
  PROVE  UnitsKept
<1>1. UnitsOK(books)'
  BY DEF books, UnitsOK, Holders
<1>2. \A m \in Months : ledger[m].processed \in Nat
  BY BooksTyped DEF LedgerRow
<1>3. Grown
  BY <1>2 DEF Grown
<1> QED
  BY <1>1, <1>3 DEF UnitsKept

LEMMA CancelUnits ==
  ASSUME BooksOK(books), UnitsOK(books), NEW k \in Jobs, CancelStale(k)
  PROVE  UnitsKept
<1> DEFINE d == Park(k, "Cancelled", "StaleCoordinates", 0, Settle(k, TRUE, books))
<1>1. 1 \in Months
  BY BoundsAssumption DEF Months
<1>2. BooksOK(d) /\ UnitsOK(d) /\ Grows(books, d)
  BY <1>1, SettledParks, JobValues
<1>3. Commit(d)
  BY DEF CancelStale
<1> HIDE DEF d
<1> QED
  BY <1>2, <1>3, CommitUnits

LEMMA UnconfirmedUnits ==
  ASSUME IInv, UnitsOK(books), NEW w \in Workers, worker[w].phase # "idle",
         NEW phase, Unconfirmed(w, phase)
  PROVE  UnitsKept
<1>1. JobOf(w) \in Jobs /\ BooksOK(books)
  BY WorkerHasJob
<1> QED
  BY <1>1, CancelUnits, SameUnits DEF Unconfirmed

LEMMA TrashUnits ==
  ASSUME IInv, UnitsOK(books), NEW p \in Photos, Trash(p)
  PROVE  UnitsKept
<1> DEFINE closing == {k \in Jobs : k[1] = p /\ job[k].status \in
                                      {"Queued", "Running", "DeferredQuota"}}
           held(m, running) == {k \in closing :
                                  /\ job[k].req = m
                                  /\ (job[k].status = "Running") = running}
           charged(m) == Lesser(ledger[m].reserved, Cardinality(held(m, TRUE)))
           freed(m) == Lesser(ledger[m].reserved,
                         Cardinality(held(m, TRUE)) + Cardinality(held(m, FALSE)))
           closed(k) == [job[k] EXCEPT !.status = "Cancelled", !.code = "MediaTrashed",
                                       !.due = 0, !.req = None, !.lease = None,
                                       !.expired = FALSE]
           row(m) == [ledger[m] EXCEPT !.reserved = @ - freed(m),
                                       !.processed = @ + charged(m)]
<1>1. /\ job' = [k \in Jobs |-> IF k \in closing THEN closed(k) ELSE job[k]]
      /\ ledger' = [m \in Months |-> row(m)]
  BY DEF Trash
<1>2. job \in [Jobs -> JobRecord] /\ ledger \in [Months -> LedgerRow]
  BY BooksTyped DEF IInv
<1>3. \A k \in Jobs : job[k].req # None => job[k].status = "Running"
  BY DEF UnitsOK, books
<1>4. \A k \in Jobs : closed(k).req = None
  BY <1>2 DEF JobRecord
<1> HIDE DEF closed
<1>5. ASSUME NEW m \in Months
      PROVE  /\ held(m, FALSE) = {}
             /\ held(m, TRUE) = Holders(books, m) \cap closing
             /\ Holders(books, m)' = Holders(books, m) \ held(m, TRUE)
  <2>1. held(m, FALSE) = {}
    BY <1>3 DEF Months, None
  <2>2. held(m, TRUE) = Holders(books, m) \cap closing
    BY <1>3 DEF Months, None, Holders, books
  <2>3. Holders(books, m)' = {k \in Jobs : job'[k].req = m}
    BY DEF Holders, books
  <2>4. Holders(books, m) = {k \in Jobs : job[k].req = m}
    BY DEF Holders, books
  <2>5. \A k \in Jobs : job'[k].req = IF k \in closing THEN None ELSE job[k].req
    <3> HIDE DEF closing
    <3> QED
      BY <1>1, <1>4
  <2>6. m # None
    BY DEF Months, None
  <2> DEFINE H == Holders(books, m)
             I == Holders(books, m)'
  <2> HIDE DEF closing, held
  <2>7. \A k : k \in I <=> k \in H /\ k \notin closing
    BY <2>3, <2>4, <2>5, <2>6
  <2> HIDE DEF H, I
  <2>8. I = H \ held(m, TRUE)
    BY <2>2, <2>7 DEF H
  <2> QED
    BY <2>1, <2>2, <2>8 DEF H, I
<1> HIDE DEF held
<1>6. ASSUME NEW m \in Months
      PROVE  /\ ledger'[m].reserved = Cardinality(Holders(books, m)')
             /\ ledger[m].processed <= ledger'[m].processed
  <2> DEFINE H == Holders(books, m)
             C == held(m, TRUE)
  <2>1. ledger[m] \in LedgerRow /\ ledger[m].reserved = Cardinality(H)
    BY <1>2 DEF UnitsOK, books
  <2>2. IsFiniteSet(H) /\ C \subseteq H
    BY <1>5, HoldersFinite
  <2>3. /\ Cardinality(C) \in Nat /\ Cardinality(H) \in Nat
        /\ Cardinality(C) <= Cardinality(H)
    <3> HIDE DEF H, C
    <3> QED
      BY <2>2, FS_Subset, FS_CardinalityType
  <2>4. Cardinality(held(m, FALSE)) = 0
    BY <1>5, FS_EmptySet
  <2>5. freed(m) = Cardinality(C) /\ charged(m) = Cardinality(C)
    <3> HIDE DEF C
    <3>1. Cardinality(C) + 0 = Cardinality(C)
      BY <2>3
    <3>2. Lesser(ledger[m].reserved, Cardinality(C)) = Cardinality(C)
      BY <2>1, <2>3 DEF Lesser
    <3> QED
      BY <2>4, <3>1, <3>2 DEF C
  <2>6. /\ ledger'[m].reserved = ledger[m].reserved - freed(m)
        /\ ledger'[m].processed = ledger[m].processed + charged(m)
    BY <1>1, <2>1 DEF LedgerRow
  <2>7. Cardinality(H \ C) = Cardinality(H) - Cardinality(C)
    <3> HIDE DEF H, C
    <3>1. H \cap C = C
      BY <2>2
    <3> QED
      BY <2>2, <3>1, FS_Difference
  <2>8. ledger[m].processed \in Nat
    BY <2>1 DEF LedgerRow
  <2>9. Holders(books, m)' = H \ C
    BY <1>5
  <2> HIDE DEF H, C, freed, charged
  <2> QED
    BY <2>1, <2>3, <2>5, <2>6, <2>7, <2>8, <2>9
<1>7. \A k \in Jobs : job'[k].req # None => job'[k].status = "Running"
  <2> HIDE DEF closing
  <2> QED
    BY <1>1, <1>3, <1>4
<1>8. UnitsOK(books)'
  <2>1. \A m \in Months : ledger'[m].reserved = Cardinality(Holders(books, m)')
    BY <1>6
  <2> QED
    BY <1>7, <2>1 DEF UnitsOK, books
<1>9. Grown
  BY <1>6 DEF Grown
<1> QED
  BY <1>8, <1>9 DEF UnitsKept
LEMMA PrepareUnits ==
  ASSUME IInv, UnitsOK(books), NEW p \in Photos, PrepareEnrichment(p)
  PROVE  UnitsKept
<1> DEFINE k == <<p, at[p]>>
           j == [NoJob EXCEPT !.status = "Queued"]
<1>1. k \in Jobs /\ BooksOK(books) /\ books.jobs = job
  BY DEF IInv, MapOK, Jobs, books
<1>2. j \in JobRecord /\ j.req = None
  BY JobValues DEF NoJob, JobRecord
<1>3. Commit(WithJob(k, j, books)) /\ job[k].status # "Running"
  BY DEF PrepareEnrichment, Commit, WithJob, books
<1> HIDE DEF j, k
<1>4. books.jobs[k].req = None
  BY <1>1, <1>3 DEF UnitsOK
<1>5. /\ BooksOK(WithJob(k, j, books)) /\ UnitsOK(WithJob(k, j, books))
      /\ Grows(books, WithJob(k, j, books))
  BY <1>1, <1>2, <1>4, WithJobOK, WithJobUnits
<1> QED
  BY <1>3, <1>5, CommitUnits

LEMMA PromotedUnits ==
  ASSUME NEW b, BooksOK(b), UnitsOK(b), NEW K \in SUBSET Jobs,
         \A i \in K : b.jobs[i].status # "Running"
  PROVE  UnitsOK(Promoted(K, b)) /\ Grows(b, Promoted(K, b))
<1> DEFINE c == Promoted(K, b)
           new(i) == [b.jobs[i] EXCEPT
                        !.status = "Queued", !.attempt = 0, !.code = "None",
                        !.due = 0, !.blocked = FALSE, !.lease = None,
                        !.expired = FALSE]
<1>1. ASSUME NEW i \in Jobs  PROVE new(i).req = b.jobs[i].req
  <2>1. b.jobs[i] \in JobRecord
    BY DEF BooksOK, Books
  <2> QED
    BY <2>1 DEF JobRecord
<1>2. /\ c.ledger = b.ledger
      /\ \A i \in Jobs : c.jobs[i] = IF i \in K THEN new(i) ELSE b.jobs[i]
  BY DEF Promoted
<1> HIDE DEF new, c
<1>3. \A i \in Jobs : c.jobs[i].req = b.jobs[i].req
  BY <1>1, <1>2
<1>4. \A m \in Months : Holders(c, m) = Holders(b, m)
  BY <1>3 DEF Holders
<1>5. \A i \in Jobs : c.jobs[i].req # None => c.jobs[i].status = "Running"
  BY <1>2, <1>3 DEF UnitsOK
<1>6. UnitsOK(c)
  BY <1>2, <1>4, <1>5 DEF UnitsOK
<1>7. Grows(b, c)
  BY <1>2, GrowsSame
<1> QED
  BY <1>6, <1>7 DEF c

LEMMA RetryUnits ==
  ASSUME IInv, UnitsOK(books), NEW k \in Jobs, RetryJob(k)
  PROVE  UnitsKept
<1> DEFINE others == IF ledger[month].open THEN Promotable(k) ELSE {}
           row == [ledger[month] EXCEPT !.open = FALSE]
           b == WithRow(month, row, books)
           j == [job[k] EXCEPT !.attempt = IF job[k].status = "DeferredQuota"
                                             THEN 0 ELSE @]
           c == WithJob(k, j, b)
           d == Promoted(others, c)
           e == Park(k, "Queued", "None", 0, d)
<1>1. /\ Commit(e) /\ job[k].status \in {"Failed", "DeferredQuota"}
      /\ others \in SUBSET (Jobs \ {k})
      /\ \A i \in others : job[i].status = "DeferredQuota"
  BY DEF RetryJob, RetryAllowed, Promotable
<1>2. BooksOK(books) /\ books.jobs = job /\ books.ledger = ledger
  BY DEF IInv, books
<1>3. BooksOK(b) /\ UnitsOK(b) /\ Grows(books, b) /\ b.jobs = job
  <2>1. /\ month \in Months /\ ledger[month] \in LedgerRow
        /\ ledger[month].processed + ledger[month].reserved <= MonthlyLimit
    BY BooksTyped DEF IInv, RestOK, BooksOK, WithinLimit, books
  <2>2. /\ row \in LedgerRow /\ row.processed + row.reserved <= MonthlyLimit
        /\ row.processed = ledger[month].processed
        /\ row.reserved = ledger[month].reserved
    BY <2>1 DEF LedgerRow
  <2> HIDE DEF row
  <2> QED
    BY <1>2, <2>1, <2>2, WithRowOK, WithRowUnits
<1> HIDE DEF others
<1>4. j \in JobRecord /\ j.req = None /\ job[k].req = None /\ j.status = job[k].status
  <2>1. job[k] \in JobRecord
    BY BooksTyped DEF IInv
  <2>2. job[k].req = None
    BY <1>1, <1>2 DEF UnitsOK
  <2> QED
    BY <2>1, <2>2, BoundsAssumption DEF JobRecord
<1> HIDE DEF j, b
<1>5. /\ BooksOK(c) /\ UnitsOK(c) /\ Grows(b, c)
      /\ c.jobs = [job EXCEPT ![k] = j]
  BY <1>3, <1>4, WithJobOK, WithJobUnits
<1>6. \A i \in others : c.jobs[i].status # "Running"
  BY <1>1, <1>2, <1>5 DEF BooksOK, Books
<1>7. c.jobs[k] = j
  BY <1>2, <1>5 DEF BooksOK, Books
<1> HIDE DEF c
<1>8. BooksOK(d) /\ UnitsOK(d) /\ Grows(c, d)
  BY <1>1, <1>5, <1>6, PromotedOK, PromotedUnits
<1>9. d.jobs[k].req = None
  BY <1>1, <1>4, <1>7 DEF Promoted
<1> HIDE DEF d
<1>10. BooksOK(e) /\ UnitsOK(e) /\ Grows(d, e)
  BY <1>8, <1>9, ParkOutcomes, ParkUnits, JobValues
<1> HIDE DEF e
<1>11. Grows(books, e)
  BY <1>2, <1>3, <1>5, <1>8, <1>10, GrowsTrans
<1> QED
  BY <1>1, <1>10, <1>11, CommitUnits

LEMMA ClaimUnits ==
  ASSUME IInv, UnitsOK(books), NEW w \in Workers, NEW m \in queue, Claim(w, m)
  PROVE  UnitsKept
<1> DEFINE k == m.job
<1>1. m \in Message /\ k \in Jobs /\ BooksOK(books)
  BY DEF IInv, RestOK, Message
<1>2. job[k] \in JobRecord /\ books.jobs = job
  BY <1>1, BooksTyped DEF books
<1>3. CASE ClaimStale(w, m)
  BY <1>1, <1>3, CancelUnits DEF ClaimStale
<1>4. CASE ClaimIgnores(w, m) \/ ClaimAgain(w, m)
  BY <1>1, <1>4, SameUnits DEF ClaimIgnores, ClaimAgain
<1>5. CASE ClaimExhausted(w, m)
  <2> DEFINE b == Settle(k, TRUE, books)
             j == [b.jobs[k] EXCEPT !.status = "Failed", !.code = "Failure"]
  <2>1. /\ BooksOK(b) /\ UnitsOK(b) /\ Grows(books, b)
        /\ b.jobs[k] = [job[k] EXCEPT !.req = None]
    BY <1>1, <1>2, SettleOK, SettleUnits
  <2>2. Commit(WithJob(k, j, b))
    BY <1>5 DEF ClaimExhausted
  <2> HIDE DEF b
  <2>3. b.jobs[k] \in JobRecord /\ b.jobs[k].req = None
    BY <1>1, <1>2, <2>1 DEF BooksOK, Books, JobRecord
  <2>4. j \in JobRecord /\ j.req = None
    BY <2>3, JobValues DEF JobRecord
  <2> HIDE DEF j
  <2>5. /\ BooksOK(WithJob(k, j, b)) /\ UnitsOK(WithJob(k, j, b))
        /\ Grows(b, WithJob(k, j, b))
    BY <1>1, <2>1, <2>3, <2>4, WithJobOK, WithJobUnits
  <2>6. Grows(books, WithJob(k, j, b))
    BY <1>1, <2>1, <2>5, GrowsTrans
  <2> QED
    BY <2>2, <2>5, <2>6, CommitUnits
<1>6. CASE ClaimStarts(w, m)
  <2> DEFINE j == [job[k] EXCEPT
                     !.status = "Running", !.attempt = @ + 1,
                     !.code = "None", !.lease = m.copy, !.expired = FALSE]
  <2>1. Commit(WithJob(k, j, books))
    BY <1>6 DEF ClaimStarts
  <2>2. job[k].attempt + 1 \in 0 .. MaxAttempts
    BY <1>2, <1>6, BoundsAssumption DEF ClaimStarts, Exhausted, JobRecord
  <2>3. m.copy \in Copies
    BY <1>1 DEF Message
  <2>4. j \in JobRecord /\ j.req = job[k].req /\ j.status = "Running"
    BY <1>2, <2>2, <2>3, JobValues DEF JobRecord
  <2> HIDE DEF j
  <2>5. /\ BooksOK(WithJob(k, j, books)) /\ UnitsOK(WithJob(k, j, books))
        /\ Grows(books, WithJob(k, j, books))
    BY <1>1, <1>2, <2>4, WithJobOK, WithJobUnits
  <2> QED
    BY <2>1, <2>5, CommitUnits
<1> QED
  BY <1>3, <1>4, <1>5, <1>6 DEF Claim

(* A confirmed delivery holds the lease of a running job. *)
LEMMA ConfirmedRuns ==
  ASSUME NEW w, Confirmed(w)
  PROVE  job[JobOf(w)].status = "Running"
BY DEF Confirmed, Owns, HoldsLease

LEMMA ReserveCallUnits ==
  ASSUME IInv, UnitsOK(books), NEW w \in Workers, ReserveProviderCall(w)
  PROVE  UnitsKept
<1> DEFINE c == Reserve(JobOf(w), month, books)
<1>1. worker[w].phase # "idle"
  BY DEF ReserveProviderCall
<1>2. CASE Unconfirmed(w, "refused")
  BY <1>1, <1>2, UnconfirmedUnits
<1>3. CASE Confirmed(w) /\ Commit(c)
  <2>1. JobOf(w) \in Jobs /\ month \in Months /\ BooksOK(books) /\ books.jobs = job
    BY <1>1, WorkerHasJob DEF IInv, RestOK, books
  <2>2. BooksOK(c) /\ UnitsOK(c) /\ Grows(books, c)
    BY <1>3, <2>1, ConfirmedRuns, ReserveOK, ReserveUnits
  <2> HIDE DEF c
  <2> QED
    BY <1>3, <2>2, CommitUnits
<1> QED
  BY <1>2, <1>3 DEF ReserveProviderCall

LEMMA DeferUnits ==
  ASSUME IInv, UnitsOK(books), NEW w \in Workers, DeferRefused(w) \/ HandleQuota(w)
  PROVE  UnitsKept
<1>1. worker[w].phase # "idle"
  BY DEF DeferRefused, HandleQuota
<1>2. PICK called \in BOOLEAN : DeferGeocode(w, called)
  BY DEF DeferRefused, HandleQuota
<1>3. CASE Unconfirmed(w, "ack")
  BY <1>1, <1>3, UnconfirmedUnits
<1>4. CASE ~Unconfirmed(w, "ack")
  <2> DEFINE k == JobOf(w)
             b == Settle(k, called, books)
             c == IF called THEN OpenCircuit(month, b) ELSE b
             d(code) == Park(k, "DeferredQuota", code, month + 1, c)
  <2>1. k \in Jobs /\ month \in Months /\ BooksOK(books)
    BY <1>1, WorkerHasJob DEF IInv, RestOK
  <2>2. Commit(d("CircuitOpen")) \/ Commit(d("Quota"))
    BY <1>2, <1>4 DEF DeferGeocode
  <2>3. c = b \/ c = OpenCircuit(month, b)
    OBVIOUS
  <2>4. ASSUME NEW code \in FailureCode
        PROVE  BooksOK(d(code)) /\ UnitsOK(d(code)) /\ Grows(books, d(code))
    <3> HIDE DEF c, k
    <3> QED
      BY <2>1, <2>3, SettledParks, JobValues
  <2> HIDE DEF d
  <2> QED
    BY <2>2, <2>4, JobValues, CommitUnits
<1> QED
  BY <1>3, <1>4

LEMMA ConsumeUnits ==
  ASSUME IInv, UnitsOK(books), NEW w \in Workers, ConsumeProviderCall(w)
  PROVE  UnitsKept
<1> DEFINE c == Settle(JobOf(w), TRUE, books)
<1>1. worker[w].phase # "idle"
  BY DEF ConsumeProviderCall
<1>2. CASE Unconfirmed(w, "ack")
  BY <1>1, <1>2, UnconfirmedUnits
<1>3. CASE Commit(c)
  <2>1. JobOf(w) \in Jobs /\ BooksOK(books)
    BY <1>1, WorkerHasJob
  <2>2. BooksOK(c) /\ UnitsOK(c) /\ Grows(books, c)
    BY <2>1, SettleOK, SettleUnits
  <2> HIDE DEF c
  <2> QED
    BY <1>3, <2>2, CommitUnits
<1> QED
  BY <1>2, <1>3 DEF ConsumeProviderCall

LEMMA OutcomeUnits ==
  ASSUME IInv, UnitsOK(books), NEW w \in Workers, CompleteGeocode(w) \/ FailGeocode(w)
  PROVE  UnitsKept
<1> DEFINE k == JobOf(w)
           reused == worker[w].phase = "found"
           b == Settle(k, TRUE, books)
           c == IF worker[w].answer = "Auth" THEN OpenCircuit(month, b) ELSE b
           d == Park(k, "Succeeded", "None", 0, Settle(k, ~reused, books))
           e(status) == Park(k, status, "Failure", 0, c)
<1>1. worker[w].phase # "idle"
  BY DEF CompleteGeocode, FailGeocode
<1>2. \/ Unconfirmed(w, "ack")
      \/ Commit(d)
      \/ Commit(e("Queued")) \/ Commit(e("Failed"))
  BY DEF CompleteGeocode, FailGeocode
<1>3. k \in Jobs /\ month \in Months /\ BooksOK(books)
  BY <1>1, WorkerHasJob DEF IInv, RestOK
<1>4. BooksOK(d) /\ UnitsOK(d) /\ Grows(books, d)
  <2>1. (~reused) \in BOOLEAN
    OBVIOUS
  <2> DEFINE given == ~reused
  <2> HIDE DEF reused, k
  <2>2. BooksOK(Park(k, "Succeeded", "None", 0, Settle(k, given, books)))
        /\ UnitsOK(Park(k, "Succeeded", "None", 0, Settle(k, given, books)))
        /\ Grows(books, Park(k, "Succeeded", "None", 0, Settle(k, given, books)))
    <3>1. given \in BOOLEAN
      BY <2>1
    <3> HIDE DEF given
    <3> QED
      BY <1>3, <3>1, SettledParks, JobValues
  <2> QED
    BY <2>2
<1>5. ASSUME NEW status \in JobStatus
      PROVE  BooksOK(e(status)) /\ UnitsOK(e(status)) /\ Grows(books, e(status))
  <2>1. c = b \/ c = OpenCircuit(month, b)
    OBVIOUS
  <2> HIDE DEF c, k
  <2> QED
    BY <1>3, <2>1, SettledParks, JobValues
<1> HIDE DEF d, e
<1> QED
  BY <1>1, <1>2, <1>4, <1>5, UnconfirmedUnits, JobValues, CommitUnits
LEMMA SweepUnits ==
  ASSUME IInv, UnitsOK(books), NEW w \in Workers, NEW k \in Jobs,
         NEW arrives \in BOOLEAN, Sweep(w, k, arrives)
  PROVE  UnitsKept
<1> DEFINE b == Settle(k, TRUE, books)
           d == Settle(k, FALSE, books)
           j == [d.jobs[k] EXCEPT !.attempt = 0]
           e == WithJob(k, j, d)
<1>1. BooksOK(books) /\ books.jobs = job /\ job[k] \in JobRecord
  BY BooksTyped DEF IInv, books
<1>2. Commit(SweepRow(k)) /\ (Due(k) \/ Claimable(k))
  BY DEF Sweep
<1>3. 1 \in Months
  BY BoundsAssumption DEF Months
<1>4. CASE Due(k)
  <2>1. /\ BooksOK(d) /\ UnitsOK(d) /\ Grows(books, d)
        /\ d.jobs[k] = [job[k] EXCEPT !.req = None]
    BY <1>1, SettleOK, SettleUnits
  <2>2. SweepRow(k) = Park(k, "Queued", "None", 0, e)
    BY <1>4 DEF SweepRow, Restarted
  <2> HIDE DEF d
  <2>3. d.jobs[k] \in JobRecord /\ d.jobs[k].req = None
    BY <1>1, <2>1 DEF BooksOK, Books, JobRecord
  <2>4. j \in JobRecord /\ j.req = None
    BY <2>3, JobValues DEF JobRecord
  <2> HIDE DEF j
  <2>5. BooksOK(e) /\ UnitsOK(e) /\ Grows(d, e) /\ e.jobs = [d.jobs EXCEPT ![k] = j]
    <3>1. BooksOK(e) /\ e.jobs = [d.jobs EXCEPT ![k] = j]
      BY <2>1, <2>4, WithJobOK
    <3>2. UnitsOK(e) /\ Grows(d, e)
      BY <2>1, <2>3, <2>4, WithJobUnits
    <3> QED
      BY <3>1, <3>2
  <2>6. e.jobs[k].req = None
    BY <2>1, <2>4, <2>5 DEF BooksOK, Books
  <2> HIDE DEF e
  <2> DEFINE f == Park(k, "Queued", "None", 0, e)
  <2>7. BooksOK(f) /\ UnitsOK(f) /\ Grows(e, f)
    BY <2>5, <2>6, ParkOutcomes, ParkUnits, JobValues
  <2> HIDE DEF f
  <2>8. Grows(books, f)
    BY <1>1, <2>1, <2>5, <2>7, GrowsTrans
  <2>9. Commit(f)
    BY <1>2, <2>2 DEF f
  <2> QED
    BY <2>7, <2>8, <2>9, CommitUnits
<1>5. CASE ~Due(k) /\ LeaseRanOut(k)
  <2> DEFINE f(status, code) == Park(k, status, code, 0, b)
  <2>1. Commit(f("Failed", "Failure")) \/ Commit(f("Queued", "None"))
    BY <1>2, <1>5 DEF SweepRow
  <2>2. ASSUME NEW status \in JobStatus, NEW code \in FailureCode
        PROVE  /\ BooksOK(f(status, code)) /\ UnitsOK(f(status, code))
               /\ Grows(books, f(status, code))
    BY <1>1, <1>3, SettledParks, JobValues
  <2> HIDE DEF f
  <2> QED
    BY <2>1, <2>2, JobValues, CommitUnits
<1>6. CASE ~Due(k) /\ ~LeaseRanOut(k)
  <2> DEFINE f(status, code) == Park(k, status, code, 0, books)
  <2>1. Commit(f("Failed", "Failure")) \/ Commit(f("Queued", "None"))
    BY <1>2, <1>6 DEF SweepRow
  <2>2. books.jobs[k].req = None
    BY <1>1, <1>2, <1>6 DEF Claimable, UnitsOK
  <2>3. ASSUME NEW status \in JobStatus, NEW code \in FailureCode
        PROVE  /\ BooksOK(f(status, code)) /\ UnitsOK(f(status, code))
               /\ Grows(books, f(status, code))
    BY <1>1, <2>2, ParkOK, ParkUnits, JobValues
  <2> HIDE DEF f
  <2> QED
    BY <2>1, <2>3, JobValues, CommitUnits
<1> QED
  BY <1>4, <1>5, <1>6

LEMMA ExpireUnits ==
  ASSUME IInv, UnitsOK(books), NEW k \in Jobs, LeaseExpires(k)
  PROVE  UnitsKept
<1> DEFINE j == [job[k] EXCEPT !.expired = TRUE]
<1>1. Commit(WithJob(k, j, books)) /\ job[k].status = "Running"
  BY DEF LeaseExpires, Commit, WithJob, books
<1>2. job[k] \in JobRecord /\ BooksOK(books) /\ books.jobs = job
  BY BooksTyped DEF IInv, books
<1>3. j \in JobRecord /\ j.req = job[k].req /\ j.status = "Running"
  BY <1>1, <1>2 DEF JobRecord
<1> HIDE DEF j
<1>4. /\ BooksOK(WithJob(k, j, books)) /\ UnitsOK(WithJob(k, j, books))
      /\ Grows(books, WithJob(k, j, books))
  BY <1>2, <1>3, WithJobOK, WithJobUnits
<1> QED
  BY <1>1, <1>4, CommitUnits

LEMMA StepUnits == IInv /\ UnitsOK(books) /\ [Next]_vars => UnitsKept
<1> SUFFICES ASSUME IInv, UnitsOK(books), [Next]_vars  PROVE UnitsKept
  OBVIOUS
<1>0. BooksOK(books)
  BY DEF IInv
<1>1. CASE Client
  <2>1. ASSUME NEW p \in Photos, (\E c \in Places : UpsertLocation(p, c)) \/ Restore(p)
        PROVE  UnitsKept
    BY <1>0, <2>1, SameUnits DEF UpsertLocation, Restore
  <2> QED
    BY <1>1, <2>1, TrashUnits, PrepareUnits, RetryUnits DEF Client
<1>2. ASSUME NEW w \in Workers, WorkerStep(w)
      PROVE  UnitsKept
  <2>1. CASE FindReusable(w)
    <3>1. worker[w].phase # "idle"
      BY <2>1 DEF FindReusable
    <3> QED
      BY <1>0, <2>1, <3>1, UnconfirmedUnits, SameUnits DEF FindReusable
  <2>2. CASE \E answer \in Answer \ {"None"} : CallProvider(w, answer)
    BY <1>0, <2>2, SameUnits DEF CallProvider
  <2>3. CASE Acknowledge(w)
    BY <1>0, <2>3, SameUnits DEF Acknowledge
  <2> QED
    BY <1>2, <2>1, <2>2, <2>3, ReserveCallUnits, DeferUnits, ConsumeUnits,
       OutcomeUnits DEF WorkerStep
<1>3. ASSUME NEW w \in Workers,
             \/ \E m \in queue : Claim(w, m)
             \/ Crash(w)
             \/ \E k \in Jobs, arrives \in BOOLEAN : Sweep(w, k, arrives)
      PROVE  UnitsKept
  <2>1. CASE Crash(w)
    BY <1>0, <2>1, SameUnits DEF Crash
  <2> QED
    BY <1>3, <2>1, ClaimUnits, SweepUnits
<1>4. CASE MonthTurns
  BY <1>0, <1>4, SameUnits DEF MonthTurns
<1>5. CASE \E k \in Jobs : LeaseExpires(k)
  BY <1>5, ExpireUnits
<1>6. CASE UNCHANGED vars
  BY <1>0, <1>6, SameUnits DEF vars
<1> QED
  BY <1>1, <1>2, <1>3, <1>4, <1>5, <1>6 DEF Next

LEMMA InitUnits == Init => UnitsOK(books)
<1> SUFFICES ASSUME Init  PROVE UnitsOK(books)
  OBVIOUS
<1>1. /\ \A k \in Jobs : books.jobs[k].req = None
      /\ \A m \in Months : books.ledger[m].reserved = 0
  BY DEF Init, books, NoJob, EmptyRow
<1>2. \A m \in Months : Holders(books, m) = {}
  BY <1>1 DEF Holders, Months, None
<1> QED
  BY <1>1, <1>2, FS_EmptySet DEF UnitsOK

(* With the types, the units are inductive: every reserved unit is that of *)
(* a running job, in the month the job holds it in.                        *)
THEOREM UnitsInductive == Spec => [](IInv /\ UnitsOK(books))
BY InitOK, NextOK, InitUnits, StepUnits, PTL DEF Spec, UnitsKept

(* Whatever ends or interrupts a lookup settles its reservation in the     *)
(* month it was made: no unit is left behind, for any number of photos,    *)
(* places, workers, attempts and months.                                   *)
THEOREM UnitsAlwaysOwned == Spec => []UnitsOwned
<1>1. UnitsOK(books) => UnitsOwned
  <2> SUFFICES ASSUME UnitsOK(books), NEW m \in Months
               PROVE  ledger[m].reserved = Cardinality(
                        {k \in Jobs : job[k].status = "Running" /\ job[k].req = m})
    BY DEF UnitsOwned
  <2>1. Holders(books, m) =
          {k \in Jobs : job[k].status = "Running" /\ job[k].req = m}
    BY DEF Holders, UnitsOK, books, Months, None
  <2> QED
    BY <2>1 DEF UnitsOK, books
<1> QED
  BY <1>1, UnitsInductive, PTL

-----------------------------------------------------------------------------
(* The budget.  Between consume_provider_call and the call, the unit spent *)
(* stands for the call that is about to be opened.                         *)

Payers(m) == {w \in Workers : worker[w].phase = "paid" /\ worker[w].paid = m}

Margin ==
  \A m \in Months : calls[m] + Cardinality(Payers(m)) <= ledger[m].processed

BudgetInv == IInv /\ UnitsOK(books) /\ Margin

NoNewPayer ==
  \A w \in Workers : worker'[w].phase = "paid" => worker'[w] = worker[w]

LEMMA PayersFinite ==
  ASSUME NEW m
  PROVE  IsFiniteSet(Payers(m)) /\ Cardinality(Payers(m)) \in Nat
<1>1. IsFiniteSet(Payers(m))
  BY WorkersAssumption, FS_Subset DEF Payers
<1> QED
  BY <1>1, FS_CardinalityType

LEMMA CountsTyped ==
  ASSUME BudgetInv, NEW m \in Months
  PROVE  calls[m] \in Nat /\ ledger[m].processed \in Nat
BY BooksTyped DEF BudgetInv, IInv, RestOK, LedgerRow

LEMMA MarginSame ==
  ASSUME BudgetInv, IInv', UnitsKept, NoNewPayer, UNCHANGED calls
  PROVE  Margin'
<1> SUFFICES ASSUME NEW m \in Months
             PROVE  calls'[m] + Cardinality(Payers(m)') <= ledger'[m].processed
  BY DEF Margin
<1> DEFINE P == Payers(m)
           Q == Payers(m)'
<1>1. Q \subseteq P
  BY DEF Payers, NoNewPayer
<1>2. IsFiniteSet(P) /\ Cardinality(P) \in Nat
  BY PayersFinite
<1> HIDE DEF P, Q
<1>3. Cardinality(Q) \in Nat /\ Cardinality(Q) <= Cardinality(P)
  BY <1>1, <1>2, FS_Subset, FS_CardinalityType
<1>4. calls[m] + Cardinality(P) <= ledger[m].processed
  BY DEF BudgetInv, Margin, P
<1>5. ledger[m].processed <= ledger'[m].processed
  BY DEF UnitsKept, Grown
<1>6. calls[m] \in Nat /\ ledger[m].processed \in Nat
  BY CountsTyped
<1>7. ledger'[m].processed \in Nat
  BY BooksTyped DEF IInv, BooksOK, Books, books, LedgerRow
<1>8. calls'[m] + Cardinality(Q) <= ledger'[m].processed
  BY <1>2, <1>3, <1>4, <1>5, <1>6, <1>7
<1> QED
  BY <1>8 DEF Q

(* Nobody else starts to pay. *)
LEMMA GotoPays ==
  ASSUME IInv, NEW w \in Workers, NEW phase, phase # "paid", Goto(w, phase)
  PROVE  NoNewPayer
<1>1. /\ worker \in [Workers -> WorkerRecord] /\ worker[w] \in WorkerRecord
      /\ worker' = [worker EXCEPT ![w] = [worker[w] EXCEPT !.phase = phase]]
  BY DEF IInv, WorkersOK, Goto
<1>2. [worker[w] EXCEPT !.phase = phase].phase = phase
  BY <1>1 DEF WorkerRecord
<1> QED
  BY <1>1, <1>2 DEF NoNewPayer

LEMMA IdlePays ==
  ASSUME IInv, NEW w \in Workers, worker' = [worker EXCEPT ![w] = IdleWorker]
  PROVE  NoNewPayer
BY DEF IInv, WorkersOK, NoNewPayer, IdleWorker

LEMMA ConsumeMargin ==
  ASSUME BudgetInv, IInv', UnitsKept, NEW w \in Workers, ConsumeProviderCall(w)
  PROVE  Margin'
<1> DEFINE k == JobOf(w)
           c == Settle(k, TRUE, books)
<1>1. /\ worker[w].phase = "reserved" /\ UNCHANGED calls
      /\ worker \in [Workers -> WorkerRecord]
  BY DEF ConsumeProviderCall, BudgetInv, IInv, WorkersOK
<1>2. CASE Unconfirmed(w, "ack")
  <2>1. NoNewPayer
    BY <1>2, GotoPays DEF Unconfirmed, BudgetInv
  <2> QED
    BY <1>1, <2>1, MarginSame
<1>3. CASE /\ Commit(c)
           /\ worker' = [worker EXCEPT
                ![w].phase = IF job[k].req = None THEN "ack" ELSE "paid",
                ![w].paid = job[k].req]
  <2> DEFINE m0 == job[k].req
  <2>1. /\ worker[w] \in WorkerRecord
        /\ worker'[w].phase = IF m0 = None THEN "ack" ELSE "paid"
        /\ worker'[w].paid = m0
        /\ \A v \in Workers \ {w} : worker'[v] = worker[v]
    <3>1. worker[w] \in WorkerRecord
      BY <1>1
    <3> QED
      BY <1>1, <1>3, <3>1 DEF WorkerRecord
  <2>2. CASE m0 = None
    BY <1>1, <2>1, <2>2, MarginSame DEF NoNewPayer
  <2>3. CASE m0 # None
    <3> SUFFICES ASSUME NEW m \in Months
                 PROVE  calls'[m] + Cardinality(Payers(m)') <= ledger'[m].processed
      BY DEF Margin
    <3> DEFINE P == Payers(m)
               Q == Payers(m)'
    <3>1. /\ k \in Jobs /\ BooksOK(books) /\ UnitsOK(books)
          /\ books.jobs = job /\ books.ledger = ledger
      BY <1>1, WorkerHasJob DEF BudgetInv, books
    <3>2. ledger'[m0].processed = ledger[m0].processed + 1
      <4>1. c.ledger[m0].processed = ledger[m0].processed + 1
        BY <2>3, <3>1, SettleUnits
      <4> QED
        BY <1>3, <4>1 DEF Commit
    <3>3. Q \subseteq P \cup {w} /\ w \notin P
      BY <1>1, <2>1 DEF Payers
    <3>4. m # m0 => Q = P
      BY <1>1, <2>1 DEF Payers
    <3>5. IsFiniteSet(P) /\ Cardinality(P) \in Nat
      BY PayersFinite
    <3>6. calls[m] + Cardinality(P) <= ledger[m].processed
      BY DEF BudgetInv, Margin
    <3>7. calls[m] \in Nat /\ ledger[m].processed \in Nat
      BY CountsTyped
    <3>8. ledger[m].processed <= ledger'[m].processed
      BY DEF UnitsKept, Grown
    <3>9. ledger'[m].processed \in Nat
      BY BooksTyped DEF IInv, BooksOK, Books, books, LedgerRow
    <3> HIDE DEF P, Q, m0
    <3>10. Cardinality(Q) \in Nat /\ Cardinality(Q) <= Cardinality(P) + 1
      <4> DEFINE R == P \cup {w}
      <4>1. IsFiniteSet(R) /\ Cardinality(R) = Cardinality(P) + 1
        BY <3>3, <3>5, FS_AddElement
      <4> HIDE DEF R
      <4>2. Q \in SUBSET R
        BY <3>3 DEF R
      <4> QED
        BY <4>1, <4>2, FS_Subset, FS_CardinalityType
    <3>11. calls[m] + Cardinality(Q) <= ledger'[m].processed
      <4>1. CASE m = m0
        BY <3>2, <3>5, <3>6, <3>7, <3>10, <4>1
      <4>2. CASE m # m0
        BY <3>4, <3>5, <3>6, <3>7, <3>8, <3>9, <4>2
      <4> QED
        BY <4>1, <4>2
    <3> QED
      BY <1>1, <3>11 DEF Q
  <2> QED
    BY <2>2, <2>3
<1> QED
  BY <1>2, <1>3 DEF ConsumeProviderCall

LEMMA CallMargin ==
  ASSUME BudgetInv, NEW w \in Workers, NEW answer, CallProvider(w, answer)
  PROVE  Margin'
<1> DEFINE m0 == worker[w].paid
<1>1. /\ worker[w].phase = "paid" /\ UNCHANGED ledger
      /\ calls' = [calls EXCEPT ![m0] = @ + 1]
      /\ worker \in [Workers -> WorkerRecord] /\ calls \in [Months -> Nat]
  BY DEF CallProvider, BudgetInv, IInv, WorkersOK, RestOK
<1>2. /\ worker'[w].phase = "answered"
      /\ \A v \in Workers \ {w} : worker'[v] = worker[v]
  <2>1. worker[w] \in WorkerRecord
    BY <1>1
  <2> QED
    BY <1>1, <2>1 DEF CallProvider, WorkerRecord
<1> SUFFICES ASSUME NEW m \in Months
             PROVE  calls'[m] + Cardinality(Payers(m)') <= ledger'[m].processed
  BY DEF Margin
<1> DEFINE P == Payers(m)
           Q == Payers(m)'
<1>3. Q = P \ {w} /\ (m = m0 => w \in P)
  BY <1>1, <1>2 DEF Payers
<1>4. calls[m] + Cardinality(P) <= ledger[m].processed
  BY DEF BudgetInv, Margin
<1>5. calls'[m] = IF m = m0 THEN calls[m] + 1 ELSE calls[m]
  BY <1>1
<1>6. IsFiniteSet(P) /\ Cardinality(P) \in Nat
  BY PayersFinite
<1>7. calls[m] \in Nat /\ ledger[m].processed \in Nat
  BY CountsTyped
<1> HIDE DEF P, Q, m0
<1>8. Cardinality(Q) = IF w \in P THEN Cardinality(P) - 1 ELSE Cardinality(P)
  BY <1>3, <1>6, FS_RemoveElement
<1>9. calls'[m] + Cardinality(Q) <= ledger[m].processed
  BY <1>3, <1>4, <1>5, <1>6, <1>7, <1>8
<1> QED
  BY <1>1, <1>9 DEF Q

LEMMA StepMargin ==
  ASSUME BudgetInv, IInv', UnitsKept, [Next]_vars
  PROVE  Margin'
<1>0. IInv
  BY DEF BudgetInv
<1>1. ASSUME UNCHANGED <<worker, calls>>
      PROVE  Margin'
  BY <1>1, MarginSame DEF NoNewPayer
<1>2. CASE Client
  BY <1>1, <1>2 DEF Client, UpsertLocation, Restore, Trash, PrepareEnrichment, RetryJob
<1>3. ASSUME NEW w \in Workers, WorkerStep(w)
      PROVE  Margin'
  <2>1. ASSUME NEW phase \in {"unresolved", "refused", "reserved", "ack"}, Goto(w, phase),
               UNCHANGED calls
        PROVE  Margin'
    BY <1>0, <2>1, GotoPays, MarginSame
  <2>2. ASSUME worker' = [worker EXCEPT ![w] = IdleWorker], UNCHANGED calls
        PROVE  Margin'
    BY <1>0, <2>2, IdlePays, MarginSame
  <2>3. CASE FindReusable(w)
    <3>1. CASE Goto(w, "unresolved")
      BY <2>1, <2>3, <3>1 DEF FindReusable
    <3>2. CASE \E q \in Photos :
                 worker' = [worker EXCEPT ![w].phase = "found",
                                          ![w].result = address[q]]
      <4>1. PICK q \in Photos :
              worker' = [worker EXCEPT ![w].phase = "found",
                                       ![w].result = address[q]]
        BY <3>2
      <4>2. /\ worker \in [Workers -> WorkerRecord] /\ worker[w] \in WorkerRecord
            /\ worker' = [worker EXCEPT ![w] =
                 [worker[w] EXCEPT !.phase = "found", !.result = address[q]]]
        BY <1>0, <4>1 DEF IInv, WorkersOK
      <4>3. [worker[w] EXCEPT !.phase = "found", !.result = address[q]].phase = "found"
        BY <4>2 DEF WorkerRecord
      <4>4. NoNewPayer
        BY <4>2, <4>3 DEF NoNewPayer
      <4> QED
        BY <2>3, <4>4, MarginSame DEF FindReusable
    <3> QED
      BY <2>3, <3>1, <3>2 DEF FindReusable, Unconfirmed, Nearest, Resolved
  <2>4. CASE ReserveProviderCall(w)
    BY <2>1, <2>4 DEF ReserveProviderCall, Unconfirmed
  <2>5. CASE DeferRefused(w) \/ HandleQuota(w)
    BY <2>1, <2>5 DEF DeferRefused, HandleQuota, DeferGeocode, Unconfirmed
  <2>6. CASE CompleteGeocode(w) \/ FailGeocode(w)
    BY <2>1, <2>2, <2>6 DEF CompleteGeocode, FailGeocode, Unconfirmed
  <2>7. CASE Acknowledge(w)
    BY <2>2, <2>7 DEF Acknowledge
  <2> QED
    BY <1>3, <2>3, <2>4, <2>5, <2>6, <2>7, ConsumeMargin, CallMargin DEF WorkerStep
<1>4. ASSUME NEW w \in Workers, NEW m \in queue, Claim(w, m)
      PROVE  Margin'
  <2>1. Take(w, m, "ack") \/ Take(w, m, "claimed")
    BY <1>4 DEF Claim, ClaimStale, ClaimIgnores, ClaimExhausted, ClaimStarts, ClaimAgain
  <2>2. NoNewPayer
    BY <1>0, <2>1 DEF Take, IdleWorker, IInv, WorkersOK, NoNewPayer
  <2> QED
    BY <1>4, <2>2, MarginSame DEF Claim
<1>5. ASSUME NEW w \in Workers, Crash(w)
      PROVE  Margin'
  BY <1>0, <1>5, IdlePays, MarginSame DEF Crash
<1>6. ASSUME NEW w \in Workers, NEW k \in Jobs, NEW arrives \in BOOLEAN,
             Sweep(w, k, arrives)
      PROVE  Margin'
  BY <1>1, <1>6 DEF Sweep
<1>7. CASE MonthTurns \/ \E k \in Jobs : LeaseExpires(k)
  BY <1>1, <1>7 DEF MonthTurns, LeaseExpires
<1>8. CASE UNCHANGED vars
  BY <1>1, <1>8 DEF vars
<1> QED
  BY <1>2, <1>3, <1>4, <1>5, <1>6, <1>7, <1>8 DEF Next

LEMMA InitMargin == Init => Margin
<1> SUFFICES ASSUME Init, NEW m \in Months
             PROVE  calls[m] + Cardinality(Payers(m)) <= ledger[m].processed
  BY DEF Margin
<1>1. Payers(m) = {} /\ calls[m] = 0 /\ ledger[m].processed = 0
  BY DEF Init, Payers, IdleWorker, EmptyRow
<1> QED
  BY <1>1, FS_EmptySet

(* The units, and the margin between the units spent and the calls opened, *)
(* hold in every reachable state.                                          *)
THEOREM BudgetInductive == Spec => []BudgetInv
<1>1. Init => BudgetInv
  BY InitOK, InitUnits, InitMargin DEF BudgetInv
<1>2. BudgetInv /\ [Next]_vars => BudgetInv'
  BY NextOK, StepUnits, StepMargin DEF BudgetInv, UnitsKept
<1> QED
  BY <1>1, <1>2, PTL DEF Spec

(* Every call opened in a month was counted in it before it was opened,    *)
(* and the count with what is reserved stays within the limit.             *)
THEOREM BudgetAlwaysKept == Spec => []BudgetKept
<1>1. BudgetInv => BudgetKept
  <2> SUFFICES ASSUME BudgetInv  PROVE BudgetKept
    OBVIOUS
  <2>1. ASSUME NEW m \in Months  PROVE calls[m] <= ledger[m].processed
    <3>1. calls[m] + Cardinality(Payers(m)) <= ledger[m].processed
      BY DEF BudgetInv, Margin
    <3> QED
      BY <3>1, PayersFinite, CountsTyped
  <2> QED
    BY <2>1 DEF BudgetKept, BudgetInv, IInv, BooksOK, books
<1> QED
  BY <1>1, BudgetInductive, PTL

=============================================================================
