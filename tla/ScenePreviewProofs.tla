------------------------- MODULE ScenePreviewProofs -------------------------
(***************************************************************************)
(* Theorems about who owns a scene-description job and about the preview   *)
(* it names, for any number of photos, workers, messages and sessions.     *)
(*                                                                         *)
(* The course of a job is what these theorems depend on: its status, the   *)
(* preview it names and its lease.  The operators of the ledger leave it   *)
(* alone, so the first part of the module reduces every transaction to     *)
(* what it does to the course of each job.                                 *)
(***************************************************************************)
EXTENDS SceneJobsProofs

Course(j, k) ==
  /\ k.status = j.status
  /\ k.staging = j.staging
  /\ k.lease = j.lease
  /\ k.expired = j.expired

SameCourse(b, c) == \A q \in Photos : Course(b.jobs[q], c.jobs[q])

(* What Park leaves behind: a new status and no lease. *)
Parked(j, status, k) ==
  /\ k.status = status
  /\ k.staging = j.staging
  /\ k.lease = NoMessage
  /\ ~k.expired

-----------------------------------------------------------------------------
LEMMA SameCourseTransitive ==
  ASSUME NEW b, NEW c, NEW d, SameCourse(b, c), SameCourse(c, d)
  PROVE  SameCourse(b, d)
BY DEF SameCourse, Course

LEMMA JobOfBooks ==
  ASSUME NEW b, BooksOK(b), NEW p \in Photos
  PROVE  /\ b.jobs \in [Photos -> JobRecord] /\ b.jobs[p] \in JobRecord
         /\ b.ledger \in [Months -> LedgerRow]
BY DEF BooksOK, Books

(* One job is replaced by a record with the same course. *)
LEMMA WithJobCourse ==
  ASSUME NEW b, BooksOK(b), NEW p \in Photos, NEW k
  PROVE  /\ WithJob(p, k, b).jobs[p] = k
         /\ \A q \in Photos \ {p} : WithJob(p, k, b).jobs[q] = b.jobs[q]
         /\ WithJob(p, k, b).ledger = b.ledger
BY JobOfBooks DEF WithJob

LEMMA ReleaseCourse ==
  ASSUME NEW b, BooksOK(b), NEW S \in SUBSET Photos
  PROVE  SameCourse(b, Release(S, b))
<1> SUFFICES ASSUME NEW q \in Photos
             PROVE  Course(b.jobs[q], Release(S, b).jobs[q])
  BY DEF SameCourse
<1> DEFINE j == b.jobs[q]
           k == [j EXCEPT !.req = None, !.cost = None]
<1>1. j \in JobRecord
  BY JobOfBooks
<1>2. Release(S, b).jobs[q] = k \/ Release(S, b).jobs[q] = j
  BY DEF Release
<1> HIDE DEF j
<1>3. Course(j, k) /\ Course(j, j)
  BY <1>1 DEF JobRecord, Course
<1> QED
  BY <1>2, <1>3 DEF j

LEMMA SettleRequestCourse ==
  ASSUME NEW b, BooksOK(b), NEW p \in Photos, NEW consumed
  PROVE  SameCourse(b, SettleRequest(p, consumed, b))
<1> DEFINE j == b.jobs[p]
           k == [j EXCEPT !.req = None]
           c == SettleRequest(p, consumed, b)
<1>1. j \in JobRecord /\ b.jobs \in [Photos -> JobRecord]
  BY JobOfBooks
<1>2. c.jobs = b.jobs \/ c.jobs = [b.jobs EXCEPT ![p] = k]
  BY <1>1 DEF SettleRequest
<1> HIDE DEF c
<1>3. Course(j, k)
  <2> HIDE DEF j
  <2> QED
    BY <1>1 DEF JobRecord, Course
<1> HIDE DEF k
<1>4. \A q \in Photos : Course(b.jobs[q], b.jobs[q])
  BY DEF Course
<1>5. \A q \in Photos : c.jobs[q] = b.jobs[q] \/ (q = p /\ c.jobs[q] = k)
  BY <1>1, <1>2
<1>6. SameCourse(b, c)
  BY <1>3, <1>4, <1>5 DEF SameCourse
<1> QED
  BY <1>6 DEF c

LEMMA SettleCostCourse ==
  ASSUME NEW b, BooksOK(b), NEW p \in Photos, NEW called, NEW charge
  PROVE  SameCourse(b, SettleCost(p, called, charge, b))
<1> DEFINE j == b.jobs[p]
           u == IF called THEN j.used ELSE None
           k == [j EXCEPT !.cost = None, !.used = u]
           c == SettleCost(p, called, charge, b)
<1>1. j \in JobRecord /\ b.jobs \in [Photos -> JobRecord]
  BY JobOfBooks
<1>2. c.jobs = b.jobs \/ c.jobs = [b.jobs EXCEPT ![p] = k]
  BY <1>1 DEF SettleCost
<1> HIDE DEF c, u
<1>3. Course(j, k)
  <2> HIDE DEF j
  <2> QED
    BY <1>1 DEF JobRecord, Course
<1> HIDE DEF k
<1>4. \A q \in Photos : Course(b.jobs[q], b.jobs[q])
  BY DEF Course
<1>5. \A q \in Photos : c.jobs[q] = b.jobs[q] \/ (q = p /\ c.jobs[q] = k)
  BY <1>1, <1>2
<1>6. SameCourse(b, c)
  BY <1>3, <1>4, <1>5 DEF SameCourse
<1> QED
  BY <1>6 DEF c

LEMMA SettleCourse ==
  ASSUME NEW b, BooksOK(b), NEW p \in Photos, NEW called \in BOOLEAN, NEW charge
  PROVE  SameCourse(b, Settle(p, called, charge, b))
<1>1. BooksOK(SettleRequest(p, called, b))
  BY SettleRequestKeepsBooks
<1>2. SameCourse(b, SettleRequest(p, called, b))
  BY SettleRequestCourse
<1>3. SameCourse(SettleRequest(p, called, b), Settle(p, called, charge, b))
  BY <1>1, SettleCostCourse DEF Settle
<1> QED
  BY <1>2, <1>3, SameCourseTransitive

LEMMA SettleByCallCourse ==
  ASSUME NEW b, BooksOK(b), NEW p \in Photos
  PROVE  SameCourse(b, SettleByCall(p, b))
BY SettleCourse DEF SettleByCall, CallStarted

LEMMA ReserveCourse ==
  ASSUME NEW b, BooksOK(b), NEW p \in Photos, NEW now \in Months
  PROVE  SameCourse(b, Reserve(p, now, b))
<1> DEFINE r == Realigned(p, now, b)
           blocked(x, v) == [x EXCEPT !.blocked = v]
           taken(x) == [x EXCEPT !.req = now, !.cost = now, !.blocked = FALSE]
<1>1. ASSUME NEW x \in JobRecord, NEW v
      PROVE  Course(x, blocked(x, v)) /\ Course(x, taken(x)) /\ Course(x, x)
  BY DEF JobRecord, Course
<1>2. ASSUME NEW c, BooksOK(c), NEW v
      PROVE  SameCourse(c, SetBlocked(p, v, c)) /\ SameCourse(c, Reserved(p, now, c))
  <2>1. c.jobs[p] \in JobRecord /\ c.jobs \in [Photos -> JobRecord]
        /\ \A q \in Photos : Course(c.jobs[q], c.jobs[q])
    BY <1>2, JobOfBooks DEF Course
  <2>2. /\ SetBlocked(p, v, c).jobs = [c.jobs EXCEPT ![p] = blocked(c.jobs[p], v)]
        /\ Reserved(p, now, c).jobs = [c.jobs EXCEPT ![p] = taken(c.jobs[p])]
    BY DEF SetBlocked, WithJob, Reserved
  <2>3. Course(c.jobs[p], blocked(c.jobs[p], v)) /\ Course(c.jobs[p], taken(c.jobs[p]))
    BY <1>1, <2>1
  <2> HIDE DEF blocked, taken
  <2> QED
    BY <2>1, <2>2, <2>3 DEF SameCourse
<1>3. CASE BothMatch(p, now, b)
  BY <1>2, <1>3 DEF Reserve
<1>4. CASE ~BothMatch(p, now, b)
  <2>1. BooksOK(r)
    BY <1>4, RealignedKeepsBooks
  <2>2. SameCourse(b, r)
    <3>1. r.jobs = b.jobs \/ r.jobs = Release({p}, b).jobs
      BY DEF Realigned, WithRow
    <3>2. SameCourse(b, Release({p}, b)) /\ SameCourse(b, b)
      BY ReleaseCourse DEF SameCourse, Course
    <3> QED
      BY <3>1, <3>2 DEF SameCourse
  <2>3. \/ Reserve(p, now, b) = SetBlocked(p, TRUE, r)
        \/ Reserve(p, now, b) = Reserved(p, now, r)
        \/ Reserve(p, now, b) = r
    BY <1>4 DEF Reserve
  <2> HIDE DEF r
  <2>4. SameCourse(r, SetBlocked(p, TRUE, r)) /\ SameCourse(r, Reserved(p, now, r))
    BY <1>2, <2>1
  <2>5. SameCourse(b, SetBlocked(p, TRUE, r)) /\ SameCourse(b, Reserved(p, now, r))
    BY <2>2, <2>4, SameCourseTransitive
  <2> QED
    BY <2>2, <2>3, <2>5
<1> QED
  BY <1>3, <1>4

LEMMA CircuitCourse ==
  ASSUME NEW b, BooksOK(b), NEW now \in Months
  PROVE  /\ SameCourse(b, OpenCircuit(now, b)) /\ SameCourse(b, CloseCircuit(now, b))
         /\ OpenCircuit(now, b).jobs = b.jobs /\ CloseCircuit(now, b).jobs = b.jobs
BY DEF OpenCircuit, CloseCircuit, WithRow, SameCourse, Course

LEMMA ParkCourse ==
  ASSUME NEW b, BooksOK(b), NEW p \in Photos, NEW status, NEW code, NEW due
  PROVE  LET c == Park(p, status, code, due, b) IN
         /\ Parked(b.jobs[p], status, c.jobs[p])
         /\ \A q \in Photos \ {p} : c.jobs[q] = b.jobs[q]
         /\ c.ledger = b.ledger
         /\ c.jobs[p].req = b.jobs[p].req /\ c.jobs[p].cost = b.jobs[p].cost
<1> DEFINE j == b.jobs[p]
           k == [j EXCEPT !.status = status, !.code = code, !.due = due,
                          !.lease = NoMessage, !.expired = FALSE]
<1>1. j \in JobRecord
  BY JobOfBooks
<1>2. Park(p, status, code, due, b) = WithJob(p, k, b)
  BY DEF Park
<1>3. Parked(j, status, k) /\ k.req = j.req /\ k.cost = j.cost
  <2> HIDE DEF j
  <2> QED
    BY <1>1 DEF JobRecord, Parked
<1> HIDE DEF k
<1> QED
  BY <1>2, <1>3, WithJobCourse

LEMMA ClearStagingCourse ==
  ASSUME NEW b, BooksOK(b), NEW p \in Photos
  PROVE  LET c == ClearStaging(p, b) IN
         /\ c.jobs[p].status = b.jobs[p].status /\ c.jobs[p].staging = None
         /\ c.jobs[p].req = b.jobs[p].req /\ c.jobs[p].cost = b.jobs[p].cost
         /\ \A q \in Photos \ {p} : c.jobs[q] = b.jobs[q]
         /\ c.ledger = b.ledger
<1> DEFINE j == b.jobs[p]
           k == [j EXCEPT !.staging = None]
<1>1. j \in JobRecord
  BY JobOfBooks
<1>2. ClearStaging(p, b) = WithJob(p, k, b)
  BY DEF ClearStaging
<1>3. k.status = j.status /\ k.staging = None /\ k.req = j.req /\ k.cost = j.cost
  <2> HIDE DEF j
  <2> QED
    BY <1>1 DEF JobRecord
<1> HIDE DEF k
<1> QED
  BY <1>2, <1>3, WithJobCourse

LEMMA ResetAttemptsCourse ==
  ASSUME NEW b, BooksOK(b), NEW p \in Photos
  PROVE  /\ SameCourse(b, ResetAttempts(p, b))
         /\ ResetAttempts(p, b).jobs[p].req = b.jobs[p].req
         /\ ResetAttempts(p, b).jobs[p].cost = b.jobs[p].cost
         /\ \A q \in Photos \ {p} : ResetAttempts(p, b).jobs[q] = b.jobs[q]
         /\ ResetAttempts(p, b).ledger = b.ledger
<1> DEFINE j == b.jobs[p]
           k == [j EXCEPT !.attempt = 0]
<1>1. j \in JobRecord
  BY JobOfBooks
<1>2. ResetAttempts(p, b) = WithJob(p, k, b)
  BY DEF ResetAttempts
<1>3. Course(j, k) /\ k.req = j.req /\ k.cost = j.cost
  <2> HIDE DEF j
  <2> QED
    BY <1>1 DEF JobRecord, Course
<1> HIDE DEF k
<1>4. \A q \in Photos : Course(b.jobs[q], b.jobs[q])
  BY DEF Course
<1> QED
  BY <1>2, <1>3, <1>4, WithJobCourse DEF SameCourse

-----------------------------------------------------------------------------
(* What a transaction that commits such books does to each job. *)
LEMMA CommitCourse ==
  ASSUME NEW c, SameCourse(books, c), Commit(c)
  PROVE  \A q \in Photos : Course(job[q], job'[q])
BY DEF SameCourse, Commit, books

LEMMA CommitPark ==
  ASSUME NEW c, BooksOK(c), SameCourse(books, c), NEW p \in Photos,
         NEW status, NEW code, NEW due, Commit(Park(p, status, code, due, c))
  PROVE  /\ Parked(job[p], status, job'[p])
         /\ \A q \in Photos \ {p} : Course(job[q], job'[q])
<1>1. /\ Parked(c.jobs[p], status, job'[p])
      /\ \A q \in Photos \ {p} : job'[q] = c.jobs[q]
  BY ParkCourse DEF Commit
<1> QED
  BY <1>1 DEF SameCourse, Course, Parked, books

LEMMA StillCourse ==
  ASSUME UNCHANGED job
  PROVE  \A q \in Photos : Course(job[q], job'[q])
BY DEF Course

LEMMA SelfCourse ==
  SameCourse(books, books)
BY DEF SameCourse, Course

-----------------------------------------------------------------------------
(* The client's operations *)
LEMMA PrepareTurn ==
  ASSUME IInv, NEW p \in Photos, NEW geo \in BOOLEAN, PrepareEnrichment(p, geo)
  PROVE  /\ \A q \in Photos \ {p} : job'[q] = job[q]
         /\ job'[p].lease = job[p].lease /\ job'[p].expired = job[p].expired
         /\ \/ /\ job[p].status = "None" /\ job'[p].status = "Preparing"
               /\ job'[p].staging = job[p].staging
               /\ job'[p].req = job[p].req /\ job'[p].cost = job[p].cost
            \/ /\ job'[p].status = job[p].status /\ job'[p].staging = None
               /\ job'[p].req = None /\ job'[p].cost = None
         /\ ledger' = ledger
<1> DEFINE j == job[p]
           new == [j EXCEPT !.status = "Preparing"]
           reset == [j EXCEPT !.req = None, !.cost = None, !.used = None,
                              !.blocked = FALSE, !.staging = None]
           k == IF j.status = "None" THEN new ELSE reset
<1>1. j \in JobRecord /\ job \in [Photos -> JobRecord]
  BY DEF IInv, TypeOK
<1>2. job' = [job EXCEPT ![p] = k] /\ ledger' = ledger
  BY DEF PrepareEnrichment
<1> HIDE DEF j
<1>3. /\ new.status = "Preparing" /\ new.staging = j.staging /\ new.lease = j.lease
      /\ new.expired = j.expired /\ new.req = j.req /\ new.cost = j.cost
  BY <1>1 DEF JobRecord
<1>4. /\ reset.status = j.status /\ reset.staging = None /\ reset.lease = j.lease
      /\ reset.expired = j.expired /\ reset.req = None /\ reset.cost = None
  BY <1>1 DEF JobRecord
<1> HIDE DEF new, reset
<1>5. job'[p] = k /\ \A q \in Photos \ {p} : job'[q] = job[q]
  BY <1>1, <1>2
<1> QED
  BY <1>2, <1>3, <1>4, <1>5 DEF j

LEMMA ReopenedTurn ==
  ASSUME IInv, NEW p \in Photos
  PROVE  LET b == ReleaseLapsed(Reopened(p)) IN
         /\ BooksOK(b)
         /\ \A q \in Photos \ {p} : Course(job[q], b.jobs[q])
         /\ Course(job[p], b.jobs[p]) \/ job[p].status = "DeferredQuota"
<1> DEFINE r == Release({p}, books)
           k == Park(p, "Preparing", "None", 0, r)
<1>0. BooksOK(books)
  BY DEF IInv
<1>1. BooksOK(r) /\ SameCourse(books, r)
  BY <1>0, ReleaseKeepsBooks, ReleaseCourse
<1>2. BooksOK(k)
  BY <1>1, ParkKeepsBooks
<1>3. \A q \in Photos \ {p} : Course(books.jobs[q], k.jobs[q])
  <2>1. \A q \in Photos \ {p} : k.jobs[q] = r.jobs[q]
    BY <1>1, ParkCourse
  <2> HIDE DEF k, r
  <2> QED
    BY <1>1, <2>1 DEF SameCourse
<1>4. /\ BooksOK(Reopened(p))
      /\ \A q \in Photos \ {p} : Course(job[q], Reopened(p).jobs[q])
      /\ Course(job[p], Reopened(p).jobs[p]) \/ job[p].status = "DeferredQuota"
  <2>1. CASE Due(p)
    <3>1. Reopened(p) = ResetAttempts(p, k)
      BY <2>1 DEF Reopened
    <3>2. BooksOK(ResetAttempts(p, k)) /\ SameCourse(k, ResetAttempts(p, k))
      BY <1>2, JobChangesKeepBooks, ResetAttemptsCourse
    <3> HIDE DEF k
    <3> QED
      BY <1>3, <2>1, <3>1, <3>2 DEF SameCourse, Course, Due, books
  <2>2. CASE ~Due(p)
    BY <1>0, <2>2 DEF Reopened, Course, books
  <2> QED
    BY <2>1, <2>2
<1> HIDE DEF r, k
<1>5. /\ SameCourse(Reopened(p), ReleaseLapsed(Reopened(p)))
      /\ BooksOK(ReleaseLapsed(Reopened(p)))
  <2> DEFINE S == {q \in LapsedPhotos : Reopened(p).jobs[q].status = "Preparing"}
  <2>1. S \in SUBSET Photos
    BY DEF LapsedPhotos
  <2>2. ReleaseLapsed(Reopened(p)) = Release(S, Reopened(p))
    BY DEF ReleaseLapsed
  <2> HIDE DEF S
  <2> QED
    BY <1>4, <2>1, <2>2, ReleaseCourse, ReleaseKeepsBooks
<1> QED
  BY <1>4, <1>5 DEF SameCourse, Course

LEMMA PlanTurn ==
  ASSUME IInv, NEW p \in Photos, CreateUploadPlan(p)
  PROVE  /\ \A q \in Photos \ {p} : Course(job[q], job'[q])
         /\ job[p].status \in {"Preparing", "DeferredQuota"}
         /\ job'[p].status \in {"Preparing", "DeferredQuota"}
<1> DEFINE b == ReleaseLapsed(Reopened(p))
           r == Reserve(p, month, b)
           code == IF r.jobs[p].blocked THEN "CircuitOpen" ELSE "MonthlyLimit"
           d == Park(p, "DeferredQuota", code, month + 1, r)
<1>1. /\ BooksOK(b) /\ \A q \in Photos \ {p} : Course(job[q], b.jobs[q])
      /\ Course(job[p], b.jobs[p]) \/ job[p].status = "DeferredQuota"
  BY ReopenedTurn
<1>2. b.jobs[p].status = "Preparing"
  BY DEF CreateUploadPlan
<1>3. Commit(b) \/ Commit(r) \/ Commit(d)
  BY DEF CreateUploadPlan, DeferredPlan
<1>4. month \in Months
  BY DEF IInv, TypeOK
<1> HIDE DEF b
<1>5. BooksOK(r) /\ SameCourse(b, r)
  BY <1>1, <1>4, ReserveKeepsBooks, ReserveCourse
<1> HIDE DEF r
<1>6. /\ d.jobs[p].status = "DeferredQuota"
      /\ \A q \in Photos \ {p} : d.jobs[q] = r.jobs[q]
  BY <1>5, ParkCourse DEF Parked
<1> HIDE DEF d
<1>7. job' = b.jobs \/ job' = r.jobs \/ job' = d.jobs
  BY <1>3 DEF Commit
<1> QED
  BY <1>1, <1>2, <1>5, <1>6, <1>7 DEF SameCourse, Course

LEMMA GetSessionTurn ==
  ASSUME IInv, NEW p \in Photos, NEW n \in UploadIds, GetUploadSession(p, n)
  PROVE  \A q \in Photos : Course(job[q], job'[q])
<1>1. SameCourse(books, Release({p}, books)) /\ SameCourse(books, books)
  BY ReleaseCourse, SelfCourse DEF IInv
<1>2. Commit(Release({p}, books)) \/ Commit(books)
  BY DEF GetUploadSession
<1> QED
  BY <1>1, <1>2, CommitCourse

LEMMA CompleteUploadTurn ==
  ASSUME IInv, NEW p \in Photos, NEW n \in UploadIds, CompleteUpload(p, n)
  PROVE  /\ \A q \in Photos \ {p} : job'[q] = job[q]
         /\ job'[p].status = "Queued" /\ job'[p].staging = n
         /\ job'[p].lease = NoMessage
         /\ job'[p].req = job[p].req /\ job'[p].cost = job[p].cost
         /\ ledger' = ledger
<1> DEFINE j == job[p]
           k == [j EXCEPT !.staging = n]
           b == WithJob(p, k, books)
<1>1. j \in JobRecord /\ BooksOK(books)
  BY DEF IInv, TypeOK
<1>2. Commit(Park(p, "Queued", "None", 0, b))
  BY DEF CompleteUpload
<1> HIDE DEF j
<1>3. k \in JobRecord /\ k.req = j.req /\ k.cost = j.cost /\ k.staging = n
  BY <1>1 DEF JobRecord
<1> HIDE DEF k
<1>4. BooksOK(b)
  BY <1>1, <1>3, WithJobKeepsBooks DEF j, books
<1>5. /\ b.jobs[p] = k /\ \A q \in Photos \ {p} : b.jobs[q] = job[q]
      /\ b.ledger = ledger
  BY <1>1, WithJobCourse DEF books
<1> HIDE DEF b
<1> QED
  BY <1>2, <1>3, <1>4, <1>5, ParkCourse DEF Parked, Commit, j

LEMMA CancelUploadTurn ==
  ASSUME IInv, NEW p \in Photos, NEW n \in UploadIds, CancelUpload(p, n)
  PROVE  /\ \A q \in Photos \ {p} : Course(job[q], job'[q])
         /\ job'[p].status = "Preparing"
<1> DEFINE b == ClearStaging(p, books)
<1>0. BooksOK(books)
  BY DEF IInv
<1>1. /\ BooksOK(b) /\ b.jobs[p].status = job[p].status
      /\ \A q \in Photos \ {p} : b.jobs[q] = job[q]
  BY <1>0, JobChangesKeepBooks, ClearStagingCourse DEF books
<1>2. Commit(Release({p}, b)) /\ job[p].status = "Preparing"
  BY DEF CancelUpload
<1> HIDE DEF b
<1>3. SameCourse(b, Release({p}, b))
  BY <1>1, ReleaseCourse
<1> QED
  BY <1>1, <1>2, <1>3 DEF SameCourse, Course, Commit

LEMMA RetryTurn ==
  ASSUME IInv, NEW p \in Photos, RetryJob(p)
  PROVE  /\ job[p].status \in {"Failed", "DeferredQuota", "Cancelled"}
         /\ job'[p].status = "Preparing"
         /\ \A q \in Photos \ {p} :
              \/ Course(job[q], job'[q])
              \/ job[q].status = "DeferredQuota" /\ job'[q].status = "Preparing"
<1> DEFINE a == IF job[p].status = "DeferredQuota" THEN ResetAttempts(p, books)
                                                   ELSE books
           c == IF ledger[month].open THEN Promoted(p, CloseCircuit(month, a))
                                      ELSE a
           r == Release({p}, c)
           s == ClearStaging(p, r)
<1>1. Commit(Park(p, "Preparing", "None", 0, s)) /\ RetryAllowed(job[p])
  BY DEF RetryJob
<1>2. BooksOK(a) /\ SameCourse(books, a)
  BY JobChangesKeepBooks, ResetAttemptsCourse, SelfCourse DEF IInv
<1> HIDE DEF a
<1>3. /\ BooksOK(c)
      /\ \A q \in Photos \ {p} :
            \/ Course(a.jobs[q], c.jobs[q])
            \/ a.jobs[q].status = "DeferredQuota" /\ c.jobs[q].status = "Preparing"
  <2> DEFINE d == CloseCircuit(month, a)
             e == Promoted(p, d)
  <2>1. month \in Months
    BY DEF IInv, TypeOK
  <2>2. BooksOK(d) /\ d.jobs = a.jobs
    BY <1>2, <2>1, CircuitKeepsBooks, CircuitCourse
  <2> HIDE DEF d
  <2>3. BooksOK(e)
    BY <2>2, PromotedKeepsBooks
  <2>4. ASSUME NEW q \in Photos
        PROVE  \/ e.jobs[q] = d.jobs[q]
               \/ d.jobs[q].status = "DeferredQuota" /\ e.jobs[q].status = "Preparing"
    <3> DEFINE j == d.jobs[q]
               k == [j EXCEPT
                       !.status = "Preparing", !.attempt = 0, !.code = "None",
                       !.due = 0, !.blocked = FALSE, !.staging = None,
                       !.lease = NoMessage, !.expired = FALSE]
    <3>1. (e.jobs[q] = k /\ j.status = "DeferredQuota") \/ e.jobs[q] = j
      BY DEF Promoted
    <3>2. j \in JobRecord
      BY <2>2, JobOfBooks
    <3> HIDE DEF j
    <3>3. k.status = "Preparing"
      BY <3>2 DEF JobRecord
    <3> QED
      BY <3>1, <3>3 DEF j
  <2> HIDE DEF e
  <2>5. c = e \/ c = a
    BY DEF d, e
  <2> QED
    BY <1>2, <2>2, <2>3, <2>4, <2>5 DEF Course
<1> HIDE DEF c
<1>4. BooksOK(r) /\ SameCourse(c, r)
  BY <1>3, ReleaseKeepsBooks, ReleaseCourse
<1> HIDE DEF r
<1>5. BooksOK(s) /\ \A q \in Photos \ {p} : s.jobs[q] = r.jobs[q]
  BY <1>4, JobChangesKeepBooks, ClearStagingCourse
<1> HIDE DEF s
<1>6. /\ job'[p].status = "Preparing"
      /\ \A q \in Photos \ {p} : job'[q] = s.jobs[q]
  BY <1>1, <1>5, ParkCourse DEF Commit, Parked
<1>7. \A q \in Photos \ {p} : job'[q] = r.jobs[q] /\ Course(c.jobs[q], job'[q])
  BY <1>4, <1>5, <1>6 DEF SameCourse
<1>8. \A q \in Photos \ {p} : Course(job[q], a.jobs[q])
  BY <1>2 DEF SameCourse, books
<1>9. job[p].status \in {"Failed", "DeferredQuota", "Cancelled"}
  BY <1>1 DEF RetryAllowed
<1> QED
  BY <1>3, <1>6, <1>7, <1>8, <1>9 DEF Course

LEMMA CancelTurn ==
  ASSUME IInv, NEW p \in Photos, CancelJob(p) \/ Trash(p)
  PROVE  /\ \A q \in Photos \ {p} : Course(job[q], job'[q])
         /\ \/ job'[p].status = "Cancelled"
            \/ /\ Course(job[p], job'[p])
               /\ job[p].status \notin {"Preparing", "Queued", "Running", "DeferredQuota"}
<1> DEFINE b == SettleByCall(p, books)
<1>1. BooksOK(b) /\ SameCourse(books, b)
  BY SettleByCallKeepsBooks, SettleByCallCourse DEF IInv
<1>2. \/ \E code : Commit(Park(p, "Cancelled", code, 0, b))
      \/ /\ Commit(books)
         /\ job[p].status \notin {"Preparing", "Queued", "Running", "DeferredQuota"}
  BY DEF CancelJob, Trash
<1> HIDE DEF b
<1>3. CASE \E code : Commit(Park(p, "Cancelled", code, 0, b))
  BY <1>1, <1>3, CommitPark DEF Parked
<1>4. CASE /\ Commit(books)
           /\ job[p].status \notin {"Preparing", "Queued", "Running", "DeferredQuota"}
  BY <1>4, SelfCourse, CommitCourse
<1> QED
  BY <1>2, <1>3, <1>4

-----------------------------------------------------------------------------
(* The worker's transactions *)

(* A delivery is claimed: the job ends, goes to this delivery's lease, or  *)
(* is left as it is.                                                       *)
LEMMA ClaimTurn ==
  ASSUME IInv, NEW w \in Workers, NEW m \in queue, Claim(w, m)
  PROVE  LET p == m.photo IN
         /\ p \in Photos /\ m.id \in Messages
         /\ \A q \in Photos \ {p} : Course(job[q], job'[q])
         /\ \/ /\ Take(w, m, "ack", None)
               /\ \/ UNCHANGED <<job, ledger>>
                  \/ job'[p].status \in {"Failed", "Cancelled"}
                  \/ job'[p].status = "Succeeded" /\ p \in described
            \/ /\ Take(w, m, "claimed", job[p].staging)
               /\ Intact(p)
               /\ \/ UNCHANGED <<job, ledger>> /\ HoldsLease(p, m.id)
                  \/ /\ Claimable(p)
                     /\ job'[p].status = "Running" /\ job'[p].lease = m.id
                     /\ job'[p].staging = job[p].staging /\ ~job'[p].expired
<1> DEFINE p == m.photo
<1>0. BooksOK(books) /\ p \in Photos /\ m.id \in Messages
  BY DEF IInv, TypeOK
<1>a. BooksOK(ChargeLostCall(p)) /\ SameCourse(books, ChargeLostCall(p))
  BY <1>0, ChargedKeepsBooks, SettleCostCourse, SelfCourse DEF ChargeLostCall
<1>1. CASE ClaimDiscards(w, m)
  <2> DEFINE f == Park(p, "Failed", "Failure", 0, books)
             s == Park(p, "Cancelled", "StalePreview", 0, books)
             r == Release({p}, books)
             d == Park(p, "Succeeded", "None", 0, r)
  <2>1. \/ Commit(Release({p}, f)) \/ Commit(Release({p}, s))
        \/ Commit(d) /\ p \in described
    BY <1>1 DEF ClaimDiscards
  <2>2. BooksOK(f) /\ BooksOK(s)
    BY <1>0, ParkKeepsBooks
  <2>3. /\ f.jobs[p].status = "Failed" /\ s.jobs[p].status = "Cancelled"
        /\ \A q \in Photos \ {p} : f.jobs[q] = job[q] /\ s.jobs[q] = job[q]
    BY <1>0, ParkCourse DEF Parked, books
  <2> HIDE DEF f, s
  <2>4. SameCourse(f, Release({p}, f)) /\ SameCourse(s, Release({p}, s))
    BY <1>0, <2>2, ReleaseCourse
  <2>5. BooksOK(r) /\ SameCourse(books, r)
    BY <1>0, ReleaseKeepsBooks, ReleaseCourse
  <2>6. /\ \A q \in Photos \ {p} : Course(job[q], job'[q])
        /\ \/ job'[p].status \in {"Failed", "Cancelled"}
           \/ job'[p].status = "Succeeded" /\ p \in described
    <3>1. CASE Commit(Release({p}, f))
      <4>1. \A q \in Photos : Course(f.jobs[q], job'[q])
        BY <2>4, <3>1 DEF SameCourse, Commit
      <4> QED
        BY <1>0, <2>3, <4>1 DEF Course
    <3>2. CASE Commit(Release({p}, s))
      <4>1. \A q \in Photos : Course(s.jobs[q], job'[q])
        BY <2>4, <3>2 DEF SameCourse, Commit
      <4> QED
        BY <1>0, <2>3, <4>1 DEF Course
    <3>3. CASE Commit(d) /\ p \in described
      <4> HIDE DEF r
      <4> QED
        BY <1>0, <2>5, <3>3, CommitPark DEF Parked
    <3> QED
      BY <2>1, <3>1, <3>2, <3>3
  <2>7. Take(w, m, "ack", None)
    BY <1>1 DEF ClaimDiscards
  <2> QED
    BY <1>0, <2>6, <2>7
<1>2. CASE ClaimIgnores(w, m)
  BY <1>0, <1>2, StillCourse DEF ClaimIgnores
<1>3. CASE ClaimAgain(w, m) /\ Intact(p)
  BY <1>0, <1>3, StillCourse DEF ClaimAgain
<1>4. CASE ClaimExhausted(w, m)
  <2> DEFINE c == ChargeLostCall(p)
             b == CloseExhausted(p, c)
             j == b.jobs[p]
             k == [j EXCEPT !.status = "Failed", !.code = "Failure"]
  <2>1. BooksOK(b)
    BY <1>0, <1>a, ChargedKeepsBooks
  <2>2. SameCourse(books, b)
    <3> HIDE DEF c
    <3>1. SameCourse(c, b)
      BY <1>0, <1>a, SettleCostCourse, ReleaseCourse DEF CloseExhausted, c
    <3> QED
      BY <1>a, <3>1, SameCourseTransitive DEF c
  <2>3. Commit(WithJob(p, k, b)) /\ Take(w, m, "ack", None)
    BY <1>4 DEF ClaimExhausted
  <2> HIDE DEF b, p
  <2>4. j \in JobRecord
    BY <1>0, <2>1, JobOfBooks
  <2> HIDE DEF j
  <2>5. k.status = "Failed"
    BY <2>4 DEF JobRecord
  <2> HIDE DEF k
  <2>6. job'[p] = k /\ \A q \in Photos \ {p} : job'[q] = b.jobs[q]
    BY <1>0, <2>1, <2>3, WithJobCourse DEF Commit
  <2> QED
    BY <1>0, <2>2, <2>3, <2>5, <2>6 DEF SameCourse, books, p
<1>5. CASE ClaimStarts(w, m) /\ Intact(p)
  <2> DEFINE b == ChargeLostCall(p)
             j == b.jobs[p]
             k == [j EXCEPT !.status = "Running", !.attempt = @ + 1,
                            !.code = "None", !.lease = m.id, !.expired = FALSE]
  <2>1. Commit(WithJob(p, k, b)) /\ Take(w, m, "claimed", job[p].staging)
        /\ Claimable(p)
    BY <1>5 DEF ClaimStarts
  <2>2. BooksOK(b) /\ SameCourse(books, b)
    BY <1>a
  <2> HIDE DEF b, p
  <2>3. j \in JobRecord
    BY <1>0, <2>2, JobOfBooks
  <2> HIDE DEF j
  <2>4. /\ k.status = "Running" /\ k.lease = m.id /\ k.staging = j.staging
        /\ ~k.expired
    BY <2>3 DEF JobRecord
  <2> HIDE DEF k
  <2>5. job'[p] = k /\ \A q \in Photos \ {p} : job'[q] = b.jobs[q]
    BY <1>0, <2>1, <2>2, WithJobCourse DEF Commit
  <2>6. j.staging = job[p].staging /\ \A q \in Photos : Course(job[q], b.jobs[q])
    BY <1>0, <2>2 DEF SameCourse, Course, books, j
  <2> QED
    BY <1>0, <1>5, <2>1, <2>4, <2>5, <2>6 DEF p
<1> QED
  BY <1>1, <1>2, <1>3, <1>4, <1>5 DEF Claim

(* A delivery fails or is deferred: nothing if it lost its claim.          *)
LEMMA FailTurn ==
  ASSUME IInv, NEW w \in Workers, worker[w].phase # "idle", NEW answer,
         NEW called \in BOOLEAN,
         FailDescription(w, answer, called) \/ DeferDescription(w, called)
  PROVE  LET p == worker[w].photo IN
         /\ p \in Photos
         /\ \/ UNCHANGED <<job, ledger>> /\ Goto(w, "ack")
            \/ /\ Claimed(w)
               /\ \A q \in Photos \ {p} : Course(job[q], job'[q])
               /\ \/ /\ Parked(job[p], "Queued", job'[p])
                     /\ worker' = [worker EXCEPT ![w] = Idle]
                  \/ /\ \E status \in {"Failed", "DeferredQuota"} :
                          Parked(job[p], status, job'[p])
                     /\ Goto(w, "ack") \/ Goto(w, "cleanup")
<1> DEFINE p == worker[w].photo
           b == Settle(p, called, Reservation, books)
           o == OpenCircuit(month, b)
<1>0. BooksOK(books) /\ p \in Photos /\ month \in Months
  BY DEF IInv, TypeOK
<1>1. Reservation \in 0 .. Reservation
  BY LimitsAssumption
<1>2. BooksOK(b) /\ SameCourse(books, b)
  BY <1>0, <1>1, SettleKeepsBooks, SettleCourse
<1>3. BooksOK(o) /\ SameCourse(b, o)
  BY <1>0, <1>2, CircuitKeepsBooks, CircuitCourse
<1>4. BooksOK(o) /\ SameCourse(books, o)
  BY <1>2, <1>3, SameCourseTransitive
<1>5. \/ UNCHANGED <<job, ledger>> /\ Goto(w, "ack")
      \/ /\ Claimed(w)
         /\ \E d \in {b, o} : \E code, due :
              \/ /\ Commit(Park(p, "Queued", code, due, d))
                 /\ worker' = [worker EXCEPT ![w] = Idle]
              \/ /\ \/ Commit(Park(p, "Failed", code, due, d))
                    \/ Commit(Park(p, "DeferredQuota", code, due, d))
                 /\ Goto(w, "ack") \/ Goto(w, "cleanup")
  <2>1. CASE FailDescription(w, answer, called)
    BY <2>1 DEF FailDescription
  <2>2. CASE DeferDescription(w, called)
    BY <2>2 DEF DeferDescription
  <2> QED
    BY <2>1, <2>2
<1> HIDE DEF b, o, p
<1>6. ASSUME NEW d \in {b, o}, NEW code, NEW due, NEW status,
             Commit(Park(p, status, code, due, d))
      PROVE  /\ Parked(job[p], status, job'[p])
             /\ \A q \in Photos \ {p} : Course(job[q], job'[q])
  BY <1>0, <1>2, <1>4, <1>6, CommitPark
<1> QED
  BY <1>0, <1>5, <1>6 DEF p

LEMMA ReserveCallTurn ==
  ASSUME IInv, NEW w \in Workers, ReserveProviderCall(w)
  PROVE  /\ \A q \in Photos : Course(job[q], job'[q])
         /\ Goto(w, "reserved") \/ Goto(w, "refused")
<1> DEFINE p == worker[w].photo
<1>1. BooksOK(books) /\ p \in Photos /\ month \in Months
  BY DEF IInv, TypeOK, ReserveProviderCall
<1>2. /\ Commit(Reserve(p, month, books)) \/ UNCHANGED <<job, ledger>>
      /\ Goto(w, "reserved") \/ Goto(w, "refused")
  BY DEF ReserveProviderCall
<1>3. SameCourse(books, Reserve(p, month, books))
  BY <1>1, ReserveCourse
<1> QED
  BY <1>2, <1>3, CommitCourse, StillCourse

LEMMA ConsumeTurn ==
  ASSUME IInv, NEW w \in Workers, ConsumeProviderCall(w)
  PROVE  /\ \A q \in Photos : Course(job[q], job'[q])
         /\ \/ Goto(w, "ack")
            \/ worker' = [worker EXCEPT ![w].phase = "paid",
                                        ![w].paid = job[worker[w].photo].req]
<1> DEFINE p == worker[w].photo
           b == SettleRequest(p, TRUE, books)
           j == b.jobs[p]
           k == [j EXCEPT !.used = job[p].req]
<1>1. BooksOK(books) /\ p \in Photos
  BY DEF IInv, TypeOK, ConsumeProviderCall
<1>2. BooksOK(b) /\ SameCourse(books, b)
  BY <1>1, SettleRequestKeepsBooks, SettleRequestCourse
<1>3. Commit(WithJob(p, k, b)) \/ UNCHANGED <<job, ledger>>
  BY DEF ConsumeProviderCall
<1>4. \/ Goto(w, "ack")
      \/ worker' = [worker EXCEPT ![w].phase = "paid", ![w].paid = job[p].req]
  BY DEF ConsumeProviderCall
<1> HIDE DEF b, p
<1>5. j \in JobRecord
  BY <1>1, <1>2, JobOfBooks
<1> HIDE DEF j
<1>6. Course(j, k)
  BY <1>5 DEF JobRecord, Course
<1> HIDE DEF k
<1>7. CASE Commit(WithJob(p, k, b))
  <2>1. job'[p] = k /\ \A q \in Photos \ {p} : job'[q] = b.jobs[q]
    BY <1>1, <1>2, <1>7, WithJobCourse DEF Commit
  <2> QED
    BY <1>2, <1>4, <1>6, <2>1 DEF SameCourse, Course, books, j, p
<1>8. CASE UNCHANGED <<job, ledger>>
  BY <1>4, <1>8, StillCourse DEF p
<1> QED
  BY <1>3, <1>7, <1>8

LEMMA CompleteTurn ==
  ASSUME IInv, NEW w \in Workers, CompleteDescription(w)
  PROVE  LET p == worker[w].photo IN
         /\ p \in Photos
         /\ \/ UNCHANGED <<job, ledger, described>> /\ Goto(w, "ack")
            \/ /\ Claimed(w) /\ Goto(w, "cleanup")
               /\ \A q \in Photos \ {p} : Course(job[q], job'[q])
               /\ \/ Parked(job[p], "Failed", job'[p]) /\ UNCHANGED described
                  \/ /\ Parked(job[p], "Succeeded", job'[p])
                     /\ described' = described \cup {p}
<1> DEFINE p == worker[w].photo
           b == Settle(p, TRUE, Reservation, books)
           c == Settle(p, TRUE, worker[w].cost, books)
<1>1. BooksOK(books) /\ p \in Photos
  BY DEF IInv, TypeOK, CompleteDescription
<1>2. Reservation \in 0 .. Reservation /\ worker[w].cost \in 0 .. Reservation
  <2>1. worker[w].cost \in {0} \cup Costs
    BY DEF IInv, TypeOK, WorkerRecord
  <2>2. \A x \in {0} \cup Costs : x \in 0 .. Reservation
    BY LimitsAssumption, CostsAssumption
  <2>3. Reservation \in 0 .. Reservation
    BY LimitsAssumption
  <2> QED
    BY <2>1, <2>2, <2>3
<1>3. /\ BooksOK(b) /\ SameCourse(books, b)
      /\ BooksOK(c) /\ SameCourse(books, c)
  BY <1>1, <1>2, SettleKeepsBooks, SettleCourse
<1>4. \/ UNCHANGED <<job, ledger, described>> /\ Goto(w, "ack")
      \/ /\ Claimed(w) /\ Goto(w, "cleanup")
         /\ \/ Commit(Park(p, "Failed", "Failure", 0, b)) /\ UNCHANGED described
            \/ /\ \/ Commit(Park(p, "Succeeded", "None", 0, b))
                  \/ Commit(Park(p, "Succeeded", "None", 0, c))
               /\ described' = described \cup {p}
  BY DEF CompleteDescription
<1> HIDE DEF b, c, p
<1>5. ASSUME NEW d \in {b, c}, NEW code, NEW status,
             Commit(Park(p, status, code, 0, d))
      PROVE  /\ Parked(job[p], status, job'[p])
             /\ \A q \in Photos \ {p} : Course(job[q], job'[q])
  BY <1>1, <1>3, <1>5, CommitPark
<1> QED
  BY <1>1, <1>4, <1>5 DEF p

LEMMA SweepTurn ==
  ASSUME IInv, NEW w \in Workers, NEW p \in Photos, NEW arrives \in BOOLEAN,
         Sweep(w, p, arrives)
  PROVE  /\ \A q \in Photos \ {p} : Course(job[q], job'[q])
         /\ \/ job[p].status = "DeferredQuota" /\ job'[p].status = "Preparing"
            \/ /\ job[p].status = "Queued" \/ LeaseRanOut(p)
               /\ \E status \in {"Failed", "Queued"} : Parked(job[p], status, job'[p])
<1>0. BooksOK(books)
  BY DEF IInv
<1> DEFINE r == Release({p}, books)
           t == ResetAttempts(p, r)
           s == ClearStaging(p, t)
<1>1. CASE Due(p) /\ Commit(Park(p, "Preparing", "None", 0, s))
  <2>1. BooksOK(r) /\ SameCourse(books, r)
    BY <1>0, ReleaseKeepsBooks, ReleaseCourse
  <2> HIDE DEF r
  <2>2. BooksOK(t) /\ SameCourse(r, t)
    BY <2>1, JobChangesKeepBooks, ResetAttemptsCourse
  <2> HIDE DEF t
  <2>3. BooksOK(s) /\ \A q \in Photos \ {p} : s.jobs[q] = t.jobs[q]
    BY <2>2, JobChangesKeepBooks, ClearStagingCourse
  <2> HIDE DEF s
  <2>4. /\ job'[p].status = "Preparing"
        /\ \A q \in Photos \ {p} : job'[q] = s.jobs[q]
    BY <1>1, <2>3, ParkCourse DEF Commit, Parked
  <2>5. SameCourse(books, t)
    BY <2>1, <2>2, SameCourseTransitive
  <2> QED
    BY <1>1, <2>3, <2>4, <2>5 DEF SameCourse, books, Due
<1> DEFINE b == IF LeaseRanOut(p) THEN SettleByCall(p, books) ELSE books
<1>2. CASE Commit(Requeued(p, b)) /\ (job[p].status = "Queued" \/ LeaseRanOut(p))
  <2>1. BooksOK(b) /\ SameCourse(books, b)
    BY <1>0, SettleByCallKeepsBooks, SettleByCallCourse, SelfCourse
  <2> HIDE DEF b
  <2>2. \/ Commit(Park(p, "Failed", "Failure", 0, b))
        \/ Commit(Park(p, "Queued", "None", 0, b))
    BY <1>2 DEF Requeued
  <2> QED
    BY <1>2, <2>1, <2>2, CommitPark
<1> QED
  BY <1>1, <1>2 DEF Sweep, SweepRow

LEMMA LeaseExpiresTurn ==
  ASSUME IInv, NEW p \in Photos, LeaseExpires(p)
  PROVE  /\ \A q \in Photos \ {p} : job'[q] = job[q]
         /\ job'[p].status = job[p].status /\ job'[p].staging = job[p].staging
         /\ job'[p].lease = job[p].lease /\ job'[p].expired
         /\ job'[p].req = job[p].req /\ job'[p].cost = job[p].cost
<1> DEFINE j == job[p]
           k == [j EXCEPT !.expired = TRUE]
<1>1. j \in JobRecord /\ job \in [Photos -> JobRecord]
  BY DEF IInv, TypeOK
<1>2. job' = [job EXCEPT ![p] = k]
  BY DEF LeaseExpires
<1> HIDE DEF j
<1>3. /\ k.status = j.status /\ k.staging = j.staging /\ k.lease = j.lease
      /\ k.expired /\ k.req = j.req /\ k.cost = j.cost
  BY <1>1 DEF JobRecord
<1> HIDE DEF k
<1> QED
  BY <1>1, <1>2, <1>3 DEF j

-----------------------------------------------------------------------------
(* The invariant.  PreviewKept is not inductive: an upload that is open    *)
(* could complete behind a job that is queued already, a second one could  *)
(* replace the first, and a late cleanup could delete the preview of the   *)
(* next attempt.  So: a photo has one open session, only while nothing is  *)
(* queued for it and it still wants a description, and a cleanup only ever *)
(* holds a session that no live job names.                                 *)
Working(j) == j.status \in {"Queued", "Running"}

SessionsAgree(p) ==
  /\ \A n, k \in UploadIds :
       upload[p][n] \in OpenUpload /\ upload[p][k] \in OpenUpload => n = k
  /\ \A n \in UploadIds : upload[p][n] \in OpenUpload =>
       /\ p \in active /\ p \notin described
       /\ job[p].status \notin {"Queued", "Running", "Succeeded"}
  /\ Working(job[p]) =>
       /\ p \in active /\ p \notin described
       /\ job[p].staging # None =>
            /\ upload[p][job[p].staging] = "Completed"
            /\ job[p].staging \in object[p]

CleanupHarmless(w) ==
  worker[w].phase = "cleanup" =>
    LET p == worker[w].photo
        k == worker[w].up
    IN /\ k \in UploadIds
       /\ upload[p][k] \in {"Completed", "Cancelled"}
       /\ Working(job[p]) => job[p].staging # k

DeliveriesDistinct ==
  \A v, w \in Busy : v # w => worker[v].msg # worker[w].msg

PInv ==
  /\ IInv
  /\ \A p \in Photos : SessionsAgree(p)
  /\ \A w \in Workers : CleanupHarmless(w)
  /\ DeliveriesDistinct

(* What a step may do to a photo's sessions: a settled one stays settled,  *)
(* and a job that starts working names a session that was open.            *)
SessionsAdvance(p) ==
  /\ \A k \in UploadIds :
       upload[p][k] \in {"Completed", "Cancelled"} =>
         upload'[p][k] \in {"Completed", "Cancelled"}
  /\ Working(job'[p]) =>
       \/ Working(job[p]) /\ job'[p].staging \in {None, job[p].staging}
       \/ /\ job'[p].staging \in UploadIds
          /\ upload[p][job'[p].staging] = "Uploading"

SessionsUntouched(p) ==
  /\ upload'[p] = upload[p] /\ object'[p] = object[p]
  /\ p \in active' <=> p \in active
  /\ p \in described' <=> p \in described

JobCalm(p) ==
  \/ job'[p].status \notin {"Queued", "Running", "Succeeded"}
  \/ /\ job'[p].staging \in {None, job[p].staging}
     /\ \/ job'[p].status = job[p].status
        \/ Working(job[p]) /\ Working(job'[p])

LEMMA CalmStep ==
  ASSUME NEW p \in Photos, SessionsAgree(p), SessionsUntouched(p), JobCalm(p)
  PROVE  SessionsAgree(p)' /\ SessionsAdvance(p)
<1>1. SessionsAgree(p)'
  BY DEF SessionsAgree, SessionsUntouched, JobCalm, Working, OpenUpload
<1>2. SessionsAdvance(p)
  BY DEF SessionsAgree, SessionsUntouched, JobCalm, Working, SessionsAdvance
<1> QED
  BY <1>1, <1>2

LEMMA CourseIsCalm ==
  ASSUME NEW p \in Photos, Course(job[p], job'[p])
  PROVE  JobCalm(p)
BY DEF Course, JobCalm

(* A step that touches no session of any photo. *)
LEMMA CalmEverywhere ==
  ASSUME PInv, UNCHANGED <<upload, object, active, described>>,
         \A p \in Photos : JobCalm(p)
  PROVE  \A p \in Photos : SessionsAgree(p)' /\ SessionsAdvance(p)
BY CalmStep DEF PInv, SessionsUntouched

LEMMA PrepareKeepsSessions ==
  ASSUME PInv, NEW p \in Photos, NEW geo \in BOOLEAN, PrepareEnrichment(p, geo)
  PROVE  \A q \in Photos : SessionsAgree(q)' /\ SessionsAdvance(q)
<1>1. \A q \in Photos : JobCalm(q)
  BY PrepareTurn DEF PInv, JobCalm
<1>2. UNCHANGED <<upload, object, active, described>>
  BY DEF PrepareEnrichment
<1> QED
  BY <1>1, <1>2, CalmEverywhere

LEMMA PlanKeepsSessions ==
  ASSUME PInv, NEW p \in Photos, CreateUploadPlan(p)
  PROVE  \A q \in Photos : SessionsAgree(q)' /\ SessionsAdvance(q)
<1> DEFINE E == ExpiredUploads
<1>0. /\ upload \in [Photos -> [UploadIds -> UploadStatus]]
      /\ \A q \in Photos : SessionsAgree(q)
  BY DEF PInv, IInv, TypeOK
<1>1. /\ E \in [Photos -> [UploadIds -> UploadStatus]]
      /\ \A q \in Photos, n \in UploadIds :
           E[q][n] = IF upload[q][n] = "Lapsed" THEN "Expired" ELSE upload[q][n]
  BY <1>0 DEF ExpiredUploads, UploadStatus
<1>2. /\ UNCHANGED <<active, described>> /\ p \in active /\ p \notin described
      /\ object' = WithoutLapsedObjects
  BY DEF CreateUploadPlan
<1>3. /\ \A q \in Photos \ {p} : Course(job[q], job'[q])
      /\ job[p].status \in {"Preparing", "DeferredQuota"}
      /\ job'[p].status \in {"Preparing", "DeferredQuota"}
  BY PlanTurn DEF PInv
<1>4. \/ upload' = E
      \/ /\ \A n \in UploadIds : E[p][n] # "Uploading"
         /\ \E n \in UploadIds : /\ upload[p][n] = "None"
                                 /\ upload' = [E EXCEPT ![p][n] = "Uploading"]
  BY DEF CreateUploadPlan, LeaseHeld, UnusedUploads
<1> HIDE DEF E
<1>5. ASSUME NEW q \in Photos
      PROVE  SessionsAgree(q)' /\ SessionsAdvance(q)
  <2>1. \/ upload'[q] = E[q]
        \/ /\ q = p /\ \A n \in UploadIds : E[p][n] # "Uploading"
           /\ \E n \in UploadIds : /\ upload[p][n] = "None"
                                   /\ upload'[p] = [E[p] EXCEPT ![n] = "Uploading"]
    BY <1>1, <1>4
  <2>2. object'[q] = {n \in object[q] : upload[q][n] # "Lapsed"}
    BY <1>2 DEF WithoutLapsedObjects
  <2>3. /\ q # p => Course(job[q], job'[q])
        /\ q = p => ~Working(job[q]) /\ ~Working(job'[q]) /\ job'[q].status # "Succeeded"
    BY <1>3 DEF Working
  <2>4. SessionsAgree(q)
    BY <1>0
  <2>5. CASE upload'[q] = E[q]
    <3>1. SessionsAgree(q)'
      <4>1. /\ \A n \in UploadIds :
                 upload'[q][n] \in OpenUpload => upload[q][n] \in OpenUpload
            /\ \A n \in UploadIds :
                 upload[q][n] = "Completed" => upload'[q][n] = "Completed"
        BY <1>1, <2>5 DEF OpenUpload
      <4>2. \/ Course(job[q], job'[q])
            \/ q = p /\ ~Working(job'[q]) /\ job'[q].status # "Succeeded"
        BY <2>3
      <4>3. ASSUME Working(job'[q])
            PROVE  /\ q \in active /\ q \notin described
                   /\ job'[q].staging # None =>
                        /\ upload'[q][job'[q].staging] = "Completed"
                        /\ job'[q].staging \in object'[q]
        <5>1. /\ Working(job[q]) /\ job'[q].staging = job[q].staging
          BY <4>2, <4>3 DEF Course, Working
        <5>2. job[q].staging \in {None} \cup UploadIds
          BY DEF PInv, IInv, TypeOK, JobRecord
        <5> QED
          BY <2>2, <2>4, <4>1, <5>1, <5>2 DEF SessionsAgree
      <4> QED
        BY <1>2, <2>4, <4>1, <4>2, <4>3 DEF SessionsAgree, Course, Working
    <3>2. SessionsAdvance(q)
      BY <1>1, <2>3, <2>5 DEF SessionsAdvance, Working, Course
    <3> QED
      BY <3>1, <3>2
  <2>6. ASSUME q = p, \A n \in UploadIds : E[p][n] # "Uploading",
               NEW n \in UploadIds, upload[p][n] = "None",
               upload'[p] = [E[p] EXCEPT ![n] = "Uploading"]
        PROVE  SessionsAgree(q)' /\ SessionsAdvance(q)
    <3>1. \A k \in UploadIds : upload'[p][k] = IF k = n THEN "Uploading" ELSE E[p][k]
      BY <1>1, <2>6
    <3>2. \A k \in UploadIds : upload'[p][k] \in OpenUpload => k = n
      BY <1>1, <2>6, <3>1 DEF OpenUpload
    <3>3. SessionsAgree(q)'
      BY <1>2, <1>3, <2>3, <2>6, <3>2 DEF SessionsAgree, Working
    <3>4. SessionsAdvance(q)
      BY <1>1, <2>3, <2>6, <3>1 DEF SessionsAdvance
    <3> QED
      BY <3>3, <3>4
  <2> QED
    BY <2>1, <2>5, <2>6
<1> QED
  BY <1>5

(* The client's steps on one session of the photo. *)
LEMMA SessionStepKeepsSessions ==
  ASSUME PInv, NEW p \in Photos, NEW n \in UploadIds,
         \/ PutPreview(p, n) \/ GetUploadSession(p, n)
         \/ CompleteUpload(p, n) \/ CancelUpload(p, n)
  PROVE  \A q \in Photos : SessionsAgree(q)' /\ SessionsAdvance(q)
<1>0. /\ upload \in [Photos -> [UploadIds -> UploadStatus]]
      /\ object \in [Photos -> SUBSET UploadIds]
      /\ IInv /\ \A q \in Photos : SessionsAgree(q)
  BY DEF PInv, IInv, TypeOK
<1>1. UNCHANGED <<active, described>>
  BY DEF PutPreview, GetUploadSession, CompleteUpload, CancelUpload
<1>2. /\ \A q \in Photos \ {p} : upload'[q] = upload[q] /\ object'[q] = object[q]
      /\ \A k \in UploadIds \ {n} : upload'[p][k] = upload[p][k]
      /\ object[p] \ {n} \subseteq object'[p]
  BY <1>0 DEF PutPreview, GetUploadSession, CompleteUpload, CancelUpload
<1>3. \A q \in Photos \ {p} : Course(job[q], job'[q])
  <2>1. CASE PutPreview(p, n)
    BY <2>1 DEF PutPreview, Course
  <2> QED
    BY <1>0, <2>1, GetSessionTurn, CompleteUploadTurn, CancelUploadTurn DEF Course
<1>4. ASSUME NEW q \in Photos \ {p}
      PROVE  SessionsAgree(q)' /\ SessionsAdvance(q)
  BY <1>0, <1>1, <1>2, <1>3, CalmStep, CourseIsCalm DEF SessionsUntouched
<1>5. SessionsAgree(p)
  BY <1>0
<1>6. SessionsAgree(p)' /\ SessionsAdvance(p)
  <2>1. CASE PutPreview(p, n)
    <3>1. upload' = upload /\ job' = job /\ object[p] \subseteq object'[p]
      BY <1>0, <2>1 DEF PutPreview
    <3> QED
      BY <1>1, <1>5, <3>1 DEF SessionsAgree, SessionsAdvance
  <2>2. CASE GetUploadSession(p, n)
    <3>1. upload[p][n] = "Lapsed" /\ upload'[p][n] = "Expired"
      BY <1>0, <2>2 DEF GetUploadSession
    <3>2. Course(job[p], job'[p])
      BY <1>0, <2>2, GetSessionTurn
    <3>3. SessionsAgree(p)'
      BY <1>1, <1>2, <1>5, <3>1, <3>2 DEF SessionsAgree, Working, Course, OpenUpload
    <3>4. SessionsAdvance(p)
      BY <1>2, <3>1, <3>2 DEF SessionsAdvance, Working, Course
    <3> QED
      BY <3>3, <3>4
  <2>3. CASE CompleteUpload(p, n)
    <3>1. /\ upload[p][n] = "Uploading" /\ upload'[p][n] = "Completed"
          /\ object' = object /\ n \in object[p]
      BY <1>0, <2>3 DEF CompleteUpload
    <3>2. job'[p].status = "Queued" /\ job'[p].staging = n
      BY <1>0, <2>3, CompleteUploadTurn
    <3>3. \A k \in UploadIds : upload'[p][k] \notin OpenUpload
      BY <1>2, <1>5, <3>1 DEF SessionsAgree, OpenUpload
    <3>4. p \in active /\ p \notin described
      BY <1>5, <3>1 DEF SessionsAgree, OpenUpload
    <3>5. SessionsAgree(p)'
      BY <1>1, <3>1, <3>2, <3>3, <3>4 DEF SessionsAgree
    <3>6. SessionsAdvance(p)
      BY <1>2, <3>1, <3>2 DEF SessionsAdvance
    <3> QED
      BY <3>5, <3>6
  <2>4. CASE CancelUpload(p, n)
    <3>1. /\ upload[p][n] \in {"Uploading", "Lapsed", "Expired"}
          /\ upload'[p][n] = "Cancelled" /\ job[p].status = "Preparing"
      BY <1>0, <2>4 DEF CancelUpload, OpenUpload
    <3>2. job'[p].status = "Preparing"
      BY <1>0, <2>4, CancelUploadTurn
    <3>3. SessionsAgree(p)'
      BY <1>1, <1>2, <1>5, <3>1, <3>2 DEF SessionsAgree, Working, OpenUpload
    <3>4. SessionsAdvance(p)
      BY <1>2, <3>1, <3>2 DEF SessionsAdvance, Working
    <3> QED
      BY <3>3, <3>4
  <2> QED
    BY <2>1, <2>2, <2>3, <2>4
<1> QED
  BY <1>4, <1>6

(* Both cancel every open or completed session of the photo. *)
LEMMA CancelKeepsSessions ==
  ASSUME PInv, NEW p \in Photos, CancelJob(p) \/ Trash(p)
  PROVE  \A q \in Photos : SessionsAgree(q)' /\ SessionsAdvance(q)
<1>0. /\ upload \in [Photos -> [UploadIds -> UploadStatus]]
      /\ object \in [Photos -> SUBSET UploadIds]
      /\ IInv /\ \A q \in Photos : SessionsAgree(q)
  BY DEF PInv, IInv, TypeOK
<1>1. /\ CancelUploads(p) /\ UNCHANGED described
      /\ \A q \in Photos \ {p} : q \in active' <=> q \in active
  BY DEF CancelJob, Trash
<1>2. /\ \A q \in Photos \ {p} : upload'[q] = upload[q] /\ object'[q] = object[q]
      /\ \A k \in UploadIds :
           upload'[p][k] = IF upload[p][k] \in OpenUpload \cup {"Completed"}
                             THEN "Cancelled" ELSE upload[p][k]
  BY <1>0, <1>1 DEF CancelUploads
<1>3. /\ \A q \in Photos \ {p} : Course(job[q], job'[q])
      /\ ~Working(job'[p])
  BY <1>0, CancelTurn DEF Course, Working
<1>4. ASSUME NEW q \in Photos \ {p}
      PROVE  SessionsAgree(q)' /\ SessionsAdvance(q)
  BY <1>0, <1>1, <1>2, <1>3, CalmStep, CourseIsCalm DEF SessionsUntouched
<1>5. SessionsAgree(p)' /\ SessionsAdvance(p)
  BY <1>2, <1>3 DEF SessionsAgree, SessionsAdvance, OpenUpload
<1> QED
  BY <1>4, <1>5

LEMMA RestoreKeepsSessions ==
  ASSUME PInv, NEW p \in Photos, Restore(p)
  PROVE  \A q \in Photos : SessionsAgree(q)' /\ SessionsAdvance(q)
<1>1. /\ UNCHANGED <<upload, object, described, job>>
      /\ active' = active \cup {p}
  BY DEF Restore
<1>2. \A q \in Photos : SessionsAgree(q)
  BY DEF PInv
<1>3. \A q \in Photos : SessionsAgree(q)'
  BY <1>1, <1>2 DEF SessionsAgree
<1>4. \A q \in Photos : SessionsAdvance(q)
  BY <1>1 DEF SessionsAdvance
<1> QED
  BY <1>3, <1>4

LEMMA ClientKeepsAgreement ==
  ASSUME PInv, NEW p \in Photos, Client(p)
  PROVE  \A q \in Photos : SessionsAgree(q)' /\ SessionsAdvance(q)
<1>1. CASE RetryJob(p)
  <2>1. UNCHANGED <<upload, object, active, described>>
    BY <1>1 DEF RetryJob
  <2>2. \A q \in Photos : JobCalm(q)
    <3>1. \A q \in Photos \ {p} : \/ Course(job[q], job'[q])
                                 \/ job'[q].status = "Preparing"
      BY <1>1, RetryTurn DEF PInv
    <3>2. job'[p].status = "Preparing"
      BY <1>1, RetryTurn DEF PInv
    <3> QED
      BY <3>1, <3>2, CourseIsCalm DEF JobCalm
  <2> QED
    BY <2>1, <2>2, CalmEverywhere
<1> QED
  BY <1>1, PrepareKeepsSessions, PlanKeepsSessions, SessionStepKeepsSessions,
     CancelKeepsSessions, RestoreKeepsSessions DEF Client

-----------------------------------------------------------------------------
(* The worker, the sweep and time *)
LEMMA ClaimKeepsAgreement ==
  ASSUME PInv, NEW w \in Workers, NEW m \in queue, Claim(w, m)
  PROVE  \A q \in Photos : SessionsAgree(q)' /\ SessionsAdvance(q)
<1> DEFINE p == m.photo
<1>1. UNCHANGED <<upload, object, active, described>>
  BY DEF Claim
<1>2. /\ p \in Photos /\ IInv /\ \A q \in Photos : SessionsAgree(q)
      /\ \A q \in Photos \ {p} : Course(job[q], job'[q])
  BY ClaimTurn DEF PInv
<1>3. \/ Course(job[p], job'[p])
      \/ job'[p].status \in {"Failed", "Cancelled"}
      \/ job'[p].status = "Succeeded" /\ p \in described
      \/ /\ Working(job[p]) /\ Working(job'[p])
         /\ job'[p].staging = job[p].staging
  BY <1>2, ClaimTurn, StillCourse DEF Claimable, LeaseRanOut, Working
<1> HIDE DEF p
<1>4. \A q \in Photos \ {p} : SessionsAgree(q)' /\ SessionsAdvance(q)
  BY <1>1, <1>2, CalmStep, CourseIsCalm DEF SessionsUntouched
<1>5. SessionsAgree(p)' /\ SessionsAdvance(p)
  <2>1. CASE JobCalm(p)
    BY <1>1, <1>2, <2>1, CalmStep DEF SessionsUntouched
  <2>2. CASE job'[p].status = "Succeeded" /\ p \in described
    <3>1. \A n \in UploadIds : upload[p][n] \notin OpenUpload
      BY <1>2, <2>2 DEF SessionsAgree
    <3>2. SessionsAgree(p)'
      BY <1>1, <2>2, <3>1 DEF SessionsAgree, Working
    <3>3. SessionsAdvance(p)
      BY <1>1, <2>2 DEF SessionsAdvance, Working
    <3> QED
      BY <3>2, <3>3
  <2> QED
    BY <1>2, <1>3, <2>1, <2>2, CourseIsCalm DEF JobCalm
<1> QED
  BY <1>4, <1>5

LEMMA ParkedIsCalm ==
  ASSUME NEW p \in Photos, Working(job[p]), NEW status,
         status \in {"Queued", "Failed", "DeferredQuota"},
         Parked(job[p], status, job'[p])
  PROVE  JobCalm(p)
BY DEF Parked, JobCalm, Working

LEMMA ClaimedWorks ==
  ASSUME NEW w \in Workers, Claimed(w)
  PROVE  /\ Working(job[worker[w].photo])
         /\ worker[w].photo \in active
         /\ job[worker[w].photo].status = "Running"
         /\ job[worker[w].photo].lease = worker[w].msg
         /\ job[worker[w].photo].staging # None
         /\ job[worker[w].photo].staging = worker[w].up
         /\ upload[worker[w].photo][worker[w].up] = "Completed"
BY DEF Claimed, HoldsLease, Working

LEMMA FailKeepsAgreement ==
  ASSUME PInv, NEW w \in Workers, worker[w].phase # "idle", NEW answer,
         NEW called \in BOOLEAN,
         FailDescription(w, answer, called) \/ DeferDescription(w, called),
         UNCHANGED <<upload, object, active, described>>
  PROVE  \A q \in Photos : SessionsAgree(q)' /\ SessionsAdvance(q)
<1> DEFINE p == worker[w].photo
<1>1. /\ p \in Photos
      /\ \/ UNCHANGED job
         \/ /\ Claimed(w)
            /\ \A q \in Photos \ {p} : Course(job[q], job'[q])
            /\ \E status \in {"Queued", "Failed", "DeferredQuota"} :
                  Parked(job[p], status, job'[p])
  BY FailTurn DEF PInv
<1>2. CASE UNCHANGED job
  BY <1>2, StillCourse, CourseIsCalm, CalmEverywhere
<1>3. CASE ~UNCHANGED job
  <2>1. Working(job[p])
    BY <1>1, <1>3, ClaimedWorks
  <2> HIDE DEF p
  <2>2. JobCalm(p)
    BY <1>1, <1>3, <2>1, ParkedIsCalm
  <2> QED
    BY <1>1, <1>3, <2>2, CourseIsCalm, CalmEverywhere
<1> QED
  BY <1>2, <1>3

LEMMA CompleteKeepsAgreement ==
  ASSUME PInv, NEW w \in Workers, CompleteDescription(w)
  PROVE  \A q \in Photos : SessionsAgree(q)' /\ SessionsAdvance(q)
<1> DEFINE p == worker[w].photo
<1>0. UNCHANGED <<upload, object, active>>
  BY DEF CompleteDescription
<1>1. /\ p \in Photos
      /\ \/ UNCHANGED <<job, described>>
         \/ /\ Claimed(w)
            /\ \A q \in Photos \ {p} : Course(job[q], job'[q])
            /\ \/ Parked(job[p], "Failed", job'[p]) /\ UNCHANGED described
               \/ /\ Parked(job[p], "Succeeded", job'[p])
                  /\ described' = described \cup {p}
  BY CompleteTurn DEF PInv
<1>2. CASE UNCHANGED <<job, described>>
  BY <1>0, <1>2, StillCourse, CourseIsCalm, CalmEverywhere
<1>3. CASE ~UNCHANGED <<job, described>>
  <2>1. Working(job[p])
    BY <1>1, <1>3, ClaimedWorks
  <2>2. \A q \in Photos : SessionsAgree(q)
    BY DEF PInv
  <2> HIDE DEF p
  <2>3. \A q \in Photos \ {p} : SessionsAgree(q)' /\ SessionsAdvance(q)
    <3>1. \A q \in Photos \ {p} : SessionsUntouched(q)
      BY <1>0, <1>1, <1>3 DEF SessionsUntouched
    <3> QED
      BY <1>1, <1>3, <2>2, <3>1, CalmStep, CourseIsCalm
  <2>4. /\ \A n \in UploadIds : upload'[p][n] \notin OpenUpload
        /\ ~Working(job'[p])
    <3>1. job[p].status \in {"Queued", "Running"}
      BY <2>1 DEF Working
    <3>2. \A n \in UploadIds : upload[p][n] \notin OpenUpload
      BY <1>1, <2>2, <3>1 DEF SessionsAgree
    <3> QED
      BY <1>0, <1>1, <1>3, <3>2 DEF Parked, Working
  <2>5. ASSUME NEW q \in Photos, q = p
        PROVE  SessionsAgree(q)' /\ SessionsAdvance(q)
    BY <1>0, <2>4, <2>5 DEF SessionsAgree, SessionsAdvance
  <2> QED
    BY <2>3, <2>5
<1> QED
  BY <1>2, <1>3

LEMMA CleanUpKeepsAgreement ==
  ASSUME PInv, NEW w \in Workers, CleanUp(w)
  PROVE  \A q \in Photos : SessionsAgree(q)' /\ SessionsAdvance(q)
<1> DEFINE p == worker[w].photo
           k == worker[w].up
<1>1. /\ worker[w].phase = "cleanup" /\ UNCHANGED <<upload, active, described, job>>
      /\ object' = [object EXCEPT ![p] = @ \ {k}]
  BY DEF CleanUp
<1>2. /\ \A q \in Photos : SessionsAgree(q)
      /\ Working(job[p]) => job[p].staging # k
      /\ object \in [Photos -> SUBSET UploadIds]
  BY <1>1 DEF PInv, IInv, TypeOK, CleanupHarmless
<1> HIDE DEF p, k
<1>3. \A q \in Photos : object'[q] = object[q] \/ (q = p /\ object'[q] = object[q] \ {k})
  BY <1>1, <1>2
<1>4. \A q \in Photos : SessionsAgree(q)'
  BY <1>1, <1>2, <1>3 DEF SessionsAgree
<1>5. \A q \in Photos : SessionsAdvance(q)
  BY <1>1 DEF SessionsAdvance
<1> QED
  BY <1>4, <1>5

LEMMA WorkerKeepsAgreement ==
  ASSUME PInv, NEW w \in Workers, WorkerStep(w)
  PROVE  \A q \in Photos : SessionsAgree(q)' /\ SessionsAdvance(q)
<1>1. CASE \/ FailBeforeReserving(w) \/ DeferRefused(w)
           \/ CredentialUnavailable(w) \/ HandleProviderFailure(w)
  <2>1. /\ worker[w].phase # "idle"
        /\ UNCHANGED <<upload, object, active, described>>
        /\ \E called \in BOOLEAN : \E answer :
             FailDescription(w, answer, called) \/ DeferDescription(w, called)
    BY <1>1 DEF FailBeforeReserving, DeferRefused, CredentialUnavailable,
       HandleProviderFailure, workerOnly
  <2> QED
    BY <2>1, FailKeepsAgreement
<1>2. CASE ReserveProviderCall(w) \/ ConsumeProviderCall(w)
  <2>1. UNCHANGED <<upload, object, active, described>>
    BY <1>2 DEF ReserveProviderCall, ConsumeProviderCall, workerOnly
  <2>2. \A q \in Photos : Course(job[q], job'[q])
    BY <1>2, ReserveCallTurn, ConsumeTurn DEF PInv
  <2> QED
    BY <2>1, <2>2, CourseIsCalm, CalmEverywhere
<1>3. CASE CallAny(w) \/ Acknowledge(w)
  <2>1. UNCHANGED <<upload, object, active, described, job>>
    BY <1>3 DEF CallAny, CallProvider, Acknowledge, serverVars
  <2> QED
    BY <2>1, StillCourse, CourseIsCalm, CalmEverywhere
<1> QED
  BY <1>1, <1>2, <1>3, CompleteKeepsAgreement, CleanUpKeepsAgreement DEF WorkerStep

LEMMA SweepKeepsAgreement ==
  ASSUME PInv, NEW w \in Workers, NEW p \in Photos, NEW arrives \in BOOLEAN,
         Sweep(w, p, arrives)
  PROVE  \A q \in Photos : SessionsAgree(q)' /\ SessionsAdvance(q)
<1>1. UNCHANGED <<upload, object, active, described>>
  BY DEF Sweep
<1>2. /\ \A q \in Photos \ {p} : Course(job[q], job'[q])
      /\ \/ job'[p].status = "Preparing"
         \/ /\ job[p].status = "Queued" \/ LeaseRanOut(p)
            /\ \E status \in {"Failed", "Queued"} : Parked(job[p], status, job'[p])
  BY SweepTurn DEF PInv
<1>3. JobCalm(p)
  <2>1. CASE job'[p].status = "Preparing"
    BY <2>1 DEF JobCalm
  <2>2. CASE job'[p].status # "Preparing"
    <3>1. Working(job[p])
      BY <1>2, <2>2 DEF LeaseRanOut, Working
    <3> QED
      BY <1>2, <2>2, <3>1, ParkedIsCalm
  <2> QED
    BY <2>1, <2>2
<1> QED
  BY <1>1, <1>2, <1>3, CourseIsCalm, CalmEverywhere

LEMMA TimeKeepsAgreement ==
  ASSUME PInv, Time
  PROVE  \A q \in Photos : SessionsAgree(q)' /\ SessionsAdvance(q)
<1>1. ASSUME NEW p \in Photos, LeaseExpires(p)
      PROVE  \A q \in Photos : SessionsAgree(q)' /\ SessionsAdvance(q)
  <2>1. \A q \in Photos : JobCalm(q)
    BY <1>1, LeaseExpiresTurn DEF PInv, JobCalm
  <2>2. UNCHANGED <<upload, object, active, described>>
    BY <1>1 DEF LeaseExpires
  <2> QED
    BY <2>1, <2>2, CalmEverywhere
<1>2. ASSUME NEW p \in Photos, NEW n \in UploadIds, UploadLapses(p, n)
      PROVE  \A q \in Photos : SessionsAgree(q)' /\ SessionsAdvance(q)
  <2>1. /\ UNCHANGED <<object, active, described, job>>
        /\ upload[p][n] = "Uploading"
        /\ \A q \in Photos : \/ upload'[q] = upload[q]
                             \/ q = p /\ upload'[q] = [upload[p] EXCEPT ![n] = "Lapsed"]
    BY <1>2 DEF UploadLapses, PInv, IInv, TypeOK
  <2>2. /\ \A q \in Photos : SessionsAgree(q)
        /\ upload \in [Photos -> [UploadIds -> UploadStatus]]
        /\ \A q \in Photos : job[q].staging \in {None} \cup UploadIds
    BY DEF PInv, IInv, TypeOK, JobRecord
  <2>3. \A q \in Photos, k \in UploadIds :
           \/ upload'[q][k] = upload[q][k]
           \/ upload[q][k] = "Uploading" /\ upload'[q][k] = "Lapsed"
    BY <2>1, <2>2
  <2>4. \A q \in Photos : SessionsAgree(q)'
    BY <2>1, <2>2, <2>3 DEF SessionsAgree, OpenUpload
  <2>5. \A q \in Photos : SessionsAdvance(q)
    BY <2>1, <2>3 DEF SessionsAdvance
  <2> QED
    BY <2>4, <2>5
<1>3. CASE MonthTurns
  BY <1>3, StillCourse, CourseIsCalm, CalmEverywhere DEF MonthTurns, serverVars
<1> QED
  BY <1>1, <1>2, <1>3 DEF Time

LEMMA StepKeepsAgreement ==
  ASSUME PInv, [Next]_vars
  PROVE  \A q \in Photos : SessionsAgree(q)' /\ SessionsAdvance(q)
<1>1. ASSUME NEW w \in Workers, Crash(w)
      PROVE  \A q \in Photos : SessionsAgree(q)' /\ SessionsAdvance(q)
  BY <1>1, StillCourse, CourseIsCalm, CalmEverywhere DEF Crash, serverVars
<1>2. CASE UNCHANGED vars
  BY <1>2, StillCourse, CourseIsCalm, CalmEverywhere DEF vars
<1> QED
  BY <1>1, <1>2, ClientKeepsAgreement, ClaimKeepsAgreement, WorkerKeepsAgreement,
     SweepKeepsAgreement, TimeKeepsAgreement DEF Next

-----------------------------------------------------------------------------
(* What a step does to the workers: one of them takes a message nobody     *)
(* else holds, stops, or goes on with the message it has.                  *)
Starts(w, m, k) ==
  /\ worker[w].phase = "idle" /\ m \in queue /\ Receivable(m)
  /\ k.msg = m.id /\ k.photo = m.photo /\ k.phase \in {"ack", "claimed"}

GoesOn(w, k) ==
  /\ worker[w].phase # "idle" /\ k.phase # "idle"
  /\ k.msg = worker[w].msg /\ k.photo = worker[w].photo /\ k.up = worker[w].up
  /\ k.phase = "cleanup" =>
       Claimed(w) /\ ~Working(job'[worker[w].photo])

WorkerMove(w, k) == worker' = [worker EXCEPT ![w] = k]

LEMMA GotoMoves ==
  ASSUME IInv, NEW w \in Workers, worker[w].phase # "idle", NEW phase,
         Goto(w, phase), phase # "idle",
         phase = "cleanup" => Claimed(w) /\ ~Working(job'[worker[w].photo])
  PROVE  \E k : WorkerMove(w, k) /\ GoesOn(w, k)
<1> DEFINE j == worker[w]
           k == [j EXCEPT !.phase = phase]
<1>1. j \in WorkerRecord /\ worker' = [worker EXCEPT ![w] = k]
  BY DEF IInv, TypeOK, Goto
<1>2. k.phase = phase /\ k.msg = j.msg /\ k.photo = j.photo /\ k.up = j.up
  <2> HIDE DEF j
  <2> QED
    BY <1>1 DEF WorkerRecord
<1> HIDE DEF k
<1> QED
  BY <1>1, <1>2 DEF WorkerMove, GoesOn

LEMMA ClaimMoves ==
  ASSUME IInv, NEW w \in Workers, NEW m \in queue, Claim(w, m)
  PROVE  \E k : WorkerMove(w, k) /\ Starts(w, m, k)
<1>1. /\ worker[w].phase = "idle" /\ Receivable(m)
      /\ \E up : Take(w, m, "ack", up) \/ Take(w, m, "claimed", up)
  BY ClaimTurn DEF Claim
<1>2. ASSUME NEW up, NEW phase \in {"ack", "claimed"}, Take(w, m, phase, up)
      PROVE  \E k : WorkerMove(w, k) /\ Starts(w, m, k)
  <2> DEFINE k == [Idle EXCEPT !.phase = phase, !.msg = m.id,
                               !.photo = m.photo, !.up = up]
  <2>1. WorkerMove(w, k)
    BY <1>2 DEF Take, WorkerMove
  <2>2. k.phase = phase /\ k.msg = m.id /\ k.photo = m.photo
    BY DEF Idle
  <2> HIDE DEF k
  <2>3. Starts(w, m, k)
    BY <1>1, <1>2, <2>2 DEF Starts
  <2> QED
    BY <2>1, <2>3
<1> QED
  BY <1>1, <1>2

LEMMA FailMoves ==
  ASSUME PInv, NEW w \in Workers, worker[w].phase # "idle", NEW answer,
         NEW called \in BOOLEAN,
         FailDescription(w, answer, called) \/ DeferDescription(w, called)
  PROVE  \/ worker' = [worker EXCEPT ![w] = Idle]
         \/ \E k : WorkerMove(w, k) /\ GoesOn(w, k)
<1> DEFINE p == worker[w].photo
<1>0. IInv
  BY DEF PInv
<1>1. \/ Goto(w, "ack")
      \/ worker' = [worker EXCEPT ![w] = Idle]
      \/ /\ Claimed(w) /\ ~Working(job'[p])
         /\ Goto(w, "ack") \/ Goto(w, "cleanup")
  <2>1. \A status \in {"Failed", "DeferredQuota"} :
           Parked(job[p], status, job'[p]) => ~Working(job'[p])
    BY DEF Parked, Working
  <2> QED
    BY <1>0, <2>1, FailTurn
<1> QED
  BY <1>0, <1>1, GotoMoves

LEMMA WorkerMoves ==
  ASSUME PInv, NEW w \in Workers, WorkerStep(w)
  PROVE  \/ worker' = [worker EXCEPT ![w] = Idle]
         \/ \E k : WorkerMove(w, k) /\ GoesOn(w, k)
<1>0. IInv
  BY DEF PInv
<1>1. CASE \/ FailBeforeReserving(w) \/ DeferRefused(w)
           \/ CredentialUnavailable(w) \/ HandleProviderFailure(w)
  <2>1. /\ worker[w].phase # "idle"
        /\ \E called \in BOOLEAN : \E answer :
             FailDescription(w, answer, called) \/ DeferDescription(w, called)
    BY <1>1 DEF FailBeforeReserving, DeferRefused, CredentialUnavailable,
       HandleProviderFailure, workerOnly
  <2> QED
    BY <2>1, FailMoves
<1>2. CASE ReserveProviderCall(w)
  <2>1. worker[w].phase # "idle" /\ (Goto(w, "reserved") \/ Goto(w, "refused"))
    BY <1>0, <1>2, ReserveCallTurn DEF ReserveProviderCall
  <2> QED
    BY <1>0, <2>1, GotoMoves
<1>3. CASE ConsumeProviderCall(w)
  <2> DEFINE j == worker[w]
             n == job[j.photo].req
             k == [j EXCEPT !.phase = "paid", !.paid = n]
  <2>1. worker[w].phase # "idle" /\ worker \in [Workers -> WorkerRecord]
    BY <1>0, <1>3 DEF ConsumeProviderCall, IInv, TypeOK
  <2>2. \/ Goto(w, "ack")
        \/ worker' = [worker EXCEPT ![w].phase = "paid", ![w].paid = n]
    BY <1>0, <1>3, ConsumeTurn
  <2> HIDE DEF n
  <2>3. CASE Goto(w, "ack")
    BY <1>0, <2>1, <2>3, GotoMoves
  <2>4. CASE worker' = [worker EXCEPT ![w].phase = "paid", ![w].paid = n]
    <3>1. worker' = [worker EXCEPT ![w] = k]
      BY <2>1, <2>4
    <3>2. /\ k.phase = "paid" /\ k.msg = j.msg /\ k.photo = j.photo
          /\ k.up = j.up
      <4>1. j \in WorkerRecord
        BY <2>1
      <4> HIDE DEF j
      <4> QED
        BY <4>1 DEF WorkerRecord
    <3> HIDE DEF k
    <3> QED
      BY <2>1, <3>1, <3>2 DEF WorkerMove, GoesOn
  <2> QED
    BY <2>2, <2>3, <2>4
<1>4. CASE CallAny(w)
  <2>1. PICK answer \in Answer \ {"None"}, cost \in Costs : CallProvider(w, answer, cost)
    BY <1>4 DEF CallAny
  <2> DEFINE j == worker[w]
             k == [j EXCEPT !.phase = "answered", !.answer = answer, !.cost = cost]
  <2>2. worker[w].phase # "idle" /\ worker \in [Workers -> WorkerRecord]
    BY <1>0, <2>1 DEF CallProvider, IInv, TypeOK
  <2>3. worker' = [worker EXCEPT ![w] = k]
    BY <2>1, <2>2 DEF CallProvider
  <2>4. /\ k.phase = "answered" /\ k.msg = j.msg /\ k.photo = j.photo
        /\ k.up = j.up
    <3>1. j \in WorkerRecord
      BY <2>2
    <3> HIDE DEF j
    <3> QED
      BY <3>1 DEF WorkerRecord
  <2> HIDE DEF k
  <2> QED
    BY <2>2, <2>3, <2>4 DEF WorkerMove, GoesOn
<1>5. CASE CompleteDescription(w)
  <2>1. /\ worker[w].phase # "idle"
        /\ \/ Goto(w, "ack")
           \/ Claimed(w) /\ ~Working(job'[worker[w].photo]) /\ Goto(w, "cleanup")
    BY <1>0, <1>5, CompleteTurn DEF CompleteDescription, Parked, Working
  <2> QED
    BY <1>0, <2>1, GotoMoves
<1>6. CASE CleanUp(w)
  BY <1>0, <1>6, GotoMoves DEF CleanUp
<1>7. CASE Acknowledge(w)
  BY <1>7 DEF Acknowledge
<1> QED
  BY <1>1, <1>2, <1>3, <1>4, <1>5, <1>6, <1>7 DEF WorkerStep

LEMMA StepMoves ==
  ASSUME PInv, [Next]_vars
  PROVE  \/ UNCHANGED worker
         \/ \E w \in Workers :
              \/ worker' = [worker EXCEPT ![w] = Idle]
              \/ \E k : /\ WorkerMove(w, k)
                        /\ GoesOn(w, k) \/ \E m \in queue : Starts(w, m, k)
<1>0. IInv
  BY DEF PInv
<1>1. ASSUME NEW p \in Photos, Client(p)
      PROVE  UNCHANGED worker
  BY <1>1 DEF Client, PrepareEnrichment, CreateUploadPlan, PutPreview,
     GetUploadSession, CompleteUpload, CancelUpload, RetryJob, CancelJob,
     Trash, Restore
<1>2. ASSUME NEW w \in Workers, Crash(w)
      PROVE  worker' = [worker EXCEPT ![w] = Idle]
  BY <1>2 DEF Crash
<1>3. ASSUME NEW w \in Workers, NEW p \in Photos, NEW arrives \in BOOLEAN,
             Sweep(w, p, arrives)
      PROVE  UNCHANGED worker
  BY <1>3 DEF Sweep
<1>4. CASE Time
  BY <1>4 DEF Time, LeaseExpires, UploadLapses, MonthTurns
<1>5. CASE UNCHANGED vars
  BY <1>5 DEF vars
<1> QED
  BY <1>0, <1>1, <1>2, <1>3, <1>4, <1>5, ClaimMoves, WorkerMoves DEF Next

LEMMA StepKeepsDistinct ==
  ASSUME PInv, [Next]_vars
  PROVE  DeliveriesDistinct'
<1>0. /\ worker \in [Workers -> WorkerRecord] /\ DeliveriesDistinct
      /\ Idle.phase = "idle"
  BY DEF PInv, IInv, TypeOK, Idle
<1>1. CASE UNCHANGED worker
  BY <1>0, <1>1 DEF DeliveriesDistinct, Busy
<1>2. ASSUME NEW w \in Workers, worker' = [worker EXCEPT ![w] = Idle]
      PROVE  DeliveriesDistinct'
  BY <1>0, <1>2 DEF DeliveriesDistinct, Busy
<1>3. ASSUME NEW w \in Workers, NEW k, WorkerMove(w, k), GoesOn(w, k)
      PROVE  DeliveriesDistinct'
  BY <1>0, <1>3 DEF DeliveriesDistinct, Busy, WorkerMove, GoesOn
<1>4. ASSUME NEW w \in Workers, NEW k, WorkerMove(w, k), NEW m \in queue,
             Starts(w, m, k)
      PROVE  DeliveriesDistinct'
  <2>1. \A v \in Busy : worker[v].msg # k.msg
    BY <1>4 DEF Starts, Receivable
  <2> QED
    BY <1>0, <1>4, <2>1 DEF DeliveriesDistinct, Busy, WorkerMove, Starts
<1> QED
  BY <1>1, <1>2, <1>3, <1>4, StepMoves

LEMMA StepKeepsCleanups ==
  ASSUME PInv, [Next]_vars, NEW v \in Workers
  PROVE  CleanupHarmless(v)'
<1>0. /\ worker \in [Workers -> WorkerRecord] /\ CleanupHarmless(v)
      /\ worker[v].phase # "idle" => worker[v].photo \in Photos
      /\ \A p \in Photos : job[p] \in JobRecord
      /\ Idle.phase = "idle"
  BY DEF PInv, IInv, TypeOK, Idle
<1>1. \A q \in Photos : SessionsAdvance(q)
  BY StepKeepsAgreement
<1>2. CASE worker'[v] = worker[v]
  <2> SUFFICES ASSUME worker[v].phase = "cleanup"
               PROVE  CleanupHarmless(v)'
    BY <1>2 DEF CleanupHarmless
  <2>1. PICK p \in Photos : p = worker[v].photo
    BY <1>0
  <2>2. PICK n \in UploadIds : n = worker[v].up
    BY <1>0 DEF CleanupHarmless
  <2>3. /\ upload[p][n] \in {"Completed", "Cancelled"}
        /\ Working(job[p]) => job[p].staging # n
    BY <1>0, <2>1, <2>2 DEF CleanupHarmless
  <2>4. upload'[p][n] \in {"Completed", "Cancelled"}
    BY <1>1, <2>3 DEF SessionsAdvance
  <2>5. Working(job'[p]) => job'[p].staging # n
    <3>1. n # None
      BY DEF UploadIds, None
    <3> QED
      BY <1>1, <2>3, <3>1 DEF SessionsAdvance
  <2> QED
    BY <1>2, <2>1, <2>2, <2>4, <2>5 DEF CleanupHarmless, Working
<1>3. ASSUME NEW k, WorkerMove(v, k), GoesOn(v, k)
      PROVE  CleanupHarmless(v)'
  <2>1. worker'[v] = k
    BY <1>0, <1>3 DEF WorkerMove
  <2> SUFFICES ASSUME k.phase = "cleanup"
               PROVE  CleanupHarmless(v)'
    BY <2>1 DEF CleanupHarmless
  <2>2. PICK p \in Photos : p = worker[v].photo
    BY <1>0, <1>3 DEF GoesOn
  <2>3. Claimed(v) /\ ~Working(job'[p]) /\ k.photo = p /\ k.up = worker[v].up
    BY <1>3, <2>2 DEF GoesOn
  <2>4. /\ worker[v].up \in UploadIds
        /\ upload[p][worker[v].up] = "Completed"
    BY <1>0, <2>2, <2>3, ClaimedWorks DEF JobRecord
  <2>5. upload'[p][worker[v].up] \in {"Completed", "Cancelled"}
    BY <1>1, <2>4 DEF SessionsAdvance
  <2> QED
    BY <2>1, <2>3, <2>4, <2>5 DEF CleanupHarmless, Working
<1>4. ASSUME NEW k, WorkerMove(v, k), k.phase \in {"idle", "ack", "claimed"}
      PROVE  CleanupHarmless(v)'
  BY <1>0, <1>4 DEF WorkerMove, CleanupHarmless
<1>5. ASSUME NEW w \in Workers, NEW k, worker' = [worker EXCEPT ![w] = k], w # v
      PROVE  worker'[v] = worker[v]
  BY <1>0, <1>5
<1> QED
  BY <1>0, <1>2, <1>3, <1>4, <1>5, StepMoves DEF WorkerMove, Starts

-----------------------------------------------------------------------------
LEMMA InitialSessions ==
  ASSUME Init
  PROVE  PInv
<1>1. IInv
  BY InitialBooks
<1>2. \A p \in Photos : SessionsAgree(p)
  BY DEF Init, SessionsAgree, OpenUpload, Working, NoJob
<1>3. Busy = {} /\ \A w \in Workers : worker[w].phase = "idle"
  BY DEF Init, Busy, Idle
<1> QED
  BY <1>1, <1>2, <1>3 DEF PInv, CleanupHarmless, DeliveriesDistinct

LEMMA StepKeepsPInv ==
  ASSUME PInv, [Next]_vars
  PROVE  PInv'
<1>1. IInv'
  BY StepKeepsIInv DEF PInv
<1>2. \A p \in Photos : SessionsAgree(p)'
  BY StepKeepsAgreement
<1>3. (\A w \in Workers : CleanupHarmless(w)') /\ DeliveriesDistinct'
  BY StepKeepsCleanups, StepKeepsDistinct
<1> QED
  BY <1>1, <1>2, <1>3 DEF PInv

(* The invariant of sessions, cleanups and deliveries holds in every       *)
(* reachable state.                                                        *)
THEOREM SessionsInductive == Spec => []PInv
<1>1. Init => PInv
  BY InitialSessions
<1>2. PInv /\ [Next]_vars => PInv'
  BY StepKeepsPInv
<1> QED
  BY <1>1, <1>2, PTL DEF Spec

(* A queued or running job that names a preview finds it, however late a   *)
(* cleanup, a cancellation or an expiry of another session runs            *)
(* (complete_upload, _cleanup_if_safe, cancel_upload).                     *)
THEOREM PreviewsAlwaysKept == Spec => []PreviewKept
<1>1. PInv => PreviewKept
  BY DEF PInv, SessionsAgree, PreviewKept, Working
<1> QED
  BY <1>1, SessionsInductive, PTL

(* No upload lease stays open beside a job that is queued, running or over *)
(* with a description (create_upload_plan, complete_upload).               *)
THEOREM NoUploadBehindQueue == Spec => []NoOpenUploadBehindQueue
<1>1. PInv => NoOpenUploadBehindQueue
  BY DEF PInv, SessionsAgree, NoOpenUploadBehindQueue
<1> QED
  BY <1>1, SessionsInductive, PTL

(* At most one delivery passes the claim check of a photo, for any number  *)
(* of workers and duplicated messages (_claimed_description_job).          *)
THEOREM OneOwnerOnly == Spec => []OneOwner
<1>1. PInv => OneOwner
  <2> SUFFICES ASSUME PInv, NEW v \in Busy, NEW w \in Busy, v # w,
                      worker[v].photo = worker[w].photo, Claimed(v), Claimed(w)
               PROVE  FALSE
    BY DEF OneOwner
  <2>1. worker[v].msg # worker[w].msg
    BY DEF PInv, DeliveriesDistinct
  <2>2. v \in Workers /\ w \in Workers
    BY DEF Busy
  <2> QED
    BY <2>1, <2>2, ClaimedWorks
<1> QED
  BY <1>1, SessionsInductive, PTL

=============================================================================
