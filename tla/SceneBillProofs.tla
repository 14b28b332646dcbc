-------------------------- MODULE SceneBillProofs --------------------------
(***************************************************************************)
(* The provider's bill is covered: for any number of photos, workers,      *)
(* messages and months, when a message is redelivered only after the lease *)
(* of the delivery that died.                                              *)
(*                                                                         *)
(* BillCovered compares two sums and is far from inductive.  What is kept  *)
(* is a balance per month: the amounts charged and reserved, less what     *)
(* jobs hold for calls they have not paid for (that may be given back),    *)
(* cover the bill and whatever the calls under way may still add to it or  *)
(* give back.                                                              *)
(***************************************************************************)
EXTENDS ScenePreviewProofs

(* What the ledger has set aside in a month beyond the reservations that   *)
(* may still be released.                                                  *)
Free(m, b) ==
  b.ledger[m].usdProcessed + b.ledger[m].usdReserved
    - Reservation * Cardinality(ReqHolders(Photos, b.jobs, m))

(* The two reservations of a job are of one month, and its request is only *)
(* consumed while it runs with its preview.                                *)
TidyJob(j) ==
  /\ j.req # None => j.cost = j.req
  /\ CallStarted(j) => j.status = "Running" /\ j.staging # None
Tidy(b) == \A q \in Photos : TidyJob(b.jobs[q])

SameMoney(j, k) == Course(j, k) /\ k.req = j.req /\ k.cost = j.cost

Quiet(j, k) == SameMoney(j, k) \/ k.status # "Running"

(* The books are transformed, for the sake of job p, at nobody's expense.  *)
Effect(b, c, p) ==
  /\ BooksOK(c) /\ Tidy(c)
  /\ \A m \in Months : Free(m, c) >= Free(m, b)
  /\ \A q \in Photos \ {p} : Quiet(b.jobs[q], c.jobs[q])

-----------------------------------------------------------------------------
LEMMA FreeType ==
  ASSUME NEW b, BooksOK(b), NEW m \in Months
  PROVE  /\ Free(m, b) \in Int
         /\ b.ledger[m].usdProcessed \in Nat /\ b.ledger[m].usdReserved \in Nat
         /\ Cardinality(ReqHolders(Photos, b.jobs, m)) \in Nat
         /\ m # None
<1>1. /\ b.ledger[m] \in LedgerRow
      /\ Cardinality(ReqHolders(Photos, b.jobs, m)) \in Nat
  BY MonthOfBooks
<1>2. Reservation * Cardinality(ReqHolders(Photos, b.jobs, m)) \in Nat
  BY <1>1, LimitsAssumption
<1>3. m # None
  BY DEF Months, None
<1> QED
  BY <1>1, <1>2, <1>3 DEF Free, LedgerRow

LEMMA EffectSelf ==
  ASSUME NEW b, BooksOK(b), Tidy(b), NEW p
  PROVE  Effect(b, b, p)
BY FreeType DEF Effect, Quiet, SameMoney, Course

LEMMA EffectTransitive ==
  ASSUME NEW b, NEW c, NEW d, NEW p, BooksOK(b), Effect(b, c, p), Effect(c, d, p)
  PROVE  Effect(b, d, p)
<1>1. BooksOK(c) /\ BooksOK(d) /\ Tidy(d)
  BY DEF Effect
<1>2. ASSUME NEW m \in Months
      PROVE  Free(m, d) >= Free(m, b)
  <2>1. Free(m, b) \in Int /\ Free(m, c) \in Int /\ Free(m, d) \in Int
    BY <1>1, FreeType
  <2> QED
    BY <2>1 DEF Effect
<1>3. \A q \in Photos \ {p} : Quiet(b.jobs[q], d.jobs[q])
  BY DEF Effect, Quiet, SameMoney, Course
<1> QED
  BY <1>1, <1>2, <1>3 DEF Effect

(* Only job p changes its request: the month's balance, in numbers. *)
LEMMA FreeOfOneJob ==
  ASSUME NEW b, NEW c, BooksOK(b), BooksOK(c), NEW p \in Photos, NEW m \in Months,
         \A q \in Photos \ {p} : /\ c.jobs[q].req = b.jobs[q].req
                                 /\ c.jobs[q].cost = b.jobs[q].cost
  PROVE  Free(m, c) - Free(m, b) =
           (c.ledger[m].usdProcessed + c.ledger[m].usdReserved)
           - (b.ledger[m].usdProcessed + b.ledger[m].usdReserved)
           + (IF b.jobs[p].req = m THEN Reservation ELSE 0)
           - (IF c.jobs[p].req = m THEN Reservation ELSE 0)
<1>0. \A q \in Photos \ {p} : /\ c.jobs[q].req = b.jobs[q].req
                              /\ c.jobs[q].cost = b.jobs[q].cost
  OBVIOUS
<1> DEFINE x == Cardinality(ReqHolders(Photos, b.jobs, m))
           y == Cardinality(ReqHolders(Photos, c.jobs, m))
           d == IF b.jobs[p].req = m THEN 1 ELSE 0
           a == IF c.jobs[p].req = m THEN 1 ELSE 0
<1>1. y = x - d + a
  BY ONLY <1>0, HoldersAfterChange, p \in Photos
<1>2. /\ x \in Nat /\ y \in Nat
      /\ b.ledger[m].usdProcessed \in Nat /\ b.ledger[m].usdReserved \in Nat
      /\ c.ledger[m].usdProcessed \in Nat /\ c.ledger[m].usdReserved \in Nat
  BY FreeType
<1>3. d \in {0, 1} /\ a \in {0, 1}
  OBVIOUS
<1>4. /\ Reservation * d = (IF b.jobs[p].req = m THEN Reservation ELSE 0)
      /\ Reservation * a = (IF c.jobs[p].req = m THEN Reservation ELSE 0)
  BY LimitsAssumption
<1>5. /\ Free(m, b) = b.ledger[m].usdProcessed + b.ledger[m].usdReserved - Reservation * x
      /\ Free(m, c) = c.ledger[m].usdProcessed + c.ledger[m].usdReserved - Reservation * y
  BY DEF Free
<1> HIDE DEF x, y, d, a
<1>6. Reservation * y = Reservation * x - Reservation * d + Reservation * a
  <2>1. CASE d = 0 /\ a = 0
    BY <1>1, <1>2, <2>1, LimitsAssumption
  <2>2. CASE d = 1 /\ a = 0
    BY <1>1, <1>2, <2>2, LimitsAssumption
  <2>3. CASE d = 0 /\ a = 1
    BY <1>1, <1>2, <2>3, LimitsAssumption
  <2>4. CASE d = 1 /\ a = 1
    BY <1>1, <1>2, <2>4, LimitsAssumption
  <2> QED
    BY <1>3, <2>1, <2>2, <2>3, <2>4
<1>7. /\ Reservation * x \in Nat /\ Reservation * y \in Nat
      /\ Reservation * d \in Nat /\ Reservation * a \in Nat
  BY <1>2, <1>3, LimitsAssumption
<1> QED
  BY <1>2, <1>4, <1>5, <1>6, <1>7

(* A job drops reservations, or keeps them; the ledger stays. *)
LEMMA FreeOfSameLedger ==
  ASSUME NEW b, NEW c, BooksOK(b), BooksOK(c), NEW p \in Photos,
         \A q \in Photos \ {p} : /\ c.jobs[q].req = b.jobs[q].req
                                 /\ c.jobs[q].cost = b.jobs[q].cost,
         c.jobs[p].req \in {None, b.jobs[p].req},
         \A n \in Months :
            /\ c.ledger[n].usdProcessed = b.ledger[n].usdProcessed
            /\ c.ledger[n].usdReserved = b.ledger[n].usdReserved
  PROVE  \A m \in Months : Free(m, c) >= Free(m, b)
<1> SUFFICES ASSUME NEW m \in Months
             PROVE  Free(m, c) >= Free(m, b)
  OBVIOUS
<1>1. Free(m, c) - Free(m, b) =
           (c.ledger[m].usdProcessed + c.ledger[m].usdReserved)
           - (b.ledger[m].usdProcessed + b.ledger[m].usdReserved)
           + (IF b.jobs[p].req = m THEN Reservation ELSE 0)
           - (IF c.jobs[p].req = m THEN Reservation ELSE 0)
  BY FreeOfOneJob
<1>2. /\ Free(m, b) \in Int /\ Free(m, c) \in Int /\ m # None
      /\ b.ledger[m].usdProcessed \in Nat /\ b.ledger[m].usdReserved \in Nat
  BY FreeType
<1> QED
  BY <1>1, <1>2, LimitsAssumption

LEMMA ReleasedJobs ==
  ASSUME NEW b, BooksOK(b), NEW S \in SUBSET Photos
  PROVE  /\ \A q \in S : /\ Release(S, b).jobs[q].req = None
                         /\ Release(S, b).jobs[q].cost = None
         /\ \A q \in Photos \ S : Release(S, b).jobs[q] = b.jobs[q]
<1> SUFFICES ASSUME NEW q \in Photos
             PROVE  /\ q \in S => /\ Release(S, b).jobs[q].req = None
                                  /\ Release(S, b).jobs[q].cost = None
                    /\ q \notin S => Release(S, b).jobs[q] = b.jobs[q]
  OBVIOUS
<1> DEFINE j == b.jobs[q]
           k == [j EXCEPT !.req = None, !.cost = None]
<1>1. j \in JobRecord
  BY JobOfBooks
<1>2. Release(S, b).jobs[q] = IF q \in S THEN k ELSE j
  BY DEF Release
<1>3. k.req = None /\ k.cost = None
  <2> HIDE DEF j
  <2> QED
    BY <1>1 DEF JobRecord
<1> HIDE DEF k
<1> QED
  BY <1>2, <1>3

(* Reservations for calls that were never started go back to the month     *)
(* they were held against.                                                 *)
LEMMA ReleaseEffect ==
  ASSUME NEW b, BooksOK(b), Tidy(b), NEW S \in SUBSET Photos, NEW p \in Photos,
         \A q \in S : ~CallStarted(b.jobs[q]),
         \A q \in S \ {p} : b.jobs[q].status # "Running"
  PROVE  Effect(b, Release(S, b), p)
<1> DEFINE c == Release(S, b)
<1>1. BooksOK(c) /\ SameCourse(b, c)
  BY ReleaseKeepsBooks, ReleaseCourse
<1>2. /\ \A q \in S : c.jobs[q].req = None /\ c.jobs[q].cost = None
      /\ \A q \in Photos \ S : c.jobs[q] = b.jobs[q]
  BY ReleasedJobs
<1>3. ASSUME NEW m \in Months
      PROVE  Free(m, c) >= Free(m, b)
  <2> DEFINE H == ReqHolders(Photos, b.jobs, m)
             HS == ReqHolders(S, b.jobs, m)
             x == Cardinality(H)
             y == Cardinality(HS)
             row == b.ledger[m]
  <2>0. m # None /\ row \in LedgerRow
    BY FreeType, MonthOfBooks
  <2>1. CostHolders(S, b.jobs, m) = HS
    <3>1. ASSUME NEW q \in S
          PROVE  b.jobs[q].cost = m <=> b.jobs[q].req = m
      BY <2>0 DEF Tidy, TidyJob, CallStarted
    <3> QED
      BY <3>1 DEF ReqHolders, CostHolders
  <2>2. ReqHolders(Photos, c.jobs, m) = H \ HS
    <3> HIDE DEF c
    <3> QED
      BY <1>2, <2>0 DEF ReqHolders
  <2>3. HS \in SUBSET H /\ IsFiniteSet(H)
    <3>1. HS \in SUBSET H
      BY DEF ReqHolders
    <3>2. IsFiniteSet(H)
      BY HoldersFinite
    <3> QED
      BY <3>1, <3>2
  <2>4. /\ Cardinality(H \ HS) = x - y /\ y <= x /\ x \in Nat /\ y \in Nat
    BY <2>3, CardinalityOfDifference
  <2>5. c.ledger[m] = [row EXCEPT
           !.reqReserved = @ - Lesser(@, y),
           !.usdReserved = @ - Lesser(@, Reservation * y)]
    BY <2>1 DEF Release
  <2>6. /\ Free(m, b) = row.usdProcessed + row.usdReserved - Reservation * x
        /\ Free(m, c) = c.ledger[m].usdProcessed + c.ledger[m].usdReserved
                          - Reservation * (x - y)
    BY <2>2, <2>4 DEF Free
  <2> HIDE DEF c, row, H, HS, x, y
  <2>7. /\ c.ledger[m].usdProcessed = row.usdProcessed
        /\ c.ledger[m].usdReserved =
             row.usdReserved - Lesser(row.usdReserved, Reservation * y)
    BY <2>0, <2>5 DEF LedgerRow
  <2>8. /\ Reservation * y \in Nat /\ Reservation * x \in Nat
        /\ Reservation * (x - y) = Reservation * x - Reservation * y
    BY <2>4, LimitsAssumption
  <2>9. /\ Lesser(row.usdReserved, Reservation * y) <= Reservation * y
        /\ Lesser(row.usdReserved, Reservation * y) \in Nat
        /\ row.usdReserved \in Nat /\ row.usdProcessed \in Nat
    BY <2>0, <2>8 DEF Lesser, LedgerRow
  <2> QED
    BY <2>6, <2>7, <2>8, <2>9
<1> HIDE DEF c
<1>4. Tidy(c)
  BY <1>1, <1>2 DEF Tidy, TidyJob, CallStarted, SameCourse, Course
<1>5. \A q \in Photos \ {p} : Quiet(b.jobs[q], c.jobs[q])
  BY <1>1, <1>2 DEF Quiet, SameMoney, SameCourse, Course
<1> QED
  BY <1>1, <1>3, <1>4, <1>5 DEF Effect, c

-----------------------------------------------------------------------------
(* The settlements, in money. *)
LEMMA SettledRequest ==
  ASSUME NEW b, BooksOK(b), NEW p \in Photos, NEW consumed \in BOOLEAN
  PROVE  LET c == SettleRequest(p, consumed, b) IN
         /\ BooksOK(c) /\ SameCourse(b, c)
         /\ c.jobs[p].req = None /\ c.jobs[p].cost = b.jobs[p].cost
         /\ \A q \in Photos \ {p} : c.jobs[q] = b.jobs[q]
         /\ \A m \in Months : /\ c.ledger[m].usdReserved = b.ledger[m].usdReserved
                              /\ c.ledger[m].usdProcessed = b.ledger[m].usdProcessed
<1> DEFINE c == SettleRequest(p, consumed, b)
           n == b.jobs[p].req
           j == b.jobs[p]
           k == [j EXCEPT !.req = None]
           units == Lesser(b.ledger[n].reqReserved, 1)
           spent == IF consumed THEN units ELSE 0
           row == [b.ledger[n] EXCEPT !.reqReserved = @ - units,
                                      !.reqProcessed = @ + spent]
<1>1. BooksOK(c) /\ SameCourse(b, c)
  BY SettleRequestKeepsBooks, SettleRequestCourse
<1>2. /\ b.jobs \in [Photos -> JobRecord] /\ j \in JobRecord
      /\ b.ledger \in [Months -> LedgerRow]
  BY JobOfBooks
<1>3. n \in {None} \cup Months
  BY <1>2 DEF JobRecord
<1>4. CASE n = None
  BY <1>1, <1>4 DEF SettleRequest
<1>5. CASE n # None
  <2>1. c.jobs = [b.jobs EXCEPT ![p] = k] /\ c.ledger = [b.ledger EXCEPT ![n] = row]
    BY <1>2, <1>5 DEF SettleRequest
  <2> HIDE DEF c, j, n, units, spent
  <2>2. k.req = None /\ k.cost = j.cost
    BY <1>2 DEF JobRecord
  <2>3. b.ledger[n] \in LedgerRow
    BY <1>2, <1>3, <1>5
  <2>4. /\ row.usdReserved = b.ledger[n].usdReserved
        /\ row.usdProcessed = b.ledger[n].usdProcessed
    BY <2>3 DEF LedgerRow
  <2> HIDE DEF k, row
  <2>5. \A m \in Months : /\ c.ledger[m].usdReserved = b.ledger[m].usdReserved
                          /\ c.ledger[m].usdProcessed = b.ledger[m].usdProcessed
    BY <1>2, <2>1, <2>4
  <2>6. /\ c.jobs[p].req = None /\ c.jobs[p].cost = b.jobs[p].cost
        /\ \A q \in Photos \ {p} : c.jobs[q] = b.jobs[q]
    BY <1>2, <2>1, <2>2 DEF j
  <2> QED
    BY <1>1, <2>5, <2>6 DEF c
<1> QED
  BY <1>3, <1>4, <1>5

LEMMA SettledCost ==
  ASSUME NEW b, BooksOK(b), NEW p \in Photos, NEW called \in BOOLEAN,
         NEW charge \in 0 .. Reservation
  PROVE  LET c == SettleCost(p, called, charge, b)
             n == b.jobs[p].cost
         IN
         /\ BooksOK(c) /\ SameCourse(b, c)
         /\ c.jobs[p].req = b.jobs[p].req /\ c.jobs[p].cost = None
         /\ \A q \in Photos \ {p} : c.jobs[q] = b.jobs[q]
         /\ \A m \in Months :
              /\ c.ledger[m].usdReserved = b.ledger[m].usdReserved
                                             - (IF n = m THEN Reservation ELSE 0)
              /\ c.ledger[m].usdProcessed = b.ledger[m].usdProcessed
                                             + (IF n = m /\ called THEN charge ELSE 0)
<1> DEFINE c == SettleCost(p, called, charge, b)
           j == b.jobs[p]
           n == j.cost
           left == IF called THEN j.used ELSE None
           k == [j EXCEPT !.cost = None, !.used = left]
           freed(m) == IF m = n THEN Lesser(b.ledger[m].usdReserved, Reservation)
                                ELSE 0
           spent(m) == IF m = n /\ called THEN charge ELSE 0
           undone(m) == IF m = j.used /\ ~called
                          THEN Lesser(b.ledger[m].reqProcessed, 1) ELSE 0
           row(m) == [b.ledger[m] EXCEPT !.usdReserved = @ - freed(m),
                                         !.usdProcessed = @ + spent(m),
                                         !.reqProcessed = @ - undone(m)]
<1>1. BooksOK(c) /\ SameCourse(b, c)
  BY SettleCostKeepsBooks, SettleCostCourse
<1>2. /\ b.jobs \in [Photos -> JobRecord] /\ j \in JobRecord
      /\ b.ledger \in [Months -> LedgerRow]
  BY JobOfBooks
<1>3. \A m \in Months : /\ m # None /\ b.ledger[m].usdReserved \in Nat
                        /\ b.ledger[m].usdProcessed \in Nat
  BY FreeType
<1>4. CASE n = None
  <2>1. c = b
    BY <1>4 DEF SettleCost
  <2> HIDE DEF c
  <2>2. \A m \in Months :
           /\ c.ledger[m].usdReserved = b.ledger[m].usdReserved
                                          - (IF n = m THEN Reservation ELSE 0)
           /\ c.ledger[m].usdProcessed = b.ledger[m].usdProcessed
                                          + (IF n = m /\ called THEN charge ELSE 0)
    BY <1>3, <1>4, <2>1
  <2> QED
    BY <1>1, <1>4, <2>1, <2>2 DEF c
<1>5. CASE n # None
  <2>1. c.jobs = [b.jobs EXCEPT ![p] = k] /\ c.ledger = [m \in Months |-> row(m)]
    BY <1>5 DEF SettleCost
  <2>2. \A m \in Months : n = m => Lesser(b.ledger[m].usdReserved, Reservation) = Reservation
    BY HeldIsReserved
  <2> HIDE DEF c, j, left
  <2>3. k.cost = None /\ k.req = j.req
    BY <1>2 DEF JobRecord
  <2> HIDE DEF k
  <2>4. /\ c.jobs[p].req = b.jobs[p].req /\ c.jobs[p].cost = None
        /\ \A q \in Photos \ {p} : c.jobs[q] = b.jobs[q]
    BY <1>2, <2>1, <2>3 DEF j
  <2>5. ASSUME NEW m \in Months
        PROVE  /\ c.ledger[m].usdReserved = b.ledger[m].usdReserved
                                               - (IF n = m THEN Reservation ELSE 0)
               /\ c.ledger[m].usdProcessed = b.ledger[m].usdProcessed
                                               + (IF n = m /\ called THEN charge ELSE 0)
    <3>1. freed(m) = IF n = m THEN Reservation ELSE 0
      BY <2>2
    <3>2. b.ledger[m] \in LedgerRow /\ c.ledger[m] = row(m)
      BY <1>2, <2>1
    <3> HIDE DEF freed, undone, n
    <3>3. /\ row(m).usdReserved = b.ledger[m].usdReserved - freed(m)
          /\ row(m).usdProcessed = b.ledger[m].usdProcessed + spent(m)
      BY <3>2 DEF LedgerRow
    <3> HIDE DEF row
    <3> QED
      BY <3>1, <3>2, <3>3
  <2> QED
    BY <1>1, <2>4, <2>5 DEF c, j
<1> QED
  BY <1>4, <1>5

(* Closing an attempt: what it costs the month's balance is what a call    *)
(* under way was still entitled to.                                        *)
Closed(b, c, p, loss) ==
  /\ BooksOK(c) /\ SameCourse(b, c) /\ Tidy(c)
  /\ c.jobs[p].req = None /\ c.jobs[p].cost = None
  /\ \A q \in Photos \ {p} : c.jobs[q] = b.jobs[q]
  /\ \A m \in Months :
       Free(m, c) >= Free(m, b)
         - (IF CallStarted(b.jobs[p]) /\ b.jobs[p].cost = m THEN loss ELSE 0)

LEMMA ClosedJob ==
  ASSUME NEW b, NEW c, BooksOK(b), Tidy(b), BooksOK(c), NEW p \in Photos,
         SameCourse(b, c),
         c.jobs[p].req = None, c.jobs[p].cost = None,
         \A q \in Photos \ {p} : c.jobs[q] = b.jobs[q],
         NEW called \in BOOLEAN, NEW charge \in 0 .. Reservation,
         \A m \in Months :
            /\ c.ledger[m].usdReserved = b.ledger[m].usdReserved
                 - (IF b.jobs[p].cost = m THEN Reservation ELSE 0)
            /\ c.ledger[m].usdProcessed = b.ledger[m].usdProcessed
                 + (IF b.jobs[p].cost = m /\ called THEN charge ELSE 0)
  PROVE  Closed(b, c, p, IF called THEN Reservation - charge ELSE Reservation)
<1>1. Tidy(c)
  BY DEF Tidy, TidyJob, CallStarted
<1>2. ASSUME NEW m \in Months
      PROVE  Free(m, c) >= Free(m, b)
               - (IF CallStarted(b.jobs[p]) /\ b.jobs[p].cost = m
                  THEN (IF called THEN Reservation - charge ELSE Reservation) ELSE 0)
  <2>1. Free(m, c) - Free(m, b) =
           (c.ledger[m].usdProcessed + c.ledger[m].usdReserved)
           - (b.ledger[m].usdProcessed + b.ledger[m].usdReserved)
           + (IF b.jobs[p].req = m THEN Reservation ELSE 0)
           - (IF c.jobs[p].req = m THEN Reservation ELSE 0)
    BY FreeOfOneJob
  <2>2. /\ Free(m, b) \in Int /\ Free(m, c) \in Int /\ m # None
        /\ b.ledger[m].usdProcessed \in Nat /\ b.ledger[m].usdReserved \in Nat
    BY FreeType
  <2>3. /\ c.ledger[m].usdReserved = b.ledger[m].usdReserved
             - (IF b.jobs[p].cost = m THEN Reservation ELSE 0)
        /\ c.ledger[m].usdProcessed = b.ledger[m].usdProcessed
             + (IF b.jobs[p].cost = m /\ called THEN charge ELSE 0)
    OBVIOUS
  <2>4. /\ b.jobs[p].req = m => b.jobs[p].cost = m
        /\ b.jobs[p].cost = m /\ b.jobs[p].req # m => CallStarted(b.jobs[p])
        /\ CallStarted(b.jobs[p]) => b.jobs[p].req = None
    BY <2>2 DEF Tidy, TidyJob, CallStarted
  <2>5. charge \in Int /\ 0 <= charge /\ charge <= Reservation
    BY LimitsAssumption
  <2> QED
    BY <2>1, <2>2, <2>3, <2>4, <2>5, LimitsAssumption
<1> QED
  BY <1>1, <1>2 DEF Closed

LEMMA SettleCloses ==
  ASSUME NEW b, BooksOK(b), Tidy(b), NEW p \in Photos, NEW called \in BOOLEAN,
         NEW charge \in 0 .. Reservation
  PROVE  Closed(b, Settle(p, called, charge, b), p,
                IF called THEN Reservation - charge ELSE Reservation)
<1> DEFINE a == SettleRequest(p, called, b)
           c == SettleCost(p, called, charge, a)
<1>1. /\ BooksOK(a) /\ SameCourse(b, a)
      /\ a.jobs[p].req = None /\ a.jobs[p].cost = b.jobs[p].cost
      /\ \A q \in Photos \ {p} : a.jobs[q] = b.jobs[q]
      /\ \A m \in Months : /\ a.ledger[m].usdReserved = b.ledger[m].usdReserved
                           /\ a.ledger[m].usdProcessed = b.ledger[m].usdProcessed
  BY SettledRequest
<1> HIDE DEF a
<1>2. /\ BooksOK(c) /\ SameCourse(a, c)
      /\ c.jobs[p].req = a.jobs[p].req /\ c.jobs[p].cost = None
      /\ \A q \in Photos \ {p} : c.jobs[q] = a.jobs[q]
      /\ \A m \in Months :
           /\ c.ledger[m].usdReserved = a.ledger[m].usdReserved
                - (IF a.jobs[p].cost = m THEN Reservation ELSE 0)
           /\ c.ledger[m].usdProcessed = a.ledger[m].usdProcessed
                + (IF a.jobs[p].cost = m /\ called THEN charge ELSE 0)
  BY <1>1, SettledCost
<1> HIDE DEF c
<1>3. SameCourse(b, c)
  BY <1>1, <1>2, SameCourseTransitive
<1>4. Closed(b, c, p, IF called THEN Reservation - charge ELSE Reservation)
  BY <1>1, <1>2, <1>3, ClosedJob
<1> QED
  BY <1>4 DEF c, a, Settle

LEMMA CostCloses ==
  ASSUME NEW b, BooksOK(b), Tidy(b), NEW p \in Photos, CallStarted(b.jobs[p])
  PROVE  Closed(b, SettleCost(p, TRUE, Reservation, b), p, 0)
<1> DEFINE c == SettleCost(p, TRUE, Reservation, b)
<1>1. Reservation \in 0 .. Reservation /\ Reservation \in Int
  BY LimitsAssumption
<1>2. /\ BooksOK(c) /\ SameCourse(b, c)
      /\ c.jobs[p].req = b.jobs[p].req /\ c.jobs[p].cost = None
      /\ \A q \in Photos \ {p} : c.jobs[q] = b.jobs[q]
      /\ \A m \in Months :
           /\ c.ledger[m].usdReserved = b.ledger[m].usdReserved
                - (IF b.jobs[p].cost = m THEN Reservation ELSE 0)
           /\ c.ledger[m].usdProcessed = b.ledger[m].usdProcessed
                + (IF b.jobs[p].cost = m /\ TRUE THEN Reservation ELSE 0)
  BY <1>1, SettledCost
<1>3. c.jobs[p].req = None
  BY <1>2 DEF CallStarted
<1> HIDE DEF c
<1>4. Closed(b, c, p, IF TRUE THEN Reservation - Reservation ELSE Reservation)
  BY <1>1, <1>2, <1>3, ClosedJob
<1>5. Closed(b, c, p, 0)
  BY <1>1, <1>4
<1> QED
  BY <1>5 DEF c

LEMMA ClosedEffect ==
  ASSUME NEW b, NEW c, BooksOK(b), NEW p \in Photos, NEW loss,
         Closed(b, c, p, loss), ~CallStarted(b.jobs[p]) \/ loss = 0
  PROVE  Effect(b, c, p)
<1>1. \A m \in Months : Free(m, b) \in Int /\ Free(m, c) \in Int
  BY FreeType DEF Closed
<1>2. \A m \in Months : Free(m, c) >= Free(m, b)
  BY <1>1 DEF Closed
<1>3. \A q \in Photos \ {p} : Quiet(b.jobs[q], c.jobs[q])
  BY DEF Closed, Quiet, SameMoney, Course
<1> QED
  BY <1>2, <1>3 DEF Closed, Effect

LEMMA SettleByCallEffect ==
  ASSUME NEW b, BooksOK(b), Tidy(b), NEW p \in Photos
  PROVE  LET c == SettleByCall(p, b) IN
         /\ Effect(b, c, p) /\ SameCourse(b, c)
         /\ c.jobs[p].req = None /\ c.jobs[p].cost = None
<1> DEFINE called == CallStarted(b.jobs[p])
           loss == IF called THEN Reservation - Reservation ELSE Reservation
<1>1. called \in BOOLEAN /\ Reservation \in 0 .. Reservation
  BY LimitsAssumption DEF CallStarted
<1>2. Closed(b, SettleByCall(p, b), p, loss)
  BY <1>1, SettleCloses DEF SettleByCall
<1>3. ~CallStarted(b.jobs[p]) \/ loss = 0
  BY LimitsAssumption
<1> QED
  BY <1>2, <1>3, ClosedEffect DEF Closed

-----------------------------------------------------------------------------
(* The other operators, for the sake of job p. *)
LEMMA ChangeEffect ==
  ASSUME NEW b, NEW c, BooksOK(b), Tidy(b), BooksOK(c), NEW p \in Photos,
         \A q \in Photos \ {p} : c.jobs[q] = b.jobs[q],
         c.jobs[p].req \in {None, b.jobs[p].req}, TidyJob(c.jobs[p]),
         \A n \in Months :
            /\ c.ledger[n].usdProcessed = b.ledger[n].usdProcessed
            /\ c.ledger[n].usdReserved = b.ledger[n].usdReserved
  PROVE  Effect(b, c, p)
<1>1. \A m \in Months : Free(m, c) >= Free(m, b)
  BY FreeOfSameLedger
<1>2. Tidy(c)
  BY DEF Tidy
<1>3. \A q \in Photos \ {p} : Quiet(b.jobs[q], c.jobs[q])
  BY DEF Quiet, SameMoney, Course
<1> QED
  BY <1>1, <1>2, <1>3 DEF Effect

LEMMA ParkEffect ==
  ASSUME NEW b, BooksOK(b), Tidy(b), NEW p \in Photos, ~CallStarted(b.jobs[p]),
         NEW status \in JobStatus, NEW code \in FailureCode,
         NEW due \in 0 .. (MaxMonth + 1)
  PROVE  LET c == Park(p, status, code, due, b) IN
         /\ Effect(b, c, p) /\ ~CallStarted(c.jobs[p]) /\ c.jobs[p].status = status
         /\ c.jobs[p].req = b.jobs[p].req /\ c.jobs[p].cost = b.jobs[p].cost
<1> DEFINE c == Park(p, status, code, due, b)
<1>1. BooksOK(c)
  BY JobChangesKeepBooks
<1>2. /\ Parked(b.jobs[p], status, c.jobs[p])
      /\ \A q \in Photos \ {p} : c.jobs[q] = b.jobs[q]
      /\ c.ledger = b.ledger
      /\ c.jobs[p].req = b.jobs[p].req /\ c.jobs[p].cost = b.jobs[p].cost
  BY ParkCourse
<1> HIDE DEF c
<1>3. ~CallStarted(c.jobs[p]) /\ TidyJob(c.jobs[p])
  BY <1>2 DEF Tidy, TidyJob, CallStarted
<1>4. Effect(b, c, p)
  BY <1>1, <1>2, <1>3, ChangeEffect
<1> QED
  BY <1>2, <1>3, <1>4 DEF c, Parked

LEMMA ClearEffect ==
  ASSUME NEW b, BooksOK(b), Tidy(b), NEW p \in Photos, ~CallStarted(b.jobs[p])
  PROVE  LET c == ClearStaging(p, b) IN
         Effect(b, c, p) /\ ~CallStarted(c.jobs[p])
<1> DEFINE c == ClearStaging(p, b)
<1>1. BooksOK(c)
  BY JobChangesKeepBooks
<1>2. /\ c.jobs[p].req = b.jobs[p].req /\ c.jobs[p].cost = b.jobs[p].cost
      /\ \A q \in Photos \ {p} : c.jobs[q] = b.jobs[q]
      /\ c.ledger = b.ledger
  BY ClearStagingCourse
<1> HIDE DEF c
<1>3. ~CallStarted(c.jobs[p]) /\ TidyJob(c.jobs[p])
  BY <1>2 DEF Tidy, TidyJob, CallStarted
<1>4. Effect(b, c, p)
  BY <1>1, <1>2, <1>3, ChangeEffect
<1> QED
  BY <1>3, <1>4 DEF c

LEMMA ResetEffect ==
  ASSUME NEW b, BooksOK(b), Tidy(b), NEW p \in Photos
  PROVE  LET c == ResetAttempts(p, b) IN
         Effect(b, c, p) /\ (CallStarted(c.jobs[p]) <=> CallStarted(b.jobs[p]))
<1> DEFINE c == ResetAttempts(p, b)
<1>1. BooksOK(c)
  BY JobChangesKeepBooks
<1>2. /\ SameCourse(b, c)
      /\ c.jobs[p].req = b.jobs[p].req /\ c.jobs[p].cost = b.jobs[p].cost
      /\ \A q \in Photos \ {p} : c.jobs[q] = b.jobs[q]
      /\ c.ledger = b.ledger
  BY ResetAttemptsCourse
<1> HIDE DEF c
<1>3. /\ CallStarted(c.jobs[p]) <=> CallStarted(b.jobs[p])
      /\ TidyJob(c.jobs[p])
  BY <1>2 DEF Tidy, TidyJob, CallStarted, SameCourse, Course
<1>4. Effect(b, c, p)
  BY <1>1, <1>2, <1>3, ChangeEffect
<1> QED
  BY <1>3, <1>4 DEF c

LEMMA CircuitEffect ==
  ASSUME NEW b, BooksOK(b), Tidy(b), NEW p \in Photos, NEW now \in Months
  PROVE  Effect(b, OpenCircuit(now, b), p) /\ Effect(b, CloseCircuit(now, b), p)
<1>1. ASSUME NEW value
      PROVE  LET c == WithRow(now, [b.ledger[now] EXCEPT !.open = value], b) IN
             /\ c.jobs = b.jobs
             /\ \A n \in Months :
                  /\ c.ledger[n].usdProcessed = b.ledger[n].usdProcessed
                  /\ c.ledger[n].usdReserved = b.ledger[n].usdReserved
  <2> DEFINE old == b.ledger[now]
             row == [old EXCEPT !.open = value]
             c == WithRow(now, row, b)
  <2>1. old \in LedgerRow /\ b.ledger \in [Months -> LedgerRow]
    BY JobOfBooks, MonthOfBooks
  <2>2. c.jobs = b.jobs /\ c.ledger = [b.ledger EXCEPT ![now] = row]
    BY DEF WithRow
  <2> HIDE DEF c
  <2>3. row.usdProcessed = old.usdProcessed /\ row.usdReserved = old.usdReserved
    <3> HIDE DEF old
    <3> QED
      BY <2>1 DEF LedgerRow
  <2> HIDE DEF row
  <2>4. \A n \in Months :
           /\ c.ledger[n].usdProcessed = b.ledger[n].usdProcessed
           /\ c.ledger[n].usdReserved = b.ledger[n].usdReserved
    BY <2>1, <2>2, <2>3
  <2> QED
    BY <2>2, <2>4 DEF c, row
<1>2. ASSUME NEW c, BooksOK(c), c.jobs = b.jobs,
             \A n \in Months :
               /\ c.ledger[n].usdProcessed = b.ledger[n].usdProcessed
               /\ c.ledger[n].usdReserved = b.ledger[n].usdReserved
      PROVE  Effect(b, c, p)
  BY <1>2, ChangeEffect DEF Tidy
<1>3. BooksOK(OpenCircuit(now, b)) /\ BooksOK(CloseCircuit(now, b))
  BY CircuitKeepsBooks
<1> QED
  BY <1>1, <1>2, <1>3 DEF OpenCircuit, CloseCircuit

LEMMA BlockedEffect ==
  ASSUME NEW b, BooksOK(b), Tidy(b), NEW p \in Photos, ~CallStarted(b.jobs[p]),
         NEW value \in BOOLEAN
  PROVE  LET c == SetBlocked(p, value, b) IN
         Effect(b, c, p) /\ ~CallStarted(c.jobs[p])
<1> DEFINE c == SetBlocked(p, value, b)
           j == b.jobs[p]
           k == [j EXCEPT !.blocked = value]
<1>1. BooksOK(c)
  BY JobChangesKeepBooks
<1>2. c = WithJob(p, k, b)
  BY DEF SetBlocked
<1>3. /\ c.jobs[p] = k /\ c.ledger = b.ledger
      /\ \A q \in Photos \ {p} : c.jobs[q] = b.jobs[q]
  BY <1>2, WithJobCourse
<1>4. /\ k.req = j.req /\ k.cost = j.cost /\ k.status = j.status
      /\ k.staging = j.staging
  <2>1. j \in JobRecord
    BY JobOfBooks
  <2> HIDE DEF j
  <2> QED
    BY <2>1 DEF JobRecord
<1> HIDE DEF c, k
<1>5. ~CallStarted(c.jobs[p]) /\ TidyJob(c.jobs[p])
  BY <1>3, <1>4 DEF Tidy, TidyJob, CallStarted
<1>6. Effect(b, c, p)
  BY <1>1, <1>3, <1>4, <1>5, ChangeEffect
<1> QED
  BY <1>5, <1>6 DEF c

LEMMA ReservedEffect ==
  ASSUME NEW b, BooksOK(b), Tidy(b), NEW p \in Photos, NEW now \in Months,
         BooksOK(Reserved(p, now, b))
  PROVE  LET c == Reserved(p, now, b) IN
         Effect(b, c, p) /\ ~CallStarted(c.jobs[p])
<1> DEFINE c == Reserved(p, now, b)
           j == b.jobs[p]
           k == [j EXCEPT !.req = now, !.cost = now, !.blocked = FALSE]
           old == b.ledger[now]
           row == [old EXCEPT !.reqReserved = @ + 1, !.usdReserved = @ + Reservation]
<1>1. /\ b.jobs \in [Photos -> JobRecord] /\ j \in JobRecord
      /\ b.ledger \in [Months -> LedgerRow] /\ old \in LedgerRow
  BY JobOfBooks
<1>2. c.jobs = [b.jobs EXCEPT ![p] = k] /\ c.ledger = [b.ledger EXCEPT ![now] = row]
  BY DEF Reserved
<1>3. /\ k.req = now /\ k.cost = now
      /\ row.usdReserved = old.usdReserved + Reservation
      /\ row.usdProcessed = old.usdProcessed
  <2> HIDE DEF j, old
  <2> QED
    BY <1>1 DEF JobRecord, LedgerRow
<1>4. BooksOK(c)
  OBVIOUS
<1> HIDE DEF c, k, row
<1>5. /\ c.jobs[p] = k /\ \A q \in Photos \ {p} : c.jobs[q] = b.jobs[q]
      /\ \A m \in Months : c.ledger[m] = IF m = now THEN row ELSE b.ledger[m]
  BY <1>1, <1>2
<1>6. ASSUME NEW m \in Months
      PROVE  Free(m, c) >= Free(m, b)
  <2>1. Free(m, c) - Free(m, b) =
           (c.ledger[m].usdProcessed + c.ledger[m].usdReserved)
           - (b.ledger[m].usdProcessed + b.ledger[m].usdReserved)
           + (IF b.jobs[p].req = m THEN Reservation ELSE 0)
           - (IF c.jobs[p].req = m THEN Reservation ELSE 0)
    BY <1>4, <1>5, FreeOfOneJob
  <2>2. /\ Free(m, b) \in Int /\ Free(m, c) \in Int
        /\ b.ledger[m].usdProcessed \in Nat /\ b.ledger[m].usdReserved \in Nat
    BY <1>4, FreeType
  <2>3. CASE m = now
    <3>1. c.ledger[m] = row /\ b.ledger[m] = old /\ c.jobs[p].req = m
      BY <1>3, <1>5, <2>3
    <3> QED
      BY <1>3, <2>1, <2>2, <3>1, LimitsAssumption
  <2>4. CASE m # now
    <3>1. c.ledger[m] = b.ledger[m] /\ c.jobs[p].req # m
      BY <1>3, <1>5, <2>4
    <3> QED
      BY <2>1, <2>2, <3>1, LimitsAssumption
  <2> QED
    BY <2>3, <2>4
<1>7. now # None
  BY FreeType
<1>8. ~CallStarted(c.jobs[p]) /\ TidyJob(c.jobs[p])
  BY <1>3, <1>5, <1>7 DEF CallStarted, TidyJob
<1>9. Tidy(c)
  BY <1>5, <1>8 DEF Tidy
<1>10. \A q \in Photos \ {p} : Quiet(b.jobs[q], c.jobs[q])
  BY <1>5 DEF Quiet, SameMoney, Course
<1> QED
  BY <1>4, <1>6, <1>8, <1>9, <1>10 DEF Effect, c

(* A job that started no call reserves: whatever it held of another month  *)
(* stays reserved there.                                                   *)
LEMMA ReserveEffect ==
  ASSUME NEW b, BooksOK(b), Tidy(b), NEW p \in Photos, NEW now \in Months,
         ~CallStarted(b.jobs[p])
  PROVE  LET c == Reserve(p, now, b) IN
         Effect(b, c, p) /\ ~CallStarted(c.jobs[p])
<1>1. CASE BothMatch(p, now, b)
  <2>1. b.ledger[now].open \in BOOLEAN
    BY MonthOfBooks DEF LedgerRow
  <2>2. Reserve(p, now, b) = SetBlocked(p, b.ledger[now].open, b)
    BY <1>1 DEF Reserve
  <2> QED
    BY <2>1, <2>2, BlockedEffect
<1>2. CASE ~BothMatch(p, now, b)
  <2> DEFINE r == Realigned(p, now, b)
             old == b.ledger[now]
             row == [old EXCEPT !.exists = TRUE]
  <2>1. ~OneMatches(p, now, b) /\ now # None
    BY <1>2, FreeType DEF OneMatches, BothMatch, Tidy, TidyJob, CallStarted
  <2>2. r = WithRow(now, row, b)
    BY <2>1 DEF Realigned
  <2>3. old \in LedgerRow /\ b.ledger \in [Months -> LedgerRow]
    BY JobOfBooks, MonthOfBooks
  <2>4. r.jobs = b.jobs /\ r.ledger = [b.ledger EXCEPT ![now] = row]
    BY <2>2 DEF WithRow
  <2>5. row.usdProcessed = old.usdProcessed /\ row.usdReserved = old.usdReserved
    <3> HIDE DEF old
    <3> QED
      BY <2>3 DEF LedgerRow
  <2>6. BooksOK(r) /\ r.jobs[p].req # now /\ r.jobs[p].cost # now
    BY <1>2, RealignedKeepsBooks
  <2>7. Reserve(p, now, b) =
          IF r.ledger[now].open THEN SetBlocked(p, TRUE, r)
          ELSE IF Fits(r.ledger[now]) THEN Reserved(p, now, r) ELSE r
    BY <1>2 DEF Reserve
  <2> HIDE DEF r, row
  <2>8. Effect(b, r, p) /\ ~CallStarted(r.jobs[p])
    <3>1. \A n \in Months :
             /\ r.ledger[n].usdProcessed = b.ledger[n].usdProcessed
             /\ r.ledger[n].usdReserved = b.ledger[n].usdReserved
      BY <2>3, <2>4, <2>5
    <3>2. TidyJob(r.jobs[p])
      BY <2>4 DEF Tidy
    <3> QED
      BY <2>4, <2>6, <3>1, <3>2, ChangeEffect
  <2>9. BooksOK(r) /\ Tidy(r)
    BY <2>8 DEF Effect
  <2>10. LET c == SetBlocked(p, TRUE, r) IN Effect(r, c, p) /\ ~CallStarted(c.jobs[p])
    BY <2>8, <2>9, BlockedEffect
  <2>11. Fits(r.ledger[now]) =>
           LET c == Reserved(p, now, r) IN Effect(r, c, p) /\ ~CallStarted(c.jobs[p])
    BY <2>6, <2>9, ReservedKeepsBooks, ReservedEffect
  <2> QED
    BY <2>7, <2>8, <2>10, <2>11, EffectTransitive
<1> QED
  BY <1>1, <1>2

LEMMA PromotedEffect ==
  ASSUME NEW b, BooksOK(b), Tidy(b), NEW p \in Photos
  PROVE  LET c == Promoted(p, b) IN
         Effect(b, c, p) /\ c.jobs[p] = b.jobs[p]
<1> DEFINE c == Promoted(p, b)
           k(q) == [b.jobs[q] EXCEPT
                      !.status = "Preparing", !.attempt = 0, !.code = "None",
                      !.due = 0, !.blocked = FALSE, !.staging = None,
                      !.lease = NoMessage, !.expired = FALSE]
<1>1. BooksOK(c)
  BY PromotedKeepsBooks
<1>2. \A q \in Photos :
        \/ c.jobs[q] = b.jobs[q]
        \/ q # p /\ b.jobs[q].status = "DeferredQuota" /\ c.jobs[q] = k(q)
  BY DEF Promoted
<1>3. c.ledger = b.ledger /\ c.jobs[p] = b.jobs[p]
  BY DEF Promoted
<1>4. ASSUME NEW q \in Photos
      PROVE  /\ k(q).req = b.jobs[q].req /\ k(q).cost = b.jobs[q].cost
             /\ k(q).status = "Preparing"
  <2> DEFINE j == b.jobs[q]
             i == [j EXCEPT
                     !.status = "Preparing", !.attempt = 0, !.code = "None",
                     !.due = 0, !.blocked = FALSE, !.staging = None,
                     !.lease = NoMessage, !.expired = FALSE]
  <2>1. j \in JobRecord /\ k(q) = i
    BY JobOfBooks
  <2>2. i.req = j.req /\ i.cost = j.cost /\ i.status = "Preparing"
    <3> HIDE DEF j, k
    <3> QED
      BY <2>1 DEF JobRecord
  <2> QED
    BY <2>1, <2>2
<1> HIDE DEF c, k
<1>5. \A q \in Photos :
        /\ c.jobs[q].req = b.jobs[q].req /\ c.jobs[q].cost = b.jobs[q].cost
        /\ Quiet(b.jobs[q], c.jobs[q]) /\ TidyJob(c.jobs[q])
  <2> SUFFICES ASSUME NEW q \in Photos
               PROVE  /\ c.jobs[q].req = b.jobs[q].req
                      /\ c.jobs[q].cost = b.jobs[q].cost
                      /\ Quiet(b.jobs[q], c.jobs[q]) /\ TidyJob(c.jobs[q])
    OBVIOUS
  <2>1. TidyJob(b.jobs[q])
    BY DEF Tidy
  <2>2. CASE c.jobs[q] = b.jobs[q]
    BY <2>1, <2>2 DEF Quiet, SameMoney, Course
  <2>3. CASE b.jobs[q].status = "DeferredQuota" /\ c.jobs[q] = k(q)
    BY <1>4, <2>1, <2>3 DEF TidyJob, CallStarted, Quiet
  <2> QED
    BY <1>2, <2>2, <2>3
<1>6. \A m \in Months : Free(m, c) >= Free(m, b)
  BY <1>1, <1>3, <1>5, FreeOfSameLedger
<1>7. Effect(b, c, p)
  BY <1>1, <1>5, <1>6 DEF Effect, Tidy
<1> QED
  BY <1>3, <1>7 DEF c

-----------------------------------------------------------------------------
(* The deliveries.  One holds a job while the lease it took is in force    *)
(* and the request still names a preview; then the job is where the        *)
(* delivery believes it to be.                                             *)
BeforeCall == {"claimed", "refused", "reserved"}

Holds(w) ==
  /\ HoldsLease(worker[w].photo, worker[w].msg)
  /\ job[worker[w].photo].staging # None

DeliveryAgrees(w) ==
  LET j == job[worker[w].photo] IN
  /\ worker[w].phase \in BeforeCall \cup {"paid"} => worker[w].cost = 0
  /\ worker[w].phase \in BeforeCall /\ Holds(w) => ~CallStarted(j)
  /\ worker[w].phase \in {"paid", "answered"} =>
       /\ worker[w].paid \in Months
       /\ Holds(w) => j.req = None /\ j.cost = worker[w].paid

(* A delivery may still be billed for its call, or, once billed, settle it *)
(* for its cost.  The month's margin has one pair for each unit that is    *)
(* reserved for such a call beyond what was billed for it.                 *)
Owed(w, m) ==
  /\ worker[w].paid = m
  /\ worker[w].phase = "paid" \/ (worker[w].phase = "answered" /\ Holds(w))

Units(W, O) ==
  {x \in Workers \X (1 .. Reservation) : x[1] \in O /\ x[2] > W[x[1]].cost}
Owing(m) == {v \in Workers : Owed(v, m)}
Margin(m) == Units(worker, Owing(m))

Balance(m) == billed[m] + Cardinality(Margin(m)) <= Free(m, books)

BInv ==
  /\ PInv
  /\ Tidy(books)
  /\ \A w \in Workers : DeliveryAgrees(w)
  /\ \A m \in Months : Balance(m)

-----------------------------------------------------------------------------
(* The margin of a month, one delivery apart from the others.              *)
Own(w, m) == IF Owed(w, m) THEN Reservation - worker[w].cost ELSE 0

LEMMA UnitsFinite ==
  ASSUME NEW W, NEW O
  PROVE  IsFiniteSet(Units(W, O)) /\ Cardinality(Units(W, O)) \in Nat
<1>1. IsFiniteSet(1 .. Reservation)
  BY LimitsAssumption, FS_Interval
<1>2. IsFiniteSet(Workers \X (1 .. Reservation))
  BY <1>1, WorkersAssumption, FS_Product
<1>3. Units(W, O) \in SUBSET (Workers \X (1 .. Reservation))
  BY DEF Units
<1> QED
  BY <1>2, <1>3, FS_Subset, FS_CardinalityType

LEMMA UnitsSplit ==
  ASSUME NEW w \in Workers
  PROVE  \A W, O : W[w].cost \in 0 .. Reservation =>
           Cardinality(Units(W, O)) =
             Cardinality(Units(W, O \ {w}))
               + (IF w \in O THEN Reservation - W[w].cost ELSE 0)
<1> SUFFICES ASSUME NEW W, NEW O, W[w].cost \in 0 .. Reservation
             PROVE  Cardinality(Units(W, O)) =
                      Cardinality(Units(W, O \ {w}))
                        + (IF w \in O THEN Reservation - W[w].cost ELSE 0)
  OBVIOUS
<1> DEFINE c == W[w].cost
           own == IF w \in O THEN Reservation - c ELSE 0
           J == IF w \in O THEN (c + 1) .. Reservation ELSE {}
           Mine == {w} \X J
           Others == Units(W, O \ {w})
<1>1. /\ c \in Int /\ 0 <= c /\ c <= Reservation /\ Reservation \in Int
      /\ c + 1 \in Int
  BY LimitsAssumption
<1>2. Units(W, O) = Others \cup Mine /\ Others \cap Mine = {}
  <2>1. \A i \in J : i \in 1 .. Reservation /\ i > c /\ w \in O
    BY <1>1
  <2>2. w \in O => \A i \in 1 .. Reservation : i > c => i \in J
    BY <1>1
  <2> HIDE DEF J
  <2>3. Mine \in SUBSET Units(W, O) /\ \A x \in Mine : x[1] = w
    BY <2>1 DEF Units
  <2>4. \A x \in Units(W, O) : x[1] = w => x \in Mine
    BY <2>2 DEF Units
  <2>5. /\ Others \in SUBSET Units(W, O)
        /\ \A x \in Others : x[1] # w
        /\ \A x \in Units(W, O) : x[1] # w => x \in Others
    BY DEF Units
  <2> HIDE DEF Mine, Others
  <2> QED
    BY <2>3, <2>4, <2>5
<1>3. IsFiniteSet(J) /\ Cardinality(J) = own
  <2>1. /\ IsFiniteSet((c + 1) .. Reservation)
        /\ Cardinality((c + 1) .. Reservation) =
             IF c + 1 > Reservation THEN 0 ELSE Reservation - (c + 1) + 1
    <3> HIDE DEF c
    <3> QED
      BY <1>1, FS_Interval
  <2>2. CASE w \in O
    BY <1>1, <2>1, <2>2
  <2>3. CASE w \notin O
    BY <2>3, FS_EmptySet
  <2> QED
    BY <2>2, <2>3
<1>4. IsFiniteSet({w}) /\ Cardinality({w}) = 1
  BY FS_Singleton
<1>5. own \in Nat
  BY <1>1
<1> HIDE DEF J, own
<1>6. IsFiniteSet(Mine) /\ Cardinality(Mine) = own
  <2>1. IsFiniteSet(Mine) /\ Cardinality(Mine) = Cardinality({w}) * Cardinality(J)
    BY <1>3, <1>4, FS_Product
  <2> QED
    BY <1>3, <1>4, <1>5, <2>1
<1> HIDE DEF Mine
<1>7. IsFiniteSet(Others) /\ Cardinality(Others) \in Nat
  BY UnitsFinite
<1> HIDE DEF Others
<1>8. Cardinality(Units(W, O)) = Cardinality(Others) + Cardinality(Mine) - Cardinality({})
  BY <1>2, <1>6, <1>7, FS_Union
<1>9. Cardinality(Units(W, O)) = Cardinality(Others) + own
  BY <1>5, <1>6, <1>7, <1>8, FS_EmptySet
<1> QED
  BY <1>9 DEF Others, own

LEMMA CostInRange ==
  ASSUME NEW k \in WorkerRecord
  PROVE  k.cost \in 0 .. Reservation
<1>1. k.cost \in {0} \cup Costs
  BY DEF WorkerRecord
<1>2. 0 \in 0 .. Reservation /\ 1 .. Reservation \subseteq 0 .. Reservation
  BY LimitsAssumption
<1> QED
  BY <1>1, <1>2, CostsAssumption

(* What a step leaves a delivery that does not take part in it: nobody can *)
(* hand it a job, or touch the money of the job it holds.                  *)
Undisturbed(v) ==
  /\ worker'[v] = worker[v]
  /\ worker[v].phase # "idle" =>
       LET j == job[worker[v].photo]
           k == job'[worker[v].photo]
       IN \/ Quiet(j, k)
          \/ k.staging = None \/ k.expired \/ k.lease # worker[v].msg

LEMMA UndisturbedAgrees ==
  ASSUME NEW v \in Workers, DeliveryAgrees(v), Undisturbed(v)
  PROVE  /\ DeliveryAgrees(v)'
         /\ \A m : Owed(v, m)' => Owed(v, m)
<1> DEFINE p == worker[v].photo
<1>1. worker'[v] = worker[v]
  BY DEF Undisturbed
<1>2. CASE worker[v].phase = "idle"
  BY <1>1, <1>2 DEF DeliveryAgrees, Owed, BeforeCall
<1>3. CASE worker[v].phase # "idle"
  <2>1. Holds(v)' =>
          /\ Holds(v) /\ job'[p].req = job[p].req /\ job'[p].cost = job[p].cost
    BY <1>1, <1>3 DEF Undisturbed, Quiet, SameMoney, Course, Holds, HoldsLease
  <2>2. CASE ~Holds(v)'
    BY <1>1, <2>2 DEF DeliveryAgrees, Owed
  <2>3. CASE Holds(v)'
    <3>1. Holds(v) /\ job'[p].req = job[p].req /\ job'[p].cost = job[p].cost
      BY <2>1, <2>3
    <3>2. DeliveryAgrees(v)'
      BY <1>1, <3>1 DEF DeliveryAgrees, CallStarted
    <3>3. \A m : Owed(v, m)' => Owed(v, m)
      BY <1>1, <3>1 DEF Owed
    <3> QED
      BY <3>2, <3>3
  <2> QED
    BY <2>2, <2>3
<1> QED
  BY <1>2, <1>3

(* No delivery takes part. *)
LEMMA QuietBalance ==
  ASSUME BInv, IInv', \A v \in Workers : Undisturbed(v), billed' = billed,
         \A m \in Months : Free(m, books)' >= Free(m, books)
  PROVE  /\ \A v \in Workers : DeliveryAgrees(v)'
         /\ \A m \in Months : Balance(m)'
<1>1. \A v \in Workers : /\ DeliveryAgrees(v)'
                         /\ \A m : Owed(v, m)' => Owed(v, m)
  BY UndisturbedAgrees DEF BInv
<1>2. ASSUME NEW m \in Months
      PROVE  Balance(m)'
  <2>1. Margin(m)' \in SUBSET Margin(m)
    BY <1>1 DEF Margin, Units, Owing, Undisturbed
  <2>2. Cardinality(Margin(m)') <= Cardinality(Margin(m))
    BY <2>1, UnitsFinite, FS_Subset DEF Margin
  <2>3. /\ Cardinality(Margin(m)) \in Nat /\ Cardinality(Margin(m)') \in Nat
    BY UnitsFinite DEF Margin
  <2>4. Free(m, books) \in Int /\ Free(m, books)' \in Int
    <3>1. BooksOK(books) /\ BooksOK(books)'
      BY DEF BInv, PInv, IInv
    <3> QED
      BY <3>1, FreeType
  <2>5. billed[m] \in Nat /\ billed'[m] = billed[m]
    BY DEF BInv, PInv, IInv, TypeOK
  <2>6. Balance(m)
    BY DEF BInv
  <2> QED
    BY <2>2, <2>3, <2>4, <2>5, <2>6 DEF Balance
<1> QED
  BY <1>1, <1>2

(* Delivery w takes part: its own share and the bill move together with    *)
(* the month's balance.                                                    *)
LEMMA OwnBalance ==
  ASSUME BInv, IInv', NEW w \in Workers, DeliveryAgrees(w)',
         \A v \in Workers \ {w} : Undisturbed(v),
         \A m \in Months : billed'[m] + Own(w, m)' - Free(m, books)'
                             <= billed[m] + Own(w, m) - Free(m, books)
  PROVE  /\ \A v \in Workers : DeliveryAgrees(v)'
         /\ \A m \in Months : Balance(m)'
<1>1. \A v \in Workers \ {w} : /\ DeliveryAgrees(v)'
                               /\ \A m : Owed(v, m)' => Owed(v, m)
  BY UndisturbedAgrees DEF BInv
<1>2. ASSUME NEW m \in Months
      PROVE  Balance(m)'
  <2> DEFINE O == Units(worker, Owing(m) \ {w})
             O2 == Units(worker', Owing(m)' \ {w})
  <2>1. O2 \in SUBSET O
    BY <1>1 DEF Units, Owing, Undisturbed
  <2>2. Cardinality(O2) <= Cardinality(O)
    BY <2>1, UnitsFinite, FS_Subset
  <2>3. Cardinality(O) \in Nat /\ Cardinality(O2) \in Nat
    BY UnitsFinite
  <2>4. Cardinality(Margin(m)) = Cardinality(O) + Own(w, m) /\ Own(w, m) \in Nat
    <3>1. worker[w].cost \in 0 .. Reservation
      BY CostInRange DEF BInv, PInv, IInv, TypeOK
    <3>2. Own(w, m) \in Nat
      BY <3>1, LimitsAssumption DEF Own
    <3>3. Own(w, m) = IF w \in Owing(m) THEN Reservation - worker[w].cost ELSE 0
      BY DEF Own, Owing
    <3>4. Cardinality(Margin(m)) = Cardinality(O)
            + (IF w \in Owing(m) THEN Reservation - worker[w].cost ELSE 0)
      BY <3>1, UnitsSplit, Zenon DEF Margin
    <3> QED
      BY <3>2, <3>3, <3>4
  <2>5. Cardinality(Margin(m)') = Cardinality(O2) + Own(w, m)' /\ Own(w, m)' \in Nat
    <3>1. worker'[w].cost \in 0 .. Reservation
      BY CostInRange DEF IInv, TypeOK
    <3>2. Own(w, m)' \in Nat
      BY <3>1, LimitsAssumption DEF Own
    <3>3. Own(w, m)' = IF w \in Owing(m)' THEN Reservation - worker'[w].cost ELSE 0
      BY DEF Own, Owing
    <3>4. Cardinality(Margin(m)') = Cardinality(O2)
            + (IF w \in Owing(m)' THEN Reservation - worker'[w].cost ELSE 0)
      BY <3>1, UnitsSplit, Zenon DEF Margin
    <3> QED
      BY <3>2, <3>3, <3>4
  <2>6. Free(m, books) \in Int /\ Free(m, books)' \in Int
    <3>1. BooksOK(books) /\ BooksOK(books)'
      BY DEF BInv, PInv, IInv
    <3> QED
      BY <3>1, FreeType
  <2>7. billed[m] \in Nat /\ billed'[m] \in Nat
    BY DEF BInv, PInv, IInv, TypeOK
  <2>8. Balance(m)
    BY DEF BInv
  <2> QED
    BY <2>2, <2>3, <2>4, <2>5, <2>6, <2>7, <2>8 DEF Balance
<1> QED
  BY <1>1, <1>2

-----------------------------------------------------------------------------
(* Transactions.  Books reached for the sake of a job that has started no  *)
(* call; every operator leads from such books to such books.               *)
Unpaid(b, p) == Effect(books, b, p) /\ ~CallStarted(b.jobs[p])

LEMMA UnpaidSteps ==
  ASSUME IInv, NEW p \in Photos, NEW b, Unpaid(b, p)
  PROVE  /\ Unpaid(Release({p}, b), p)
         /\ Unpaid(ClearStaging(p, b), p)
         /\ Unpaid(ResetAttempts(p, b), p)
         /\ \A status \in JobStatus, code \in FailureCode, due \in 0 .. (MaxMonth + 1) :
              Unpaid(Park(p, status, code, due, b), p)
         /\ \A now \in Months : /\ Unpaid(Reserve(p, now, b), p)
                                /\ Unpaid(OpenCircuit(now, b), p)
                                /\ Unpaid(CloseCircuit(now, b), p)
         /\ Unpaid(Promoted(p, b), p)
<1>1. /\ BooksOK(books) /\ BooksOK(b) /\ Tidy(b) /\ ~CallStarted(b.jobs[p])
      /\ Effect(books, b, p)
  BY DEF IInv, Unpaid, Effect
<1>2. \A c : Effect(b, c, p) => Effect(books, c, p)
  BY <1>1, EffectTransitive
<1>3. Unpaid(Release({p}, b), p)
  <2>1. Effect(b, Release({p}, b), p)
    BY <1>1, ReleaseEffect
  <2>2. ~CallStarted(Release({p}, b).jobs[p])
    BY <1>1, ReleasedJobs DEF CallStarted
  <2> QED
    BY <1>2, <2>1, <2>2 DEF Unpaid
<1>4. Unpaid(ClearStaging(p, b), p)
  BY <1>1, <1>2, ClearEffect DEF Unpaid
<1>5. Unpaid(ResetAttempts(p, b), p)
  BY <1>1, <1>2, ResetEffect DEF Unpaid
<1>6. ASSUME NEW status \in JobStatus, NEW code \in FailureCode,
             NEW due \in 0 .. (MaxMonth + 1)
      PROVE  Unpaid(Park(p, status, code, due, b), p)
  BY <1>1, <1>2, ParkEffect DEF Unpaid
<1>7. ASSUME NEW now \in Months
      PROVE  /\ Unpaid(Reserve(p, now, b), p)
             /\ Unpaid(OpenCircuit(now, b), p)
             /\ Unpaid(CloseCircuit(now, b), p)
  <2>1. Unpaid(Reserve(p, now, b), p)
    BY <1>1, <1>2, ReserveEffect DEF Unpaid
  <2>2. /\ Effect(books, OpenCircuit(now, b), p)
        /\ Effect(books, CloseCircuit(now, b), p)
    BY <1>1, <1>2, CircuitEffect
  <2>3. OpenCircuit(now, b).jobs = b.jobs /\ CloseCircuit(now, b).jobs = b.jobs
    BY <1>1, CircuitCourse
  <2> QED
    BY <1>1, <2>1, <2>2, <2>3 DEF Unpaid
<1>8. Unpaid(Promoted(p, b), p)
  BY <1>1, <1>2, PromotedEffect DEF Unpaid
<1> QED
  BY <1>3, <1>4, <1>5, <1>6, <1>7, <1>8

LEMMA UnpaidStart ==
  ASSUME IInv, Tidy(books), NEW p \in Photos,
         job[p].status # "Running" \/ job[p].staging = None \/ ~CallStarted(job[p])
  PROVE  Unpaid(books, p)
<1>1. Effect(books, books, p)
  BY EffectSelf DEF IInv
<1>2. TidyJob(job[p]) /\ books.jobs = job
  BY DEF Tidy, books
<1> QED
  BY <1>1, <1>2 DEF Unpaid, TidyJob

(* A transaction for job p is committed.                                   *)
AtNoCost(p) ==
  /\ Tidy(books)'
  /\ \A m \in Months : Free(m, books)' >= Free(m, books)
  /\ \A q \in Photos \ {p} : Quiet(job[q], job'[q])

LEMMA CommitAtNoCost ==
  ASSUME NEW p \in Photos, NEW c, Effect(books, c, p), Commit(c)
  PROVE  AtNoCost(p) /\ job' = c.jobs
<1>1. c = [jobs |-> c.jobs, ledger |-> c.ledger]
  BY DEF Effect, BooksOK, Books
<1>2. c = [jobs |-> job', ledger |-> ledger'] /\ job' = c.jobs
  BY <1>1 DEF Commit
<1>3. Tidy([jobs |-> job', ledger |-> ledger'])
  BY <1>2 DEF Effect
<1>4. Tidy(books)'
  BY <1>3 DEF books
<1>5. \A m \in Months : Free(m, [jobs |-> job', ledger |-> ledger']) >= Free(m, books)
  BY <1>2 DEF Effect
<1>6. \A m \in Months : Free(m, books)' >= Free(m, books)
  BY <1>5 DEF books
<1>7. \A q \in Photos \ {p} : Quiet(job[q], job'[q])
  BY <1>2 DEF Effect, books
<1> QED
  BY <1>2, <1>4, <1>6, <1>7 DEF AtNoCost

LEMMA StillAtNoCost ==
  ASSUME IInv, Tidy(books), UNCHANGED <<job, ledger>>, NEW p
  PROVE  AtNoCost(p) /\ \A q \in Photos : Quiet(job[q], job'[q])
<1>1. Tidy(books)' /\ \A m \in Months : Free(m, books)' = Free(m, books)
  BY DEF books
<1>2. \A m \in Months : Free(m, books) \in Int
  BY FreeType DEF IInv
<1>3. \A q \in Photos : Quiet(job[q], job'[q])
  BY DEF Quiet, SameMoney, Course
<1> QED
  BY <1>1, <1>2, <1>3 DEF AtNoCost

-----------------------------------------------------------------------------
(* The client's operations cost no month anything, and leave the job with  *)
(* nobody who did not have it.                                             *)
LetGo(p) ==
  Quiet(job[p], job'[p]) \/ job'[p].staging = None \/ job'[p].expired

LEMMA PrepareCost ==
  ASSUME IInv, IInv', Tidy(books), NEW p \in Photos, NEW geo \in BOOLEAN,
         PrepareEnrichment(p, geo)
  PROVE  AtNoCost(p) /\ LetGo(p)
<1> DEFINE c == [jobs |-> job', ledger |-> ledger']
<1>1. BooksOK(c) /\ BooksOK(books)
  BY DEF IInv, books
<1>2. /\ \A q \in Photos \ {p} : c.jobs[q] = books.jobs[q]
      /\ c.ledger = books.ledger
      /\ \/ /\ job[p].status = "None" /\ job'[p].status = "Preparing"
            /\ job'[p].staging = job[p].staging
            /\ job'[p].req = job[p].req /\ job'[p].cost = job[p].cost
         \/ /\ job'[p].status = job[p].status /\ job'[p].staging = None
            /\ job'[p].req = None /\ job'[p].cost = None
  BY PrepareTurn DEF books
<1>3. TidyJob(job[p])
  BY DEF Tidy, books
<1>4. TidyJob(job'[p]) /\ job'[p].req \in {None, job[p].req} /\ LetGo(p)
  BY <1>2, <1>3 DEF TidyJob, CallStarted, LetGo, Quiet
<1>5. Effect(books, c, p)
  <2>1. /\ c.jobs[p] = job'[p] /\ books.jobs[p] = job[p]
    BY DEF books
  <2> HIDE DEF c
  <2> QED
    BY <1>1, <1>2, <1>4, <2>1, ChangeEffect
<1>6. Commit(c)
  BY DEF Commit
<1> QED
  BY <1>4, <1>5, <1>6, CommitAtNoCost

LEMMA PlanCost ==
  ASSUME IInv, Tidy(books), NEW p \in Photos, CreateUploadPlan(p)
  PROVE  AtNoCost(p) /\ LetGo(p)
<1> DEFINE o == Reopened(p)
           S == {q \in LapsedPhotos : o.jobs[q].status = "Preparing"}
           b == ReleaseLapsed(o)
           r == Reserve(p, month, b)
           code == IF r.jobs[p].blocked THEN "CircuitOpen" ELSE "MonthlyLimit"
<1>1. Effect(books, o, p)
  <2>1. CASE Due(p)
    <3>1. Unpaid(books, p)
      BY <2>1, UnpaidStart DEF Due
    <3>2. "Preparing" \in JobStatus /\ "None" \in FailureCode /\ 0 \in 0 .. (MaxMonth + 1)
      BY BoundsAssumption DEF JobStatus, FailureCode
    <3>3. Unpaid(ResetAttempts(p, Park(p, "Preparing", "None", 0, Release({p}, books))), p)
      BY <3>1, <3>2, UnpaidSteps
    <3> QED
      BY <2>1, <3>3 DEF Reopened, Unpaid
  <2>2. CASE ~Due(p)
    BY <2>2, EffectSelf DEF Reopened, IInv
  <2> QED
    BY <2>1, <2>2
<1>2. Effect(o, b, p) /\ BooksOK(o)
  <2>1. BooksOK(o) /\ Tidy(o)
    BY <1>1 DEF Effect
  <2>2. S \in SUBSET Photos /\ b = Release(S, o)
    BY DEF LapsedPhotos, ReleaseLapsed
  <2>3. \A q \in S : /\ ~CallStarted(o.jobs[q])
                     /\ o.jobs[q].status # "Running"
    BY <2>1, <2>2 DEF Tidy, TidyJob
  <2> HIDE DEF S, o, b
  <2> QED
    BY <2>1, <2>2, <2>3, ReleaseEffect
<1>3. b.jobs[p].status = "Preparing"
  BY DEF CreateUploadPlan
<1>4. Commit(b) \/ Commit(r) \/ Commit(Park(p, "DeferredQuota", code, month + 1, r))
  BY DEF CreateUploadPlan, DeferredPlan
<1>5. /\ month \in Months /\ month + 1 \in 0 .. (MaxMonth + 1)
      /\ code \in FailureCode /\ "DeferredQuota" \in JobStatus
  BY BoundsAssumption DEF IInv, TypeOK, Months, FailureCode, JobStatus
<1>6. LetGo(p)
  BY PlanTurn DEF LetGo, Quiet
<1> HIDE DEF o, b, code
<1>7. Unpaid(b, p)
  <2>1. Effect(books, b, p)
    BY <1>1, <1>2, EffectTransitive DEF IInv
  <2> QED
    BY <1>3, <2>1 DEF Unpaid, Effect, Tidy, TidyJob
<1>8. Unpaid(r, p)
  BY <1>5, <1>7, UnpaidSteps
<1> HIDE DEF r
<1>9. Unpaid(Park(p, "DeferredQuota", code, month + 1, r), p)
  BY <1>5, <1>8, UnpaidSteps
<1> QED
  BY <1>4, <1>6, <1>7, <1>8, <1>9, CommitAtNoCost DEF Unpaid

LEMMA UploadCost ==
  ASSUME IInv, IInv', Tidy(books), NEW p \in Photos, NEW n \in UploadIds,
         GetUploadSession(p, n) \/ CompleteUpload(p, n) \/ CancelUpload(p, n)
  PROVE  AtNoCost(p) /\ LetGo(p)
<1>1. CASE GetUploadSession(p, n)
  <2>1. CASE job[p].status = "Preparing"
    <3>1. Unpaid(books, p)
      BY <2>1, UnpaidStart
    <3>2. Commit(Release({p}, books)) /\ Effect(books, Release({p}, books), p)
      BY <1>1, <2>1, <3>1, UnpaidSteps DEF GetUploadSession, Unpaid
    <3>3. Course(job[p], job'[p])
      BY <1>1, GetSessionTurn
    <3> QED
      BY <2>1, <3>2, <3>3, CommitAtNoCost DEF LetGo, Quiet, Course
  <2>2. CASE job[p].status # "Preparing"
    BY <1>1, <2>2, StillAtNoCost DEF GetUploadSession, Commit, books, LetGo
  <2> QED
    BY <2>1, <2>2
<1>2. CASE CompleteUpload(p, n)
  <2> DEFINE c == [jobs |-> job', ledger |-> ledger']
  <2>1. BooksOK(c) /\ BooksOK(books) /\ Commit(c)
    BY DEF IInv, books, Commit
  <2>2. /\ \A q \in Photos \ {p} : job'[q] = job[q]
        /\ job'[p].status = "Queued"
        /\ job'[p].req = job[p].req /\ job'[p].cost = job[p].cost
        /\ ledger' = ledger
    BY <1>2, CompleteUploadTurn
  <2>3. job[p].status = "Preparing" /\ TidyJob(job[p])
    BY <1>2 DEF CompleteUpload, Tidy, books
  <2>4. TidyJob(job'[p])
    BY <2>2, <2>3 DEF TidyJob, CallStarted
  <2>5. /\ \A q \in Photos \ {p} : c.jobs[q] = books.jobs[q]
        /\ c.ledger = books.ledger /\ c.jobs[p] = job'[p] /\ books.jobs[p] = job[p]
    BY <2>2 DEF books
  <2> HIDE DEF c
  <2>6. Effect(books, c, p)
    BY <2>1, <2>2, <2>4, <2>5, ChangeEffect
  <2> QED
    BY <2>1, <2>2, <2>6, CommitAtNoCost DEF LetGo, Quiet
<1>3. CASE CancelUpload(p, n)
  <2>1. Unpaid(books, p)
    BY <1>3, UnpaidStart DEF CancelUpload
  <2>2. Unpaid(Release({p}, ClearStaging(p, books)), p)
    BY <2>1, UnpaidSteps
  <2>3. job'[p].status = "Preparing"
    BY <1>3, CancelUploadTurn
  <2> QED
    BY <1>3, <2>2, <2>3, CommitAtNoCost DEF CancelUpload, Unpaid, LetGo, Quiet
<1> QED
  BY <1>1, <1>2, <1>3

LEMMA RetryCost ==
  ASSUME IInv, Tidy(books), NEW p \in Photos, RetryJob(p)
  PROVE  AtNoCost(p) /\ LetGo(p)
<1> DEFINE a == IF job[p].status = "DeferredQuota" THEN ResetAttempts(p, books)
                                                   ELSE books
           c == IF ledger[month].open THEN Promoted(p, CloseCircuit(month, a))
                                      ELSE a
           d == Park(p, "Preparing", "None", 0, ClearStaging(p, Release({p}, c)))
<1>1. Commit(d)
  BY DEF RetryJob
<1>2. Unpaid(books, p)
  BY UnpaidStart, RetryTurn
<1>3. Unpaid(a, p)
  BY <1>2, UnpaidSteps
<1>4. month \in Months
  BY DEF IInv, TypeOK
<1> HIDE DEF a
<1>5. Unpaid(c, p)
  <2>1. Unpaid(CloseCircuit(month, a), p)
    BY <1>3, <1>4, UnpaidSteps
  <2>2. Unpaid(Promoted(p, CloseCircuit(month, a)), p)
    BY <2>1, UnpaidSteps
  <2> QED
    BY <1>3, <2>2
<1> HIDE DEF c
<1>6. "Preparing" \in JobStatus /\ "None" \in FailureCode /\ 0 \in 0 .. (MaxMonth + 1)
  BY BoundsAssumption DEF JobStatus, FailureCode
<1>7. Unpaid(Release({p}, c), p)
  BY <1>5, UnpaidSteps
<1>8. Unpaid(ClearStaging(p, Release({p}, c)), p)
  BY <1>7, UnpaidSteps
<1>9. Unpaid(d, p)
  BY <1>6, <1>8, UnpaidSteps
<1>10. job'[p].status = "Preparing"
  BY RetryTurn
<1> QED
  BY <1>1, <1>9, <1>10, CommitAtNoCost DEF Unpaid, LetGo, Quiet

LEMMA CancelCost ==
  ASSUME IInv, Tidy(books), NEW p \in Photos, CancelJob(p) \/ Trash(p)
  PROVE  AtNoCost(p) /\ LetGo(p)
<1> DEFINE b == SettleByCall(p, books)
<1>1. Unpaid(b, p)
  BY SettleByCallEffect DEF IInv, Unpaid, CallStarted
<1>2. /\ \A code \in {"Skipped", "MediaTrashed"} : code \in FailureCode
      /\ "Cancelled" \in JobStatus /\ 0 \in 0 .. (MaxMonth + 1)
  BY BoundsAssumption DEF JobStatus, FailureCode
<1>3. \A code \in {"Skipped", "MediaTrashed"} :
        Effect(books, Park(p, "Cancelled", code, 0, b), p)
  BY <1>1, <1>2, UnpaidSteps DEF Unpaid
<1>4. \/ \E code \in {"Skipped", "MediaTrashed"} :
            Commit(Park(p, "Cancelled", code, 0, b))
      \/ Commit(books)
  BY DEF CancelJob, Trash
<1>5. CASE Commit(books)
  BY <1>5, StillAtNoCost DEF Commit, books, LetGo
<1>6. ASSUME NEW code \in {"Skipped", "MediaTrashed"},
             Commit(Park(p, "Cancelled", code, 0, b))
      PROVE  AtNoCost(p) /\ LetGo(p)
  <2>1. AtNoCost(p)
    BY <1>3, <1>6, CommitAtNoCost
  <2>2. LetGo(p)
    BY CancelTurn, <1>1, <1>6, ParkCourse DEF LetGo, Quiet, Parked, Unpaid, Effect, Commit
  <2> QED
    BY <2>1, <2>2
<1> QED
  BY <1>4, <1>5, <1>6

(* What remains to be shown of a step once PInv is known to be kept.       *)
MoneyAgrees ==
  /\ Tidy(books)
  /\ \A w \in Workers : DeliveryAgrees(w)
  /\ \A m \in Months : Balance(m)

LEMMA QuietStep ==
  ASSUME BInv, IInv', NEW p, AtNoCost(p), p \in Photos => LetGo(p),
         UNCHANGED <<worker, billed>>
  PROVE  MoneyAgrees'
<1>1. \A q \in Photos : LetGo(q)
  BY DEF AtNoCost, LetGo
<1>2. ASSUME NEW v \in Workers
      PROVE  Undisturbed(v)
  <2>1. worker[v].phase # "idle" => worker[v].photo \in Photos
    BY DEF BInv, PInv, IInv, TypeOK
  <2> QED
    BY <1>1, <2>1 DEF Undisturbed, LetGo
<1>3. /\ \A v \in Workers : DeliveryAgrees(v)'
      /\ \A m \in Months : Balance(m)'
  BY <1>2, QuietBalance DEF AtNoCost
<1> QED
  BY <1>3 DEF MoneyAgrees, AtNoCost

LEMMA ClientKeepsBill ==
  ASSUME BInv, IInv', NEW p \in Photos, Client(p)
  PROVE  MoneyAgrees'
<1>0. IInv /\ Tidy(books)
  BY DEF BInv, PInv
<1>1. UNCHANGED <<worker, billed>>
  BY DEF Client, PrepareEnrichment, CreateUploadPlan, PutPreview,
     GetUploadSession, CompleteUpload, CancelUpload, RetryJob, CancelJob,
     Trash, Restore, history
<1>2. CASE (\E n \in UploadIds : PutPreview(p, n)) \/ Restore(p)
  <2>1. UNCHANGED <<job, ledger>>
    BY <1>2 DEF PutPreview, Restore
  <2> QED
    BY <1>0, <1>1, <2>1, StillAtNoCost, QuietStep DEF LetGo
<1>3. (AtNoCost(p) /\ LetGo(p)) \/ (\E n \in UploadIds : PutPreview(p, n)) \/ Restore(p)
  BY <1>0, PrepareCost, PlanCost, UploadCost, RetryCost, CancelCost DEF Client
<1> QED
  BY <1>1, <1>2, <1>3, QuietStep

LEMMA SweepKeepsBill ==
  ASSUME BInv, IInv', NEW w \in Workers, NEW p \in Photos, NEW arrives \in BOOLEAN,
         Sweep(w, p, arrives)
  PROVE  MoneyAgrees'
<1>0. IInv /\ Tidy(books) /\ BooksOK(books)
  BY DEF BInv, PInv, IInv
<1>1. UNCHANGED <<worker, billed>>
  BY DEF Sweep, history
<1>2. /\ {"Preparing", "Failed", "Queued"} \subseteq JobStatus
      /\ {"None", "Failure"} \subseteq FailureCode /\ 0 \in 0 .. (MaxMonth + 1)
  BY BoundsAssumption DEF JobStatus, FailureCode
<1>3. LetGo(p)
  BY <1>0, SweepTurn DEF LetGo, Quiet, Parked
<1>4. CASE Due(p) /\ Commit(Park(p, "Preparing", "None", 0,
                 ClearStaging(p, ResetAttempts(p, Release({p}, books)))))
  <2>1. Unpaid(books, p)
    BY <1>0, <1>4, UnpaidStart DEF Due
  <2>2. Unpaid(ResetAttempts(p, Release({p}, books)), p)
    BY <1>0, <2>1, UnpaidSteps
  <2>3. Unpaid(Park(p, "Preparing", "None", 0,
                 ClearStaging(p, ResetAttempts(p, Release({p}, books)))), p)
    BY <1>0, <1>2, <2>2, UnpaidSteps
  <2> QED
    BY <1>1, <1>3, <1>4, <2>3, CommitAtNoCost, QuietStep DEF Unpaid
<1>5. CASE ~Due(p)
           \/ ~Commit(Park(p, "Preparing", "None", 0,
                 ClearStaging(p, ResetAttempts(p, Release({p}, books)))))
  <2> DEFINE c == IF LeaseRanOut(p) THEN SettleByCall(p, books) ELSE books
             b == Requeued(p, c)
  <2>1. (job[p].status = "Queued" \/ LeaseRanOut(p)) /\ Commit(b)
    BY <1>5 DEF Sweep, SweepRow
  <2>2. Unpaid(c, p)
    <3>1. CASE LeaseRanOut(p)
      BY <1>0, <3>1, SettleByCallEffect DEF Unpaid, CallStarted
    <3>2. CASE ~LeaseRanOut(p)
      <4>1. Unpaid(books, p)
        BY <1>0, <2>1, <3>2, UnpaidStart
      <4> QED
        BY <3>2, <4>1
    <3> QED
      BY <3>1, <3>2
  <2> HIDE DEF c
  <2>3. Unpaid(b, p)
    <3>1. /\ Unpaid(Park(p, "Failed", "Failure", 0, c), p)
          /\ Unpaid(Park(p, "Queued", "None", 0, c), p)
      BY <1>0, <1>2, <2>2, UnpaidSteps
    <3> QED
      BY <3>1 DEF Requeued
  <2> HIDE DEF b
  <2> QED
    BY <1>1, <1>3, <2>1, <2>3, CommitAtNoCost, QuietStep DEF Unpaid
<1> QED
  BY <1>4, <1>5

LEMMA TimeKeepsBill ==
  ASSUME BInv, IInv', Time
  PROVE  MoneyAgrees'
<1>0. IInv /\ Tidy(books) /\ BooksOK(books)
  BY DEF BInv, PInv, IInv
<1>1. UNCHANGED <<worker, billed>>
  BY DEF Time, LeaseExpires, UploadLapses, MonthTurns, history
<1>2. ASSUME NEW p \in Photos, LeaseExpires(p)
      PROVE  MoneyAgrees'
  <2> DEFINE c == [jobs |-> job', ledger |-> ledger']
  <2>1. BooksOK(c) /\ Commit(c)
    BY DEF IInv, books, Commit
  <2>2. /\ \A q \in Photos \ {p} : job'[q] = job[q]
        /\ job'[p].status = job[p].status /\ job'[p].staging = job[p].staging
        /\ job'[p].expired
        /\ job'[p].req = job[p].req /\ job'[p].cost = job[p].cost
        /\ ledger' = ledger
    BY <1>0, <1>2, LeaseExpiresTurn DEF LeaseExpires
  <2>3. TidyJob(job'[p])
    BY <1>0, <2>2 DEF Tidy, TidyJob, CallStarted, books
  <2>4. /\ \A q \in Photos \ {p} : c.jobs[q] = books.jobs[q]
        /\ c.ledger = books.ledger /\ c.jobs[p] = job'[p] /\ books.jobs[p] = job[p]
    BY <2>2 DEF books
  <2> HIDE DEF c
  <2>5. Effect(books, c, p)
    BY <1>0, <2>1, <2>2, <2>3, <2>4, ChangeEffect
  <2> QED
    BY <1>1, <2>1, <2>2, <2>5, CommitAtNoCost, QuietStep DEF LetGo
<1>3. CASE UNCHANGED <<job, ledger>>
  BY <1>0, <1>1, <1>3, StillAtNoCost, QuietStep DEF LetGo
<1> QED
  BY <1>2, <1>3 DEF Time, UploadLapses, MonthTurns, serverVars

LEMMA NothingKeepsBill ==
  ASSUME BInv, IInv', UNCHANGED vars
  PROVE  MoneyAgrees'
<1>1. UNCHANGED <<job, ledger, worker, billed>>
  BY DEF vars
<1> QED
  BY <1>1, StillAtNoCost, QuietStep DEF LetGo, BInv, PInv

-----------------------------------------------------------------------------
(* A claim.  The job it closes or takes over pays for the call that its    *)
(* lost delivery may have made; it reaches the new delivery unpaid.        *)
LEMMA ChargeLost ==
  ASSUME IInv, Tidy(books), NEW p \in Photos, Claimable(p)
  PROVE  Unpaid(ChargeLostCall(p), p)
<1>1. CASE LeaseRanOut(p) /\ CallStarted(job[p])
  <2> DEFINE c == SettleCost(p, TRUE, Reservation, books)
  <2>1. ChargeLostCall(p) = c
    BY <1>1 DEF ChargeLostCall
  <2>2. Closed(books, c, p, 0)
    BY <1>1, CostCloses DEF IInv, books
  <2> HIDE DEF c
  <2>3. Effect(books, c, p) /\ ~CallStarted(c.jobs[p])
    BY <2>2, ClosedEffect DEF IInv, Closed, CallStarted
  <2> QED
    BY <2>1, <2>3 DEF Unpaid
<1>2. CASE ~(LeaseRanOut(p) /\ CallStarted(job[p]))
  <2>1. Unpaid(books, p)
    BY <1>2, UnpaidStart DEF Claimable
  <2> QED
    BY <1>2, <2>1 DEF ChargeLostCall
<1> QED
  BY <1>1, <1>2

LEMMA DiscardCost ==
  ASSUME PInv, Tidy(books), NEW w, NEW m \in queue, ClaimDiscards(w, m)
  PROVE  AtNoCost(m.photo)
<1> DEFINE p == m.photo
<1>1. IInv /\ p \in Photos /\ SessionsAgree(p)
  BY DEF PInv, IInv, TypeOK
<1>2. /\ {"Failed", "Cancelled", "Succeeded"} \subseteq JobStatus
      /\ {"None", "Failure", "StalePreview"} \subseteq FailureCode
      /\ 0 \in 0 .. (MaxMonth + 1)
  BY BoundsAssumption DEF JobStatus, FailureCode
<1>3. \/ job[p].status # "Running" \/ job[p].staging = None
  BY <1>1 DEF ClaimDiscards, PayloadMissing, PreviewStale, SessionsAgree, Working
<1>4. Unpaid(books, p)
  BY <1>1, <1>3, UnpaidStart
<1>5. /\ Unpaid(Park(p, "Failed", "Failure", 0, books), p)
      /\ Unpaid(Park(p, "Cancelled", "StalePreview", 0, books), p)
      /\ Unpaid(Release({p}, books), p)
  BY <1>1, <1>2, <1>4, UnpaidSteps
<1>6. /\ Unpaid(Release({p}, Park(p, "Failed", "Failure", 0, books)), p)
      /\ Unpaid(Release({p}, Park(p, "Cancelled", "StalePreview", 0, books)), p)
      /\ Unpaid(Park(p, "Succeeded", "None", 0, Release({p}, books)), p)
  BY <1>1, <1>2, <1>5, UnpaidSteps
<1>7. \E c : Unpaid(c, p) /\ Commit(c)
  BY <1>6 DEF ClaimDiscards
<1> QED
  BY <1>1, <1>7, CommitAtNoCost DEF Unpaid

LEMMA TakeOverCost ==
  ASSUME IInv, IInv', Tidy(books), NEW p \in Photos, NEW b, Unpaid(b, p),
         NEW k \in JobRecord, k.req = b.jobs[p].req, k.cost = b.jobs[p].cost,
         Commit(WithJob(p, k, b))
  PROVE  AtNoCost(p) /\ job'[p] = k
<1> DEFINE c == WithJob(p, k, b)
<1>1. BooksOK(b) /\ Tidy(b) /\ ~CallStarted(b.jobs[p]) /\ Effect(books, b, p)
  BY DEF Unpaid, Effect
<1>2. BooksOK(c)
  BY <1>1, WithJobKeepsBooks
<1>3. /\ c.jobs[p] = k /\ c.ledger = b.ledger
      /\ \A q \in Photos \ {p} : c.jobs[q] = b.jobs[q]
  BY <1>1, WithJobCourse
<1>4. TidyJob(k)
  BY <1>1 DEF Tidy, TidyJob, CallStarted
<1> HIDE DEF c
<1>5. Effect(b, c, p)
  BY <1>1, <1>2, <1>3, <1>4, ChangeEffect
<1>6. Effect(books, c, p)
  BY <1>1, <1>5, EffectTransitive DEF IInv
<1> QED
  BY <1>3, <1>6, CommitAtNoCost DEF c

LEMMA ExhaustedCost ==
  ASSUME IInv, IInv', Tidy(books), NEW w, NEW m \in queue, ClaimExhausted(w, m)
  PROVE  AtNoCost(m.photo)
<1> DEFINE p == m.photo
           c == ChargeLostCall(p)
           b == CloseExhausted(p, c)
           j == b.jobs[p]
           k == [j EXCEPT !.status = "Failed", !.code = "Failure"]
<1>1. p \in Photos
  BY DEF IInv, TypeOK
<1>2. Unpaid(c, p)
  BY <1>1, ChargeLost DEF ClaimExhausted
<1> HIDE DEF c
<1>3. Unpaid(b, p)
  BY <1>1, <1>2, UnpaidSteps DEF CloseExhausted, Unpaid
<1> HIDE DEF b
<1>4. j \in JobRecord
  BY <1>1, <1>3, JobOfBooks DEF Unpaid, Effect
<1>5. k \in JobRecord /\ k.req = j.req /\ k.cost = j.cost
  <2> HIDE DEF j
  <2> QED
    BY <1>4 DEF JobRecord, JobStatus, FailureCode
<1>6. Commit(WithJob(p, k, b))
  BY DEF ClaimExhausted, b, c
<1> HIDE DEF k
<1> QED
  BY <1>1, <1>3, <1>5, <1>6, TakeOverCost

LEMMA StartsCost ==
  ASSUME IInv, IInv', Tidy(books), NEW w, NEW m \in queue, ClaimStarts(w, m)
  PROVE  /\ AtNoCost(m.photo)
         /\ ~CallStarted(job'[m.photo])
         /\ job'[m.photo].lease = m.id
<1> DEFINE p == m.photo
           b == ChargeLostCall(p)
           j == b.jobs[p]
           k == [j EXCEPT !.status = "Running", !.attempt = @ + 1,
                          !.code = "None", !.lease = m.id, !.expired = FALSE]
<1>1. p \in Photos /\ m.id \in Messages
  BY DEF IInv, TypeOK
<1>2. Unpaid(b, p)
  BY <1>1, ChargeLost DEF ClaimStarts
<1>3. Commit(WithJob(p, k, b)) /\ job' = WithJob(p, k, b).jobs
  BY DEF ClaimStarts, Commit
<1> HIDE DEF b
<1>4. j \in JobRecord /\ BooksOK(b)
  BY <1>1, <1>2, JobOfBooks DEF Unpaid, Effect
<1>5. job'[p] = k
  <2> HIDE DEF k
  <2> QED
    BY <1>1, <1>3, <1>4, WithJobCourse
<1>6. job'[p] \in JobRecord
  BY <1>1 DEF IInv, TypeOK
<1>7. k \in JobRecord /\ k.req = j.req /\ k.cost = j.cost /\ k.lease = m.id
  <2> HIDE DEF j
  <2>1. k.req = j.req /\ k.cost = j.cost /\ k.lease = m.id
    BY <1>4 DEF JobRecord
  <2> QED
    BY <1>5, <1>6, <2>1
<1> HIDE DEF k
<1>8. AtNoCost(p)
  BY <1>1, <1>2, <1>3, <1>7, TakeOverCost
<1> QED
  BY <1>2, <1>5, <1>7, <1>8 DEF Unpaid, CallStarted

LEMMA ClaimKeepsBill ==
  ASSUME BInv, IInv', RedeliveryOutlastsLease, NEW w \in Workers, NEW m \in queue,
         Claim(w, m)
  PROVE  MoneyAgrees'
<1> DEFINE p == m.photo
<1>0. /\ PInv /\ IInv /\ Tidy(books) /\ worker \in [Workers -> WorkerRecord]
      /\ \A v \in Workers : worker[v].phase # "idle" => worker[v].photo \in Photos
  BY DEF BInv, PInv, IInv, TypeOK
<1>1. /\ worker[w].phase = "idle" /\ Receivable(m) /\ billed' = billed
  BY DEF Claim, history
<1>2. AtNoCost(p) /\ p \in Photos /\ m.id \in Messages
  <2>1. CASE ClaimIgnores(w, m)
    BY <1>0, <2>1, StillAtNoCost, ClaimTurn DEF ClaimIgnores
  <2>2. CASE ClaimAgain(w, m)
    BY <1>0, <2>2, StillAtNoCost, ClaimTurn DEF ClaimAgain
  <2> QED
    BY <1>0, <2>1, <2>2, ClaimTurn, DiscardCost, ExhaustedCost, StartsCost DEF Claim
<1>3. \A v \in Workers \ {w} : worker[v].phase # "idle" => worker[v].msg # m.id
  BY <1>1 DEF Receivable, Busy
<1>4. \/ /\ Take(w, m, "ack", None)
         /\ LetGo(p)
      \/ /\ \E up : Take(w, m, "claimed", up)
         /\ ~CallStarted(job'[p]) /\ job'[p].lease = m.id
  <2>1. CASE ClaimStarts(w, m)
    BY <1>0, <2>1, StartsCost DEF ClaimStarts
  <2>2. CASE ClaimAgain(w, m)
    BY <1>1, <2>2 DEF ClaimAgain, Receivable, HoldsLease
  <2>3. CASE UNCHANGED <<job, ledger>> /\ Take(w, m, "ack", None)
    BY <1>2, <2>3 DEF LetGo, Quiet, SameMoney, Course
  <2>4. CASE ClaimDiscards(w, m) \/ ClaimExhausted(w, m)
    <3>1. Take(w, m, "ack", None)
      BY <2>4 DEF ClaimDiscards, ClaimExhausted
    <3>2. "ack" # "claimed"
      OBVIOUS
    <3>3. /\ [Idle EXCEPT !.phase = "ack", !.msg = m.id, !.photo = p, !.up = None].phase = "ack"
          /\ \A up : [Idle EXCEPT !.phase = "claimed", !.msg = m.id, !.photo = p,
                                  !.up = up].phase = "claimed"
      BY DEF Idle
    <3>4. \A up : ~Take(w, m, "claimed", up)
      BY <1>0, <3>1, <3>3 DEF Take
    <3>5. \/ UNCHANGED <<job, ledger>>
          \/ job'[p].status \in {"Failed", "Cancelled", "Succeeded"}
      BY <1>0, <3>4, ClaimTurn
    <3> QED
      BY <3>1, <3>5 DEF LetGo, Quiet, SameMoney, Course
  <2> QED
    BY <2>1, <2>2, <2>3, <2>4 DEF Claim, ClaimIgnores
<1>5. ASSUME NEW v \in Workers \ {w}
      PROVE  Undisturbed(v)
  <2>1. worker'[v] = worker[v]
    BY <1>0, <1>4 DEF Take
  <2>2. worker[v].phase # "idle" =>
          \/ Quiet(job[worker[v].photo], job'[worker[v].photo])
          \/ worker[v].photo = p /\ LetGo(p)
          \/ worker[v].photo = p /\ job'[p].lease # worker[v].msg
    BY <1>0, <1>2, <1>3, <1>4 DEF AtNoCost
  <2> QED
    BY <2>1, <2>2 DEF Undisturbed, LetGo
<1>6. PICK phase \in {"ack", "claimed"} : \E up : Take(w, m, phase, up)
  BY <1>4
<1>17. PICK up : Take(w, m, phase, up)
  BY <1>6
<1> DEFINE k == [Idle EXCEPT !.phase = phase, !.msg = m.id, !.photo = p, !.up = up]
<1>7. worker'[w] = k
  BY <1>0, <1>17 DEF Take
<1>8. k.phase = phase /\ k.cost = 0 /\ k.photo = p
  BY DEF Idle
<1> HIDE DEF k
<1>9. DeliveryAgrees(w)' /\ \A n : ~Owed(w, n) /\ ~Owed(w, n)'
  <2>1. phase = "claimed" => ~CallStarted(job'[p])
    <3>1. phase = "claimed" => ~Take(w, m, "ack", None)
      <4>1. [Idle EXCEPT !.phase = "ack", !.msg = m.id, !.photo = p, !.up = None].phase = "ack"
        BY DEF Idle
      <4> QED
        BY <1>0, <1>7, <1>8, <4>1 DEF Take
    <3> QED
      BY <1>4, <3>1
  <2> QED
    BY <1>1, <1>7, <1>8, <2>1 DEF DeliveryAgrees, Owed, BeforeCall
<1>10. \A n \in Months : billed'[n] + Own(w, n)' - Free(n, books)'
                            <= billed[n] + Own(w, n) - Free(n, books)
  <2> SUFFICES ASSUME NEW n \in Months
               PROVE  billed'[n] + Own(w, n)' - Free(n, books)'
                            <= billed[n] + Own(w, n) - Free(n, books)
    OBVIOUS
  <2>1. Own(w, n) = 0 /\ Own(w, n)' = 0
    BY <1>9 DEF Own
  <2>2. Free(n, books) \in Int /\ Free(n, books)' \in Int /\ billed[n] \in Nat
    <3>1. BooksOK(books) /\ BooksOK(books)'
      BY <1>0 DEF IInv
    <3> QED
      BY <1>0, <3>1, FreeType DEF IInv, TypeOK
  <2> QED
    BY <1>1, <1>2, <2>1, <2>2 DEF AtNoCost
<1>11. /\ \A v \in Workers : DeliveryAgrees(v)'
       /\ \A n \in Months : Balance(n)'
  BY <1>5, <1>9, <1>10, OwnBalance
<1> QED
  BY <1>2, <1>11 DEF MoneyAgrees, AtNoCost

-----------------------------------------------------------------------------
(* A delivery's own steps.  Nobody else can hold the job that passes its   *)
(* claim check, so only its own share of the margin is at stake.           *)
LEMMA OwnStep ==
  ASSUME BInv, IInv', NEW w \in Workers, worker[w].phase # "idle",
         \A v \in Workers \ {w} : worker'[v] = worker[v],
         Tidy(books)', DeliveryAgrees(w)',
         \A q \in Photos \ {worker[w].photo} : Quiet(job[q], job'[q]),
         LetGo(worker[w].photo) \/ Claimed(w),
         LetGo(worker[w].photo) \/ Course(job[worker[w].photo], job'[worker[w].photo]),
         \A m \in Months : billed'[m] + Own(w, m)' - Free(m, books)'
                             <= billed[m] + Own(w, m) - Free(m, books)
  PROVE  MoneyAgrees'
<1> DEFINE p == worker[w].photo
<1>1. /\ DeliveriesDistinct
      /\ \A v \in Workers : worker[v].phase # "idle" => worker[v].photo \in Photos
  BY DEF BInv, PInv, IInv, TypeOK
<1>2. ASSUME NEW v \in Workers \ {w}
      PROVE  Undisturbed(v)
  <2>1. CASE worker[v].phase # "idle" /\ worker[v].photo = p /\ ~LetGo(p)
    <3>1. worker[v].msg # worker[w].msg
      BY <1>1, <2>1 DEF DeliveriesDistinct, Busy
    <3>2. job[p].lease = worker[w].msg /\ job'[p].lease = job[p].lease
      BY <2>1, ClaimedWorks DEF Course
    <3> QED
      BY <2>1, <3>1, <3>2 DEF Undisturbed
  <2>2. CASE ~(worker[v].phase # "idle" /\ worker[v].photo = p /\ ~LetGo(p))
    <3>1. worker[v].phase # "idle" =>
            \/ LetGo(p) /\ worker[v].photo = p
            \/ Quiet(job[worker[v].photo], job'[worker[v].photo])
      BY <1>1, <2>2
    <3> QED
      BY <3>1 DEF Undisturbed, LetGo
  <2> QED
    BY <2>1, <2>2
<1>3. /\ \A v \in Workers : DeliveryAgrees(v)'
      /\ \A m \in Months : Balance(m)'
  BY <1>2, OwnBalance
<1> QED
  BY <1>3 DEF MoneyAgrees

LEMMA OwnIsNat ==
  ASSUME IInv, NEW w \in Workers
  PROVE  \A m : Own(w, m) \in Nat
<1>1. worker[w].cost \in 0 .. Reservation
  BY CostInRange DEF IInv, TypeOK
<1> QED
  BY <1>1, LimitsAssumption DEF Own

(* A delivery that ends, or that has nothing left to pay for.              *)
LEMMA EndStep ==
  ASSUME BInv, IInv', NEW w \in Workers, worker[w].phase # "idle",
         \A v \in Workers \ {w} : worker'[v] = worker[v],
         worker'[w].phase \in {"ack", "cleanup", "idle"}, billed' = billed,
         Tidy(books)',
         \A q \in Photos \ {worker[w].photo} : Quiet(job[q], job'[q]),
         LetGo(worker[w].photo),
         \A m \in Months : Free(m, books)' >= Free(m, books) - Own(w, m)
  PROVE  MoneyAgrees'
<1>1. DeliveryAgrees(w)' /\ \A m : Own(w, m)' = 0
  BY DEF DeliveryAgrees, BeforeCall, Own, Owed
<1>2. ASSUME NEW m \in Months
      PROVE  billed'[m] + Own(w, m)' - Free(m, books)'
               <= billed[m] + Own(w, m) - Free(m, books)
  <2>1. Free(m, books) \in Int /\ Free(m, books)' \in Int /\ billed[m] \in Nat
    <3>1. BooksOK(books) /\ BooksOK(books)'
      BY DEF BInv, PInv, IInv
    <3> QED
      BY <3>1, FreeType DEF BInv, PInv, IInv, TypeOK
  <2>2. Own(w, m) \in Nat
    BY OwnIsNat DEF BInv, PInv
  <2> QED
    BY <1>1, <2>1, <2>2
<1> QED
  BY <1>1, <1>2, OwnStep

(* The rest of a delivery touches no job: it cleans up, acknowledges or    *)
(* dies.                                                                   *)
LEMMA LeaveKeepsBill ==
  ASSUME BInv, IInv', NEW w \in Workers, worker[w].phase # "idle",
         UNCHANGED <<job, ledger, billed>>,
         \/ Goto(w, "ack")
         \/ worker' = [worker EXCEPT ![w] = Idle]
  PROVE  MoneyAgrees'
<1>1. IInv /\ Tidy(books) /\ worker \in [Workers -> WorkerRecord]
  BY DEF BInv, PInv, IInv, TypeOK
<1>2. /\ Tidy(books)' /\ \A q \in Photos : Quiet(job[q], job'[q])
      /\ \A m \in Months : Free(m, books)' >= Free(m, books)
  BY <1>1, StillAtNoCost DEF AtNoCost
<1>3. /\ worker'[w].phase \in {"ack", "cleanup", "idle"}
      /\ \A v \in Workers \ {w} : worker'[v] = worker[v]
  BY <1>1, GotoRecord DEF Idle
<1>4. LetGo(worker[w].photo)
  <2>1. worker[w].photo \in Photos
    BY <1>1 DEF IInv, TypeOK
  <2> QED
    BY <1>2, <2>1 DEF LetGo
<1>5. \A m \in Months : Free(m, books)' >= Free(m, books) - Own(w, m)
  <2> SUFFICES ASSUME NEW m \in Months
               PROVE  Free(m, books)' >= Free(m, books) - Own(w, m)
    OBVIOUS
  <2>1. Free(m, books) \in Int /\ Free(m, books)' \in Int
    <3>1. BooksOK(books) /\ BooksOK(books)'
      BY <1>1 DEF IInv
    <3> QED
      BY <3>1, FreeType
  <2>2. Own(w, m) \in Nat
    BY <1>1, OwnIsNat
  <2> QED
    BY <1>2, <2>1, <2>2
<1> QED
  BY <1>2, <1>3, <1>4, <1>5, EndStep

(* An attempt is closed and committed with job p parked.                   *)
LEMMA CommitClosed ==
  ASSUME IInv, Tidy(books), NEW p \in Photos, NEW loss \in Int,
         NEW b, NEW c, Closed(books, b, p, loss), Effect(b, c, p), Commit(c)
  PROVE  /\ Tidy(books)'
         /\ \A q \in Photos \ {p} : Quiet(job[q], job'[q])
         /\ \A m \in Months :
              Free(m, books)' >= Free(m, books)
                - (IF CallStarted(job[p]) /\ job[p].cost = m THEN loss ELSE 0)
<1>1. c = [jobs |-> c.jobs, ledger |-> c.ledger] /\ BooksOK(c)
  BY DEF Effect, BooksOK, Books
<1>2. c = [jobs |-> job', ledger |-> ledger']
  BY <1>1 DEF Commit
<1>3. Tidy(books)'
  <2>1. Tidy([jobs |-> job', ledger |-> ledger'])
    BY <1>2 DEF Effect
  <2> QED
    BY <2>1 DEF books
<1>4. \A q \in Photos \ {p} : Quiet(job[q], job'[q])
  <2>1. \A q \in Photos \ {p} : b.jobs[q] = job[q]
    BY DEF Closed, books
  <2>2. \A q \in Photos \ {p} : Quiet(b.jobs[q], job'[q])
    BY <1>2 DEF Effect
  <2> QED
    BY <2>1, <2>2
<1>5. ASSUME NEW m \in Months
      PROVE  Free(m, c) >= Free(m, books)
               - (IF CallStarted(job[p]) /\ job[p].cost = m THEN loss ELSE 0)
  <2>1. BooksOK(books) /\ BooksOK(b)
    BY DEF IInv, Closed
  <2>2. Free(m, books) \in Int /\ Free(m, b) \in Int /\ Free(m, c) \in Int
    BY <1>1, <2>1, FreeType
  <2>3. Free(m, c) >= Free(m, b)
    BY DEF Effect
  <2>4. Free(m, b) >= Free(m, books)
               - (IF CallStarted(job[p]) /\ job[p].cost = m THEN loss ELSE 0)
    BY DEF Closed, books
  <2> QED
    BY <2>2, <2>3, <2>4
<1>6. \A m \in Months :
        Free(m, books)' >= Free(m, books)
          - (IF CallStarted(job[p]) /\ job[p].cost = m THEN loss ELSE 0)
  <2>1. \A m \in Months :
          Free(m, [jobs |-> job', ledger |-> ledger']) >= Free(m, books)
            - (IF CallStarted(job[p]) /\ job[p].cost = m THEN loss ELSE 0)
    BY <1>2, <1>5
  <2> QED
    BY <2>1 DEF books
<1> QED
  BY <1>3, <1>4, <1>6

(* An attempt is closed with the job parked: what that costs the month is  *)
(* at most what the delivery that made the attempt still owed.             *)
LEMMA CloseKeepsBill ==
  ASSUME BInv, IInv', NEW w \in Workers, worker[w].phase # "idle", billed' = billed,
         \A v \in Workers \ {w} : worker'[v] = worker[v],
         worker'[w].phase \in {"ack", "cleanup", "idle"},
         NEW called \in BOOLEAN, NEW charge \in 0 .. Reservation, NEW c,
         c \in {Settle(worker[w].photo, called, charge, books),
                OpenCircuit(month, Settle(worker[w].photo, called, charge, books))},
         NEW status \in JobStatus \ {"Running"}, NEW code \in FailureCode,
         NEW due \in 0 .. (MaxMonth + 1),
         Commit(Park(worker[w].photo, status, code, due, c)),
         \A m \in Months :
           CallStarted(job[worker[w].photo]) /\ job[worker[w].photo].cost = m =>
             (IF called THEN Reservation - charge ELSE Reservation) <= Own(w, m)
  PROVE  MoneyAgrees'
<1> DEFINE p == worker[w].photo
           loss == IF called THEN Reservation - charge ELSE Reservation
           b == Settle(p, called, charge, books)
           d == Park(p, status, code, due, c)
<1>0. /\ IInv /\ Tidy(books) /\ BooksOK(books) /\ p \in Photos /\ month \in Months
      /\ loss \in Int
  BY LimitsAssumption DEF BInv, PInv, IInv, TypeOK
<1>1. Closed(books, b, p, loss)
  BY <1>0, SettleCloses
<1>2. BooksOK(b) /\ Tidy(b) /\ ~CallStarted(b.jobs[p])
  BY <1>1 DEF Closed, CallStarted
<1>3. c = b \/ c = OpenCircuit(month, b)
  OBVIOUS
<1>4. \A m \in Months :
        CallStarted(job[p]) /\ job[p].cost = m => loss <= Own(w, m)
  OBVIOUS
<1>5. Commit(d)
  OBVIOUS
<1> HIDE DEF b, loss
<1>6. Effect(b, c, p) /\ ~CallStarted(c.jobs[p])
  <2>1. CASE c = b
    BY <1>2, <2>1, EffectSelf
  <2>2. CASE c = OpenCircuit(month, b)
    <3>1. Effect(b, c, p)
      BY <1>0, <1>2, <2>2, CircuitEffect
    <3>2. c.jobs = b.jobs
      BY <2>2 DEF OpenCircuit, WithRow
    <3> QED
      BY <1>2, <3>1, <3>2
  <2> QED
    BY <1>3, <2>1, <2>2
<1>7. Effect(c, d, p) /\ d.jobs[p].status = status
  <2>1. BooksOK(c) /\ Tidy(c)
    BY <1>6 DEF Effect
  <2> QED
    BY <1>0, <1>6, <2>1, ParkEffect
<1> HIDE DEF d
<1>8. Effect(b, d, p)
  BY <1>0, <1>2, <1>6, <1>7, EffectTransitive
<1>9. /\ Tidy(books)'
      /\ \A q \in Photos \ {p} : Quiet(job[q], job'[q])
      /\ \A m \in Months :
           Free(m, books)' >= Free(m, books)
             - (IF CallStarted(job[p]) /\ job[p].cost = m THEN loss ELSE 0)
  BY <1>0, <1>1, <1>5, <1>8, CommitClosed
<1>10. LetGo(p)
  BY <1>5, <1>7 DEF LetGo, Quiet, Commit
<1>11. \A m \in Months : Free(m, books)' >= Free(m, books) - Own(w, m)
  <2> SUFFICES ASSUME NEW m \in Months
               PROVE  Free(m, books)' >= Free(m, books) - Own(w, m)
    OBVIOUS
  <2>1. Free(m, books) \in Int /\ Free(m, books)' \in Int
    <3>1. BooksOK(books) /\ BooksOK(books)'
      BY <1>0 DEF IInv
    <3> QED
      BY <3>1, FreeType
  <2>2. Own(w, m) \in Nat
    BY <1>0, OwnIsNat
  <2>3. Free(m, books)' >= Free(m, books)
             - (IF CallStarted(job[p]) /\ job[p].cost = m THEN loss ELSE 0)
    BY <1>9
  <2> QED
    BY <1>0, <1>4, <2>1, <2>2, <2>3
<1> HIDE DEF p
<1> QED
  BY <1>9, <1>10, <1>11, EndStep DEF p

(* fail_description and defer_description_quota, at whichever point of the *)
(* delivery they are called.                                               *)
LEMMA FailKeepsBill ==
  ASSUME BInv, IInv', NEW w \in Workers, worker[w].phase # "idle", billed' = billed,
         NEW answer, NEW called \in BOOLEAN,
         FailDescription(w, answer, called) \/ DeferDescription(w, called),
         called \/ worker[w].phase \in BeforeCall \cup {"paid"}
  PROVE  MoneyAgrees'
<1> DEFINE p == worker[w].photo
           b == Settle(p, called, Reservation, books)
           o == OpenCircuit(month, b)
<1>0. /\ IInv /\ DeliveryAgrees(w) /\ month \in Months /\ p \in Photos
      /\ worker \in [Workers -> WorkerRecord] /\ job[p] \in JobRecord
  BY DEF BInv, PInv, IInv, TypeOK
<1>1. CASE UNCHANGED <<job, ledger>> /\ Goto(w, "ack")
  BY <1>1, LeaveKeepsBill
<1>2. ASSUME Claimed(w), NEW c \in {b, o},
             NEW status \in {"Queued", "Failed", "DeferredQuota"},
             NEW code \in {"Failure", "CircuitOpen", "MonthlyLimit"},
             NEW due \in {0, month + 1},
             Commit(Park(p, status, code, due, c)),
             \/ worker' = [worker EXCEPT ![w] = Idle]
             \/ Goto(w, "ack") \/ Goto(w, "cleanup")
      PROVE  MoneyAgrees'
  <2>1. /\ \A v \in Workers \ {w} : worker'[v] = worker[v]
        /\ worker'[w].phase \in {"ack", "cleanup", "idle"}
    BY <1>0, <1>2, GotoRecord DEF Idle
  <2>2. /\ status \in JobStatus \ {"Running"} /\ code \in FailureCode
        /\ due \in 0 .. (MaxMonth + 1) /\ Reservation \in 0 .. Reservation
    BY <1>0, BoundsAssumption, LimitsAssumption DEF JobStatus, FailureCode, Months
  <2>3. Holds(w)
    BY <1>2 DEF Claimed, Holds
  <2>4. ASSUME NEW m \in Months, CallStarted(job[p]), job[p].cost = m
        PROVE  (IF called THEN Reservation - Reservation ELSE Reservation)
                 <= Own(w, m)
    <3>1. Own(w, m) \in Nat
      BY <1>0, OwnIsNat
    <3>2. CASE called
      BY <3>1, <3>2, LimitsAssumption
    <3>3. CASE ~called
      <4>1. worker[w].phase = "paid"
        BY <1>0, <2>3, <2>4, <3>3 DEF DeliveryAgrees
      <4>2. worker[w].cost = 0 /\ worker[w].paid = m
        BY <1>0, <2>3, <2>4, <4>1 DEF DeliveryAgrees
      <4>3. Own(w, m) = Reservation
        BY <4>1, <4>2, LimitsAssumption DEF Own, Owed
      <4> QED
        BY <3>3, <4>3, LimitsAssumption
    <3> QED
      BY <3>2, <3>3
  <2>5. c \in {Settle(worker[w].photo, called, Reservation, books),
               OpenCircuit(month, Settle(worker[w].photo, called, Reservation, books))}
    OBVIOUS
  <2> HIDE DEF b, o
  <2> QED
    BY <1>2, <2>1, <2>2, <2>4, <2>5, CloseKeepsBill
<1>3. \/ UNCHANGED <<job, ledger>> /\ Goto(w, "ack")
      \/ /\ Claimed(w)
         /\ \E c \in {b, o}, status \in {"Queued", "Failed", "DeferredQuota"},
               code \in {"Failure", "CircuitOpen", "MonthlyLimit"},
               due \in {0, month + 1} :
              /\ Commit(Park(p, status, code, due, c))
              /\ \/ worker' = [worker EXCEPT ![w] = Idle]
                 \/ Goto(w, "ack") \/ Goto(w, "cleanup")
  <2>1. CASE FailDescription(w, answer, called)
    BY <2>1 DEF FailDescription
  <2>2. CASE DeferDescription(w, called)
    BY <2>2 DEF DeferDescription
  <2> QED
    BY <2>1, <2>2
<1> HIDE DEF b, o, p
<1> QED
  BY <1>1, <1>2, <1>3

(* reserve_description_provider_call: what is reserved is free until the   *)
(* delivery consumes it.                                                   *)
LEMMA ReserveCallKeepsBill ==
  ASSUME BInv, IInv', NEW w \in Workers, ReserveProviderCall(w)
  PROVE  MoneyAgrees'
<1> DEFINE p == worker[w].photo
<1>0. /\ IInv /\ Tidy(books) /\ BooksOK(books) /\ BooksOK(books)' /\ DeliveryAgrees(w)
      /\ month \in Months /\ p \in Photos /\ billed' = billed
      /\ worker \in [Workers -> WorkerRecord] /\ worker[w].phase = "claimed"
      /\ \A m \in Months : billed[m] \in Nat
  BY DEF BInv, PInv, IInv, TypeOK, ReserveProviderCall, history
<1>1. /\ \A q \in Photos : Course(job[q], job'[q])
      /\ Goto(w, "reserved") \/ Goto(w, "refused")
  BY <1>0, ReserveCallTurn
<1>2. PICK phase \in {"reserved", "refused"} :
        /\ worker'[w].phase = phase /\ worker'[w].cost = worker[w].cost
        /\ worker'[w].msg = worker[w].msg /\ worker'[w].photo = worker[w].photo
        /\ \A v \in Workers \ {w} : worker'[v] = worker[v]
  BY <1>0, <1>1, GotoRecord
<1>3. worker[w].cost = 0 /\ (Holds(w) => ~CallStarted(job[p]))
  BY <1>0 DEF DeliveryAgrees, BeforeCall
<1>4. AtNoCost(p) /\ (Holds(w)' => ~CallStarted(job'[p])) /\ (LetGo(p) \/ Claimed(w))
  <2>1. CASE Claimed(w)
    <3>1. Unpaid(books, p)
      BY <1>0, <1>3, <2>1, UnpaidStart DEF Claimed, Holds
    <3>2. Unpaid(Reserve(p, month, books), p) /\ Commit(Reserve(p, month, books))
      BY <1>0, <2>1, <3>1, UnpaidSteps DEF ReserveProviderCall
    <3> QED
      BY <1>0, <2>1, <3>2, CommitAtNoCost DEF Unpaid
  <2>2. CASE ~Claimed(w)
    <3>1. UNCHANGED <<job, ledger>>
      BY <2>2 DEF ReserveProviderCall
    <3>2. Holds(w)' => Holds(w)
      BY <1>2, <3>1 DEF Holds, HoldsLease
    <3> QED
      BY <1>0, <1>3, <3>1, <3>2, StillAtNoCost DEF LetGo
  <2> QED
    BY <2>1, <2>2
<1>5. DeliveryAgrees(w)'
  BY <1>2, <1>3, <1>4 DEF DeliveryAgrees, BeforeCall
<1>6. \A m : Own(w, m) = 0 /\ Own(w, m)' = 0
  BY <1>0, <1>2 DEF Own, Owed
<1>7. ASSUME NEW m \in Months
      PROVE  billed'[m] + Own(w, m)' - Free(m, books)'
               <= billed[m] + Own(w, m) - Free(m, books)
  <2>1. Free(m, books) \in Int /\ Free(m, books)' \in Int
    BY <1>0, FreeType
  <2>2. Free(m, books)' >= Free(m, books)
    BY <1>4 DEF AtNoCost
  <2> QED
    BY <1>0, <1>6, <2>1, <2>2
<1>8. /\ Tidy(books)'
      /\ \A q \in Photos \ {worker[w].photo} : Quiet(job[q], job'[q])
      /\ Course(job[worker[w].photo], job'[worker[w].photo])
      /\ LetGo(worker[w].photo) \/ Claimed(w)
  BY <1>0, <1>1, <1>4 DEF AtNoCost
<1>9. worker[w].phase # "idle"
  BY <1>0
<1> QED
  BY <1>2, <1>5, <1>7, <1>8, <1>9, OwnStep

(* consume_description_provider_call: the reservation is no longer free,   *)
(* and the delivery answers for it.                                        *)
LEMMA ConsumeKeepsBill ==
  ASSUME BInv, IInv', NEW w \in Workers, ConsumeProviderCall(w)
  PROVE  MoneyAgrees'
<1> DEFINE p == worker[w].photo
           n == job[p].req
           b == SettleRequest(p, TRUE, books)
           j == b.jobs[p]
           k == [j EXCEPT !.used = n]
           c == WithJob(p, k, b)
<1>0. /\ IInv /\ Tidy(books) /\ BooksOK(books) /\ DeliveryAgrees(w)
      /\ p \in Photos /\ billed' = billed
      /\ worker \in [Workers -> WorkerRecord] /\ worker[w] \in WorkerRecord
      /\ worker[w].phase = "reserved" /\ job[p] \in JobRecord
      /\ \A m \in Months : billed[m] \in Nat
  BY DEF BInv, PInv, IInv, TypeOK, ConsumeProviderCall, history
<1>1. CASE ~(Claimed(w) /\ n # None)
  BY <1>0, <1>1, LeaveKeepsBill DEF ConsumeProviderCall
<1>2. CASE Claimed(w) /\ n # None
  <2>1. /\ Commit(c)
        /\ worker' = [worker EXCEPT ![w].phase = "paid", ![w].paid = n]
    BY <1>2 DEF ConsumeProviderCall
  <2>2. /\ n \in Months /\ job[p].cost = n /\ worker[w].cost = 0
        /\ job[p].status = "Running" /\ job[p].staging # None
    BY <1>0, <1>2, ClaimedWorks
       DEF JobRecord, Tidy, TidyJob, books, DeliveryAgrees, BeforeCall
  <2>3. /\ worker'[w].phase = "paid" /\ worker'[w].paid = n /\ worker'[w].cost = 0
        /\ worker'[w].photo = p
        /\ \A v \in Workers \ {w} : worker'[v] = worker[v]
    <3> DEFINE r == worker[w]
               s == [r EXCEPT !.phase = "paid", !.paid = n]
    <3>1. worker' = [worker EXCEPT ![w] = s]
      BY <1>0, <2>1
    <3>2. s.phase = "paid" /\ s.paid = n /\ s.cost = r.cost /\ s.photo = r.photo
      <4> HIDE DEF r, n
      <4> QED
        BY <1>0 DEF WorkerRecord, r
    <3> HIDE DEF s, n
    <3> QED
      BY <1>0, <2>2, <3>1, <3>2
  <2> HIDE DEF n
  <2>4. /\ BooksOK(b) /\ SameCourse(books, b)
        /\ b.jobs[p].req = None /\ b.jobs[p].cost = n
        /\ \A q \in Photos \ {p} : b.jobs[q] = job[q]
        /\ \A m \in Months : /\ b.ledger[m].usdReserved = ledger[m].usdReserved
                             /\ b.ledger[m].usdProcessed = ledger[m].usdProcessed
    <3>1. /\ BooksOK(b) /\ SameCourse(books, b)
          /\ b.jobs[p].req = None /\ b.jobs[p].cost = books.jobs[p].cost
          /\ \A q \in Photos \ {p} : b.jobs[q] = books.jobs[q]
          /\ \A m \in Months :
               /\ b.ledger[m].usdReserved = books.ledger[m].usdReserved
               /\ b.ledger[m].usdProcessed = books.ledger[m].usdProcessed
      BY <1>0, SettledRequest
    <3> HIDE DEF b
    <3>2. books.jobs = job /\ books.ledger = ledger
      BY DEF books
    <3> QED
      BY <2>2, <3>1, <3>2
  <2> HIDE DEF b
  <2>5. j \in JobRecord
    BY <1>0, <2>4, JobOfBooks
  <2>6. k.req = None /\ k.cost = n /\ Course(j, k)
    <3>1. j.req = None /\ j.cost = n
      BY <2>4
    <3> HIDE DEF j
    <3> QED
      BY <2>5, <3>1 DEF JobRecord, Course
  <2> HIDE DEF k
  <2>7. /\ job'[p] = k /\ \A q \in Photos \ {p} : job'[q] = job[q]
        /\ ledger' = b.ledger
    BY <1>0, <2>1, <2>4, WithJobCourse DEF Commit
  <2>8. Course(job[p], job'[p])
    BY <1>0, <2>4, <2>6, <2>7 DEF SameCourse, Course, books
  <2>9. Tidy(books)'
    <3>1. TidyJob(job'[p])
      BY <2>2, <2>6, <2>7, <2>8 DEF TidyJob, Course
    <3>2. \A q \in Photos \ {p} : TidyJob(job'[q])
      BY <1>0, <2>7 DEF Tidy, books
    <3> QED
      BY <3>1, <3>2 DEF Tidy, books
  <2>10. DeliveryAgrees(w)'
    BY <2>2, <2>3, <2>6, <2>7 DEF DeliveryAgrees, BeforeCall
  <2>11. ASSUME NEW m \in Months
         PROVE  billed'[m] + Own(w, m)' - Free(m, books)'
                  <= billed[m] + Own(w, m) - Free(m, books)
    <3> DEFINE d == [jobs |-> job', ledger |-> ledger']
    <3>1. /\ books.jobs = job /\ books.ledger = ledger /\ d.jobs = job' /\ d.ledger = ledger'
          /\ d = books'
      BY DEF books
    <3>2. BooksOK(d)
      BY <3>1 DEF IInv
    <3> HIDE DEF d
    <3>3. \A q \in Photos \ {p} : /\ d.jobs[q].req = books.jobs[q].req
                                  /\ d.jobs[q].cost = books.jobs[q].cost
      BY <2>7, <3>1
    <3>4. Free(m, d) - Free(m, books) =
             (d.ledger[m].usdProcessed + d.ledger[m].usdReserved)
             - (books.ledger[m].usdProcessed + books.ledger[m].usdReserved)
             + (IF books.jobs[p].req = m THEN Reservation ELSE 0)
             - (IF d.jobs[p].req = m THEN Reservation ELSE 0)
      BY <1>0, <3>2, <3>3, FreeOfOneJob
    <3>5. /\ Free(m, books) \in Int /\ Free(m, d) \in Int /\ m # None
          /\ ledger[m].usdProcessed \in Nat /\ ledger[m].usdReserved \in Nat
      BY <1>0, <3>1, <3>2, FreeType
    <3>6. Free(m, d) - Free(m, books) = IF n = m THEN Reservation ELSE 0
      <4>1. books.jobs[p].req = n /\ d.jobs[p].req = None
        BY <2>6, <2>7, <3>1 DEF n
      <4>2. /\ d.ledger[m].usdReserved = ledger[m].usdReserved
            /\ d.ledger[m].usdProcessed = ledger[m].usdProcessed
        BY <2>4, <2>7, <3>1
      <4> QED
        BY <3>1, <3>4, <3>5, <4>1, <4>2, LimitsAssumption
    <3>7. Own(w, m)' = (IF n = m THEN Reservation ELSE 0) /\ Own(w, m) \in Nat
      <4>1. Own(w, m)' = IF n = m THEN Reservation ELSE 0
        BY <2>3, LimitsAssumption DEF Own, Owed
      <4> QED
        BY <1>0, <4>1, OwnIsNat
    <3>8. Free(m, books)' = Free(m, d)
      BY <3>1
    <3> QED
      BY <1>0, <3>5, <3>6, <3>7, <3>8, LimitsAssumption
  <2>12. \A q \in Photos \ {p} : Quiet(job[q], job'[q])
    BY <2>7 DEF Quiet, SameMoney, Course
  <2>13. worker[w].phase # "idle"
    BY <1>0
  <2> QED
    BY <1>2, <2>3, <2>8, <2>9, <2>10, <2>11, <2>12, <2>13, OwnStep
<1> QED
  BY <1>1, <1>2

(* The provider bills the call: that much of the delivery's share is used. *)
LEMMA CallKeepsBill ==
  ASSUME BInv, IInv', NEW w \in Workers, NEW answer, NEW cost \in {0} \cup Costs,
         CallProvider(w, answer, cost)
  PROVE  MoneyAgrees'
<1> DEFINE p == worker[w].photo
           n == worker[w].paid
           r == worker[w]
           s == [r EXCEPT !.phase = "answered", !.answer = answer, !.cost = cost]
<1>0. /\ IInv /\ Tidy(books) /\ BooksOK(books) /\ DeliveryAgrees(w) /\ p \in Photos
      /\ worker \in [Workers -> WorkerRecord] /\ r \in WorkerRecord
      /\ r.phase = "paid" /\ billed \in [Months -> Nat]
      /\ UNCHANGED <<job, ledger>>
      /\ worker' = [worker EXCEPT ![w] = s]
      /\ billed' = [billed EXCEPT ![n] = @ + cost]
  BY DEF BInv, PInv, IInv, TypeOK, CallProvider, serverVars
<1>1. cost \in 0 .. Reservation /\ cost \in Nat
  <2>1. 0 \in 0 .. Reservation /\ 1 .. Reservation \subseteq 0 .. Reservation
        /\ 0 .. Reservation \subseteq Nat
    BY LimitsAssumption
  <2> QED
    BY <2>1, CostsAssumption
<1>2. /\ s.phase = "answered" /\ s.cost = cost /\ s.paid = n
      /\ s.photo = r.photo /\ s.msg = r.msg
  <2> HIDE DEF r
  <2> QED
    BY <1>0 DEF WorkerRecord, r
<1> HIDE DEF s
<1>3. /\ worker'[w] = s /\ \A v \in Workers \ {w} : worker'[v] = worker[v]
  BY <1>0
<1>4. n \in Months /\ r.cost = 0
      /\ (Holds(w) => job[p].req = None /\ job[p].cost = n)
  BY <1>0 DEF DeliveryAgrees
<1>5. DeliveryAgrees(w)'
  <2>1. Holds(w)' => Holds(w)
    BY <1>0, <1>2, <1>3 DEF Holds, HoldsLease
  <2> QED
    BY <1>0, <1>2, <1>3, <1>4, <2>1 DEF DeliveryAgrees, BeforeCall
<1>6. AtNoCost(p) /\ \A q \in Photos : Quiet(job[q], job'[q])
  BY <1>0, StillAtNoCost
<1>7. ASSUME NEW m \in Months
      PROVE  billed'[m] + Own(w, m)' - Free(m, books)'
               <= billed[m] + Own(w, m) - Free(m, books)
  <2>1. Own(w, m) = IF n = m THEN Reservation ELSE 0
    BY <1>0, <1>4, LimitsAssumption DEF Own, Owed
  <2>2. Own(w, m)' \in {0, IF n = m THEN Reservation - cost ELSE 0}
    BY <1>2, <1>3 DEF Own, Owed
  <2>3. billed'[m] = billed[m] + (IF n = m THEN cost ELSE 0) /\ billed[m] \in Nat
    BY <1>0, <1>1
  <2>4. Free(m, books)' = Free(m, books) /\ Free(m, books) \in Int
    BY <1>0, FreeType DEF books
  <2> HIDE DEF n
  <2> QED
    BY <1>1, <2>1, <2>2, <2>3, <2>4, LimitsAssumption
<1>8. LetGo(worker[w].photo)
  BY <1>0, <1>6 DEF LetGo
<1>9. worker[w].phase # "idle" /\ Tidy(books)'
  BY <1>0, <1>6 DEF AtNoCost
<1> QED
  BY <1>3, <1>5, <1>6, <1>7, <1>8, <1>9, OwnStep

(* complete_description: a valid answer is charged its cost or the whole   *)
(* reservation, an invalid one the whole reservation.                      *)
LEMMA CompleteKeepsBill ==
  ASSUME BInv, IInv', NEW w \in Workers, CompleteDescription(w)
  PROVE  MoneyAgrees'
<1> DEFINE p == worker[w].photo
<1>0. /\ IInv /\ DeliveryAgrees(w) /\ p \in Photos /\ billed' = billed
      /\ worker[w].phase = "answered" /\ worker[w] \in WorkerRecord
  BY DEF BInv, PInv, IInv, TypeOK, CompleteDescription, history
<1>1. CASE ~Claimed(w)
  <2>1. Goto(w, "ack") /\ UNCHANGED <<job, ledger>>
    BY <1>1 DEF CompleteDescription
  <2> QED
    BY <1>0, <2>1, LeaveKeepsBill
<1>2. CASE Claimed(w)
  <2>1. Goto(w, "cleanup")
        /\ \E charge \in {worker[w].cost, Reservation},
              status \in {"Failed", "Succeeded"}, code \in {"Failure", "None"} :
             Commit(Park(p, status, code, 0, Settle(p, TRUE, charge, books)))
    BY <1>2 DEF CompleteDescription
  <2>2. PICK charge \in {worker[w].cost, Reservation},
             status \in {"Failed", "Succeeded"}, code \in {"Failure", "None"} :
          Commit(Park(p, status, code, 0, Settle(p, TRUE, charge, books)))
    BY <2>1
  <2>3. worker[w].cost \in 0 .. Reservation /\ Reservation \in 0 .. Reservation
    BY <1>0, CostInRange, LimitsAssumption
  <2>4. /\ \A v \in Workers \ {w} : worker'[v] = worker[v]
        /\ worker'[w].phase \in {"ack", "cleanup", "idle"}
    BY <1>0, <2>1, GotoRecord
  <2>5. /\ status \in JobStatus \ {"Running"} /\ code \in FailureCode
        /\ 0 \in 0 .. (MaxMonth + 1) /\ charge \in 0 .. Reservation
        /\ TRUE \in BOOLEAN
    BY <2>3, BoundsAssumption DEF JobStatus, FailureCode
  <2>6. ASSUME NEW m \in Months, CallStarted(job[p]), job[p].cost = m
        PROVE  (IF TRUE THEN Reservation - charge ELSE Reservation) <= Own(w, m)
    <3>1. Holds(w)
      BY <1>2 DEF Claimed, Holds
    <3>2. worker[w].paid = m
      BY <1>0, <2>6, <3>1 DEF DeliveryAgrees
    <3>3. Own(w, m) = Reservation - worker[w].cost
      BY <1>0, <3>1, <3>2 DEF Own, Owed
    <3> QED
      BY <2>3, <3>3, LimitsAssumption
  <2>7. Settle(p, TRUE, charge, books) \in
          {Settle(worker[w].photo, TRUE, charge, books),
           OpenCircuit(month, Settle(worker[w].photo, TRUE, charge, books))}
    OBVIOUS
  <2>8. worker[w].phase # "idle"
    BY <1>0
  <2> QED
    BY <1>0, <2>2, <2>4, <2>5, <2>6, <2>7, <2>8, CloseKeepsBill
<1> QED
  BY <1>1, <1>2

LEMMA WorkerKeepsBill ==
  ASSUME BInv, IInv', NEW w \in Workers, WorkerStep(w) \/ Crash(w)
  PROVE  MoneyAgrees'
<1>1. CASE FailBeforeReserving(w) \/ DeferRefused(w) \/ CredentialUnavailable(w)
  <2>1. /\ worker[w].phase # "idle" /\ billed' = billed
        /\ worker[w].phase \in BeforeCall \cup {"paid"}
        /\ \E answer : FailDescription(w, answer, FALSE) \/ DeferDescription(w, FALSE)
    BY <1>1 DEF FailBeforeReserving, DeferRefused, CredentialUnavailable, history,
       BeforeCall
  <2> QED
    BY <2>1, FailKeepsBill
<1>2. CASE HandleProviderFailure(w)
  <2>1. /\ worker[w].phase # "idle" /\ billed' = billed
        /\ \E answer : FailDescription(w, answer, TRUE) \/ DeferDescription(w, TRUE)
    BY <1>2 DEF HandleProviderFailure, history
  <2> QED
    BY <2>1, FailKeepsBill
<1>3. ASSUME CallAny(w)
      PROVE  MoneyAgrees'
  BY <1>3, CallKeepsBill DEF CallAny
<1>4. CASE CleanUp(w) \/ Acknowledge(w) \/ Crash(w)
  <2>1. /\ worker[w].phase # "idle" /\ UNCHANGED <<job, ledger, billed>>
        /\ Goto(w, "ack") \/ worker' = [worker EXCEPT ![w] = Idle]
    BY <1>4 DEF CleanUp, Acknowledge, Crash, serverVars, history
  <2> QED
    BY <2>1, LeaveKeepsBill
<1> QED
  BY <1>1, <1>2, <1>3, <1>4, ReserveCallKeepsBill, ConsumeKeepsBill,
     CompleteKeepsBill DEF WorkerStep

-----------------------------------------------------------------------------
LEMMA StepKeepsBill ==
  ASSUME BInv, RedeliveryOutlastsLease, [Next]_vars
  PROVE  BInv'
<1>1. PInv'
  <2>1. PInv
    BY DEF BInv
  <2>2. IInv'
    BY <2>1, StepKeepsIInv DEF PInv
  <2>3. \A p \in Photos : SessionsAgree(p)'
    BY <2>1, StepKeepsAgreement
  <2>4. (\A w \in Workers : CleanupHarmless(w)') /\ DeliveriesDistinct'
    BY <2>1, StepKeepsCleanups, StepKeepsDistinct
  <2> QED
    BY <2>2, <2>3, <2>4 DEF PInv
<1>2. IInv'
  BY <1>1 DEF PInv
<1>3. MoneyAgrees'
  BY <1>2, ClientKeepsBill, ClaimKeepsBill, WorkerKeepsBill, SweepKeepsBill,
     TimeKeepsBill, NothingKeepsBill DEF Next
<1> QED
  BY <1>1, <1>3 DEF BInv, MoneyAgrees

LEMMA InitialBill ==
  ASSUME Init
  PROVE  BInv
<1>1. PInv /\ BooksOK(books)
  BY InitialSessions DEF PInv, IInv
<1>2. \A q \in Photos : books.jobs[q] = NoJob
  BY DEF Init, books
<1>3. Tidy(books)
  BY <1>2 DEF Tidy, TidyJob, CallStarted, NoJob
<1>4. \A w \in Workers : worker[w].phase = "idle"
  BY DEF Init, Idle
<1>5. \A w \in Workers : DeliveryAgrees(w)
  BY <1>4 DEF DeliveryAgrees, BeforeCall
<1>6. ASSUME NEW m \in Months
      PROVE  Balance(m)
  <2>1. Margin(m) = {}
    BY <1>4 DEF Margin, Units, Owing, Owed
  <2>2. Cardinality(Margin(m)) = 0
    BY <2>1, FS_EmptySet
  <2>3. ReqHolders(Photos, books.jobs, m) = {}
    <3>1. m # None /\ NoJob.req = None
      BY DEF Months, None, NoJob
    <3> QED
      BY <1>2, <3>1 DEF ReqHolders
  <2>4. Cardinality(ReqHolders(Photos, books.jobs, m)) = 0
    BY <2>3, FS_EmptySet
  <2>5. books.ledger[m] = EmptyRow /\ billed[m] = 0
    BY DEF Init, books
  <2>6. Free(m, books) = 0
    BY <2>4, <2>5, LimitsAssumption DEF Free, EmptyRow
  <2> QED
    BY <2>2, <2>5, <2>6 DEF Balance
<1> QED
  BY <1>1, <1>3, <1>5, <1>6 DEF BInv

(* The balance of every month holds in every reachable state, provided a   *)
(* message is redelivered only after the lease of the delivery that died.  *)
THEOREM BillInductive == RedeliveryOutlastsLease => (Spec => []BInv)
<1>1. Init => BInv
  BY InitialBill
<1>2. RedeliveryOutlastsLease => (BInv /\ [Next]_vars => BInv')
  BY StepKeepsBill
<1> SUFFICES ASSUME RedeliveryOutlastsLease
             PROVE  Spec => []BInv
  OBVIOUS
<1>3. BInv /\ [Next]_vars => BInv'
  BY <1>2
<1> QED
  BY <1>1, <1>3, PTL DEF Spec

(* What the provider bills for the calls of a month is covered by what the *)
(* ledger has charged or still reserves in it, whatever workers die, and   *)
(* whatever is skipped, deleted or swept while a call is under way         *)
(* (_settle_description_cost_reservation), provided a message is           *)
(* redelivered only after the lease of the delivery that died.             *)
THEOREM BillAlwaysCovered == RedeliveryOutlastsLease => (Spec => []BillCovered)
<1>1. BInv => BillCovered
  <2> SUFFICES ASSUME BInv, NEW m \in Months
               PROVE  billed[m] <= ledger[m].usdProcessed + ledger[m].usdReserved
    BY DEF BillCovered
  <2>1. BooksOK(books) /\ billed[m] \in Nat /\ Balance(m)
    BY DEF BInv, PInv, IInv, TypeOK
  <2>2. /\ books.ledger = ledger
        /\ books.ledger[m].usdProcessed \in Nat /\ books.ledger[m].usdReserved \in Nat
        /\ Cardinality(ReqHolders(Photos, books.jobs, m)) \in Nat
    BY <2>1, FreeType DEF books
  <2>3. Reservation * Cardinality(ReqHolders(Photos, books.jobs, m)) \in Nat
    BY <2>2, LimitsAssumption
  <2>4. Cardinality(Margin(m)) \in Nat
    BY UnitsFinite DEF Margin
  <2> QED
    BY <2>1, <2>2, <2>3, <2>4 DEF Balance, Free
<1> QED
  BY <1>1, BillInductive, PTL

=============================================================================
