-------------------------- MODULE SceneJobsProofs --------------------------
(***************************************************************************)
(* Theorems of the scene-description pipeline, for any number of photos,   *)
(* messages, workers, attempts, uploads and months and any limits: types,  *)
(* backed reservations, the monthly ceilings, and the circuit that stops   *)
(* calls.                                                                  *)
(*                                                                         *)
(* CeilingsHold is not inductive by itself: a settlement moves units from  *)
(* reserved to processed, and it moves no more than it takes only because  *)
(* what a job holds is still reserved. IInv adds that, and the types.      *)
(* Every operator of the ledger keeps the books in order (BooksOK), which  *)
(* is shown first.                                                         *)
(*                                                                         *)
(* CircuitStopsCalls holds for one delivery at a time. Then whoever is     *)
(* about to call was let through by a closed circuit that nobody else can  *)
(* have opened since; CircuitInv says so, and that the circuit of a month  *)
(* to come is closed.                                                      *)
(***************************************************************************)
EXTENDS SceneJobs, FiniteSetTheorems, TLAPS

-----------------------------------------------------------------------------
(* Holders of reservations form finite sets. *)
LEMMA HoldersFinite ==
  ASSUME NEW S \in SUBSET Photos, NEW jobs, NEW m
  PROVE  /\ IsFiniteSet(ReqHolders(S, jobs, m))
         /\ IsFiniteSet(CostHolders(S, jobs, m))
         /\ Cardinality(ReqHolders(S, jobs, m)) \in Nat
         /\ Cardinality(CostHolders(S, jobs, m)) \in Nat
<1>1. ReqHolders(S, jobs, m) \in SUBSET Photos /\ CostHolders(S, jobs, m) \in SUBSET Photos
  BY DEF ReqHolders, CostHolders
<1> QED
  BY <1>1, PhotosAssumption, FS_Subset, FS_CardinalityType

(* Removing a part from a finite set. *)
LEMMA CardinalityOfDifference ==
  ASSUME NEW S, NEW T \in SUBSET S, IsFiniteSet(S)
  PROVE  /\ Cardinality(S) \in Nat
         /\ Cardinality(T) \in Nat
         /\ Cardinality(T) <= Cardinality(S)
         /\ Cardinality(S \ T) = Cardinality(S) - Cardinality(T)
<1>1. IsFiniteSet(T) /\ IsFiniteSet(S \ T) /\ Cardinality(T) <= Cardinality(S)
  <2>1. S \ T \in SUBSET S
    OBVIOUS
  <2> QED
    BY <2>1, FS_Subset
<1>2. (S \ T) \cup T = S /\ (S \ T) \cap T = {}
  OBVIOUS
<1>3. Cardinality(S) = Cardinality(S \ T) + Cardinality(T) - Cardinality({})
  BY <1>1, <1>2, FS_Union
<1>4. Cardinality(S) \in Nat /\ Cardinality(T) \in Nat /\ Cardinality(S \ T) \in Nat
  BY <1>1, FS_CardinalityType
<1> QED
  BY <1>1, <1>3, <1>4, FS_EmptySet

(* A step that changes no amount of the ledger and gives no job a          *)
(* reservation it did not have keeps the books in order.                   *)
LEMMA NoMoneyMoved ==
  ASSUME NEW b, NEW c, BooksOK(b), c \in Books,
         \A p \in Photos : /\ c.jobs[p].req \in {None, b.jobs[p].req}
                           /\ c.jobs[p].cost \in {None, b.jobs[p].cost},
         \A m \in Months :
            /\ c.ledger[m].reqReserved = b.ledger[m].reqReserved
            /\ c.ledger[m].reqProcessed = b.ledger[m].reqProcessed
            /\ c.ledger[m].usdReserved = b.ledger[m].usdReserved
            /\ c.ledger[m].usdProcessed = b.ledger[m].usdProcessed
  PROVE  BooksOK(c)
<1>1. ASSUME NEW m \in Months
      PROVE  /\ Cardinality(ReqHolders(Photos, c.jobs, m))
                  <= Cardinality(ReqHolders(Photos, b.jobs, m))
             /\ Cardinality(CostHolders(Photos, c.jobs, m))
                  <= Cardinality(CostHolders(Photos, b.jobs, m))
  <2>1. m # None
    BY <1>1, BoundsAssumption DEF Months, None
  <2>2. /\ ReqHolders(Photos, c.jobs, m) \in SUBSET ReqHolders(Photos, b.jobs, m)
        /\ CostHolders(Photos, c.jobs, m) \in SUBSET CostHolders(Photos, b.jobs, m)
    BY <2>1 DEF ReqHolders, CostHolders
  <2>3. /\ IsFiniteSet(ReqHolders(Photos, b.jobs, m))
        /\ IsFiniteSet(CostHolders(Photos, b.jobs, m))
    BY HoldersFinite
  <2> QED
    BY <2>2, <2>3, FS_Subset
<1>2. CeilingsHoldIn(c)
  BY DEF BooksOK, CeilingsHoldIn
<1>3. ReservationsBackedIn(c)
  <2> SUFFICES ASSUME NEW m \in Months
               PROVE  /\ Cardinality(ReqHolders(Photos, c.jobs, m)) <= c.ledger[m].reqReserved
                      /\ Reservation * Cardinality(CostHolders(Photos, c.jobs, m))
                           <= c.ledger[m].usdReserved
    BY DEF ReservationsBackedIn
  <2> DEFINE x == Cardinality(ReqHolders(Photos, c.jobs, m))
             y == Cardinality(ReqHolders(Photos, b.jobs, m))
             u == Cardinality(CostHolders(Photos, c.jobs, m))
             v == Cardinality(CostHolders(Photos, b.jobs, m))
  <2>1. x \in Nat /\ y \in Nat /\ u \in Nat /\ v \in Nat
    BY HoldersFinite
  <2>2. x <= y /\ u <= v
    BY <1>1
  <2>3. /\ y <= b.ledger[m].reqReserved
        /\ Reservation * v <= b.ledger[m].usdReserved
    BY DEF BooksOK, ReservationsBackedIn
  <2>4. b.ledger[m].reqReserved \in Nat /\ b.ledger[m].usdReserved \in Nat
    BY DEF BooksOK, Books, LedgerRow
  <2> HIDE DEF x, y, u, v
  <2>5. Reservation * u <= Reservation * v
    BY <2>1, <2>2, LimitsAssumption
  <2>6. x <= b.ledger[m].reqReserved /\ Reservation * u <= b.ledger[m].usdReserved
    BY <2>1, <2>2, <2>3, <2>4, <2>5, LimitsAssumption
  <2> QED
    BY <2>6 DEF x, u
<1> QED
  BY <1>2, <1>3 DEF BooksOK

LEMMA LesserType ==
  ASSUME NEW x \in Nat, NEW y \in Nat
  PROVE  /\ Lesser(x, y) \in Nat
         /\ x - Lesser(x, y) \in Nat
         /\ y <= x => Lesser(x, y) = y
BY DEF Lesser

-----------------------------------------------------------------------------
(* Units given back for a set of jobs never exceed what is reserved, so    *)
(* the min() of the release never clips.                                   *)
LEMMA ReleaseType ==
  ASSUME NEW b \in Books, NEW S \in SUBSET Photos
  PROVE  Release(S, b) \in Books
<1> DEFINE c == Release(S, b)
<1>1. c.jobs \in [Photos -> JobRecord]
  <2>1. ASSUME NEW p \in Photos
        PROVE  [b.jobs[p] EXCEPT !.req = None, !.cost = None] \in JobRecord
    <3>1. b.jobs[p] \in JobRecord
      BY DEF Books
    <3> QED
      BY <3>1 DEF JobRecord
  <2>2. ASSUME NEW p \in Photos
        PROVE  b.jobs[p] \in JobRecord
    BY DEF Books
  <2> QED
    BY <2>1, <2>2 DEF Release
<1>2. ASSUME NEW m \in Months
      PROVE  c.ledger[m] \in LedgerRow
  <2> DEFINE x == Cardinality(ReqHolders(S, b.jobs, m))
             y == Cardinality(CostHolders(S, b.jobs, m))
  <2>1. x \in Nat /\ y \in Nat
    BY HoldersFinite
  <2>2. b.ledger[m] \in LedgerRow
    BY DEF Books
  <2>3. c.ledger[m] = [b.ledger[m] EXCEPT
             !.reqReserved = @ - Lesser(@, x),
             !.usdReserved = @ - Lesser(@, Reservation * y)]
    BY DEF Release
  <2> HIDE DEF x, y, c
  <2>4. Reservation * y \in Nat
    BY <2>1, LimitsAssumption
  <2>5. /\ b.ledger[m].reqReserved \in Nat
        /\ b.ledger[m].usdReserved \in Nat
    BY <2>2 DEF LedgerRow
  <2>6. /\ b.ledger[m].reqReserved - Lesser(b.ledger[m].reqReserved, x) \in Nat
        /\ b.ledger[m].usdReserved
             - Lesser(b.ledger[m].usdReserved, Reservation * y) \in Nat
    BY <2>1, <2>4, <2>5, LesserType
  <2> QED
    BY <2>2, <2>3, <2>6 DEF LedgerRow
<1>3. c = [jobs |-> c.jobs, ledger |-> c.ledger]
      /\ DOMAIN c.ledger = Months /\ c.ledger = [m \in Months |-> c.ledger[m]]
  BY DEF Release
<1> QED
  BY <1>1, <1>2, <1>3 DEF Books

LEMMA ReleaseKeepsBooks ==
  ASSUME NEW b, BooksOK(b), NEW S \in SUBSET Photos
  PROVE  BooksOK(Release(S, b))
<1> DEFINE c == Release(S, b)
<1>0. b \in Books /\ c \in Books
  BY ReleaseType DEF BooksOK
<1>1. ASSUME NEW m \in Months
      PROVE  /\ Cardinality(ReqHolders(Photos, c.jobs, m)) <= c.ledger[m].reqReserved
             /\ Reservation * Cardinality(CostHolders(Photos, c.jobs, m))
                  <= c.ledger[m].usdReserved
             /\ c.ledger[m].reqProcessed + c.ledger[m].reqReserved <= RequestLimit
             /\ c.ledger[m].usdProcessed + c.ledger[m].usdReserved <= UsdLimit
  <2> DEFINE H == ReqHolders(Photos, b.jobs, m)
             K == CostHolders(Photos, b.jobs, m)
             HS == ReqHolders(S, b.jobs, m)
             KS == CostHolders(S, b.jobs, m)
             x == Cardinality(H)
             y == Cardinality(K)
             u == Cardinality(HS)
             v == Cardinality(KS)
             row == b.ledger[m]
  <2>1. m # None
    BY BoundsAssumption DEF Months, None
  <2>2. /\ ReqHolders(Photos, c.jobs, m) = H \ HS
        /\ CostHolders(Photos, c.jobs, m) = K \ KS
    <3>1. ASSUME NEW p \in Photos
          PROVE  /\ c.jobs[p].req = IF p \in S THEN None ELSE b.jobs[p].req
                 /\ c.jobs[p].cost = IF p \in S THEN None ELSE b.jobs[p].cost
      <4>1. b.jobs[p] \in JobRecord
        BY <1>0 DEF Books
      <4> QED
        BY <4>1 DEF Release, JobRecord
    <3> HIDE DEF c
    <3> QED
      BY <2>1, <3>1 DEF ReqHolders, CostHolders
  <2>3. HS \in SUBSET H /\ KS \in SUBSET K
    BY DEF ReqHolders, CostHolders
  <2>4. IsFiniteSet(H) /\ IsFiniteSet(K)
    BY HoldersFinite
  <2>5. /\ Cardinality(H \ HS) = x - u /\ u <= x /\ u \in Nat /\ x \in Nat
        /\ Cardinality(K \ KS) = y - v /\ v <= y /\ v \in Nat /\ y \in Nat
    BY <2>3, <2>4, CardinalityOfDifference
  <2>6. x <= row.reqReserved /\ Reservation * y <= row.usdReserved
    BY DEF BooksOK, ReservationsBackedIn
  <2>7. /\ row.reqProcessed + row.reqReserved <= RequestLimit
        /\ row.usdProcessed + row.usdReserved <= UsdLimit
    BY DEF BooksOK, CeilingsHoldIn
  <2>8. row \in LedgerRow
    BY <1>0 DEF Books
  <2>9. c.ledger[m] = [row EXCEPT !.reqReserved = @ - Lesser(@, u),
                                  !.usdReserved = @ - Lesser(@, Reservation * v)]
    BY DEF Release
  <2> HIDE DEF c, row, x, y, u, v, H, K, HS, KS
  <2>10. Reservation * v <= Reservation * y /\ Reservation * v \in Nat
         /\ Reservation * y \in Nat
    BY <2>5, LimitsAssumption
  <2>11. Reservation * (y - v) = Reservation * y - Reservation * v
    BY <2>5, LimitsAssumption
  <2>12. /\ c.ledger[m].reqReserved = row.reqReserved - u
         /\ c.ledger[m].usdReserved = row.usdReserved - Reservation * v
         /\ c.ledger[m].reqProcessed = row.reqProcessed
         /\ c.ledger[m].usdProcessed = row.usdProcessed
    BY <2>5, <2>6, <2>8, <2>9, <2>10 DEF LedgerRow, Lesser
  <2>13. /\ x - u <= c.ledger[m].reqReserved
         /\ Reservation * (y - v) <= c.ledger[m].usdReserved
    BY <2>5, <2>6, <2>8, <2>10, <2>11, <2>12 DEF LedgerRow
  <2>14. /\ c.ledger[m].reqProcessed + c.ledger[m].reqReserved <= RequestLimit
         /\ c.ledger[m].usdProcessed + c.ledger[m].usdReserved <= UsdLimit
    BY <2>5, <2>7, <2>8, <2>10, <2>12, LimitsAssumption DEF LedgerRow
  <2> QED
    BY <2>2, <2>5, <2>13, <2>14
<1> QED
  BY <1>0, <1>1 DEF BooksOK, ReservationsBackedIn, CeilingsHoldIn

-----------------------------------------------------------------------------
(* The holders of a month's reservations when one job changes its own.     *)
LEMMA HoldersAfterChange ==
  ASSUME NEW p \in Photos, NEW b, NEW c, NEW m,
         \A q \in Photos \ {p} : /\ c.jobs[q].req = b.jobs[q].req
                                 /\ c.jobs[q].cost = b.jobs[q].cost
  PROVE  /\ Cardinality(ReqHolders(Photos, c.jobs, m)) =
              Cardinality(ReqHolders(Photos, b.jobs, m))
              - (IF b.jobs[p].req = m THEN 1 ELSE 0)
              + (IF c.jobs[p].req = m THEN 1 ELSE 0)
         /\ Cardinality(CostHolders(Photos, c.jobs, m)) =
              Cardinality(CostHolders(Photos, b.jobs, m))
              - (IF b.jobs[p].cost = m THEN 1 ELSE 0)
              + (IF c.jobs[p].cost = m THEN 1 ELSE 0)
<1> DEFINE H == ReqHolders(Photos, b.jobs, m)
           K == CostHolders(Photos, b.jobs, m)
           H2 == ReqHolders(Photos, c.jobs, m)
           K2 == CostHolders(Photos, c.jobs, m)
<1>1. IsFiniteSet(H) /\ IsFiniteSet(K) /\ Cardinality(H) \in Nat /\ Cardinality(K) \in Nat
  BY HoldersFinite
<1>2. /\ H2 = IF c.jobs[p].req = m THEN (H \ {p}) \cup {p} ELSE H \ {p}
      /\ K2 = IF c.jobs[p].cost = m THEN (K \ {p}) \cup {p} ELSE K \ {p}
  BY DEF ReqHolders, CostHolders
<1>3. /\ p \in H <=> b.jobs[p].req = m
      /\ p \in K <=> b.jobs[p].cost = m
  BY DEF ReqHolders, CostHolders
<1> HIDE DEF H, K, H2, K2
<1>4. /\ IsFiniteSet(H \ {p}) /\ IsFiniteSet(K \ {p})
      /\ Cardinality(H \ {p}) = Cardinality(H) - (IF p \in H THEN 1 ELSE 0)
      /\ Cardinality(K \ {p}) = Cardinality(K) - (IF p \in K THEN 1 ELSE 0)
  BY <1>1, FS_RemoveElement
<1>5. /\ Cardinality((H \ {p}) \cup {p}) = Cardinality(H \ {p}) + 1
      /\ Cardinality((K \ {p}) \cup {p}) = Cardinality(K \ {p}) + 1
  BY <1>4, FS_AddElement
<1>6. /\ Cardinality(H2) = Cardinality(H \ {p}) + (IF c.jobs[p].req = m THEN 1 ELSE 0)
      /\ Cardinality(K2) = Cardinality(K \ {p}) + (IF c.jobs[p].cost = m THEN 1 ELSE 0)
  <2>1. Cardinality(H \ {p}) \in Nat /\ Cardinality(K \ {p}) \in Nat
    BY <1>4, FS_CardinalityType
  <2> QED
    BY <1>2, <1>5, <2>1
<1> QED
  BY <1>1, <1>3, <1>4, <1>6 DEF H, K, H2, K2

(* One month of the books, in numbers. *)
LEMMA MonthOfBooks ==
  ASSUME NEW b, BooksOK(b), NEW m \in Months
  PROVE  /\ b.ledger[m] \in LedgerRow
         /\ Cardinality(ReqHolders(Photos, b.jobs, m)) \in Nat
         /\ Cardinality(CostHolders(Photos, b.jobs, m)) \in Nat
         /\ Cardinality(ReqHolders(Photos, b.jobs, m)) <= b.ledger[m].reqReserved
         /\ Reservation * Cardinality(CostHolders(Photos, b.jobs, m))
              <= b.ledger[m].usdReserved
         /\ b.ledger[m].reqProcessed + b.ledger[m].reqReserved <= RequestLimit
         /\ b.ledger[m].usdProcessed + b.ledger[m].usdReserved <= UsdLimit
BY HoldersFinite DEF BooksOK, Books, ReservationsBackedIn, CeilingsHoldIn

(* A job that holds a request of month m is among at least one holder. *)
LEMMA HolderCounted ==
  ASSUME NEW p \in Photos, NEW jobs, NEW m
  PROVE  /\ jobs[p].req = m => Cardinality(ReqHolders(Photos, jobs, m)) >= 1
         /\ jobs[p].cost = m => Cardinality(CostHolders(Photos, jobs, m)) >= 1
<1>1. /\ jobs[p].req = m => ReqHolders(Photos, jobs, m) # {}
      /\ jobs[p].cost = m => CostHolders(Photos, jobs, m) # {}
  BY DEF ReqHolders, CostHolders
<1> QED
  BY <1>1, HoldersFinite, FS_EmptySet

(* The common shape of the remaining proofs: only job p changes what it    *)
(* holds, and each month's amounts follow that change.                     *)
LEMMA OneJobChanges ==
  ASSUME NEW b, NEW c, BooksOK(b), c \in Books, NEW p \in Photos,
         \A q \in Photos \ {p} : /\ c.jobs[q].req = b.jobs[q].req
                                 /\ c.jobs[q].cost = b.jobs[q].cost,
         \A m \in Months :
           /\ b.ledger[m].reqReserved
                - (IF b.jobs[p].req = m THEN 1 ELSE 0)
                + (IF c.jobs[p].req = m THEN 1 ELSE 0) <= c.ledger[m].reqReserved
           /\ b.ledger[m].usdReserved
                - (IF b.jobs[p].cost = m THEN Reservation ELSE 0)
                + (IF c.jobs[p].cost = m THEN Reservation ELSE 0)
                  <= c.ledger[m].usdReserved
           /\ c.ledger[m].reqProcessed + c.ledger[m].reqReserved <= RequestLimit
           /\ c.ledger[m].usdProcessed + c.ledger[m].usdReserved <= UsdLimit
  PROVE  BooksOK(c)
<1>1. ASSUME NEW m \in Months
      PROVE  /\ Cardinality(ReqHolders(Photos, c.jobs, m)) <= c.ledger[m].reqReserved
             /\ Reservation * Cardinality(CostHolders(Photos, c.jobs, m))
                  <= c.ledger[m].usdReserved
  <2> DEFINE x == Cardinality(ReqHolders(Photos, b.jobs, m))
             y == Cardinality(CostHolders(Photos, b.jobs, m))
             x2 == Cardinality(ReqHolders(Photos, c.jobs, m))
             y2 == Cardinality(CostHolders(Photos, c.jobs, m))
             xd == IF b.jobs[p].req = m THEN 1 ELSE 0
             xa == IF c.jobs[p].req = m THEN 1 ELSE 0
             yd == IF b.jobs[p].cost = m THEN 1 ELSE 0
             ya == IF c.jobs[p].cost = m THEN 1 ELSE 0
  <2>1. x2 = x - xd + xa /\ y2 = y - yd + ya
    BY HoldersAfterChange
  <2>2. /\ x \in Nat /\ y \in Nat /\ x <= b.ledger[m].reqReserved
        /\ Reservation * y <= b.ledger[m].usdReserved
    BY MonthOfBooks
  <2>3. xd \in {0, 1} /\ xa \in {0, 1} /\ yd \in {0, 1} /\ ya \in {0, 1}
    OBVIOUS
  <2>4. /\ b.ledger[m].reqReserved - xd + xa <= c.ledger[m].reqReserved
        /\ b.ledger[m].usdReserved - (Reservation * yd) + (Reservation * ya)
             <= c.ledger[m].usdReserved
    <3>1. /\ Reservation * yd = (IF b.jobs[p].cost = m THEN Reservation ELSE 0)
          /\ Reservation * ya = (IF c.jobs[p].cost = m THEN Reservation ELSE 0)
      BY LimitsAssumption
    <3> QED
      BY <3>1
  <2>5. /\ b.ledger[m].reqReserved \in Nat /\ b.ledger[m].usdReserved \in Nat
        /\ c.ledger[m].reqReserved \in Nat /\ c.ledger[m].usdReserved \in Nat
    BY DEF BooksOK, Books, LedgerRow
  <2> HIDE DEF x, y, x2, y2, xd, xa, yd, ya
  <2>6. Reservation * y2 =
          Reservation * y - (Reservation * yd) + (Reservation * ya)
    BY <2>1, <2>2, <2>3, LimitsAssumption
  <2>7. Reservation * y \in Nat /\ Reservation * yd \in Nat /\ Reservation * ya \in Nat
    BY <2>2, <2>3, LimitsAssumption
  <2>8. x2 <= c.ledger[m].reqReserved /\ Reservation * y2 <= c.ledger[m].usdReserved
    BY <2>1, <2>2, <2>3, <2>4, <2>5, <2>6, <2>7
  <2> QED
    BY <2>8 DEF x2, y2
<1> QED
  BY <1>1 DEF BooksOK, ReservationsBackedIn, CeilingsHoldIn

(* A held reservation is covered, so its settlement is never clipped.      *)
LEMMA HeldIsReserved ==
  ASSUME NEW b, BooksOK(b), NEW p \in Photos, NEW m \in Months
  PROVE  /\ b.jobs[p].req = m => Lesser(b.ledger[m].reqReserved, 1) = 1
         /\ b.jobs[p].cost = m =>
              Lesser(b.ledger[m].usdReserved, Reservation) = Reservation
<1> DEFINE x == Cardinality(ReqHolders(Photos, b.jobs, m))
           y == Cardinality(CostHolders(Photos, b.jobs, m))
<1>1. /\ x \in Nat /\ y \in Nat /\ x <= b.ledger[m].reqReserved
      /\ Reservation * y <= b.ledger[m].usdReserved
      /\ b.ledger[m].reqReserved \in Nat /\ b.ledger[m].usdReserved \in Nat
  BY MonthOfBooks DEF LedgerRow
<1>2. /\ b.jobs[p].req = m => x >= 1
      /\ b.jobs[p].cost = m => y >= 1
  BY HolderCounted
<1> HIDE DEF x, y
<1>3. y >= 1 => Reservation <= Reservation * y
  BY <1>1, LimitsAssumption
<1>4. Reservation * y \in Nat
  BY <1>1, LimitsAssumption
<1> QED
  BY <1>1, <1>2, <1>3, <1>4, LimitsAssumption DEF Lesser

(* _settle_provider_reservation *)
LEMMA SettleRequestKeepsBooks ==
  ASSUME NEW b, BooksOK(b), NEW p \in Photos, NEW consumed \in BOOLEAN
  PROVE  BooksOK(SettleRequest(p, consumed, b))
<1> DEFINE c == SettleRequest(p, consumed, b)
           n == b.jobs[p].req
<1>0. b \in Books /\ b.jobs[p] \in JobRecord /\ n \in {None} \cup Months
  BY DEF BooksOK, Books, JobRecord
<1>1. CASE n = None
  BY <1>1 DEF SettleRequest
<1>2. CASE n # None
  <2> DEFINE old == b.ledger[n]
             spent == IF consumed THEN 1 ELSE 0
             row == [old EXCEPT !.reqReserved = @ - 1, !.reqProcessed = @ + spent]
  <2>1. n \in Months /\ old \in LedgerRow
    BY <1>0, <1>2 DEF Books
  <2>2. c = [jobs |-> [b.jobs EXCEPT ![p].req = None],
             ledger |-> [b.ledger EXCEPT ![n] = row]]
    <3>1. Lesser(old.reqReserved, 1) = 1
      BY <2>1, HeldIsReserved
    <3> QED
      BY <1>2, <3>1 DEF SettleRequest
  <2>3. old.reqReserved >= 1
    BY <2>1, HolderCounted, MonthOfBooks DEF LedgerRow
  <2>4. spent \in {0, 1}
    OBVIOUS
  <2> HIDE DEF c, n, old, spent
  <2>5. /\ row \in LedgerRow
        /\ row.reqReserved = old.reqReserved - 1
        /\ row.reqProcessed = old.reqProcessed + spent
        /\ row.usdReserved = old.usdReserved
        /\ row.usdProcessed = old.usdProcessed
    <3>1. old.reqReserved - 1 \in Nat /\ old.reqProcessed + spent \in Nat
      BY <2>1, <2>3, <2>4 DEF LedgerRow
    <3> QED
      BY <2>1, <3>1 DEF LedgerRow
  <2> HIDE DEF row
  <2>6. c \in Books
    <3>1. [b.jobs[p] EXCEPT !.req = None] \in JobRecord
      BY <1>0 DEF JobRecord
    <3> QED
      BY <1>0, <2>1, <2>2, <2>5, <3>1 DEF Books
  <2>7. \A q \in Photos \ {p} : /\ c.jobs[q].req = b.jobs[q].req
                                /\ c.jobs[q].cost = b.jobs[q].cost
    BY <1>0, <2>2 DEF Books
  <2>8. c.jobs[p].req = None /\ c.jobs[p].cost = b.jobs[p].cost
    BY <1>0, <2>2 DEF Books, JobRecord
  <2>9. ASSUME NEW m \in Months
        PROVE  /\ b.ledger[m].reqReserved
                     - (IF b.jobs[p].req = m THEN 1 ELSE 0)
                     + (IF c.jobs[p].req = m THEN 1 ELSE 0) <= c.ledger[m].reqReserved
               /\ b.ledger[m].usdReserved
                     - (IF b.jobs[p].cost = m THEN Reservation ELSE 0)
                     + (IF c.jobs[p].cost = m THEN Reservation ELSE 0)
                    <= c.ledger[m].usdReserved
               /\ c.ledger[m].reqProcessed + c.ledger[m].reqReserved <= RequestLimit
               /\ c.ledger[m].usdProcessed + c.ledger[m].usdReserved <= UsdLimit
    <3>1. m # None
      BY BoundsAssumption DEF Months, None
    <3>2. /\ b.ledger[m].reqReserved \in Nat /\ b.ledger[m].reqProcessed \in Nat
          /\ b.ledger[m].usdReserved \in Nat /\ b.ledger[m].usdProcessed \in Nat
          /\ b.ledger[m].reqProcessed + b.ledger[m].reqReserved <= RequestLimit
          /\ b.ledger[m].usdProcessed + b.ledger[m].usdReserved <= UsdLimit
      BY MonthOfBooks DEF LedgerRow
    <3>3. CASE m = n
      <4>1. c.ledger[m] = row /\ b.ledger[m] = old
        BY <1>0, <2>1, <2>2, <3>3 DEF Books, old
      <4> QED
        BY <2>4, <2>5, <2>8, <3>1, <3>2, <3>3, <4>1, LimitsAssumption DEF n
    <3>4. CASE m # n
      <4>1. c.ledger[m] = b.ledger[m]
        BY <1>0, <2>2, <3>4 DEF Books
      <4> QED
        BY <2>8, <3>1, <3>2, <3>4, <4>1, LimitsAssumption DEF n
    <3> QED
      BY <3>3, <3>4
  <2>10. BooksOK(c)
    BY <2>6, <2>7, <2>9, OneJobChanges
  <2> QED
    BY <2>10 DEF c
<1> QED
  BY <1>1, <1>2

(* _settle_description_cost_reservation *)
LEMMA SettleCostKeepsBooks ==
  ASSUME NEW b, BooksOK(b), NEW p \in Photos, NEW called \in BOOLEAN,
         NEW charge \in 0 .. Reservation
  PROVE  BooksOK(SettleCost(p, called, charge, b))
<1> DEFINE c == SettleCost(p, called, charge, b)
           n == b.jobs[p].cost
           u == b.jobs[p].used
<1>0. /\ b \in Books /\ b.jobs[p] \in JobRecord
      /\ n \in {None} \cup Months /\ u \in {None} \cup Months
  BY DEF BooksOK, Books, JobRecord
<1>1. CASE n = None
  BY <1>1 DEF SettleCost
<1>2. CASE n # None
  <2> DEFINE freed(m) == IF m = n THEN Lesser(b.ledger[m].usdReserved, Reservation)
                                  ELSE 0
             spent(m) == IF m = n /\ called THEN charge ELSE 0
             undone(m) == IF m = u /\ ~called
                            THEN Lesser(b.ledger[m].reqProcessed, 1) ELSE 0
             left == IF called THEN u ELSE None
             j == [b.jobs[p] EXCEPT !.cost = None, !.used = left]
             row(m) == [b.ledger[m] EXCEPT !.usdReserved = @ - freed(m),
                                           !.usdProcessed = @ + spent(m),
                                           !.reqProcessed = @ - undone(m)]
  <2>1. /\ c.jobs = [b.jobs EXCEPT ![p] = j]
        /\ c.ledger = [m \in Months |-> row(m)]
        /\ c = [jobs |-> c.jobs, ledger |-> c.ledger]
    BY <1>2 DEF SettleCost
  <2>2. j \in JobRecord /\ j.req = b.jobs[p].req /\ j.cost = None
    <3>1. left \in {None} \cup Months
      BY <1>0
    <3> HIDE DEF left
    <3> QED
      BY <1>0, <3>1 DEF JobRecord
  <2>3. ASSUME NEW m \in Months
        PROVE  /\ freed(m) \in Nat /\ freed(m) <= b.ledger[m].usdReserved
               /\ spent(m) \in Nat /\ spent(m) <= freed(m)
               /\ freed(m) = IF n = m THEN Reservation ELSE 0
               /\ undone(m) \in Nat /\ undone(m) <= b.ledger[m].reqProcessed
    <3>1. /\ b.ledger[m].usdReserved \in Nat /\ b.ledger[m].reqProcessed \in Nat
      BY <1>0 DEF Books, LedgerRow
    <3>2. n = m => Lesser(b.ledger[m].usdReserved, Reservation) = Reservation
      BY HeldIsReserved
    <3>3. freed(m) \in Nat /\ freed(m) <= b.ledger[m].usdReserved
      BY <3>1, LimitsAssumption DEF Lesser
    <3>4. freed(m) = IF n = m THEN Reservation ELSE 0
      BY <3>2
    <3>5. undone(m) \in Nat /\ undone(m) <= b.ledger[m].reqProcessed
      BY <3>1 DEF Lesser
    <3>6. spent(m) \in Nat /\ spent(m) <= freed(m)
      BY <3>3, <3>4, LimitsAssumption
    <3> QED
      BY <3>3, <3>4, <3>5, <3>6
  <2> HIDE DEF c, n, u, freed, spent, undone, j
  <2>4. ASSUME NEW m \in Months
        PROVE  /\ row(m) \in LedgerRow
               /\ row(m).usdReserved = b.ledger[m].usdReserved - freed(m)
               /\ row(m).usdProcessed = b.ledger[m].usdProcessed + spent(m)
               /\ row(m).reqProcessed = b.ledger[m].reqProcessed - undone(m)
               /\ row(m).reqReserved = b.ledger[m].reqReserved
    <3>1. b.ledger[m] \in LedgerRow
      BY <1>0 DEF Books
    <3>2. /\ b.ledger[m].usdReserved - freed(m) \in Nat
          /\ b.ledger[m].usdProcessed + spent(m) \in Nat
          /\ b.ledger[m].reqProcessed - undone(m) \in Nat
      BY <2>3, <3>1 DEF LedgerRow
    <3> QED
      BY <3>1, <3>2 DEF LedgerRow
  <2>5. \A m \in Months : c.ledger[m] = row(m)
    BY <2>1
  <2>6. c \in Books
    <3>1. c.jobs \in [Photos -> JobRecord]
      BY <1>0, <2>1, <2>2 DEF Books
    <3>2. \A m \in Months : row(m) \in LedgerRow
      BY <2>4
    <3> HIDE DEF row
    <3>3. c.ledger \in [Months -> LedgerRow]
      BY <2>1, <3>2
    <3> QED
      BY <2>1, <3>1, <3>3 DEF Books
  <2> HIDE DEF row
  <2>7. \A q \in Photos \ {p} : /\ c.jobs[q].req = b.jobs[q].req
                                /\ c.jobs[q].cost = b.jobs[q].cost
    BY <1>0, <2>1 DEF Books
  <2>8. c.jobs[p].req = b.jobs[p].req /\ c.jobs[p].cost = None
    BY <1>0, <2>1, <2>2 DEF Books
  <2>9. ASSUME NEW m \in Months
        PROVE  /\ b.ledger[m].reqReserved
                     - (IF b.jobs[p].req = m THEN 1 ELSE 0)
                     + (IF c.jobs[p].req = m THEN 1 ELSE 0) <= c.ledger[m].reqReserved
               /\ b.ledger[m].usdReserved
                     - (IF b.jobs[p].cost = m THEN Reservation ELSE 0)
                     + (IF c.jobs[p].cost = m THEN Reservation ELSE 0)
                    <= c.ledger[m].usdReserved
               /\ c.ledger[m].reqProcessed + c.ledger[m].reqReserved <= RequestLimit
               /\ c.ledger[m].usdProcessed + c.ledger[m].usdReserved <= UsdLimit
    <3>1. m # None
      BY BoundsAssumption DEF Months, None
    <3>2. /\ b.ledger[m].reqReserved \in Nat /\ b.ledger[m].reqProcessed \in Nat
          /\ b.ledger[m].usdReserved \in Nat /\ b.ledger[m].usdProcessed \in Nat
          /\ b.ledger[m].reqProcessed + b.ledger[m].reqReserved <= RequestLimit
          /\ b.ledger[m].usdProcessed + b.ledger[m].usdReserved <= UsdLimit
      BY MonthOfBooks DEF LedgerRow
    <3>3. /\ c.ledger[m].usdReserved = b.ledger[m].usdReserved - freed(m)
          /\ c.ledger[m].usdProcessed = b.ledger[m].usdProcessed + spent(m)
          /\ c.ledger[m].reqProcessed = b.ledger[m].reqProcessed - undone(m)
          /\ c.ledger[m].reqReserved = b.ledger[m].reqReserved
      BY <2>4, <2>5
    <3>4. freed(m) = IF b.jobs[p].cost = m THEN Reservation ELSE 0
      BY <2>3 DEF n
    <3> QED
      BY <2>3, <2>8, <3>1, <3>2, <3>3, <3>4, LimitsAssumption
  <2>10. BooksOK(c)
    BY <2>6, <2>7, <2>9, OneJobChanges
  <2> QED
    BY <2>10 DEF c
<1> QED
  BY <1>1, <1>2

(* The pair of settlements that closes an attempt. *)
LEMMA SettleKeepsBooks ==
  ASSUME NEW b, BooksOK(b), NEW p \in Photos, NEW called \in BOOLEAN,
         NEW charge \in 0 .. Reservation
  PROVE  BooksOK(Settle(p, called, charge, b))
BY SettleRequestKeepsBooks, SettleCostKeepsBooks DEF Settle

LEMMA SettleByCallKeepsBooks ==
  ASSUME NEW b, BooksOK(b), NEW p \in Photos
  PROVE  BooksOK(SettleByCall(p, b))
<1>1. CallStarted(b.jobs[p]) \in BOOLEAN /\ Reservation \in 0 .. Reservation
  BY LimitsAssumption DEF CallStarted
<1> QED
  BY <1>1, SettleKeepsBooks DEF SettleByCall

-----------------------------------------------------------------------------
(* Changes of one record that move no money. *)
LEMMA WithJobKeepsBooks ==
  ASSUME NEW b, BooksOK(b), NEW p \in Photos, NEW j \in JobRecord,
         j.req \in {None, b.jobs[p].req}, j.cost \in {None, b.jobs[p].cost}
  PROVE  BooksOK(WithJob(p, j, b))
<1> DEFINE c == WithJob(p, j, b)
<1>1. b \in Books
  BY DEF BooksOK
<1>2. c \in Books
  BY <1>1 DEF WithJob, Books
<1>3. \A q \in Photos : /\ c.jobs[q].req \in {None, b.jobs[q].req}
                        /\ c.jobs[q].cost \in {None, b.jobs[q].cost}
  BY <1>1 DEF WithJob, Books
<1>4. c.ledger = b.ledger
  BY DEF WithJob
<1> HIDE DEF c
<1>5. BooksOK(c)
  BY <1>2, <1>3, <1>4, NoMoneyMoved
<1> QED
  BY <1>5 DEF c

LEMMA WithRowKeepsBooks ==
  ASSUME NEW b, BooksOK(b), NEW m \in Months, NEW row \in LedgerRow,
         /\ row.reqReserved = b.ledger[m].reqReserved
         /\ row.reqProcessed = b.ledger[m].reqProcessed
         /\ row.usdReserved = b.ledger[m].usdReserved
         /\ row.usdProcessed = b.ledger[m].usdProcessed
  PROVE  BooksOK(WithRow(m, row, b))
<1> DEFINE c == WithRow(m, row, b)
<1>1. b \in Books
  BY DEF BooksOK
<1>2. c \in Books
  BY <1>1 DEF WithRow, Books
<1>3. c.jobs = b.jobs
  BY DEF WithRow
<1>4. \A k \in Months :
         /\ c.ledger[k].reqReserved = b.ledger[k].reqReserved
         /\ c.ledger[k].reqProcessed = b.ledger[k].reqProcessed
         /\ c.ledger[k].usdReserved = b.ledger[k].usdReserved
         /\ c.ledger[k].usdProcessed = b.ledger[k].usdProcessed
  BY <1>1 DEF WithRow, Books
<1> HIDE DEF c
<1>5. BooksOK(c)
  BY <1>2, <1>3, <1>4, NoMoneyMoved
<1> QED
  BY <1>5 DEF c

(* A job's next status, code and due month; its staging, attempts, block.  *)
LEMMA JobChangesKeepBooks ==
  ASSUME NEW b, BooksOK(b), NEW p \in Photos
  PROVE  /\ \A status \in JobStatus, code \in FailureCode, due \in 0 .. (MaxMonth + 1) :
               BooksOK(Park(p, status, code, due, b))
         /\ BooksOK(ClearStaging(p, b))
         /\ BooksOK(ResetAttempts(p, b))
         /\ \A value \in BOOLEAN : BooksOK(SetBlocked(p, value, b))
<1> DEFINE j == b.jobs[p]
<1>1. j \in JobRecord
  BY DEF BooksOK, Books
<1> HIDE DEF j
<1>2. ASSUME NEW status \in JobStatus, NEW code \in FailureCode,
             NEW due \in 0 .. (MaxMonth + 1)
      PROVE  BooksOK(Park(p, status, code, due, b))
  <2> DEFINE k == [j EXCEPT !.status = status, !.code = code, !.due = due,
                            !.lease = NoMessage, !.expired = FALSE]
  <2>1. k \in JobRecord /\ k.req = j.req /\ k.cost = j.cost
    BY <1>1 DEF JobRecord
  <2>2. BooksOK(WithJob(p, k, b))
    <3> HIDE DEF k
    <3> QED
      BY <2>1, WithJobKeepsBooks DEF j
  <2> QED
    BY <2>2 DEF Park, j
<1>3. BooksOK(ClearStaging(p, b))
  <2> DEFINE k == [j EXCEPT !.staging = None]
  <2>1. k \in JobRecord /\ k.req = j.req /\ k.cost = j.cost
    BY <1>1 DEF JobRecord
  <2>2. BooksOK(WithJob(p, k, b))
    <3> HIDE DEF k
    <3> QED
      BY <2>1, WithJobKeepsBooks DEF j
  <2> QED
    BY <2>2 DEF ClearStaging, j
<1>4. BooksOK(ResetAttempts(p, b))
  <2> DEFINE k == [j EXCEPT !.attempt = 0]
  <2>1. k \in JobRecord /\ k.req = j.req /\ k.cost = j.cost
    BY <1>1, BoundsAssumption DEF JobRecord
  <2>2. BooksOK(WithJob(p, k, b))
    <3> HIDE DEF k
    <3> QED
      BY <2>1, WithJobKeepsBooks DEF j
  <2> QED
    BY <2>2 DEF ResetAttempts, j
<1>5. ASSUME NEW value \in BOOLEAN
      PROVE  BooksOK(SetBlocked(p, value, b))
  <2> DEFINE k == [j EXCEPT !.blocked = value]
  <2>1. k \in JobRecord /\ k.req = j.req /\ k.cost = j.cost
    BY <1>1 DEF JobRecord
  <2>2. BooksOK(WithJob(p, k, b))
    <3> HIDE DEF k
    <3> QED
      BY <2>1, WithJobKeepsBooks DEF j
  <2> QED
    BY <2>2 DEF SetBlocked, j
<1> QED
  BY <1>2, <1>3, <1>4, <1>5

(* The circuit of a month opens and closes. *)
LEMMA CircuitKeepsBooks ==
  ASSUME NEW b, BooksOK(b), NEW now \in Months
  PROVE  BooksOK(OpenCircuit(now, b)) /\ BooksOK(CloseCircuit(now, b))
<1> DEFINE old == b.ledger[now]
<1>1. old \in LedgerRow
  BY DEF BooksOK, Books
<1> HIDE DEF old
<1>2. ASSUME NEW value \in BOOLEAN
      PROVE  BooksOK(WithRow(now, [old EXCEPT !.open = value], b))
  <2> DEFINE row == [old EXCEPT !.open = value]
  <2>1. /\ row \in LedgerRow
        /\ row.reqReserved = old.reqReserved /\ row.reqProcessed = old.reqProcessed
        /\ row.usdReserved = old.usdReserved /\ row.usdProcessed = old.usdProcessed
    BY <1>1 DEF LedgerRow
  <2> HIDE DEF row
  <2>2. BooksOK(WithRow(now, row, b))
    BY <2>1, WithRowKeepsBooks DEF old
  <2> QED
    BY <2>2 DEF row
<1>3. (old.open \/ old.exists) \in BOOLEAN
  BY <1>1 DEF LedgerRow
<1>4. BooksOK(WithRow(now, [old EXCEPT !.open = old.open \/ old.exists], b))
  BY <1>2, <1>3
<1>5. BooksOK(WithRow(now, [old EXCEPT !.open = FALSE], b))
  BY <1>2
<1> QED
  BY <1>4, <1>5 DEF OpenCircuit, CloseCircuit, old

-----------------------------------------------------------------------------
(* _reserve_description_usage: what it overwrites of another month stays   *)
(* reserved there, and what it adds fits under both ceilings.              *)
LEMMA RealignedKeepsBooks ==
  ASSUME NEW b, BooksOK(b), NEW p \in Photos, NEW now \in Months,
         ~BothMatch(p, now, b)
  PROVE  LET c == Realigned(p, now, b) IN
         BooksOK(c) /\ c.jobs[p].req # now /\ c.jobs[p].cost # now
<1> DEFINE d == IF OneMatches(p, now, b) THEN Release({p}, b) ELSE b
           old == d.ledger[now]
           row == [old EXCEPT !.exists = TRUE]
<1>1. BooksOK(d)
  BY ReleaseKeepsBooks
<1>2. d.jobs[p].req # now /\ d.jobs[p].cost # now
  <2>1. now # None /\ b.jobs[p] \in JobRecord
    BY BoundsAssumption DEF Months, None, BooksOK, Books
  <2>2. CASE OneMatches(p, now, b)
    <3>1. d.jobs[p] = [b.jobs[p] EXCEPT !.req = None, !.cost = None]
      BY <2>2 DEF Release
    <3> HIDE DEF d
    <3> QED
      BY <2>1, <3>1 DEF JobRecord
  <2>3. CASE ~OneMatches(p, now, b)
    BY <2>3 DEF OneMatches
  <2> QED
    BY <2>2, <2>3
<1> HIDE DEF d
<1>3. old \in LedgerRow
  BY <1>1 DEF BooksOK, Books
<1> HIDE DEF old
<1>4. /\ row \in LedgerRow
      /\ row.reqReserved = old.reqReserved /\ row.reqProcessed = old.reqProcessed
      /\ row.usdReserved = old.usdReserved /\ row.usdProcessed = old.usdProcessed
  BY <1>3 DEF LedgerRow
<1> HIDE DEF row
<1>5. BooksOK(WithRow(now, row, d))
  BY <1>1, <1>4, WithRowKeepsBooks DEF old
<1>6. Realigned(p, now, b) = WithRow(now, row, d)
  BY DEF Realigned, row, old, d
<1>7. WithRow(now, row, d).jobs = d.jobs
  BY DEF WithRow
<1> QED
  BY <1>2, <1>5, <1>6, <1>7

LEMMA ReservedKeepsBooks ==
  ASSUME NEW b, BooksOK(b), NEW p \in Photos, NEW now \in Months,
         b.jobs[p].req # now, b.jobs[p].cost # now, Fits(b.ledger[now])
  PROVE  BooksOK(Reserved(p, now, b))
<1> DEFINE c == Reserved(p, now, b)
           old == b.ledger[now]
           j == [b.jobs[p] EXCEPT !.req = now, !.cost = now, !.blocked = FALSE]
           row == [old EXCEPT !.reqReserved = @ + 1, !.usdReserved = @ + Reservation]
<1>0. b \in Books /\ b.jobs[p] \in JobRecord /\ old \in LedgerRow
  BY DEF BooksOK, Books
<1>1. /\ c.jobs = [b.jobs EXCEPT ![p] = j]
      /\ c.ledger = [b.ledger EXCEPT ![now] = row]
      /\ c = [jobs |-> c.jobs, ledger |-> c.ledger]
  BY DEF Reserved
<1>2. j \in JobRecord /\ j.req = now /\ j.cost = now
  BY <1>0 DEF JobRecord
<1>3. /\ old.reqProcessed + old.reqReserved + 1 <= RequestLimit
      /\ old.usdProcessed + old.usdReserved + Reservation <= UsdLimit
  BY DEF Fits
<1> HIDE DEF c, j, old
<1>4. /\ row \in LedgerRow
      /\ row.reqReserved = old.reqReserved + 1
      /\ row.usdReserved = old.usdReserved + Reservation
      /\ row.reqProcessed = old.reqProcessed
      /\ row.usdProcessed = old.usdProcessed
  <2>1. old.reqReserved + 1 \in Nat /\ old.usdReserved + Reservation \in Nat
    BY <1>0, LimitsAssumption DEF LedgerRow
  <2> QED
    BY <1>0, <2>1 DEF LedgerRow
<1> HIDE DEF row
<1>5. c \in Books
  BY <1>0, <1>1, <1>2, <1>4 DEF Books
<1>6. \A q \in Photos \ {p} : /\ c.jobs[q].req = b.jobs[q].req
                              /\ c.jobs[q].cost = b.jobs[q].cost
  BY <1>0, <1>1 DEF Books
<1>7. c.jobs[p].req = now /\ c.jobs[p].cost = now
  BY <1>0, <1>1, <1>2 DEF Books
<1>8. ASSUME NEW m \in Months
      PROVE  /\ b.ledger[m].reqReserved
                   - (IF b.jobs[p].req = m THEN 1 ELSE 0)
                   + (IF c.jobs[p].req = m THEN 1 ELSE 0) <= c.ledger[m].reqReserved
             /\ b.ledger[m].usdReserved
                   - (IF b.jobs[p].cost = m THEN Reservation ELSE 0)
                   + (IF c.jobs[p].cost = m THEN Reservation ELSE 0)
                  <= c.ledger[m].usdReserved
             /\ c.ledger[m].reqProcessed + c.ledger[m].reqReserved <= RequestLimit
             /\ c.ledger[m].usdProcessed + c.ledger[m].usdReserved <= UsdLimit
  <2>1. /\ b.ledger[m].reqReserved \in Nat /\ b.ledger[m].reqProcessed \in Nat
        /\ b.ledger[m].usdReserved \in Nat /\ b.ledger[m].usdProcessed \in Nat
        /\ b.ledger[m].reqProcessed + b.ledger[m].reqReserved <= RequestLimit
        /\ b.ledger[m].usdProcessed + b.ledger[m].usdReserved <= UsdLimit
    BY MonthOfBooks DEF LedgerRow
  <2>2. CASE m = now
    <3>1. c.ledger[m] = row /\ b.ledger[m] = old
      BY <1>0, <1>1, <2>2 DEF Books, old
    <3> QED
      BY <1>3, <1>4, <1>7, <2>1, <2>2, <3>1, LimitsAssumption
  <2>3. CASE m # now
    <3>1. c.ledger[m] = b.ledger[m]
      BY <1>0, <1>1, <2>3 DEF Books
    <3> QED
      BY <1>7, <2>1, <2>3, <3>1, LimitsAssumption
  <2> QED
    BY <2>2, <2>3
<1>9. BooksOK(c)
  BY <1>5, <1>6, <1>8, OneJobChanges
<1> QED
  BY <1>9 DEF c

LEMMA ReserveKeepsBooks ==
  ASSUME NEW b, BooksOK(b), NEW p \in Photos, NEW now \in Months
  PROVE  BooksOK(Reserve(p, now, b))
<1>1. CASE BothMatch(p, now, b)
  <2>1. b.ledger[now].open \in BOOLEAN
    BY DEF BooksOK, Books, LedgerRow
  <2>2. Reserve(p, now, b) = SetBlocked(p, b.ledger[now].open, b)
    BY <1>1 DEF Reserve
  <2> QED
    BY <2>1, <2>2, JobChangesKeepBooks
<1>2. CASE ~BothMatch(p, now, b)
  <2> DEFINE c == Realigned(p, now, b)
  <2>1. BooksOK(c) /\ c.jobs[p].req # now /\ c.jobs[p].cost # now
    BY <1>2, RealignedKeepsBooks
  <2>2. Reserve(p, now, b) =
          IF c.ledger[now].open THEN SetBlocked(p, TRUE, c)
          ELSE IF Fits(c.ledger[now]) THEN Reserved(p, now, c) ELSE c
    BY <1>2 DEF Reserve
  <2> HIDE DEF c
  <2>3. BooksOK(SetBlocked(p, TRUE, c))
    BY <2>1, JobChangesKeepBooks
  <2>4. Fits(c.ledger[now]) => BooksOK(Reserved(p, now, c))
    BY <2>1, ReservedKeepsBooks
  <2> QED
    BY <2>1, <2>2, <2>3, <2>4
<1> QED
  BY <1>1, <1>2

-----------------------------------------------------------------------------
(* The pipeline. *)


IInv == TypeOK /\ BooksOK(books)

LEMMA Committed ==
  ASSUME NEW b, BooksOK(b), Commit(b)
  PROVE  BooksOK(books)'
<1>1. b = [jobs |-> b.jobs, ledger |-> b.ledger]
  BY DEF BooksOK, Books
<1>2. BooksOK([jobs |-> job', ledger |-> ledger'])
  BY <1>1 DEF Commit
<1> QED
  BY <1>2 DEF books

LEMMA NotCommitted ==
  ASSUME BooksOK(books), UNCHANGED <<job, ledger>>
  PROVE  BooksOK(books)'
BY DEF books

(* The helpers of SceneJobs that transform the books. *)
LEMMA PromotedKeepsBooks ==
  ASSUME NEW b, BooksOK(b), NEW p \in Photos
  PROVE  BooksOK(Promoted(p, b))
<1> DEFINE c == Promoted(p, b)
           k(q) == [b.jobs[q] EXCEPT
                      !.status = "Preparing", !.attempt = 0, !.code = "None",
                      !.due = 0, !.blocked = FALSE, !.staging = None,
                      !.lease = NoMessage, !.expired = FALSE]
<1>0. b \in Books
  BY DEF BooksOK
<1>1. ASSUME NEW q \in Photos
      PROVE  k(q) \in JobRecord /\ k(q).req = b.jobs[q].req /\ k(q).cost = b.jobs[q].cost
  <2> DEFINE j == b.jobs[q]
             i == [j EXCEPT
                     !.status = "Preparing", !.attempt = 0, !.code = "None",
                     !.due = 0, !.blocked = FALSE, !.staging = None,
                     !.lease = NoMessage, !.expired = FALSE]
  <2>1. j \in JobRecord
    BY <1>0 DEF Books
  <2>2. k(q) = i
    OBVIOUS
  <2>3. i \in JobRecord /\ i.req = j.req /\ i.cost = j.cost
    <3> HIDE DEF j, k
    <3>1. /\ 0 \in 0 .. MaxAttempts /\ 0 \in 0 .. (MaxMonth + 1)
          /\ "Preparing" \in JobStatus /\ "None" \in FailureCode
      BY BoundsAssumption DEF JobStatus, FailureCode
    <3> QED
      BY <2>1, <3>1 DEF JobRecord
  <2> QED
    BY <2>2, <2>3
<1>2. \A q \in Photos : c.jobs[q] = k(q) \/ c.jobs[q] = b.jobs[q]
  BY DEF Promoted
<1>3. /\ c = [jobs |-> c.jobs, ledger |-> b.ledger]
      /\ c.jobs = [q \in Photos |-> c.jobs[q]]
  BY DEF Promoted
<1> HIDE DEF c, k
<1>4. c \in Books
  <2>1. \A q \in Photos : c.jobs[q] \in JobRecord
    BY <1>0, <1>1, <1>2 DEF Books
  <2>2. c.jobs \in [Photos -> JobRecord]
    BY <1>3, <2>1
  <2>3. b.ledger \in [Months -> LedgerRow]
    BY <1>0 DEF Books
  <2> QED
    BY <1>3, <2>2, <2>3 DEF Books
<1>5. c.ledger = b.ledger
  BY <1>3
<1>6. \A q \in Photos : /\ c.jobs[q].req \in {None, b.jobs[q].req}
                        /\ c.jobs[q].cost \in {None, b.jobs[q].cost}
  BY <1>1, <1>2
<1>7. BooksOK(c)
  BY <1>4, <1>5, <1>6, NoMoneyMoved
<1> QED
  BY <1>7 DEF c

LEMMA ReopenedKeepsBooks ==
  ASSUME BooksOK(books), NEW p \in Photos
  PROVE  BooksOK(ReleaseLapsed(Reopened(p)))
<1>1. BooksOK(Reopened(p))
  <2>1. BooksOK(Release({p}, books))
    BY ReleaseKeepsBooks
  <2>2. BooksOK(Park(p, "Preparing", "None", 0, Release({p}, books)))
    <3>1. "Preparing" \in JobStatus /\ "None" \in FailureCode /\ 0 \in 0 .. (MaxMonth + 1)
      BY BoundsAssumption DEF JobStatus, FailureCode
    <3> QED
      BY <2>1, <3>1, JobChangesKeepBooks
  <2> QED
    BY <2>2, JobChangesKeepBooks DEF Reopened
<1> QED
  BY <1>1, ReleaseKeepsBooks DEF ReleaseLapsed, LapsedPhotos

LEMMA ChargedKeepsBooks ==
  ASSUME BooksOK(books), NEW p \in Photos
  PROVE  /\ BooksOK(ChargeLostCall(p))
         /\ \A b : BooksOK(b) => BooksOK(CloseExhausted(p, b))
<1>1. Reservation \in 0 .. Reservation
  BY LimitsAssumption
<1> QED
  BY <1>1, SettleCostKeepsBooks, ReleaseKeepsBooks
     DEF ChargeLostCall, CloseExhausted

(* The frequent conclusion of a transaction: the job takes its next status. *)
LEMMA ParkKeepsBooks ==
  ASSUME NEW b, BooksOK(b), NEW p \in Photos
  PROVE  /\ BooksOK(Park(p, "Preparing", "None", 0, b))
         /\ BooksOK(Park(p, "Queued", "None", 0, b))
         /\ BooksOK(Park(p, "Queued", "Failure", 0, b))
         /\ BooksOK(Park(p, "Failed", "Failure", 0, b))
         /\ BooksOK(Park(p, "Succeeded", "None", 0, b))
         /\ BooksOK(Park(p, "Cancelled", "Skipped", 0, b))
         /\ BooksOK(Park(p, "Cancelled", "MediaTrashed", 0, b))
         /\ BooksOK(Park(p, "Cancelled", "StalePreview", 0, b))
         /\ \A m \in Months :
              /\ BooksOK(Park(p, "DeferredQuota", "CircuitOpen", m + 1, b))
              /\ BooksOK(Park(p, "DeferredQuota", "MonthlyLimit", m + 1, b))
<1>1. /\ {"Preparing", "Queued", "Failed", "Succeeded", "Cancelled",
           "DeferredQuota"} \subseteq JobStatus
      /\ {"None", "Failure", "Skipped", "MediaTrashed", "StalePreview",
           "CircuitOpen", "MonthlyLimit"} \subseteq FailureCode
  BY DEF JobStatus, FailureCode
<1>2. 0 \in 0 .. (MaxMonth + 1) /\ \A m \in Months : m + 1 \in 0 .. (MaxMonth + 1)
  BY BoundsAssumption DEF Months
<1>3. \A status \in JobStatus, code \in FailureCode, due \in 0 .. (MaxMonth + 1) :
         BooksOK(Park(p, status, code, due, b))
  BY JobChangesKeepBooks
<1> QED
  BY <1>1, <1>2, <1>3

-----------------------------------------------------------------------------
(* The client's operations *)
LEMMA PrepareKeepsBooks ==
  ASSUME IInv, NEW p \in Photos, NEW geo \in BOOLEAN, PrepareEnrichment(p, geo)
  PROVE  BooksOK(books)'
<1> DEFINE j == job[p]
           new == [j EXCEPT !.status = "Preparing"]
           reset == [j EXCEPT !.req = None, !.cost = None, !.used = None,
                              !.blocked = FALSE, !.staging = None]
           k == IF j.status = "None" THEN new ELSE reset
<1>1. j \in JobRecord /\ job \in [Photos -> JobRecord]
  BY DEF IInv, TypeOK
<1>2. job' = [job EXCEPT ![p] = k] /\ ledger' = ledger
  BY DEF PrepareEnrichment
<1> HIDE DEF j
<1>3. new \in JobRecord /\ new.req = j.req /\ new.cost = j.cost
  BY <1>1 DEF JobRecord, JobStatus
<1>4. reset \in JobRecord /\ reset.req = None /\ reset.cost = None
  BY <1>1 DEF JobRecord
<1> HIDE DEF new, reset
<1>5. k \in JobRecord /\ k.req \in {None, j.req} /\ k.cost \in {None, j.cost}
  BY <1>3, <1>4
<1> HIDE DEF k
<1>6. BooksOK(WithJob(p, k, books))
  BY <1>5, WithJobKeepsBooks DEF IInv, books, j
<1>7. Commit(WithJob(p, k, books))
  BY <1>2 DEF Commit, WithJob, books
<1> QED
  BY <1>6, <1>7, Committed

LEMMA UploadPlanKeepsBooks ==
  ASSUME IInv, NEW p \in Photos, CreateUploadPlan(p)
  PROVE  BooksOK(books)'
<1> DEFINE b == ReleaseLapsed(Reopened(p))
           r == Reserve(p, month, b)
<1>1. BooksOK(b)
  BY ReopenedKeepsBooks DEF IInv
<1>2. month \in Months
  BY DEF IInv, TypeOK
<1>3. BooksOK(r)
  BY <1>1, <1>2, ReserveKeepsBooks
<1>4. BooksOK(DeferredPlan(p, r))
  <2> HIDE DEF r
  <2> QED
    BY <1>2, <1>3, ParkKeepsBooks DEF DeferredPlan
<1>5. Commit(b) \/ Commit(DeferredPlan(p, r)) \/ Commit(r)
  BY DEF CreateUploadPlan
<1> QED
  BY <1>1, <1>3, <1>4, <1>5, Committed

LEMMA SessionKeepsBooks ==
  ASSUME IInv, NEW p \in Photos, NEW n \in UploadIds,
         GetUploadSession(p, n) \/ CompleteUpload(p, n) \/ CancelUpload(p, n)
  PROVE  BooksOK(books)'
<1>0. BooksOK(books)
  BY DEF IInv
<1>1. CASE GetUploadSession(p, n)
  <2>1. BooksOK(Release({p}, books))
    BY <1>0, ReleaseKeepsBooks
  <2>2. Commit(Release({p}, books)) \/ Commit(books)
    BY <1>1 DEF GetUploadSession
  <2> QED
    BY <1>0, <2>1, <2>2, Committed
<1>2. CASE CompleteUpload(p, n)
  <2> DEFINE j == job[p]
             k == [j EXCEPT !.staging = n]
  <2>1. j \in JobRecord
    BY DEF IInv, TypeOK
  <2>2. Commit(Park(p, "Queued", "None", 0, WithJob(p, k, books)))
    BY <1>2 DEF CompleteUpload
  <2> HIDE DEF j
  <2>3. k \in JobRecord /\ k.req = j.req /\ k.cost = j.cost
    BY <2>1 DEF JobRecord
  <2> HIDE DEF k
  <2>4. BooksOK(WithJob(p, k, books))
    BY <1>0, <2>3, WithJobKeepsBooks DEF j, books
  <2> QED
    BY <2>2, <2>4, ParkKeepsBooks, Committed
<1>3. CASE CancelUpload(p, n)
  <2>1. Commit(Release({p}, ClearStaging(p, books)))
    BY <1>3 DEF CancelUpload
  <2>2. BooksOK(ClearStaging(p, books))
    BY <1>0, JobChangesKeepBooks
  <2> QED
    BY <2>1, <2>2, ReleaseKeepsBooks, Committed
<1> QED
  BY <1>1, <1>2, <1>3

LEMMA RetryKeepsBooks ==
  ASSUME IInv, NEW p \in Photos, RetryJob(p)
  PROVE  BooksOK(books)'
<1> DEFINE b == IF job[p].status = "DeferredQuota" THEN ResetAttempts(p, books)
                                                   ELSE books
           c == IF ledger[month].open THEN Promoted(p, CloseCircuit(month, b))
                                      ELSE b
<1>1. Commit(Park(p, "Preparing", "None", 0, ClearStaging(p, Release({p}, c))))
  BY DEF RetryJob
<1>2. BooksOK(b)
  BY JobChangesKeepBooks DEF IInv
<1>3. BooksOK(c)
  <2>1. month \in Months
    BY DEF IInv, TypeOK
  <2>2. BooksOK(CloseCircuit(month, b))
    BY <1>2, <2>1, CircuitKeepsBooks
  <2> QED
    BY <1>2, <2>2, PromotedKeepsBooks
<1> HIDE DEF c
<1>4. BooksOK(ClearStaging(p, Release({p}, c)))
  BY <1>3, ReleaseKeepsBooks, JobChangesKeepBooks
<1> QED
  BY <1>1, <1>4, ParkKeepsBooks, Committed

LEMMA CancelKeepsBooks ==
  ASSUME IInv, NEW p \in Photos, CancelJob(p) \/ Trash(p)
  PROVE  BooksOK(books)'
<1>0. BooksOK(books)
  BY DEF IInv
<1> DEFINE b == SettleByCall(p, books)
<1>1. BooksOK(b)
  BY <1>0, SettleByCallKeepsBooks
<1>2. \/ Commit(Park(p, "Cancelled", "Skipped", 0, b))
      \/ Commit(Park(p, "Cancelled", "MediaTrashed", 0, b))
      \/ Commit(books)
  BY DEF CancelJob, Trash
<1> HIDE DEF b
<1>3. /\ BooksOK(Park(p, "Cancelled", "Skipped", 0, b))
      /\ BooksOK(Park(p, "Cancelled", "MediaTrashed", 0, b))
  BY <1>1, ParkKeepsBooks
<1> QED
  BY <1>0, <1>2, <1>3, Committed

LEMMA ClientKeepsBooks ==
  ASSUME IInv, NEW p \in Photos, Client(p)
  PROVE  BooksOK(books)'
<1>1. ASSUME NEW geo \in BOOLEAN, PrepareEnrichment(p, geo)
      PROVE  BooksOK(books)'
  BY <1>1, PrepareKeepsBooks
<1>2. CASE CreateUploadPlan(p)
  BY <1>2, UploadPlanKeepsBooks
<1>3. ASSUME NEW n \in UploadIds,
             GetUploadSession(p, n) \/ CompleteUpload(p, n) \/ CancelUpload(p, n)
      PROVE  BooksOK(books)'
  BY <1>3, SessionKeepsBooks
<1>4. ASSUME NEW n \in UploadIds, PutPreview(p, n)
      PROVE  BooksOK(books)'
  BY <1>4, NotCommitted DEF PutPreview, IInv
<1>5. CASE RetryJob(p)
  BY <1>5, RetryKeepsBooks
<1>6. CASE CancelJob(p) \/ Trash(p)
  BY <1>6, CancelKeepsBooks
<1>7. CASE Restore(p)
  BY <1>7, NotCommitted DEF Restore, IInv
<1> QED
  BY <1>1, <1>2, <1>3, <1>4, <1>5, <1>6, <1>7 DEF Client

-----------------------------------------------------------------------------
(* The worker *)

(* What a settlement leaves of the attempt counter. *)
LEMMA ChargedKeepsAttempts ==
  ASSUME books \in Books, NEW p \in Photos
  PROVE  ChargeLostCall(p).jobs[p].attempt = job[p].attempt
<1> DEFINE j == job[p]
           left == IF TRUE THEN j.used ELSE None
           k == [j EXCEPT !.cost = None, !.used = left]
<1>1. j \in JobRecord /\ job \in [Photos -> JobRecord]
  BY DEF books, Books
<1>2. ChargeLostCall(p).jobs = job \/ ChargeLostCall(p).jobs = [job EXCEPT ![p] = k]
  BY DEF ChargeLostCall, SettleCost, books
<1>3. k.attempt = j.attempt
  BY <1>1 DEF JobRecord
<1> HIDE DEF k
<1> QED
  BY <1>1, <1>2, <1>3

LEMMA ClaimKeepsBooks ==
  ASSUME IInv, NEW w \in Workers, NEW m \in queue, Claim(w, m)
  PROVE  BooksOK(books)'
<1> DEFINE p == m.photo
<1>0. /\ BooksOK(books) /\ books \in Books
      /\ p \in Photos /\ m.id \in Messages
  BY DEF IInv, TypeOK, BooksOK
<1> HIDE DEF p
<1>1. CASE ClaimDiscards(w, m)
  <2>1. \/ Commit(Release({p}, Park(p, "Failed", "Failure", 0, books)))
        \/ Commit(Release({p}, Park(p, "Cancelled", "StalePreview", 0, books)))
        \/ Commit(Park(p, "Succeeded", "None", 0, Release({p}, books)))
    BY <1>1 DEF ClaimDiscards, p
  <2>2. /\ BooksOK(Release({p}, Park(p, "Failed", "Failure", 0, books)))
        /\ BooksOK(Release({p}, Park(p, "Cancelled", "StalePreview", 0, books)))
        /\ BooksOK(Park(p, "Succeeded", "None", 0, Release({p}, books)))
    <3>1. {p} \in SUBSET Photos
      BY <1>0
    <3> QED
      BY <1>0, <3>1, ParkKeepsBooks, ReleaseKeepsBooks
  <2> QED
    BY <2>1, <2>2, Committed
<1>2. CASE ClaimIgnores(w, m) \/ ClaimAgain(w, m)
  BY <1>0, <1>2, NotCommitted DEF ClaimIgnores, ClaimAgain
<1>3. CASE ClaimExhausted(w, m)
  <2> DEFINE b == CloseExhausted(p, ChargeLostCall(p))
             j == b.jobs[p]
             k == [j EXCEPT !.status = "Failed", !.code = "Failure"]
  <2>1. BooksOK(b)
    BY <1>0, ChargedKeepsBooks
  <2>2. Commit(WithJob(p, k, b))
    BY <1>3 DEF ClaimExhausted, p
  <2> HIDE DEF b
  <2>3. j \in JobRecord
    BY <1>0, <2>1 DEF BooksOK, Books
  <2> HIDE DEF j
  <2>4. k \in JobRecord /\ k.req = j.req /\ k.cost = j.cost
    BY <2>3 DEF JobRecord, JobStatus, FailureCode
  <2> HIDE DEF k
  <2>5. BooksOK(WithJob(p, k, b))
    BY <1>0, <2>1, <2>4, WithJobKeepsBooks DEF j
  <2> QED
    BY <2>2, <2>5, Committed
<1>4. CASE ClaimStarts(w, m)
  <2> DEFINE b == ChargeLostCall(p)
             j == b.jobs[p]
             k == [j EXCEPT !.status = "Running", !.attempt = @ + 1,
                            !.code = "None", !.lease = m.id, !.expired = FALSE]
  <2>1. BooksOK(b)
    BY <1>0, ChargedKeepsBooks
  <2>2. Commit(WithJob(p, k, b))
    BY <1>4 DEF ClaimStarts, p
  <2>3. j.attempt < MaxAttempts
    <3>1. job[p].attempt < MaxAttempts
      BY <1>0, <1>4, BoundsAssumption DEF ClaimStarts, Exhausted, p, JobRecord,
         books, Books
    <3> QED
      BY <1>0, <3>1, ChargedKeepsAttempts
  <2> HIDE DEF b
  <2>4. j \in JobRecord
    BY <1>0, <2>1 DEF BooksOK, Books
  <2> HIDE DEF j
  <2>5. k \in JobRecord /\ k.req = j.req /\ k.cost = j.cost
    <3>1. j.attempt + 1 \in 0 .. MaxAttempts
      BY <2>3, <2>4, BoundsAssumption DEF JobRecord
    <3>2. "Running" \in JobStatus /\ "None" \in FailureCode
      BY DEF JobStatus, FailureCode
    <3> QED
      BY <1>0, <2>4, <3>1, <3>2 DEF JobRecord
  <2> HIDE DEF k
  <2>6. BooksOK(WithJob(p, k, b))
    BY <1>0, <2>1, <2>5, WithJobKeepsBooks DEF j
  <2> QED
    BY <2>2, <2>6, Committed
<1> QED
  BY <1>1, <1>2, <1>3, <1>4 DEF Claim

(* The two ways an attempt closes without a description. *)
LEMMA FailKeepsBooks ==
  ASSUME IInv, NEW w \in Workers, worker[w].phase # "idle", NEW answer,
         NEW called \in BOOLEAN,
         FailDescription(w, answer, called) \/ DeferDescription(w, called)
  PROVE  BooksOK(books)'
<1> DEFINE p == worker[w].photo
           b == Settle(p, called, Reservation, books)
           c == OpenCircuit(month, b)
<1>1. BooksOK(books) /\ p \in Photos /\ month \in Months
  BY DEF IInv, TypeOK
<1>2. Reservation \in 0 .. Reservation
  BY LimitsAssumption
<1>3. BooksOK(b)
  BY <1>1, <1>2, SettleKeepsBooks
<1>4. BooksOK(c)
  BY <1>1, <1>3, CircuitKeepsBooks
<1>5. \E d \in {b, c} :
        \/ UNCHANGED <<job, ledger>>
        \/ Commit(Park(p, "Queued", "Failure", 0, d))
        \/ Commit(Park(p, "Failed", "Failure", 0, d))
        \/ Commit(Park(p, "DeferredQuota", "CircuitOpen", month + 1, d))
        \/ Commit(Park(p, "DeferredQuota", "MonthlyLimit", month + 1, d))
  <2>1. CASE FailDescription(w, answer, called)
    BY <2>1 DEF FailDescription
  <2>2. CASE DeferDescription(w, called)
    BY <2>2 DEF DeferDescription
  <2> QED
    BY <2>1, <2>2
<1> HIDE DEF b, c, p
<1> QED
  BY <1>1, <1>3, <1>4, <1>5, ParkKeepsBooks, Committed, NotCommitted

LEMMA ReserveCallKeepsBooks ==
  ASSUME IInv, NEW w \in Workers, ReserveProviderCall(w)
  PROVE  BooksOK(books)'
<1> DEFINE p == worker[w].photo
<1>1. BooksOK(books) /\ p \in Photos /\ month \in Months
  BY DEF IInv, TypeOK, ReserveProviderCall
<1>2. Commit(Reserve(p, month, books)) \/ UNCHANGED <<job, ledger>>
  BY DEF ReserveProviderCall
<1> HIDE DEF p
<1> QED
  BY <1>1, <1>2, ReserveKeepsBooks, Committed, NotCommitted

LEMMA ConsumeKeepsBooks ==
  ASSUME IInv, NEW w \in Workers, ConsumeProviderCall(w)
  PROVE  BooksOK(books)'
<1> DEFINE p == worker[w].photo
           b == SettleRequest(p, TRUE, books)
           j == b.jobs[p]
           k == [j EXCEPT !.used = job[p].req]
<1>1. /\ BooksOK(books) /\ p \in Photos
      /\ job[p] \in JobRecord
  BY DEF IInv, TypeOK, ConsumeProviderCall
<1>2. BooksOK(b)
  BY <1>1, SettleRequestKeepsBooks
<1>3. Commit(WithJob(p, k, b)) \/ UNCHANGED <<job, ledger>>
  BY DEF ConsumeProviderCall
<1> HIDE DEF b, p
<1>4. j \in JobRecord /\ job[p].req \in {None} \cup Months
  BY <1>1, <1>2 DEF BooksOK, Books, JobRecord
<1> HIDE DEF j
<1>5. k \in JobRecord /\ k.req = j.req /\ k.cost = j.cost
  BY <1>4 DEF JobRecord
<1> HIDE DEF k
<1>6. BooksOK(WithJob(p, k, b))
  BY <1>1, <1>2, <1>5, WithJobKeepsBooks DEF j
<1> QED
  BY <1>1, <1>3, <1>6, Committed, NotCommitted

LEMMA CompleteKeepsBooks ==
  ASSUME IInv, NEW w \in Workers, CompleteDescription(w)
  PROVE  BooksOK(books)'
<1> DEFINE p == worker[w].photo
           b == Settle(p, TRUE, Reservation, books)
           c == Settle(p, TRUE, worker[w].cost, books)
<1>1. BooksOK(books) /\ p \in Photos
  BY DEF IInv, TypeOK, CompleteDescription
<1>2. /\ Reservation \in 0 .. Reservation
      /\ worker[w].cost \in 0 .. Reservation
  <2>1. worker[w].cost \in {0} \cup Costs
    BY DEF IInv, TypeOK, WorkerRecord
  <2>2. \A x \in {0} \cup Costs : x \in 0 .. Reservation
    BY LimitsAssumption, CostsAssumption
  <2>3. Reservation \in 0 .. Reservation
    BY LimitsAssumption
  <2> QED
    BY <2>1, <2>2, <2>3
<1>3. BooksOK(b) /\ BooksOK(c)
  BY <1>1, <1>2, SettleKeepsBooks
<1>4. \/ UNCHANGED <<job, ledger>>
      \/ Commit(Park(p, "Failed", "Failure", 0, b))
      \/ Commit(Park(p, "Succeeded", "None", 0, b))
      \/ Commit(Park(p, "Succeeded", "None", 0, c))
  BY DEF CompleteDescription
<1> HIDE DEF b, c, p
<1> QED
  BY <1>1, <1>3, <1>4, ParkKeepsBooks, Committed, NotCommitted

LEMMA WorkerKeepsBooks ==
  ASSUME IInv, NEW w \in Workers, WorkerStep(w)
  PROVE  BooksOK(books)'
<1>1. CASE FailBeforeReserving(w)
  <2>1. worker[w].phase # "idle"
        /\ \E answer \in {"Internal", "Auth", "Transient"} :
              FailDescription(w, answer, FALSE)
    BY <1>1 DEF FailBeforeReserving
  <2> QED
    BY <2>1, FailKeepsBooks
<1>2. CASE DeferRefused(w)
  <2>1. worker[w].phase # "idle" /\ DeferDescription(w, FALSE)
    BY <1>2 DEF DeferRefused
  <2> QED
    BY <2>1, FailKeepsBooks
<1>3. CASE CredentialUnavailable(w)
  <2>1. worker[w].phase # "idle" /\ FailDescription(w, "Auth", FALSE)
    BY <1>3 DEF CredentialUnavailable
  <2> QED
    BY <2>1, FailKeepsBooks
<1>4. CASE HandleProviderFailure(w)
  <2>1. /\ worker[w].phase # "idle"
        /\ DeferDescription(w, TRUE) \/ FailDescription(w, worker[w].answer, TRUE)
    BY <1>4 DEF HandleProviderFailure
  <2> QED
    BY <2>1, FailKeepsBooks
<1>5. CASE ReserveProviderCall(w)
  BY <1>5, ReserveCallKeepsBooks
<1>6. CASE ConsumeProviderCall(w)
  BY <1>6, ConsumeKeepsBooks
<1>7. CASE CompleteDescription(w)
  BY <1>7, CompleteKeepsBooks
<1>8. CASE CallAny(w) \/ CleanUp(w) \/ Acknowledge(w)
  <2>1. UNCHANGED <<job, ledger>>
    BY <1>8 DEF CallAny, CallProvider, CleanUp, Acknowledge, serverVars
  <2> QED
    BY <2>1, NotCommitted DEF IInv
<1> QED
  BY <1>1, <1>2, <1>3, <1>4, <1>5, <1>6, <1>7, <1>8 DEF WorkerStep

LEMMA SweepKeepsBooks ==
  ASSUME IInv, NEW w \in Workers, NEW p \in Photos, NEW arrives \in BOOLEAN,
             Sweep(w, p, arrives)
  PROVE  BooksOK(books)'
<1>0. BooksOK(books)
  BY DEF IInv
<1>1. CASE Commit(Park(p, "Preparing", "None", 0,
                    ClearStaging(p, ResetAttempts(p, Release({p}, books)))))
  <2>1. BooksOK(ClearStaging(p, ResetAttempts(p, Release({p}, books))))
    BY <1>0, ReleaseKeepsBooks, JobChangesKeepBooks
  <2> QED
    BY <1>1, <2>1, ParkKeepsBooks, Committed
<1>2. CASE Commit(Requeued(p, IF LeaseRanOut(p) THEN SettleByCall(p, books)
                                                ELSE books))
  <2> DEFINE b == IF LeaseRanOut(p) THEN SettleByCall(p, books) ELSE books
  <2>1. BooksOK(b)
    BY <1>0, SettleByCallKeepsBooks
  <2> HIDE DEF b
  <2>2. BooksOK(Requeued(p, b))
    BY <2>1, ParkKeepsBooks DEF Requeued
  <2> QED
    BY <1>2, <2>2, Committed DEF b
<1> QED
  BY <1>1, <1>2 DEF Sweep, SweepRow

LEMMA TimeKeepsBooks ==
  ASSUME IInv, Time
  PROVE  BooksOK(books)'
<1>0. BooksOK(books) /\ job \in [Photos -> JobRecord]
  BY DEF IInv, TypeOK
<1>1. ASSUME NEW p \in Photos, LeaseExpires(p)
      PROVE  BooksOK(books)'
  <2> DEFINE j == job[p]
             k == [j EXCEPT !.expired = TRUE]
  <2>1. j \in JobRecord
    BY <1>0
  <2>2. job' = [job EXCEPT ![p] = k] /\ ledger' = ledger
    BY <1>1 DEF LeaseExpires
  <2> HIDE DEF j
  <2>3. k \in JobRecord /\ k.req = j.req /\ k.cost = j.cost
    BY <2>1 DEF JobRecord
  <2> HIDE DEF k
  <2>4. BooksOK(WithJob(p, k, books))
    BY <1>0, <2>3, WithJobKeepsBooks DEF j, books
  <2>5. Commit(WithJob(p, k, books))
    BY <2>2 DEF Commit, WithJob, books
  <2> QED
    BY <2>4, <2>5, Committed
<1>2. ASSUME NEW p \in Photos, NEW n \in UploadIds, UploadLapses(p, n)
      PROVE  BooksOK(books)'
  BY <1>0, <1>2, NotCommitted DEF UploadLapses
<1>3. CASE MonthTurns
  BY <1>0, <1>3, NotCommitted DEF MonthTurns, serverVars
<1> QED
  BY <1>1, <1>2, <1>3 DEF Time

(* Every step of the pipeline keeps the books in order. *)
LEMMA StepKeepsBooks ==
  ASSUME IInv, [Next]_vars
  PROVE  BooksOK(books)'
<1>1. ASSUME NEW p \in Photos, Client(p)
      PROVE  BooksOK(books)'
  BY <1>1, ClientKeepsBooks
<1>2. ASSUME NEW w \in Workers, NEW m \in queue, Claim(w, m)
      PROVE  BooksOK(books)'
  BY <1>2, ClaimKeepsBooks
<1>3. ASSUME NEW w \in Workers, WorkerStep(w)
      PROVE  BooksOK(books)'
  BY <1>3, WorkerKeepsBooks
<1>4. ASSUME NEW w \in Workers, Crash(w)
      PROVE  BooksOK(books)'
  BY <1>4, NotCommitted DEF Crash, serverVars, IInv
<1>5. ASSUME NEW w \in Workers, NEW p \in Photos, NEW arrives \in BOOLEAN,
             Sweep(w, p, arrives)
      PROVE  BooksOK(books)'
  BY <1>5, SweepKeepsBooks
<1>6. CASE Time
  BY <1>6, TimeKeepsBooks
<1>7. CASE UNCHANGED vars
  BY <1>7, NotCommitted DEF vars, IInv
<1> QED
  BY <1>1, <1>2, <1>3, <1>4, <1>5, <1>6, <1>7 DEF Next

-----------------------------------------------------------------------------
(* Types of what is not in the books. *)
SessionsOK ==
  /\ month \in Months
  /\ active \subseteq Photos
  /\ described \subseteq Photos
  /\ upload \in [Photos -> [UploadIds -> UploadStatus]]
  /\ object \in [Photos -> SUBSET UploadIds]

DeliveryOK ==
  /\ queue \subseteq [id : Messages, photo : Photos]
  /\ worker \in [Workers -> WorkerRecord]
  /\ \A w \in Workers :
       worker[w].phase # "idle" => worker[w].photo \in Photos
  /\ calls \in [Months -> Nat]
  /\ billed \in [Months -> Nat]

LEMMA TypesFromParts ==
  ASSUME BooksOK(books), SessionsOK, DeliveryOK
  PROVE  TypeOK
BY DEF BooksOK, Books, books, SessionsOK, DeliveryOK, TypeOK

LEMMA PartsFromTypes ==
  ASSUME IInv
  PROVE  SessionsOK /\ DeliveryOK
BY DEF IInv, TypeOK, SessionsOK, DeliveryOK

LEMMA CancelUploadsTypes ==
  ASSUME SessionsOK, NEW p \in Photos, CancelUploads(p)
  PROVE  /\ upload' \in [Photos -> [UploadIds -> UploadStatus]]
         /\ object' \in [Photos -> SUBSET UploadIds]
BY DEF SessionsOK, CancelUploads, UploadStatus

LEMMA ClientKeepsSessions ==
  ASSUME IInv, NEW p \in Photos, Client(p)
  PROVE  SessionsOK'
<1>0. SessionsOK
  BY PartsFromTypes
<1>1. ASSUME NEW geo \in BOOLEAN, PrepareEnrichment(p, geo)
      PROVE  SessionsOK'
  BY <1>0, <1>1 DEF PrepareEnrichment, SessionsOK
<1>2. CASE CreateUploadPlan(p)
  <2>1. ExpiredUploads \in [Photos -> [UploadIds -> UploadStatus]]
    BY <1>0 DEF SessionsOK, ExpiredUploads, UploadStatus
  <2>2. WithoutLapsedObjects \in [Photos -> SUBSET UploadIds]
    BY <1>0 DEF SessionsOK, WithoutLapsedObjects
  <2>3. UNCHANGED <<month, active, described>> /\ object' = WithoutLapsedObjects
    BY <1>2 DEF CreateUploadPlan
  <2>4. \/ upload' = ExpiredUploads
        \/ \E n \in UploadIds : upload' = [ExpiredUploads EXCEPT ![p][n] = "Uploading"]
    BY <1>2 DEF CreateUploadPlan, UnusedUploads
  <2>5. upload' \in [Photos -> [UploadIds -> UploadStatus]]
    BY <2>1, <2>4 DEF UploadStatus
  <2> QED
    BY <1>0, <2>2, <2>3, <2>5 DEF SessionsOK
<1>3. ASSUME NEW n \in UploadIds,
             \/ PutPreview(p, n) \/ GetUploadSession(p, n)
             \/ CompleteUpload(p, n) \/ CancelUpload(p, n)
      PROVE  SessionsOK'
  <2>1. CASE PutPreview(p, n)
    BY <1>0, <2>1 DEF PutPreview, SessionsOK
  <2>2. CASE GetUploadSession(p, n)
    BY <1>0, <2>2 DEF GetUploadSession, SessionsOK, UploadStatus
  <2>3. CASE CompleteUpload(p, n)
    BY <1>0, <2>3 DEF CompleteUpload, SessionsOK, UploadStatus
  <2>4. CASE CancelUpload(p, n)
    BY <1>0, <2>4 DEF CancelUpload, SessionsOK, UploadStatus
  <2> QED
    BY <1>3, <2>1, <2>2, <2>3, <2>4
<1>4. CASE RetryJob(p)
  BY <1>0, <1>4 DEF RetryJob, SessionsOK
<1>5. CASE CancelJob(p)
  BY <1>0, <1>5, CancelUploadsTypes DEF CancelJob, SessionsOK
<1>6. CASE Trash(p)
  BY <1>0, <1>6, CancelUploadsTypes DEF Trash, SessionsOK
<1>7. CASE Restore(p)
  BY <1>0, <1>7 DEF Restore, SessionsOK
<1> QED
  BY <1>1, <1>2, <1>3, <1>4, <1>5, <1>6, <1>7 DEF Client

LEMMA StepKeepsSessions ==
  ASSUME IInv, [Next]_vars
  PROVE  SessionsOK'
<1>0. SessionsOK /\ DeliveryOK
  BY PartsFromTypes
<1>1. ASSUME NEW p \in Photos, Client(p)
      PROVE  SessionsOK'
  BY <1>1, ClientKeepsSessions
<1>2. ASSUME NEW w \in Workers, NEW m \in queue, Claim(w, m)
      PROVE  SessionsOK'
  BY <1>0, <1>2 DEF Claim, SessionsOK
<1>3. ASSUME NEW w \in Workers, WorkerStep(w)
      PROVE  SessionsOK'
  <2>1. CASE \/ FailBeforeReserving(w) \/ ReserveProviderCall(w) \/ DeferRefused(w)
             \/ ConsumeProviderCall(w) \/ CredentialUnavailable(w)
             \/ HandleProviderFailure(w)
    BY <1>0, <2>1 DEF FailBeforeReserving, ReserveProviderCall, DeferRefused,
       ConsumeProviderCall, CredentialUnavailable, HandleProviderFailure,
       workerOnly, SessionsOK
  <2>2. CASE CallAny(w) \/ Acknowledge(w)
    BY <1>0, <2>2 DEF CallAny, CallProvider, Acknowledge, serverVars, SessionsOK
  <2>3. CASE CompleteDescription(w)
    <3>1. worker[w].photo \in Photos
      BY <1>0, <2>3 DEF CompleteDescription, DeliveryOK
    <3>2. described' = described \/ described' = described \cup {worker[w].photo}
      BY <2>3 DEF CompleteDescription
    <3> QED
      BY <1>0, <2>3, <3>1, <3>2 DEF CompleteDescription, SessionsOK
  <2>4. CASE CleanUp(w)
    BY <1>0, <2>4 DEF CleanUp, SessionsOK
  <2> QED
    BY <1>3, <2>1, <2>2, <2>3, <2>4 DEF WorkerStep
<1>4. ASSUME NEW w \in Workers, Crash(w)
      PROVE  SessionsOK'
  BY <1>0, <1>4 DEF Crash, serverVars, SessionsOK
<1>5. ASSUME NEW w \in Workers, NEW p \in Photos, NEW arrives \in BOOLEAN,
             Sweep(w, p, arrives)
      PROVE  SessionsOK'
  BY <1>0, <1>5 DEF Sweep, SessionsOK
<1>6. CASE Time
  <2>1. ASSUME NEW p \in Photos, LeaseExpires(p)
        PROVE  SessionsOK'
    BY <1>0, <2>1 DEF LeaseExpires, SessionsOK
  <2>2. ASSUME NEW p \in Photos, NEW n \in UploadIds, UploadLapses(p, n)
        PROVE  SessionsOK'
    BY <1>0, <2>2 DEF UploadLapses, SessionsOK, UploadStatus
  <2>3. CASE MonthTurns
    BY <1>0, <2>3, BoundsAssumption DEF MonthTurns, serverVars, SessionsOK, Months
  <2> QED
    BY <1>6, <2>1, <2>2, <2>3 DEF Time
<1>7. CASE UNCHANGED vars
  BY <1>0, <1>7 DEF vars, SessionsOK
<1> QED
  BY <1>1, <1>2, <1>3, <1>4, <1>5, <1>6, <1>7 DEF Next

-----------------------------------------------------------------------------
(* A dispatch adds a message of the photo. *)
LEMMA SendTypes ==
  ASSUME DeliveryOK, NEW p \in Photos, DispatchAfterCommit(p)
  PROVE  queue' \subseteq [id : Messages, photo : Photos]
BY DEF DeliveryOK, DispatchAfterCommit, Send, FreshMessages

LEMMA ClientKeepsDelivery ==
  ASSUME IInv, NEW p \in Photos, Client(p)
  PROVE  DeliveryOK'
<1>0. DeliveryOK
  BY PartsFromTypes
<1>1. UNCHANGED <<worker, calls, billed>>
  BY DEF Client, PrepareEnrichment, CreateUploadPlan, PutPreview,
     GetUploadSession, CompleteUpload, CancelUpload, RetryJob, CancelJob,
     Trash, Restore, history
<1>2. UNCHANGED queue \/ DispatchAfterCommit(p)
  BY DEF Client, PrepareEnrichment, CreateUploadPlan, PutPreview,
     GetUploadSession, CompleteUpload, CancelUpload, RetryJob, CancelJob,
     Trash, Restore
<1>3. queue' \subseteq [id : Messages, photo : Photos]
  BY <1>0, <1>2, SendTypes DEF DeliveryOK
<1> QED
  BY <1>0, <1>1, <1>3 DEF DeliveryOK

(* The worker takes its next phase, another record or none. *)
LEMMA GotoTypes ==
  ASSUME DeliveryOK, NEW w \in Workers, worker[w].phase # "idle",
         NEW phase \in Phase \ {"idle"}, Goto(w, phase)
  PROVE  /\ worker' \in [Workers -> WorkerRecord]
         /\ \A v \in Workers :
              worker'[v].phase # "idle" => worker'[v].photo \in Photos
<1> DEFINE k == [worker[w] EXCEPT !.phase = phase]
<1>1. worker[w] \in WorkerRecord /\ worker' = [worker EXCEPT ![w] = k]
  BY DEF DeliveryOK, Goto
<1>2. k \in WorkerRecord /\ k.photo = worker[w].photo
  BY <1>1 DEF WorkerRecord
<1>3. worker[w].photo \in Photos
  BY DEF DeliveryOK
<1> HIDE DEF k
<1> QED
  BY <1>1, <1>2, <1>3 DEF DeliveryOK

LEMMA IdleTypes ==
  ASSUME DeliveryOK, NEW w \in Workers, worker' = [worker EXCEPT ![w] = Idle]
  PROVE  /\ worker' \in [Workers -> WorkerRecord]
         /\ \A v \in Workers :
              worker'[v].phase # "idle" => worker'[v].photo \in Photos
<1>1. Idle \in WorkerRecord /\ Idle.phase = "idle"
  BY DEF Idle, WorkerRecord, Phase, Answer
<1> QED
  BY <1>1 DEF DeliveryOK

LEMMA TakeTypes ==
  ASSUME DeliveryOK, NEW w \in Workers, NEW m \in queue,
         NEW phase \in Phase, NEW up \in {None} \cup UploadIds,
         Take(w, m, phase, up)
  PROVE  /\ worker' \in [Workers -> WorkerRecord]
         /\ \A v \in Workers :
              worker'[v].phase # "idle" => worker'[v].photo \in Photos
<1> DEFINE k == [Idle EXCEPT !.phase = phase, !.msg = m.id,
                             !.photo = m.photo, !.up = up]
<1>1. worker' = [worker EXCEPT ![w] = k]
  BY DEF Take
<1>2. m.id \in Messages /\ m.photo \in Photos
  BY DEF DeliveryOK
<1>3. Idle \in WorkerRecord
  BY DEF Idle, WorkerRecord, Phase, Answer
<1>4. k \in WorkerRecord /\ k.photo \in Photos
  BY <1>2, <1>3 DEF WorkerRecord
<1> HIDE DEF k
<1> QED
  BY <1>1, <1>4 DEF DeliveryOK

LEMMA ClaimKeepsDelivery ==
  ASSUME IInv, NEW w \in Workers, NEW m \in queue, Claim(w, m)
  PROVE  DeliveryOK'
<1>0. DeliveryOK /\ job \in [Photos -> JobRecord] /\ m.photo \in Photos
  BY PartsFromTypes DEF IInv, TypeOK
<1>1. UNCHANGED <<queue, calls, billed>>
  BY DEF Claim, history
<1>2. job[m.photo].staging \in {None} \cup UploadIds
  BY <1>0 DEF JobRecord
<1>3. Take(w, m, "ack", None) \/ Take(w, m, "claimed", job[m.photo].staging)
  BY DEF Claim, ClaimDiscards, ClaimIgnores, ClaimExhausted, ClaimStarts, ClaimAgain
<1>4. "ack" \in Phase /\ "claimed" \in Phase /\ None \in {None} \cup UploadIds
  BY DEF Phase
<1>5. /\ worker' \in [Workers -> WorkerRecord]
      /\ \A v \in Workers :
           worker'[v].phase # "idle" => worker'[v].photo \in Photos
  BY <1>0, <1>2, <1>3, <1>4, TakeTypes
<1> QED
  BY <1>0, <1>1, <1>5 DEF DeliveryOK

LEMMA WorkerKeepsDelivery ==
  ASSUME IInv, NEW w \in Workers, WorkerStep(w)
  PROVE  DeliveryOK'
<1>0. DeliveryOK /\ job \in [Photos -> JobRecord]
  BY PartsFromTypes DEF IInv, TypeOK
<1>1. CASE \/ FailBeforeReserving(w) \/ ReserveProviderCall(w) \/ DeferRefused(w)
           \/ CredentialUnavailable(w) \/ CompleteDescription(w)
           \/ HandleProviderFailure(w) \/ CleanUp(w)
  <2>1. worker[w].phase # "idle" /\ UNCHANGED <<queue, calls, billed>>
    BY <1>1 DEF FailBeforeReserving, ReserveProviderCall, DeferRefused,
       CredentialUnavailable, CompleteDescription, HandleProviderFailure,
       CleanUp, workerOnly, history
  <2>2. \/ worker' = [worker EXCEPT ![w] = Idle]
        \/ \E phase \in {"ack", "cleanup", "reserved", "refused"} : Goto(w, phase)
    BY <1>1 DEF FailBeforeReserving, ReserveProviderCall, DeferRefused,
       CredentialUnavailable, CompleteDescription, HandleProviderFailure,
       CleanUp, FailDescription, DeferDescription
  <2>3. {"ack", "cleanup", "reserved", "refused"} \subseteq Phase \ {"idle"}
    BY DEF Phase
  <2>4. /\ worker' \in [Workers -> WorkerRecord]
        /\ \A v \in Workers :
             worker'[v].phase # "idle" => worker'[v].photo \in Photos
    BY <1>0, <2>1, <2>2, <2>3, GotoTypes, IdleTypes
  <2> QED
    BY <1>0, <2>1, <2>4 DEF DeliveryOK
<1>2. CASE ConsumeProviderCall(w)
  <2> DEFINE n == job[worker[w].photo].req
             k == [worker[w] EXCEPT !.phase = "paid", !.paid = n]
  <2>1. worker[w].phase # "idle" /\ UNCHANGED <<queue, calls, billed>>
    BY <1>2 DEF ConsumeProviderCall, workerOnly, history
  <2>2. worker[w].photo \in Photos /\ worker[w] \in WorkerRecord
    BY <1>0, <2>1 DEF DeliveryOK
  <2>3. n \in {None} \cup Months
    BY <1>0, <2>2 DEF JobRecord
  <2>4. worker' = [worker EXCEPT ![w] = k] \/ Goto(w, "ack")
    BY <1>2, <2>2 DEF ConsumeProviderCall
  <2> HIDE DEF n
  <2>5. k \in WorkerRecord /\ k.photo \in Photos
    BY <2>2, <2>3 DEF WorkerRecord, Phase
  <2> HIDE DEF k
  <2>6. "ack" \in Phase \ {"idle"}
    BY DEF Phase
  <2>7. CASE worker' = [worker EXCEPT ![w] = k]
    BY <1>0, <2>1, <2>5, <2>7 DEF DeliveryOK
  <2>8. CASE Goto(w, "ack")
    BY <1>0, <2>1, <2>6, <2>8, GotoTypes DEF DeliveryOK
  <2> QED
    BY <2>4, <2>7, <2>8
<1>3. CASE CallAny(w)
  <2>1. PICK answer \in Answer \ {"None"}, cost \in Costs : CallProvider(w, answer, cost)
    BY <1>3 DEF CallAny
  <2> DEFINE k == [worker[w] EXCEPT !.phase = "answered", !.answer = answer,
                                    !.cost = cost]
             n == worker[w].paid
  <2>2. /\ worker[w].photo \in Photos /\ worker[w] \in WorkerRecord
        /\ n \in {None} \cup Months
    BY <1>0, <2>1 DEF DeliveryOK, CallProvider, WorkerRecord
  <2>3. worker' = [worker EXCEPT ![w] = k] /\ queue' = queue
    BY <2>1, <2>2 DEF CallProvider
  <2>4. k \in WorkerRecord /\ k.photo \in Photos
    BY <2>2 DEF WorkerRecord, Phase
  <2>5. calls' \in [Months -> Nat] /\ billed' \in [Months -> Nat]
    <3>1. /\ calls' = [calls EXCEPT ![n] = @ + 1]
          /\ billed' = [billed EXCEPT ![n] = @ + cost]
      BY <2>1 DEF CallProvider
    <3>2. cost \in Nat
      BY CostsAssumption, LimitsAssumption
    <3>3. calls \in [Months -> Nat] /\ billed \in [Months -> Nat]
      BY <1>0 DEF DeliveryOK
    <3> HIDE DEF n
    <3>4. CASE n \in Months
      BY <3>1, <3>2, <3>3, <3>4
    <3>5. CASE n \notin Months
      <4>1. calls' = calls /\ billed' = billed
        BY <3>1, <3>3, <3>5
      <4> QED
        BY <3>3, <4>1
    <3> QED
      BY <3>4, <3>5
  <2> HIDE DEF k
  <2> QED
    BY <1>0, <2>3, <2>4, <2>5 DEF DeliveryOK
<1>4. CASE Acknowledge(w)
  <2>1. /\ worker' = [worker EXCEPT ![w] = Idle] /\ queue' \subseteq queue
        /\ UNCHANGED <<calls, billed>>
    BY <1>4 DEF Acknowledge, history
  <2> QED
    BY <1>0, <2>1, IdleTypes DEF DeliveryOK
<1> QED
  BY <1>1, <1>2, <1>3, <1>4 DEF WorkerStep

LEMMA StepKeepsDelivery ==
  ASSUME IInv, [Next]_vars
  PROVE  DeliveryOK'
<1>0. DeliveryOK
  BY PartsFromTypes
<1>1. ASSUME NEW p \in Photos, Client(p)
      PROVE  DeliveryOK'
  BY <1>1, ClientKeepsDelivery
<1>2. ASSUME NEW w \in Workers, NEW m \in queue, Claim(w, m)
      PROVE  DeliveryOK'
  BY <1>2, ClaimKeepsDelivery
<1>3. ASSUME NEW w \in Workers, WorkerStep(w)
      PROVE  DeliveryOK'
  BY <1>3, WorkerKeepsDelivery
<1>4. ASSUME NEW w \in Workers, Crash(w)
      PROVE  DeliveryOK'
  <2>1. /\ worker' = [worker EXCEPT ![w] = Idle] /\ queue' \subseteq queue
        /\ UNCHANGED <<calls, billed>>
    BY <1>4 DEF Crash, history
  <2> QED
    BY <1>0, <2>1, IdleTypes DEF DeliveryOK
<1>5. ASSUME NEW w \in Workers, NEW p \in Photos, NEW arrives \in BOOLEAN,
             Sweep(w, p, arrives)
      PROVE  DeliveryOK'
  <2>1. UNCHANGED queue \/ DispatchAfterCommit(p)
    BY <1>5 DEF Sweep, SweepRow, DispatchAfterCommit
  <2>2. queue' \subseteq [id : Messages, photo : Photos]
    BY <1>0, <2>1, SendTypes DEF DeliveryOK
  <2> QED
    BY <1>0, <1>5, <2>2 DEF Sweep, DeliveryOK, history
<1>6. CASE Time
  BY <1>0, <1>6 DEF Time, LeaseExpires, UploadLapses, MonthTurns, history, DeliveryOK
<1>7. CASE UNCHANGED vars
  BY <1>0, <1>7 DEF vars, history, DeliveryOK
<1> QED
  BY <1>1, <1>2, <1>3, <1>4, <1>5, <1>6, <1>7 DEF Next

-----------------------------------------------------------------------------
LEMMA InitialBooks ==
  ASSUME Init
  PROVE  IInv
<1>1. /\ NoJob \in JobRecord /\ NoJob.req = None /\ NoJob.cost = None
      /\ EmptyRow \in LedgerRow
      /\ EmptyRow.reqReserved = 0 /\ EmptyRow.reqProcessed = 0
      /\ EmptyRow.usdReserved = 0 /\ EmptyRow.usdProcessed = 0
  BY BoundsAssumption
     DEF NoJob, JobRecord, JobStatus, FailureCode, EmptyRow, LedgerRow
<1>2. /\ books \in Books
      /\ \A p \in Photos : job[p] = NoJob
      /\ \A m \in Months : ledger[m] = EmptyRow
  BY <1>1 DEF Init, books, Books
<1>3. ASSUME NEW m \in Months
      PROVE  /\ Cardinality(ReqHolders(Photos, job, m)) = 0
             /\ Cardinality(CostHolders(Photos, job, m)) = 0
  <2>1. m # None
    BY BoundsAssumption DEF Months, None
  <2>2. ReqHolders(Photos, job, m) = {} /\ CostHolders(Photos, job, m) = {}
    BY <1>1, <1>2, <2>1 DEF ReqHolders, CostHolders
  <2> QED
    BY <2>2, FS_EmptySet
<1>4. ReservationsBackedIn(books) /\ CeilingsHoldIn(books)
  BY <1>1, <1>2, <1>3, LimitsAssumption
     DEF ReservationsBackedIn, CeilingsHoldIn, books
<1>5. SessionsOK
  BY BoundsAssumption DEF Init, SessionsOK, Months, UploadStatus
<1>6. DeliveryOK
  <2>1. Idle \in WorkerRecord /\ Idle.phase = "idle"
    BY DEF Idle, WorkerRecord, Phase, Answer
  <2> QED
    BY <2>1 DEF Init, DeliveryOK
<1> QED
  BY <1>2, <1>4, <1>5, <1>6, TypesFromParts DEF BooksOK, IInv

LEMMA StepKeepsIInv ==
  ASSUME IInv, [Next]_vars
  PROVE  IInv'
<1>1. BooksOK(books)' /\ SessionsOK' /\ DeliveryOK'
  BY StepKeepsBooks, StepKeepsSessions, StepKeepsDelivery
<1>2. TypeOK'
  BY <1>1 DEF BooksOK, Books, books, SessionsOK, DeliveryOK, TypeOK
<1> QED
  BY <1>1, <1>2 DEF IInv

(* The inductive invariant holds in every reachable state. *)
THEOREM Inductive == Spec => []IInv
<1>1. Init => IInv
  BY InitialBooks
<1>2. IInv /\ [Next]_vars => IInv'
  BY StepKeepsIInv
<1> QED
  BY <1>1, <1>2, PTL DEF Spec

(* Every variable keeps its type: in particular no settlement, release or  *)
(* reversal ever makes an amount of the ledger negative.                   *)
THEOREM TypeCorrect == Spec => []TypeOK
<1>1. IInv => TypeOK
  BY DEF IInv
<1> QED
  BY <1>1, Inductive, PTL

(* The monthly call and USD ceilings hold in every month, for any number   *)
(* of photos and workers and any order of what they do.                    *)
THEOREM CeilingsAlwaysHold == Spec => []CeilingsHold
<1>1. IInv => CeilingsHold
  BY DEF IInv, BooksOK, CeilingsHold
<1> QED
  BY <1>1, Inductive, PTL

(* What a job holds is always still reserved in the month it was taken in. *)
THEOREM ReservationsAlwaysBacked == Spec => []ReservationsBacked
<1>1. IInv => ReservationsBacked
  BY DEF IInv, BooksOK, ReservationsBacked
<1> QED
  BY <1>1, Inductive, PTL

-----------------------------------------------------------------------------
(* The circuit.  Books in which no circuit is open that the ledger has     *)
(* closed: every operator but OpenCircuit leads from such books to such.   *)
Shut(b) == BooksOK(b) /\ \A m \in Months : b.ledger[m].open => ledger[m].open

LEMMA SameRowsShut ==
  ASSUME NEW b, Shut(b), NEW c, BooksOK(c),
         \A m \in Months : c.ledger[m].open = b.ledger[m].open
  PROVE  Shut(c)
BY DEF Shut

LEMMA RowOfBooks ==
  ASSUME NEW b, BooksOK(b)
  PROVE  /\ b.jobs \in [Photos -> JobRecord] /\ b.ledger \in [Months -> LedgerRow]
         /\ \A m \in Months : b.ledger[m] \in LedgerRow
BY DEF BooksOK, Books

LEMMA ReleaseShut ==
  ASSUME NEW b, Shut(b), NEW S \in SUBSET Photos
  PROVE  Shut(Release(S, b))
<1> DEFINE c == Release(S, b)
<1>1. BooksOK(b) /\ BooksOK(c)
  BY ReleaseKeepsBooks DEF Shut
<1>2. ASSUME NEW m \in Months
      PROVE  c.ledger[m].open = b.ledger[m].open
  <2> DEFINE row == b.ledger[m]
             x == Lesser(row.reqReserved, Cardinality(ReqHolders(S, b.jobs, m)))
             y == Lesser(row.usdReserved,
                         Reservation * Cardinality(CostHolders(S, b.jobs, m)))
             r == [row EXCEPT !.reqReserved = @ - x, !.usdReserved = @ - y]
  <2>1. c.ledger[m] = r /\ row \in LedgerRow
    BY <1>1, RowOfBooks DEF Release
  <2> HIDE DEF x, y, row, c
  <2>2. r.open = row.open
    BY <2>1 DEF LedgerRow
  <2> QED
    BY <2>1, <2>2 DEF row
<1> HIDE DEF c
<1>3. Shut(c)
  BY <1>1, <1>2, SameRowsShut
<1> QED
  BY <1>3 DEF c

LEMMA SettleShut ==
  ASSUME NEW b, Shut(b), NEW p \in Photos, NEW called \in BOOLEAN,
         NEW charge \in 0 .. Reservation
  PROVE  /\ Shut(SettleRequest(p, called, b))
         /\ Shut(SettleCost(p, called, charge, b))
<1>0. /\ BooksOK(b) /\ b.ledger \in [Months -> LedgerRow]
      /\ BooksOK(SettleRequest(p, called, b))
      /\ BooksOK(SettleCost(p, called, charge, b))
  BY SettleRequestKeepsBooks, SettleCostKeepsBooks, RowOfBooks DEF Shut
<1>1. Shut(SettleRequest(p, called, b))
  <2> DEFINE c == SettleRequest(p, called, b)
             n == b.jobs[p].req
             x == Lesser(b.ledger[n].reqReserved, 1)
             y == IF called THEN x ELSE 0
             row == b.ledger[n]
             r == [row EXCEPT !.reqReserved = @ - x, !.reqProcessed = @ + y]
  <2>1. c.ledger = b.ledger \/ c.ledger = [b.ledger EXCEPT ![n] = r]
    BY DEF SettleRequest
  <2>2. BooksOK(c)
    BY <1>0
  <2> HIDE DEF c, n, x, y
  <2>3. n \in Months => r.open = b.ledger[n].open
    <3>1. n \in Months => row \in LedgerRow
      BY <1>0
    <3> HIDE DEF row
    <3>2. n \in Months => r.open = row.open
      BY <3>1 DEF LedgerRow
    <3> QED
      BY <3>2 DEF row
  <2> HIDE DEF r
  <2>4. \A m \in Months : c.ledger[m].open = b.ledger[m].open
    BY <1>0, <2>1, <2>3
  <2>5. Shut(c)
    BY <2>2, <2>4, SameRowsShut
  <2> QED
    BY <2>5 DEF c
<1>2. Shut(SettleCost(p, called, charge, b))
  <2> DEFINE c == SettleCost(p, called, charge, b)
             j == b.jobs[p]
             x(m) == IF m = j.cost THEN Lesser(b.ledger[m].usdReserved, Reservation)
                                   ELSE 0
             y(m) == IF m = j.cost /\ called THEN charge ELSE 0
             z(m) == IF m = j.used /\ ~called
                       THEN Lesser(b.ledger[m].reqProcessed, 1) ELSE 0
             r(m) == [b.ledger[m] EXCEPT !.usdReserved = @ - x(m),
                                         !.usdProcessed = @ + y(m),
                                         !.reqProcessed = @ - z(m)]
  <2>1. c.ledger = b.ledger \/ c.ledger = [m \in Months |-> r(m)]
    BY DEF SettleCost
  <2>2. BooksOK(c)
    BY <1>0
  <2> HIDE DEF c, x, y, z
  <2>3. ASSUME NEW m \in Months
        PROVE  r(m).open = b.ledger[m].open
    <3>1. b.ledger[m] \in LedgerRow
      BY <1>0
    <3> QED
      BY <3>1 DEF LedgerRow
  <2> HIDE DEF r
  <2>4. \A m \in Months : c.ledger[m].open = b.ledger[m].open
    BY <2>1, <2>3
  <2>5. Shut(c)
    BY <2>2, <2>4, SameRowsShut
  <2> QED
    BY <2>5 DEF c
<1> QED
  BY <1>1, <1>2

LEMMA ClosingShut ==
  ASSUME NEW b, Shut(b), NEW p \in Photos
  PROVE  /\ \A called \in BOOLEAN, charge \in 0 .. Reservation :
              Shut(Settle(p, called, charge, b))
         /\ Shut(SettleByCall(p, b))
<1>1. ASSUME NEW called \in BOOLEAN, NEW charge \in 0 .. Reservation
      PROVE  Shut(Settle(p, called, charge, b))
  BY SettleShut DEF Settle
<1>2. CallStarted(b.jobs[p]) \in BOOLEAN /\ Reservation \in 0 .. Reservation
  BY LimitsAssumption DEF CallStarted
<1> QED
  BY <1>1, <1>2 DEF SettleByCall

(* A change of one job leaves the ledger as it is. *)
LEMMA JobChangeShut ==
  ASSUME NEW b, Shut(b), NEW p \in Photos
  PROVE  /\ \A k : BooksOK(WithJob(p, k, b)) => Shut(WithJob(p, k, b))
         /\ \A status, code, due :
              BooksOK(Park(p, status, code, due, b)) => Shut(Park(p, status, code, due, b))
         /\ Shut(ClearStaging(p, b))
         /\ Shut(ResetAttempts(p, b))
         /\ Shut(Promoted(p, b))
         /\ \A value \in BOOLEAN : Shut(SetBlocked(p, value, b))
<1>1. /\ BooksOK(ClearStaging(p, b)) /\ BooksOK(ResetAttempts(p, b))
      /\ BooksOK(Promoted(p, b)) /\ \A value \in BOOLEAN : BooksOK(SetBlocked(p, value, b))
  BY JobChangesKeepBooks, PromotedKeepsBooks DEF Shut
<1>2. \A k : WithJob(p, k, b).ledger = b.ledger
  BY DEF WithJob
<1>3. Promoted(p, b).ledger = b.ledger
  BY DEF Promoted
<1>4. ASSUME NEW k, BooksOK(WithJob(p, k, b))
      PROVE  Shut(WithJob(p, k, b))
  BY <1>2, <1>4, SameRowsShut
<1>5. Shut(Promoted(p, b))
  BY <1>1, <1>3, SameRowsShut
<1> QED
  BY <1>1, <1>4, <1>5 DEF Park, ClearStaging, ResetAttempts, SetBlocked

LEMMA CloseShut ==
  ASSUME NEW b, Shut(b), NEW now \in Months
  PROVE  Shut(CloseCircuit(now, b))
<1> DEFINE old == b.ledger[now]
           row == [old EXCEPT !.open = FALSE]
           c == CloseCircuit(now, b)
<1>1. BooksOK(c) /\ BooksOK(b) /\ old \in LedgerRow /\ b.ledger \in [Months -> LedgerRow]
  BY CircuitKeepsBooks, RowOfBooks DEF Shut
<1>2. c.ledger = [b.ledger EXCEPT ![now] = row]
  BY DEF CloseCircuit, WithRow
<1> HIDE DEF c, old
<1>3. row.open = FALSE
  BY <1>1 DEF LedgerRow
<1> HIDE DEF row
<1>4. \A m \in Months : c.ledger[m].open => b.ledger[m].open
  BY <1>1, <1>2, <1>3
<1>5. Shut(c)
  BY <1>1, <1>4 DEF Shut
<1> QED
  BY <1>5 DEF c

(* A reservation neither opens nor closes a circuit, and needs a closed    *)
(* one (_reserve_description_usage).                                       *)
LEMMA ReserveShut ==
  ASSUME NEW b, Shut(b), NEW p \in Photos, NEW now \in Months
  PROVE  /\ Shut(Reserve(p, now, b))
         /\ CanReserve(p, now, b) => ~Reserve(p, now, b).ledger[now].open
<1> DEFINE a == IF OneMatches(p, now, b) THEN Release({p}, b) ELSE b
           row == a.ledger[now]
           r == [row EXCEPT !.exists = TRUE]
           c == Realigned(p, now, b)
           full == c.ledger[now]
           s == [full EXCEPT !.reqReserved = @ + 1, !.usdReserved = @ + Reservation]
           d == Reserve(p, now, b)
<1>0. BooksOK(b) /\ BooksOK(d)
  BY ReserveKeepsBooks DEF Shut
<1>1. CASE BothMatch(p, now, b)
  <2>1. b.ledger[now].open \in BOOLEAN
    BY <1>0, RowOfBooks DEF LedgerRow
  <2>2. Shut(SetBlocked(p, b.ledger[now].open, b))
    BY <2>1, JobChangeShut
  <2>3. SetBlocked(p, b.ledger[now].open, b).ledger = b.ledger
    BY DEF SetBlocked, WithJob
  <2> QED
    BY <1>1, <2>2, <2>3 DEF Reserve, CanReserve
<1>2. CASE ~BothMatch(p, now, b)
  <2>1. Shut(a) /\ BooksOK(c)
    BY <1>0, <1>2, ReleaseShut, RealignedKeepsBooks
  <2>2. c.ledger = [a.ledger EXCEPT ![now] = r]
    BY DEF Realigned, WithRow
  <2>3. /\ a.ledger \in [Months -> LedgerRow] /\ row \in LedgerRow
        /\ c.ledger \in [Months -> LedgerRow] /\ full \in LedgerRow
    BY <2>1, RowOfBooks DEF Shut
  <2> HIDE DEF a
  <2>4. r.open = row.open
    <3> HIDE DEF row
    <3> QED
      BY <2>3 DEF LedgerRow
  <2> HIDE DEF r
  <2>5. \A m \in Months : c.ledger[m].open = a.ledger[m].open
    <3> HIDE DEF c
    <3> QED
      BY <2>2, <2>3, <2>4
  <2>6. \/ d.ledger = c.ledger
        \/ d.ledger = [c.ledger EXCEPT ![now] = s]
    BY <1>2 DEF Reserve, Reserved, SetBlocked, WithJob
  <2>7. CanReserve(p, now, b) => ~c.ledger[now].open
    BY <1>2 DEF CanReserve
  <2> HIDE DEF c, d
  <2>8. s.open = full.open
    <3> HIDE DEF full
    <3> QED
      BY <2>3 DEF LedgerRow
  <2> HIDE DEF s
  <2>9. \A m \in Months : d.ledger[m].open = c.ledger[m].open
    BY <2>3, <2>6, <2>8
  <2>10. Shut(d)
    BY <1>0, <2>1, <2>5, <2>9 DEF Shut
  <2> QED
    BY <2>7, <2>9, <2>10 DEF d
<1> QED
  BY <1>1, <1>2

(* No circuit is opened by a step ... *)
StaysShut == \A m \in Months : ledger'[m].open => ledger[m].open

LEMMA CommitShut ==
  ASSUME NEW b, Shut(b), Commit(b)
  PROVE  StaysShut
BY DEF Shut, Commit, StaysShut

LEMMA ParkShut ==
  ASSUME NEW b, Shut(b), NEW p \in Photos
  PROVE  /\ Shut(Park(p, "Preparing", "None", 0, b))
         /\ Shut(Park(p, "Queued", "None", 0, b))
         /\ Shut(Park(p, "Queued", "Failure", 0, b))
         /\ Shut(Park(p, "Failed", "Failure", 0, b))
         /\ Shut(Park(p, "Succeeded", "None", 0, b))
         /\ Shut(Park(p, "Cancelled", "Skipped", 0, b))
         /\ Shut(Park(p, "Cancelled", "MediaTrashed", 0, b))
         /\ Shut(Park(p, "Cancelled", "StalePreview", 0, b))
         /\ \A m \in Months :
              /\ Shut(Park(p, "DeferredQuota", "CircuitOpen", m + 1, b))
              /\ Shut(Park(p, "DeferredQuota", "MonthlyLimit", m + 1, b))
<1>1. BooksOK(b)
  BY DEF Shut
<1>2. \A status, code, due :
        BooksOK(Park(p, status, code, due, b)) => Shut(Park(p, status, code, due, b))
  BY JobChangeShut
<1> QED
  BY <1>1, <1>2, ParkKeepsBooks

LEMMA ClientShut ==
  ASSUME IInv, NEW p \in Photos, Client(p)
  PROVE  StaysShut
<1>0. Shut(books) /\ month \in Months
  BY DEF IInv, TypeOK, Shut, books
<1>1. CASE UNCHANGED ledger
  BY <1>1 DEF StaysShut
<1>2. CASE CreateUploadPlan(p)
  <2> DEFINE b == ReleaseLapsed(Reopened(p))
             r == Reserve(p, month, b)
  <2>1. Shut(b)
    <3>1. Shut(Release({p}, books))
      BY <1>0, ReleaseShut
    <3>2. Shut(Park(p, "Preparing", "None", 0, Release({p}, books)))
      BY <3>1, ParkShut
    <3>3. Shut(Reopened(p))
      BY <1>0, <3>2, JobChangeShut DEF Reopened
    <3>4. {q \in LapsedPhotos : Reopened(p).jobs[q].status = "Preparing"} \in SUBSET Photos
      BY DEF LapsedPhotos
    <3> QED
      BY <3>3, <3>4, ReleaseShut DEF ReleaseLapsed
  <2>2. Commit(b) \/ Commit(DeferredPlan(p, r)) \/ Commit(r)
    BY <1>2 DEF CreateUploadPlan
  <2> HIDE DEF b
  <2>3. Shut(r)
    BY <1>0, <2>1, ReserveShut
  <2> HIDE DEF r
  <2>4. Shut(DeferredPlan(p, r))
    BY <1>0, <2>3, ParkShut DEF DeferredPlan
  <2> QED
    BY <2>1, <2>2, <2>3, <2>4, CommitShut
<1>3. ASSUME NEW n \in UploadIds, GetUploadSession(p, n)
      PROVE  StaysShut
  <2>1. Shut(Release({p}, books))
    BY <1>0, ReleaseShut
  <2>2. Commit(Release({p}, books)) \/ Commit(books)
    BY <1>3 DEF GetUploadSession
  <2> QED
    BY <1>0, <2>1, <2>2, CommitShut
<1>4. ASSUME NEW n \in UploadIds, CompleteUpload(p, n)
      PROVE  StaysShut
  BY <1>4 DEF CompleteUpload, Commit, Park, WithJob, books, StaysShut
<1>5. ASSUME NEW n \in UploadIds, CancelUpload(p, n)
      PROVE  StaysShut
  <2>1. Shut(Release({p}, ClearStaging(p, books)))
    BY <1>0, JobChangeShut, ReleaseShut
  <2> QED
    BY <1>5, <2>1, CommitShut DEF CancelUpload
<1>6. CASE RetryJob(p)
  <2> DEFINE b == IF job[p].status = "DeferredQuota" THEN ResetAttempts(p, books)
                                                     ELSE books
             c == IF ledger[month].open THEN Promoted(p, CloseCircuit(month, b))
                                        ELSE b
  <2>1. Commit(Park(p, "Preparing", "None", 0, ClearStaging(p, Release({p}, c))))
    BY <1>6 DEF RetryJob
  <2>2. Shut(b)
    BY <1>0, JobChangeShut
  <2> HIDE DEF b
  <2>3. Shut(CloseCircuit(month, b))
    BY <1>0, <2>2, CloseShut
  <2>4. Shut(c)
    BY <2>2, <2>3, JobChangeShut
  <2> HIDE DEF c
  <2>5. Shut(Release({p}, c))
    BY <2>4, ReleaseShut
  <2>6. Shut(ClearStaging(p, Release({p}, c)))
    BY <2>5, JobChangeShut
  <2> QED
    BY <2>1, <2>6, ParkShut, CommitShut
<1>7. CASE CancelJob(p) \/ Trash(p)
  <2> DEFINE b == SettleByCall(p, books)
  <2>1. \/ Commit(Park(p, "Cancelled", "Skipped", 0, b))
        \/ Commit(Park(p, "Cancelled", "MediaTrashed", 0, b))
        \/ Commit(books)
    BY <1>7 DEF CancelJob, Trash
  <2>2. Shut(b)
    BY <1>0, ClosingShut
  <2> HIDE DEF b
  <2> QED
    BY <1>0, <2>1, <2>2, ParkShut, CommitShut
<1> QED
  BY <1>1, <1>2, <1>3, <1>4, <1>5, <1>6, <1>7
     DEF Client, PrepareEnrichment, PutPreview, Restore

LEMMA ClaimShut ==
  ASSUME IInv, NEW w \in Workers, NEW m \in queue, Claim(w, m)
  PROVE  StaysShut
<1> DEFINE p == m.photo
           a == ChargeLostCall(p)
           b == CloseExhausted(p, a)
<1>0. Shut(books) /\ p \in Photos
  BY DEF IInv, TypeOK, Shut, books
<1> HIDE DEF p
<1>1. Reservation \in 0 .. Reservation /\ {p} \in SUBSET Photos
  BY <1>0, LimitsAssumption
<1>2. Shut(a)
  BY <1>0, <1>1, SettleShut DEF ChargeLostCall
<1> HIDE DEF a
<1>3. Shut(b)
  BY <1>0, <1>1, <1>2, SettleShut, ReleaseShut DEF CloseExhausted
<1> HIDE DEF b
<1>4. CASE ClaimDiscards(w, m)
  <2>1. \/ Commit(Release({p}, Park(p, "Failed", "Failure", 0, books)))
        \/ Commit(Release({p}, Park(p, "Cancelled", "StalePreview", 0, books)))
        \/ Commit(Park(p, "Succeeded", "None", 0, Release({p}, books)))
    BY <1>4 DEF ClaimDiscards, p
  <2>2. /\ Shut(Park(p, "Failed", "Failure", 0, books))
        /\ Shut(Park(p, "Cancelled", "StalePreview", 0, books))
        /\ Shut(Release({p}, books))
    BY <1>0, <1>1, ParkShut, ReleaseShut
  <2>3. /\ Shut(Release({p}, Park(p, "Failed", "Failure", 0, books)))
        /\ Shut(Release({p}, Park(p, "Cancelled", "StalePreview", 0, books)))
        /\ Shut(Park(p, "Succeeded", "None", 0, Release({p}, books)))
    BY <1>0, <1>1, <2>2, ParkShut, ReleaseShut
  <2> QED
    BY <2>1, <2>3, CommitShut
<1>5. CASE ClaimIgnores(w, m) \/ ClaimAgain(w, m)
  BY <1>5 DEF ClaimIgnores, ClaimAgain, StaysShut
<1>6. CASE ClaimExhausted(w, m) \/ ClaimStarts(w, m)
  <2>1. ledger' = a.ledger \/ ledger' = b.ledger
    BY <1>6 DEF ClaimExhausted, ClaimStarts, Commit, WithJob, a, b, p
  <2> QED
    BY <1>2, <1>3, <2>1 DEF Shut, StaysShut
<1> QED
  BY <1>4, <1>5, <1>6 DEF Claim

(* ... but by the delivery of a call's refusal, for the current month.     *)
Opens(w) ==
  /\ \A m \in Months : ledger'[m].open => ledger[m].open \/ m = month
  /\ worker'[w].phase \in {"idle", "ack", "cleanup"}

LEMMA FailShut ==
  ASSUME IInv, NEW w \in Workers, worker[w].phase # "idle", NEW answer,
         NEW called \in BOOLEAN,
         FailDescription(w, answer, called) \/ DeferDescription(w, called)
  PROVE  StaysShut \/ Opens(w)
<1> DEFINE p == worker[w].photo
           b == Settle(p, called, Reservation, books)
           c == OpenCircuit(month, b)
<1>0. /\ Shut(books) /\ p \in Photos /\ month \in Months
      /\ worker \in [Workers -> WorkerRecord] /\ worker[w] \in WorkerRecord
  BY DEF IInv, TypeOK, Shut, books
<1>1. Reservation \in 0 .. Reservation
  BY LimitsAssumption
<1>2. Shut(b)
  BY <1>0, <1>1, ClosingShut
<1>3. c.ledger = [b.ledger EXCEPT ![month] =
                    [b.ledger[month] EXCEPT !.open = @ \/ b.ledger[month].exists]]
  BY DEF OpenCircuit, WithRow
<1>4. /\ ledger' \in {ledger, b.ledger, c.ledger}
      /\ Goto(w, "ack") \/ Goto(w, "cleanup") \/ worker' = [worker EXCEPT ![w] = Idle]
  <2>1. CASE FailDescription(w, answer, called)
    BY <2>1 DEF FailDescription, Commit, Park, WithJob
  <2>2. CASE DeferDescription(w, called)
    BY <2>2 DEF DeferDescription, Commit, Park, WithJob
  <2> QED
    BY <2>1, <2>2
<1>5. worker'[w].phase \in {"idle", "ack", "cleanup"}
  <2> DEFINE r == worker[w]
             s(phase) == [r EXCEPT !.phase = phase]
  <2>1. \/ worker' = [worker EXCEPT ![w] = s("ack")]
        \/ worker' = [worker EXCEPT ![w] = s("cleanup")]
        \/ worker' = [worker EXCEPT ![w] = Idle]
    BY <1>0, <1>4 DEF Goto
  <2>2. \A phase : s(phase).phase = phase
    <3> HIDE DEF r
    <3> QED
      BY <1>0 DEF WorkerRecord, r
  <2> HIDE DEF s
  <2> QED
    BY <1>0, <2>1, <2>2 DEF Idle
<1>6. b.ledger \in [Months -> LedgerRow]
  BY <1>2, RowOfBooks DEF Shut
<1> HIDE DEF b, c, p
<1>7. \A m \in Months \ {month} : c.ledger[m] = b.ledger[m]
  BY <1>0, <1>3, <1>6
<1>8. \A m \in Months : ledger'[m].open => ledger[m].open \/ m = month
  BY <1>2, <1>4, <1>7 DEF Shut
<1> QED
  BY <1>5, <1>8 DEF Opens

LEMMA StepShut ==
  ASSUME IInv, [Next]_vars
  PROVE  StaysShut \/ \E w \in Workers : Opens(w)
<1>0. Shut(books) /\ month \in Months
  BY DEF IInv, TypeOK, Shut, books
<1>1. CASE UNCHANGED ledger
  BY <1>1 DEF StaysShut
<1>2. ASSUME NEW w \in Workers, NEW answer, NEW called \in BOOLEAN,
             worker[w].phase # "idle",
             FailDescription(w, answer, called) \/ DeferDescription(w, called)
      PROVE  StaysShut \/ Opens(w)
  BY <1>2, FailShut
<1>3. ASSUME NEW w \in Workers, ReserveProviderCall(w) \/ ConsumeProviderCall(w)
      PROVE  StaysShut
  <2> DEFINE p == worker[w].photo
             b == SettleRequest(p, TRUE, books)
             r == Reserve(p, month, books)
  <2>1. p \in Photos
    BY <1>3 DEF IInv, TypeOK, ReserveProviderCall, ConsumeProviderCall
  <2>2. Shut(b) /\ Shut(r)
    <3>1. Reservation \in 0 .. Reservation
      BY LimitsAssumption
    <3> QED
      BY <1>0, <2>1, <3>1, SettleShut, ReserveShut
  <2>3. ledger' \in {ledger, b.ledger, r.ledger}
    BY <1>3 DEF ReserveProviderCall, ConsumeProviderCall, Commit, WithJob
  <2> HIDE DEF b, r
  <2> QED
    BY <2>2, <2>3 DEF Shut, StaysShut
<1>4. ASSUME NEW w \in Workers, CompleteDescription(w)
      PROVE  StaysShut
  <2> DEFINE p == worker[w].photo
             b == Settle(p, TRUE, Reservation, books)
             c == Settle(p, TRUE, worker[w].cost, books)
  <2>1. p \in Photos /\ worker[w].cost \in 0 .. Reservation
        /\ Reservation \in 0 .. Reservation
    <3>0. worker[w] \in WorkerRecord /\ p \in Photos
      BY <1>4 DEF IInv, TypeOK, CompleteDescription
    <3>1. worker[w].cost \in {0} \cup Costs
      BY <3>0 DEF WorkerRecord
    <3>2. \A x \in {0} \cup Costs : x \in 0 .. Reservation
      BY LimitsAssumption, CostsAssumption
    <3>3. Reservation \in 0 .. Reservation
      BY LimitsAssumption
    <3> QED
      BY <3>0, <3>1, <3>2, <3>3
  <2>2. Shut(b) /\ Shut(c)
    BY <1>0, <2>1, ClosingShut
  <2>3. ledger' \in {ledger, b.ledger, c.ledger}
    BY <1>4 DEF CompleteDescription, Commit, Park, WithJob
  <2> HIDE DEF b, c
  <2> QED
    BY <2>2, <2>3 DEF Shut, StaysShut
<1>5. ASSUME NEW w \in Workers, NEW p \in Photos, NEW arrives \in BOOLEAN,
             Sweep(w, p, arrives)
      PROVE  StaysShut
  <2>1. Shut(Release({p}, books)) /\ Shut(SettleByCall(p, books))
    BY <1>0, ReleaseShut, ClosingShut
  <2>2. ledger' \in {Release({p}, books).ledger, SettleByCall(p, books).ledger, ledger}
    BY <1>5 DEF Sweep, SweepRow, Requeued, Commit, Park, WithJob, ClearStaging,
       ResetAttempts, books
  <2> QED
    BY <2>1, <2>2 DEF Shut, StaysShut
<1>6. ASSUME NEW w \in Workers, WorkerStep(w)
      PROVE  StaysShut \/ Opens(w)
  <2>1. CASE CallAny(w) \/ CleanUp(w) \/ Acknowledge(w)
    <3>1. UNCHANGED ledger
      BY <2>1 DEF CallAny, CallProvider, CleanUp, Acknowledge, serverVars
    <3> QED
      BY <3>1 DEF StaysShut
  <2>2. CASE FailBeforeReserving(w) \/ DeferRefused(w) \/ CredentialUnavailable(w)
              \/ HandleProviderFailure(w)
    <3>1. /\ worker[w].phase # "idle"
          /\ \/ \E answer : FailDescription(w, answer, FALSE)
             \/ \E answer : FailDescription(w, answer, TRUE)
             \/ DeferDescription(w, FALSE)
             \/ DeferDescription(w, TRUE)
      BY <2>2 DEF FailBeforeReserving, DeferRefused, CredentialUnavailable,
         HandleProviderFailure
    <3> QED
      BY <1>2, <3>1
  <2> QED
    BY <1>3, <1>4, <1>6, <2>1, <2>2 DEF WorkerStep
<1>7. CASE Time \/ UNCHANGED vars
  BY <1>1, <1>7 DEF Time, LeaseExpires, UploadLapses, MonthTurns, serverVars, vars
<1>8. ASSUME NEW w \in Workers, Crash(w)
      PROVE  StaysShut
  BY <1>8 DEF Crash, serverVars, StaysShut
<1> QED
  BY <1>5, <1>6, <1>7, <1>8, ClientShut, ClaimShut DEF Next

LEMMA GotoRecord ==
  ASSUME IInv, NEW w \in Workers, NEW phase, Goto(w, phase)
  PROVE  /\ worker'[w].phase = phase /\ worker'[w].cost = worker[w].cost
         /\ worker'[w].msg = worker[w].msg /\ worker'[w].photo = worker[w].photo
         /\ \A v \in Workers \ {w} : worker'[v] = worker[v]
<1>1. worker \in [Workers -> WorkerRecord] /\ worker[w] \in WorkerRecord
  BY DEF IInv, TypeOK
<1> DEFINE j == worker[w]
           k == [j EXCEPT !.phase = phase]
<1>2. worker' = [worker EXCEPT ![w] = k]
  BY <1>1 DEF Goto
<1>3. k.phase = phase /\ k.cost = j.cost /\ k.msg = j.msg /\ k.photo = j.photo
  <2> HIDE DEF j
  <2> QED
    BY <1>1 DEF WorkerRecord
<1> HIDE DEF k
<1> QED
  BY <1>1, <1>2, <1>3

(* Who is about to call: the delivery that reserved its call and saw the   *)
(* circuit closed.                                                         *)
Calling == {"reserved", "paid"}

LEMMA CallingMoves ==
  ASSUME IInv, [Next]_vars, NEW w \in Workers, worker'[w].phase \in Calling
  PROVE  \/ worker[w].phase \in Calling
         \/ /\ ReserveProviderCall(w) /\ Claimed(w)
            /\ CanReserve(worker[w].photo, month, books)
<1>0. worker \in [Workers -> WorkerRecord]
  BY DEF IInv, TypeOK
<1>1. CASE worker'[w] = worker[w]
  BY <1>1
<1>2. ASSUME NEW v \in Workers, NEW k, worker' = [worker EXCEPT ![v] = k],
             k.phase \notin Calling
      PROVE  worker[w].phase \in Calling
  BY <1>0, <1>2
<1>3. ASSUME NEW v \in Workers, NEW phase \in {"ack", "cleanup", "refused"},
             Goto(v, phase)
      PROVE  worker[w].phase \in Calling
  <2>1. /\ worker'[v].phase = phase
        /\ \A u \in Workers \ {v} : worker'[u] = worker[u]
    BY <1>3, GotoRecord
  <2> QED
    BY <2>1 DEF Calling
<1>4. ASSUME NEW v \in Workers, worker' = [worker EXCEPT ![v] = Idle]
      PROVE  worker[w].phase \in Calling
  BY <1>2, <1>4 DEF Idle, Calling
<1>5. ASSUME NEW v \in Workers, NEW m, NEW phase \in {"ack", "claimed"}, NEW up,
             Take(v, m, phase, up)
      PROVE  worker[w].phase \in Calling
  <2> DEFINE k == [Idle EXCEPT !.phase = phase, !.msg = m.id, !.photo = m.photo, !.up = up]
  <2>1. worker' = [worker EXCEPT ![v] = k]
    BY <1>5 DEF Take
  <2>2. k.phase = phase
    BY DEF Idle
  <2> HIDE DEF k
  <2> QED
    BY <1>2, <2>1, <2>2 DEF Calling
<1>6. ASSUME NEW p \in Photos, Client(p)
      PROVE  worker'[w] = worker[w]
  BY <1>6 DEF Client, PrepareEnrichment, CreateUploadPlan, PutPreview,
     GetUploadSession, CompleteUpload, CancelUpload, RetryJob, CancelJob,
     Trash, Restore
<1>7. CASE Time \/ UNCHANGED vars
  BY <1>1, <1>7 DEF Time, LeaseExpires, UploadLapses, MonthTurns, vars
<1>8. ASSUME NEW v \in Workers, NEW m \in queue, Claim(v, m)
      PROVE  worker[w].phase \in Calling
  BY <1>5, <1>8 DEF Claim, ClaimDiscards, ClaimIgnores, ClaimExhausted, ClaimStarts,
     ClaimAgain
<1>9. ASSUME NEW v \in Workers, NEW p, NEW arrives, Sweep(v, p, arrives)
      PROVE  worker'[w] = worker[w]
  BY <1>9 DEF Sweep
<1>10. ASSUME NEW v \in Workers, NEW answer, NEW called,
              FailDescription(v, answer, called) \/ DeferDescription(v, called)
       PROVE  worker[w].phase \in Calling
  BY <1>3, <1>4, <1>10 DEF FailDescription, DeferDescription
<1>11. ASSUME NEW v \in Workers, ConsumeProviderCall(v)
       PROVE  worker[w].phase \in Calling
  <2>1. CASE Goto(v, "ack")
    BY <1>3, <2>1
  <2>2. CASE ~Goto(v, "ack")
    <3>1. worker' = [worker EXCEPT ![v].phase = "paid",
                                   ![v].paid = job[worker[v].photo].req]
      BY <1>11, <2>2 DEF ConsumeProviderCall
    <3>2. \A u \in Workers \ {v} : worker'[u] = worker[u]
      BY <1>0, <3>1
    <3>3. worker[v].phase \in Calling
      BY <1>11 DEF ConsumeProviderCall, Calling
    <3> QED
      BY <3>2, <3>3
  <2> QED
    BY <2>1, <2>2
<1>12. ASSUME NEW v \in Workers, CallAny(v)
       PROVE  worker[w].phase \in Calling
  <2>1. PICK answer, cost :
          worker' = [worker EXCEPT ![v].phase = "answered", ![v].answer = answer,
                                   ![v].cost = cost]
    BY <1>12 DEF CallAny, CallProvider
  <2>2. worker[v].phase \in Calling
    BY <1>12 DEF CallAny, CallProvider, Calling
  <2> QED
    BY <1>0, <2>1, <2>2
<1>13. ASSUME NEW v \in Workers, CompleteDescription(v) \/ CleanUp(v)
       PROVE  worker[w].phase \in Calling
  BY <1>3, <1>13 DEF CompleteDescription, CleanUp
<1>14. ASSUME NEW v \in Workers, Acknowledge(v) \/ Crash(v)
       PROVE  worker[w].phase \in Calling
  BY <1>4, <1>14 DEF Acknowledge, Crash
<1>15. ASSUME NEW v \in Workers, ReserveProviderCall(v)
       PROVE  \/ worker[w].phase \in Calling
              \/ /\ v = w /\ Claimed(w)
                 /\ CanReserve(worker[w].photo, month, books)
  <2>1. CASE Goto(v, "refused")
    BY <1>3, <2>1
  <2>2. CASE ~Goto(v, "refused")
    <3>1. /\ Claimed(v) /\ Goto(v, "reserved")
          /\ CanReserve(worker[v].photo, month, books)
      BY <1>15, <2>2 DEF ReserveProviderCall
    <3>2. \A u \in Workers \ {v} : worker'[u] = worker[u]
      BY <3>1, GotoRecord
    <3> QED
      BY <3>1, <3>2
  <2> QED
    BY <2>1, <2>2
<1>16. ASSUME NEW v \in Workers, WorkerStep(v)
       PROVE  \/ worker[w].phase \in Calling
              \/ /\ ReserveProviderCall(w) /\ Claimed(w)
                 /\ CanReserve(worker[w].photo, month, books)
  <2>1. CASE FailBeforeReserving(v) \/ DeferRefused(v) \/ CredentialUnavailable(v)
              \/ HandleProviderFailure(v)
    <3>1. \/ \E answer, called : FailDescription(v, answer, called)
          \/ \E called : DeferDescription(v, called)
      BY <2>1 DEF FailBeforeReserving, DeferRefused, CredentialUnavailable,
         HandleProviderFailure
    <3> QED
      BY <1>10, <3>1
  <2> QED
    BY <1>11, <1>12, <1>13, <1>14, <1>15, <1>16, <2>1 DEF WorkerStep
<1> QED
  BY <1>1, <1>6, <1>7, <1>8, <1>9, <1>14, <1>16 DEF Next

-----------------------------------------------------------------------------
(* With one delivery at a time nobody opens the circuit between the        *)
(* reservation and the call, and a circuit is only ever opened for the     *)
(* current month, so the calendar does not turn into an open one.          *)
OneWorker == \A v, w \in Workers : v = w

CircuitInv ==
  /\ IInv
  /\ \A m \in Months : m > month => ~ledger[m].open
  /\ \A w \in Workers : worker[w].phase \in Calling => ~ledger[month].open

LEMMA StepKeepsCircuit ==
  ASSUME OneWorker, CircuitInv, [Next]_vars
  PROVE  CircuitInv'
<1>0. /\ IInv /\ month \in Months /\ IInv' /\ month' \in Months
  BY StepKeepsIInv DEF CircuitInv, IInv, TypeOK
<1>1. \A m \in Months : ledger'[m].open => ledger[m].open \/ m = month
  BY <1>0, StepShut DEF StaysShut, Opens
<1>2. CASE MonthTurns
  <2>1. month' = month + 1 /\ ledger' = ledger /\ worker' = worker
    BY <1>2 DEF MonthTurns, serverVars
  <2>2. \A m \in Months : m > month' => m > month
    BY <1>0, <2>1 DEF Months
  <2>3. month' > month
    BY <1>0, <2>1 DEF Months
  <2>4. ~ledger[month'].open
    BY <1>0, <2>3 DEF CircuitInv
  <2> QED
    BY <1>0, <2>1, <2>2, <2>4 DEF CircuitInv
<1>3. CASE month' = month
  <2>1. \A m \in Months : m > month' => ~ledger'[m].open
    <3>1. ~(month > month)
      BY <1>0 DEF Months
    <3> QED
      BY <1>1, <1>3, <3>1 DEF CircuitInv
  <2>2. ASSUME NEW w \in Workers, worker'[w].phase \in Calling
        PROVE  ~ledger'[month].open
    <3>1. ~ \E v \in Workers : Opens(v)
      BY <2>2 DEF Opens, OneWorker, Calling
    <3>2. ledger'[month].open => ledger[month].open
      BY <1>0, <3>1, StepShut DEF StaysShut
    <3>3. CASE worker[w].phase \in Calling
      BY <1>0, <3>2, <3>3 DEF CircuitInv
    <3>4. CASE worker[w].phase \notin Calling
      <4> DEFINE p == worker[w].photo
                 r == Reserve(p, month, books)
      <4>1. ReserveProviderCall(w) /\ Claimed(w) /\ CanReserve(p, month, books)
        BY <1>0, <2>2, <3>4, CallingMoves
      <4>2. p \in Photos /\ Shut(books)
        BY <1>0, <4>1 DEF ReserveProviderCall, IInv, TypeOK, Shut, books
      <4>3. ~r.ledger[month].open
        BY <1>0, <4>1, <4>2, ReserveShut
      <4>4. ledger' = r.ledger
        BY <4>1 DEF ReserveProviderCall, Commit
      <4> QED
        BY <4>3, <4>4
    <3> QED
      BY <3>3, <3>4
  <2> QED
    BY <1>0, <1>3, <2>1, <2>2 DEF CircuitInv
<1>4. MonthTurns \/ month' = month
  BY DEF Next, Client, PrepareEnrichment, CreateUploadPlan, PutPreview,
     GetUploadSession, CompleteUpload, CancelUpload, RetryJob, CancelJob,
     Trash, Restore, Claim, WorkerStep, FailBeforeReserving, ReserveProviderCall,
     DeferRefused, ConsumeProviderCall, CredentialUnavailable, CallAny,
     CallProvider, CompleteDescription, HandleProviderFailure, CleanUp,
     Acknowledge, Crash, Sweep, Time, LeaseExpires, UploadLapses, workerOnly, vars
<1> QED
  BY <1>2, <1>3, <1>4

(* No call is opened in a month whose circuit is open, whatever the client *)
(* does and however the calendar turns between the reservation and the     *)
(* call, when the deployment runs one delivery at a time                   *)
(* (reserve_description_provider_call, consume_description_provider_call;  *)
(* reservedConcurrency: 1 of the worker).                                  *)
THEOREM CircuitAlwaysStopsCalls == OneWorker => (Spec => CircuitStopsCalls)
<1> SUFFICES ASSUME OneWorker
             PROVE  Spec => CircuitStopsCalls
  OBVIOUS
<1>1. Init => CircuitInv
  <2> SUFFICES ASSUME Init
               PROVE  CircuitInv
    OBVIOUS
  <2>1. IInv
    BY InitialBooks
  <2>2. \A m \in Months : ~ledger[m].open
    BY DEF Init, EmptyRow
  <2>3. \A w \in Workers : worker[w].phase \notin Calling
    BY DEF Init, Idle, Calling
  <2> QED
    BY <2>1, <2>2, <2>3 DEF CircuitInv
<1>2. CircuitInv /\ [Next]_vars => CircuitInv'
  BY StepKeepsCircuit
<1>3. CircuitInv /\ [Next]_vars => [calls' # calls => ~ledger[month].open]_vars
  <2> SUFFICES ASSUME CircuitInv, [Next]_vars, calls' # calls
               PROVE  ~ledger[month].open
    OBVIOUS
  <2>1. \E w \in Workers : CallAny(w)
    BY DEF Next, Client, PrepareEnrichment, CreateUploadPlan, PutPreview,
       GetUploadSession, CompleteUpload, CancelUpload, RetryJob, CancelJob,
       Trash, Restore, Claim, WorkerStep, FailBeforeReserving, ReserveProviderCall,
       DeferRefused, ConsumeProviderCall, CredentialUnavailable,
       CompleteDescription, HandleProviderFailure, CleanUp,
       Acknowledge, Crash, Sweep, Time, LeaseExpires, UploadLapses, MonthTurns,
       history, vars
  <2> QED
    BY <2>1 DEF CircuitInv, CallAny, CallProvider, Calling
<1> QED
  BY <1>1, <1>2, <1>3, PTL DEF Spec, CircuitStopsCalls

=============================================================================
