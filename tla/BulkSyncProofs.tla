---------------------------- MODULE BulkSyncProofs ----------------------------
(***************************************************************************)
(* Theorems of the outbox (Spec of ManifestOutbox), of the sync that sends *)
(* its batches as an import (BulkSpec), and of a source that is removed    *)
(* and added again (PatientSpec), for any files, revisions, request sizes, *)
(* workers, imports, attempts and removals: types, an inventory that       *)
(* claims nothing the service lacks, one active import, staged rows that   *)
(* are there when they are merged, the refinement of Mirror by the first   *)
(* two, and files that are sent again to a source that came back.          *)
(*                                                                         *)
(* KnownIsStored and the refinement depend on what the outbox promises: an *)
(* item is pending once and a key is used once (QueueOK), a request that   *)
(* may still reach the service is pending or has its record (NetOK), and a *)
(* pending entry is ahead of the service's copy until its record says that *)
(* it was applied (EntriesOK). So a request that comes late or again finds *)
(* its record, and one that is executed moves the copy forward. BulkInv    *)
(* adds how the item, its import, the lease of a worker and the rows it    *)
(* holds agree, most of all that the batches an import stands for stay     *)
(* pending and unsent while it may be merged (ItemOK, ImportOK, MergeOK).  *)
(* LifeInv adds when the outbox and the network hold nothing of before a   *)
(* removal.                                                                *)
(***************************************************************************)
EXTENDS BulkSync, SourceLifecycle, FiniteSetTheorems, TLAPS

-----------------------------------------------------------------------------
(* Sets as sequences, and sequences in parts. *)

LEMMA ImageFinite ==
  ASSUME NEW f, IsFiniteSet(DOMAIN f)
  PROVE  IsFiniteSet({f[x] : x \in DOMAIN f})
<1> DEFINE T == {f[x] : x \in DOMAIN f}
           g == [x \in DOMAIN f |-> f[x]]
<1>1. g \in Surjection(DOMAIN f, T)
  BY DEF Surjection
<1> QED  BY <1>1, FS_Surjection

LEMMA LeastNumber ==
  ASSUME NEW T, T \subseteq Nat, T # {}
  PROVE  \E k \in T : \A y \in T : k <= y
<1> DEFINE R == {ss \in Nat \X Nat : ss[1] < ss[2]}
<1>1. OpToRel(<, Nat) = R
  BY DEF OpToRel
<1>2. IsWellFoundedOn(R, Nat)
  BY <1>1, NatLessThanWellFounded
<1>3. \A x, y \in Nat : x < y => <<x, y>> \in R
  OBVIOUS
<1> HIDE DEF R
<1>4. PICK k \in T : \A y \in T : ~(<<y, k>> \in R)
  BY <1>2, WFMin
<1>5. \A y \in T : ~(y < k)
  BY <1>3, <1>4
<1> QED  BY <1>5

\* SetToSeq lists every element of a finite set once.
LEMMA SetToSeqLists ==
  ASSUME NEW S, IsFiniteSet(S)
  PROVE  /\ SetToSeq(S) \in [1..Cardinality(S) -> S]
         /\ SetToSeq(S) \in Seq(S)
         /\ Len(SetToSeq(S)) = Cardinality(S)
         /\ Cardinality(S) \in Nat
         /\ \A a, b \in 1..Cardinality(S) : SetToSeq(S)[a] = SetToSeq(S)[b] => a = b
         /\ \A x \in S : \E a \in 1..Cardinality(S) : SetToSeq(S)[a] = x
<1> DEFINE n == Cardinality(S)
           s == SetToSeq(S)
<1>1. n \in Nat /\ ExistsBijection(1..n, S)
  BY FS_CardinalityType
<1>2. PICK f : f \in Bijection(1..n, S)
  BY <1>1 DEF ExistsBijection
<1>3. f \in [1..n -> S] /\ IsInjective(f)
  BY <1>2 DEF Bijection, Injection
<1>4. s \in [1..n -> S] /\ IsInjective(s)
  BY <1>3 DEF SetToSeq
<1>5. IsFiniteSet(1..n) /\ Cardinality(1..n) = n
  BY <1>1, FS_Interval
<1>6. s \in Injection(1..n, S)
  BY <1>4 DEF Injection
<1>7. s \in Surjection(1..n, S)
  BY <1>5, <1>6, FS_Injection
<1>8. s \in Seq(S) /\ Len(s) = n
  BY <1>1, <1>4
<1>9. \A x \in S : \E a \in 1..n : s[a] = x
  BY <1>7 DEF Surjection
<1>10. \A a, b \in 1..n : s[a] = s[b] => a = b
  BY <1>4 DEF IsInjective
<1> QED  BY <1>1, <1>4, <1>8, <1>9, <1>10

LEMMA DivBounds ==
  ASSUME NEW a \in Nat, NEW d \in Nat \ {0}
  PROVE  /\ a \div d \in Nat
         /\ (a \div d) * d <= a
         /\ a < (a \div d) * d + d
  BY Z3

LEMMA DivMonotone ==
  ASSUME NEW a \in Nat, NEW b \in Nat, NEW d \in Nat \ {0}, a < b
  PROVE  (a \div d) + 1 <= (b + d - 1) \div d
<1> DEFINE p == a \div d
           q == (b + d - 1) \div d
<1>1. p \in Nat /\ p * d <= a
  BY DivBounds
<1>2. q \in Nat /\ b + d - 1 < q * d + d
  <2>1. b + d - 1 \in Nat
    OBVIOUS
  <2> QED  BY <2>1, DivBounds
<1>3. b - 1 < q * d
  BY <1>2
<1>4. p * d < q * d
  BY <1>1, <1>2, <1>3
<1> HIDE DEF p, q
<1>5. p < q
  <2>1. SUFFICES ASSUME q <= p PROVE FALSE
    BY <1>1, <1>2
  <2>2. q * d <= p * d
    BY <2>1, <1>1, <1>2, Z3
  <2> QED  BY <2>2, <1>1, <1>2, <1>4
<1>6. p + 1 <= q
  BY <1>5, <1>1, <1>2
<1> QED  BY <1>6 DEF p, q

\* Every entry of the sequence is in the part that its place belongs to.
LEMMA CutCovers ==
  ASSUME NEW S, NEW s \in Seq(S), NEW size \in Nat \ {0}
  PROVE  /\ Len(Cut(s, size)) \in Nat
         /\ DOMAIN Cut(s, size) = 1..Len(Cut(s, size))
         /\ \A n \in DOMAIN Cut(s, size) : Cut(s, size)[n] \subseteq S
         /\ \A n \in DOMAIN Cut(s, size) : \A x \in Cut(s, size)[n] :
              \E m \in 1..Len(s) : s[m] = x /\ (m - 1) \div size = n - 1
         /\ \A m \in 1..Len(s) : \E n \in DOMAIN Cut(s, size) : s[m] \in Cut(s, size)[n]
<1> DEFINE N == (Len(s) + size - 1) \div size
           P(n) == {s[m] : m \in {k \in DOMAIN s : (k - 1) \div size = n - 1}}
           c == Cut(s, size)
<1>1. Len(s) \in Nat /\ DOMAIN s = 1..Len(s)
  OBVIOUS
<1>2. N \in Nat
  <2>1. Len(s) + size - 1 \in Nat
    BY <1>1
  <2> QED  BY <2>1, DivBounds
<1>3. c = [n \in 1..N |-> P(n)]
  BY DEF Cut
<1> HIDE DEF c, N
<1>4. DOMAIN c = 1..N /\ Len(c) = N
  BY <1>2, <1>3
<1>5. \A n \in 1..N : c[n] = P(n)
  BY <1>3
<1>6. \A m \in 1..Len(s) : \E n \in 1..N : s[m] \in P(n)
  <2> SUFFICES ASSUME NEW m \in 1..Len(s) PROVE \E n \in 1..N : s[m] \in P(n)
    OBVIOUS
  <2> DEFINE j == (m - 1) \div size
  <2>1. m - 1 \in Nat /\ m - 1 < Len(s)
    BY <1>1
  <2>2. j \in Nat /\ j + 1 <= N
    BY <2>1, <1>1, DivBounds, DivMonotone DEF N
  <2> HIDE DEF j
  <2>3. j + 1 \in 1..N
    BY <2>2, <1>2
  <2>4. m \in DOMAIN s /\ (m - 1) \div size = (j + 1) - 1
    BY <2>2, <1>1 DEF j
  <2>5. s[m] \in P(j + 1)
    BY <2>4
  <2> QED  BY <2>3, <2>5
<1>7. \A n \in 1..N : \A x \in P(n) : \E m \in 1..Len(s) : s[m] = x /\ (m - 1) \div size = n - 1
  BY <1>1
<1>8. \A n \in 1..N : P(n) \subseteq S
  BY <1>1
<1>9. \A n \in DOMAIN c : c[n] \subseteq S
  BY <1>4, <1>5, <1>8
<1>10. \A n \in DOMAIN c : \A x \in c[n] : \E m \in 1..Len(s) : s[m] = x /\ (m - 1) \div size = n - 1
  <2> SUFFICES ASSUME NEW n \in DOMAIN c, NEW x \in c[n]
               PROVE  \E m \in 1..Len(s) : s[m] = x /\ (m - 1) \div size = n - 1
    OBVIOUS
  <2>1. n \in 1..N /\ x \in P(n)
    BY <1>4, <1>5
  <2> QED  BY <2>1, <1>7
<1>11. \A m \in 1..Len(s) : \E n \in DOMAIN c : s[m] \in c[n]
  BY <1>4, <1>5, <1>6
<1> QED  BY <1>2, <1>4, <1>9, <1>10, <1>11 DEF c

\* No two parts share an entry when the sequence lists none twice.
LEMMA CutSeparates ==
  ASSUME NEW S, NEW s \in Seq(S), NEW size \in Nat \ {0},
         \A a, b \in 1..Len(s) : s[a] = s[b] => a = b
  PROVE  \A n, m \in DOMAIN Cut(s, size) : \A x :
           x \in Cut(s, size)[n] /\ x \in Cut(s, size)[m] => n = m
<1> SUFFICES ASSUME NEW n \in DOMAIN Cut(s, size), NEW m \in DOMAIN Cut(s, size), NEW x,
                    x \in Cut(s, size)[n], x \in Cut(s, size)[m]
             PROVE  n = m
  OBVIOUS
<1>1. PICK a \in 1..Len(s) : s[a] = x /\ (a - 1) \div size = n - 1
  BY CutCovers
<1>2. PICK b \in 1..Len(s) : s[b] = x /\ (b - 1) \div size = m - 1
  BY CutCovers
<1>3. a = b
  BY <1>1, <1>2
<1>4. n \in Int /\ m \in Int
  BY CutCovers
<1> QED  BY <1>1, <1>2, <1>3, <1>4

\* What a batch is split into holds its entries, each in one part.
LEMMA PartsOfBatch ==
  ASSUME NEW b, IsFiniteSet(b.entries), BatchSize \in Nat \ {0}
  PROVE  /\ Len(Parts(b)) \in Nat
         /\ DOMAIN Parts(b) = 1..Len(Parts(b))
         /\ \A n \in DOMAIN Parts(b) : Parts(b)[n] \subseteq b.entries
         /\ \A n, m \in DOMAIN Parts(b) : \A x : x \in Parts(b)[n] /\ x \in Parts(b)[m] => n = m
         /\ \A x \in b.entries : \E n \in DOMAIN Parts(b) : x \in Parts(b)[n]
<1> DEFINE s == SetToSeq(b.entries)
           c == Cut(s, BatchSize)
<1>1. /\ s \in Seq(b.entries) /\ Len(s) = Cardinality(b.entries)
      /\ \A k, m \in 1..Len(s) : s[k] = s[m] => k = m
      /\ \A x \in b.entries : \E k \in 1..Len(s) : s[k] = x
  BY SetToSeqLists
<1> HIDE DEF s
<1>2. /\ Len(c) \in Nat /\ DOMAIN c = 1..Len(c)
      /\ \A n \in DOMAIN c : c[n] \subseteq b.entries
      /\ \A m \in 1..Len(s) : \E n \in DOMAIN c : s[m] \in c[n]
  <2>1. Len(c) \in Nat /\ DOMAIN c = 1..Len(c)
    BY <1>1, CutCovers
  <2>2. \A n \in DOMAIN c : c[n] \subseteq b.entries
    BY <1>1, CutCovers
  <2>3. \A m \in 1..Len(s) : \E n \in DOMAIN c : s[m] \in c[n]
    BY <1>1, CutCovers
  <2> QED  BY <2>1, <2>2, <2>3
<1>3. \A n, m \in DOMAIN c : \A x : x \in c[n] /\ x \in c[m] => n = m
  BY <1>1, CutSeparates
<1>4. Parts(b) = c
  BY DEF Parts, s
<1> HIDE DEF c
<1>5. \A x \in b.entries : \E n \in DOMAIN c : x \in c[n]
  BY <1>1, <1>2
<1> QED  BY <1>2, <1>3, <1>4, <1>5

-----------------------------------------------------------------------------
(* The outbox and the service. *)

Content(e) == IF e.op = "Upsert" THEN e.rev ELSE Absent
Refused(e) == e.op = "Upsert" /\ <<e.item, e.rev>> \in Rejected

(* The batches of a queue have keys of their own, and no item twice. *)
KeysOnce(queue) == \A b, c \in queue : b.key = c.key => b = c
ItemsOnce(queue) ==
  \A b, c \in queue : \A d \in b.entries, e \in c.entries :
    d.item = e.item => b = c /\ d = e

QueueOK ==
  /\ IsFiniteSet(outbox) /\ \A b \in outbox : IsFiniteSet(b.entries)
  /\ KeysOnce(outbox) /\ ItemsOnce(outbox)
  /\ \A b \in outbox \cup net : b.key \in 1..keys
  /\ sending # Idle => sending \in outbox

(* A request that may still reach the service is pending or was answered. *)
NetOK ==
  \A b \in net : /\ b \in outbox \/ b.key \in DOMAIN answer
                 /\ ~Oversized(b)

(* The service's copy is a state of the file, or stands for none of them
   since its source was removed. *)
Copied(i) == server[i].at \in 1..Len(hist[i]) /\ server[i].content = hist[i][server[i].at]

CopyOK == \A i \in Items : Len(hist[i]) >= 1 /\ (Copied(i) \/ server[i].at = 0)

(* A pending entry, before the service has applied it and after. *)
Ahead(e) ==
  /\ server[e.item].at < e.at
  /\ known[e.item] = server[e.item].content
Applied(e) == server[e.item].at = e.at

EntryOK(b, e) ==
  /\ e.at \in 1..Len(hist[e.item]) /\ hist[e.item][e.at] = Content(e)
  /\ Ahead(e) \/ Applied(e)
  /\ Refused(e) => Ahead(e)
  /\ b.key \in DOMAIN answer =>
       IF e.item \in answer[b.key] THEN Ahead(e) ELSE Applied(e)

EntriesOK == \A b \in outbox : \A e \in b.entries : EntryOK(b, e)

OutboxInv == TypeOK /\ QueueOK /\ NetOK /\ CopyOK /\ EntriesOK /\ KnownIsStored

USE OutboxAssumption

LEMMA InitOutbox == Init => OutboxInv
<1> SUFFICES ASSUME Init PROVE OutboxInv
  OBVIOUS
<1>1. IsFiniteSet(outbox)
  BY FS_EmptySet DEF Init
<1>2. TypeOK
  <2>1. hist \in [Items -> Seq(Revisions \cup {Absent})]
    BY DEF Init
  <2>2. server \in [Items -> Row]
    BY DEF Init, Row
  <2>3. DOMAIN answer = {}
    BY DEF Init
  <2>4. failures \in Seq(SUBSET Entry)
    BY DEF Init
  <2> QED  BY <2>1, <2>2, <2>3, <2>4 DEF Init, TypeOK
<1>3. QueueOK
  BY <1>1 DEF Init, QueueOK, KeysOnce, ItemsOnce
<1>4. CopyOK
  BY DEF Init, CopyOK, Copied
<1>5. NetOK /\ EntriesOK /\ KnownIsStored
  BY DEF Init, NetOK, EntriesOK, KnownIsStored
<1> QED  BY <1>2, <1>3, <1>4, <1>5 DEF OutboxInv

\* A longer history says the same of its beginning.
LEMMA EditKeeps ==
  ASSUME NEW i \in Items, NEW c \in Revisions \cup {Absent}, OutboxInv, Edit(i, c)
  PROVE  OutboxInv'
<1> USE DEF Edit, OutboxInv, cliVars, serviceVars
<1>1. hist[i] \in Seq(Revisions \cup {Absent})
  BY DEF TypeOK
<1>2. /\ Append(hist[i], c) \in Seq(Revisions \cup {Absent})
      /\ Len(Append(hist[i], c)) = Len(hist[i]) + 1
      /\ \A n \in 1..Len(hist[i]) : Append(hist[i], c)[n] = hist[i][n]
  BY <1>1
<1>3. \A j \in Items : /\ hist'[j] \in Seq(Revisions \cup {Absent})
                       /\ \A n \in 1..Len(hist[j]) :
                            n \in 1..Len(hist'[j]) /\ hist'[j][n] = hist[j][n]
  <2> SUFFICES ASSUME NEW j \in Items
               PROVE  /\ hist'[j] \in Seq(Revisions \cup {Absent})
                      /\ \A n \in 1..Len(hist[j]) :
                           n \in 1..Len(hist'[j]) /\ hist'[j][n] = hist[j][n]
    OBVIOUS
  <2>1. hist'[j] = IF j = i THEN Append(hist[i], c) ELSE hist[j]
    BY DEF TypeOK
  <2>2. CASE j = i
    BY <1>1, <1>2, <2>1, <2>2
  <2>3. CASE j # i
    BY <2>1, <2>3 DEF TypeOK
  <2> QED  BY <2>2, <2>3
<1>4. TypeOK'
  <2>1. hist' \in [Items -> Seq(Revisions \cup {Absent})]
    BY <1>3 DEF TypeOK
  <2> QED  BY <2>1 DEF TypeOK
<1>5. QueueOK' /\ NetOK' /\ KnownIsStored'
  BY DEF QueueOK, NetOK, KnownIsStored, KeysOnce, ItemsOnce, Oversized, Pending
<1>6. CopyOK'
  <2> SUFFICES ASSUME NEW j \in Items
               PROVE  Len(hist'[j]) >= 1 /\ (Copied(j)' \/ server[j].at = 0)
    BY DEF CopyOK
  <2>1. Len(hist[j]) >= 1 /\ (Copied(j) \/ server[j].at = 0)
    BY DEF CopyOK
  <2>2. 1 \in 1..Len(hist'[j]) /\ Len(hist'[j]) \in Nat
    BY <1>3, <2>1 DEF TypeOK
  <2>3. Copied(j) => Copied(j)'
    BY <1>3 DEF Copied
  <2> QED  BY <2>1, <2>2, <2>3
<1>7. EntriesOK'
  <2> SUFFICES ASSUME NEW b \in outbox, NEW e \in b.entries
               PROVE  EntryOK(b, e)'
    BY DEF EntriesOK
  <2>1. EntryOK(b, e) /\ e.item \in Items
    BY DEF EntriesOK, TypeOK, Request, Entry
  <2>2. e.at \in 1..Len(hist'[e.item]) /\ hist'[e.item][e.at] = hist[e.item][e.at]
    BY <1>3, <2>1 DEF EntryOK
  <2> QED  BY <2>1, <2>2 DEF EntryOK, Ahead, Applied, Refused, Content
<1> QED  BY <1>4, <1>5, <1>6, <1>7

LEMMA FirstPending ==
  ASSUME outbox \subseteq Request, outbox # {}
  PROVE  First \in outbox
<1> DEFINE T == {b.key : b \in outbox}
<1>1. T \subseteq Nat /\ T # {}
  BY DEF Request
<1>2. PICK k \in T : \A y \in T : k <= y
  BY <1>1, LeastNumber
<1>3. PICK b \in outbox : b.key = k
  OBVIOUS
<1>4. \A c \in outbox : b.key <= c.key
  BY <1>2, <1>3
<1> QED  BY <1>4 DEF First

LEMMA SendKeeps ==
  ASSUME OutboxInv, Send
  PROVE  OutboxInv'
<1> USE DEF Send, OutboxInv, cliVars, serviceVars
<1>1. First \in outbox
  BY FirstPending DEF TypeOK
<1>2. TypeOK'
  BY <1>1 DEF TypeOK
<1>3. QueueOK'
  BY <1>1 DEF QueueOK, KeysOnce, ItemsOnce
<1>4. NetOK'
  BY <1>1 DEF NetOK, Oversized
<1>5. CopyOK' /\ KnownIsStored'
  BY DEF CopyOK, Copied, KnownIsStored, Pending
<1>6. EntriesOK'
  BY DEF EntriesOK, EntryOK, Ahead, Applied
<1> QED  BY <1>2, <1>3, <1>4, <1>5, <1>6

\* The sync stops waiting, and requests that are on their way may get lost.
LEMMA FewerRequestsKeep ==
  ASSUME OutboxInv,
         sending' \in {sending, Idle}, net' \subseteq net, upgraded' \in BOOLEAN,
         \A b \in net' : upgraded' = upgraded,
         UNCHANGED <<hist, known, outbox, failures, keys, serviceVars, spent>>
  PROVE  OutboxInv'
<1> USE DEF OutboxInv, serviceVars
<1>2. TypeOK'
  BY DEF TypeOK
<1>3. QueueOK'
  BY DEF QueueOK, KeysOnce, ItemsOnce
<1>4. NetOK'
  BY DEF NetOK, Oversized
<1>5. CopyOK' /\ KnownIsStored'
  BY DEF CopyOK, Copied, KnownIsStored, Pending
<1>6. EntriesOK'
  BY DEF EntriesOK, EntryOK, Ahead, Applied
<1> QED  BY <1>2, <1>3, <1>4, <1>5, <1>6

LEMMA DiscardKeeps ==
  ASSUME NEW n \in DOMAIN failures, OutboxInv, Discard(n)
  PROVE  OutboxInv'
<1> USE DEF OutboxInv, Discard, serviceVars
<1>1. failures \in Seq(SUBSET Entry) /\ n \in 1..Len(failures)
  BY DEF TypeOK
<1>2. RemoveAt(failures, n) \in Seq(SUBSET Entry)
  <2>1. SubSeq(failures, 1, n - 1) \in Seq(SUBSET Entry)
    BY <1>1
  <2>2. SubSeq(failures, n + 1, Len(failures)) \in Seq(SUBSET Entry)
    BY <1>1
  <2> QED  BY <2>1, <2>2 DEF RemoveAt
<1>3. TypeOK'
  BY <1>2 DEF TypeOK
<1>4. QueueOK' /\ NetOK' /\ CopyOK' /\ KnownIsStored'
  BY DEF QueueOK, KeysOnce, ItemsOnce, NetOK, Oversized, CopyOK, Copied, KnownIsStored, Pending
<1>5. EntriesOK'
  BY DEF EntriesOK, EntryOK, Ahead, Applied
<1> QED  BY <1>3, <1>4, <1>5

LEMMA ExpireKeeps ==
  ASSUME NEW k \in DOMAIN answer, OutboxInv, Expire(k)
  PROVE  OutboxInv'
<1> USE DEF OutboxInv, Expire, cliVars
<1>1. DOMAIN answer' = DOMAIN answer \ {k} /\ \A j \in DOMAIN answer' : answer'[j] = answer[j]
  OBVIOUS
<1>2. TypeOK'
  BY <1>1 DEF TypeOK
<1>3. QueueOK' /\ CopyOK' /\ KnownIsStored'
  BY DEF QueueOK, KeysOnce, ItemsOnce, CopyOK, Copied, KnownIsStored, Pending
<1>4. NetOK'
  BY <1>1 DEF NetOK, Oversized
<1>5. EntriesOK'
  <2> SUFFICES ASSUME NEW b \in outbox, NEW e \in b.entries
               PROVE  EntryOK(b, e)'
    BY DEF EntriesOK
  <2>1. EntryOK(b, e)
    BY DEF EntriesOK
  <2> QED  BY <1>1, <2>1 DEF EntryOK, Ahead, Applied
<1> QED  BY <1>2, <1>3, <1>4, <1>5

LEMMA StoredRows ==
  ASSUME NEW rows \in [Items -> Row], NEW entries, entries \subseteq Entry,
         \A d, e \in entries : d.item = e.item => d = e
  PROVE  /\ Stored(rows, entries) \in [Items -> Row]
         /\ \A e \in entries : Stored(rows, entries)[e.item] = [content |-> Content(e), at |-> e.at]
         /\ \A i \in Items : (\A e \in entries : e.item # i) => Stored(rows, entries)[i] = rows[i]
<1> DEFINE new == Stored(rows, entries)
<1>1. \A e \in entries : e.item \in Items /\ [content |-> Content(e), at |-> e.at] \in Row
  BY DEF Entry, Row, Content
<1>2. \A e \in entries : new[e.item] = [content |-> Content(e), at |-> e.at]
  <2> SUFFICES ASSUME NEW e \in entries
               PROVE  new[e.item] = [content |-> Content(e), at |-> e.at]
    OBVIOUS
  <2>1. (CHOOSE d \in entries : d.item = e.item) = e
    OBVIOUS
  <2> QED  BY <1>1, <2>1 DEF Stored, Content
<1>3. \A i \in Items : (\A e \in entries : e.item # i) => new[i] = rows[i]
  BY DEF Stored
<1>4. new = [i \in Items |-> new[i]]
  BY DEF Stored
<1> HIDE DEF new
<1>5. \A i \in Items : new[i] \in Row
  <2> SUFFICES ASSUME NEW i \in Items PROVE new[i] \in Row
    OBVIOUS
  <2>1. CASE \E e \in entries : e.item = i
    <3>1. PICK e \in entries : e.item = i
      BY <2>1
    <3>2. new[i] = [content |-> Content(e), at |-> e.at]
      BY <1>2, <3>1
    <3> QED  BY <1>1, <3>2
  <2>2. CASE \A e \in entries : e.item # i
    BY <1>3, <2>2
  <2> QED  BY <2>1, <2>2
<1>6. new \in [Items -> Row]
  BY <1>4, <1>5
<1> QED  BY <1>2, <1>3, <1>6 DEF new

LEMMA KnownRows ==
  ASSUME known \in [Items -> Revisions \cup {Absent}], NEW entries, entries \subseteq Entry,
         \A d, e \in entries : d.item = e.item => d = e
  PROVE  /\ KnownAfter(entries) \in [Items -> Revisions \cup {Absent}]
         /\ \A e \in entries : KnownAfter(entries)[e.item] = Content(e)
         /\ \A i \in Items : (\A e \in entries : e.item # i) => KnownAfter(entries)[i] = known[i]
<1> DEFINE new == KnownAfter(entries)
<1>1. \A e \in entries : e.item \in Items /\ Content(e) \in Revisions \cup {Absent}
  BY DEF Entry, Content
<1>2. \A e \in entries : new[e.item] = Content(e)
  <2> SUFFICES ASSUME NEW e \in entries
               PROVE  new[e.item] = Content(e)
    OBVIOUS
  <2>1. (CHOOSE d \in entries : d.item = e.item) = e
    OBVIOUS
  <2> QED  BY <1>1, <2>1 DEF KnownAfter, Content
<1>3. \A i \in Items : (\A e \in entries : e.item # i) => new[i] = known[i]
  BY DEF KnownAfter
<1>4. new = [i \in Items |-> new[i]]
  BY DEF KnownAfter
<1> HIDE DEF new
<1>5. \A i \in Items : new[i] \in Revisions \cup {Absent}
  BY <1>1, <1>2, <1>3
<1>6. new \in [Items -> Revisions \cup {Absent}]
  BY <1>4, <1>5
<1> QED  BY <1>2, <1>3, <1>6 DEF new

\* What is recorded of one batch says nothing of another.
LEMMA RecordKeeps ==
  ASSUME OutboxInv, NEW b \in net, b.key \notin DOMAIN answer,
         NEW failed, failed \subseteq Items, Record(b, failed)
  PROVE  /\ b \in outbox
         /\ DOMAIN answer' = DOMAIN answer \cup {b.key}
         /\ DOMAIN answer' \subseteq 1..keys
         /\ \A k \in DOMAIN answer' : answer'[k] \subseteq Items
         /\ answer'[b.key] = failed
         /\ \A c \in outbox : c # b =>
              c.key # b.key /\ (c.key \in DOMAIN answer' =>
                                  c.key \in DOMAIN answer /\ answer'[c.key] = answer[c.key])
<1>1. b \in outbox
  BY DEF OutboxInv, NetOK
<1>2. answer' = [k \in DOMAIN answer \cup {b.key} |-> IF k = b.key THEN failed ELSE answer[k]]
  BY DEF Record
<1>3. DOMAIN answer' = DOMAIN answer \cup {b.key} /\ answer'[b.key] = failed
  BY <1>2
<1>4. DOMAIN answer' \subseteq 1..keys
  BY <1>1, <1>3 DEF OutboxInv, TypeOK, QueueOK
<1>5. \A k \in DOMAIN answer' : k # b.key => k \in DOMAIN answer /\ answer'[k] = answer[k]
  BY <1>2
<1>6. \A k \in DOMAIN answer' : answer'[k] \subseteq Items
  BY <1>3, <1>5 DEF OutboxInv, TypeOK
<1>7. \A c \in outbox : c # b => c.key # b.key
  BY <1>1 DEF OutboxInv, QueueOK, KeysOnce
<1> QED  BY <1>1, <1>3, <1>4, <1>5, <1>6, <1>7

LEMMA ExecuteKeeps ==
  ASSUME NEW b \in net, OutboxInv, Execute(b)
  PROVE  OutboxInv'
<1> USE DEF OutboxInv, cliVars
<1> DEFINE rejected == {e \in b.entries : e.op = "Upsert" /\ <<e.item, e.rev>> \in Rejected}
           accepted == b.entries \ rejected
           failed   == {e.item : e \in rejected}
<1>1. /\ b.key \notin DOMAIN answer
      /\ server' = Stored(server, accepted) /\ Record(b, failed)
      /\ UNCHANGED <<hist, cliVars, net, spent>>
  BY DEF Execute
<1>2. b \in Request /\ b.entries \subseteq Entry
  BY DEF TypeOK, Request
<1>3. failed \subseteq Items
  BY <1>2 DEF Entry
<1>4. rejected \subseteq b.entries /\ \A e \in b.entries : Refused(e) <=> e \in rejected
  BY DEF Refused
<1> HIDE DEF rejected
<1>5. /\ b \in outbox
      /\ DOMAIN answer' = DOMAIN answer \cup {b.key}
      /\ DOMAIN answer' \subseteq 1..keys
      /\ \A k \in DOMAIN answer' : answer'[k] \subseteq Items
      /\ answer'[b.key] = failed
      /\ \A c \in outbox : c # b =>
           c.key # b.key /\ (c.key \in DOMAIN answer' =>
                               c.key \in DOMAIN answer /\ answer'[c.key] = answer[c.key])
  BY <1>1, <1>3, RecordKeeps
<1>6. \A d, e \in b.entries : d.item = e.item => d = e
  BY <1>5 DEF QueueOK, ItemsOnce
<1>7. /\ server' \in [Items -> Row]
      /\ \A e \in accepted : server'[e.item] = [content |-> Content(e), at |-> e.at]
      /\ \A i \in Items : (\A e \in accepted : e.item # i) => server'[i] = server[i]
  <2>1. server \in [Items -> Row]
    BY DEF TypeOK
  <2> QED  BY <1>1, <1>2, <1>6, <2>1, StoredRows
<1>8. TypeOK'
  BY <1>1, <1>5, <1>7 DEF TypeOK
<1>9. QueueOK'
  BY <1>1 DEF QueueOK, KeysOnce, ItemsOnce
<1>10. NetOK'
  BY <1>1, <1>5 DEF NetOK, Oversized
<1>11. CopyOK'
  <2> SUFFICES ASSUME NEW i \in Items
               PROVE  Copied(i)' \/ server'[i].at = 0
    BY <1>1 DEF CopyOK
  <2>1. CASE \E e \in accepted : e.item = i
    <3>1. PICK e \in accepted : e.item = i
      BY <2>1
    <3>2. EntryOK(b, e)
      BY <1>5 DEF EntriesOK
    <3>3. server'[i] = [content |-> Content(e), at |-> e.at]
      BY <1>7, <3>1
    <3>4. server'[i].at = e.at /\ server'[i].content = Content(e)
      BY <3>3
    <3> QED  BY <1>1, <3>1, <3>2, <3>4 DEF EntryOK, Copied
  <2>2. CASE ~\E e \in accepted : e.item = i
    BY <1>1, <1>7, <2>2 DEF CopyOK, Copied
  <2> QED  BY <2>1, <2>2
<1>12. EntriesOK'
  <2> SUFFICES ASSUME NEW c \in outbox, NEW e \in c.entries
               PROVE  EntryOK(c, e)'
    BY <1>1 DEF EntriesOK
  <2>1. EntryOK(c, e) /\ e.item \in Items
    BY DEF EntriesOK, TypeOK, Request, Entry
  <2>2. CASE c = b /\ e \in accepted
    <3>1. server'[e.item].at = e.at
      <4>1. server'[e.item] = [content |-> Content(e), at |-> e.at]
        BY <1>7, <2>2
      <4> QED  BY <4>1
    <3>2. e.item \notin failed
      BY <1>4, <1>6, <2>2
    <3>3. ~Refused(e)
      BY <1>4, <2>2
    <3> QED  BY <1>1, <1>5, <2>1, <2>2, <3>1, <3>2, <3>3 DEF EntryOK, Applied, Refused, Content
  <2>3. CASE c = b /\ e \in rejected
    <3>1. Ahead(e)
      BY <1>4, <2>1, <2>3 DEF EntryOK
    <3>2. \A d \in accepted : d.item # e.item
      BY <1>6, <2>3
    <3>3. server'[e.item] = server[e.item]
      BY <1>7, <2>1, <3>2
    <3>4. Ahead(e)'
      BY <1>1, <3>1, <3>3 DEF Ahead
    <3>5. e.item \in failed
      BY <2>3
    <3> QED  BY <1>1, <1>5, <2>1, <2>3, <3>4, <3>5 DEF EntryOK, Refused, Content
  <2>4. CASE c # b
    <3>1. \A d \in accepted : d.item # e.item
      BY <1>5, <2>4 DEF QueueOK, ItemsOnce
    <3>2. server'[e.item] = server[e.item]
      BY <1>7, <2>1, <3>1
    <3>3. (Ahead(e)' <=> Ahead(e)) /\ (Applied(e)' <=> Applied(e))
      BY <1>1, <3>2 DEF Ahead, Applied
    <3> QED  BY <1>1, <1>5, <2>1, <2>4, <3>3 DEF EntryOK, Refused, Content
  <2> QED  BY <2>2, <2>3, <2>4
<1>13. KnownIsStored'
  <2> SUFFICES ASSUME NEW i \in Items, known[i] # server'[i].content
               PROVE  Pending(i)
    BY <1>1 DEF KnownIsStored, Pending
  <2>1. CASE \E e \in accepted : e.item = i
    BY <1>5, <2>1 DEF Pending
  <2>2. CASE ~\E e \in accepted : e.item = i
    BY <1>7, <2>2 DEF KnownIsStored
  <2> QED  BY <2>1, <2>2
<1> QED  BY <1>8, <1>9, <1>10, <1>11, <1>12, <1>13

LEMMA RefuseKeeps ==
  ASSUME NEW b \in net, OutboxInv, Refuse(b)
  PROVE  OutboxInv'
<1> USE DEF OutboxInv, cliVars
<1> DEFINE failed == {e.item : e \in b.entries}
<1>1. /\ b.key \notin DOMAIN answer /\ Record(b, failed)
      /\ \A e \in b.entries : ~Applied(e)
      /\ UNCHANGED <<hist, cliVars, net, server, spent>>
  BY DEF Refuse, Applied
<1>2. failed \subseteq Items
  BY DEF TypeOK, Request, Entry
<1>3. \A e \in b.entries : e.item \in failed
  OBVIOUS
<1> HIDE DEF failed
<1>4. /\ DOMAIN answer' = DOMAIN answer \cup {b.key}
      /\ DOMAIN answer' \subseteq 1..keys
      /\ \A k \in DOMAIN answer' : answer'[k] \subseteq Items
      /\ answer'[b.key] = failed
      /\ \A c \in outbox : c # b =>
           c.key # b.key /\ (c.key \in DOMAIN answer' =>
                               c.key \in DOMAIN answer /\ answer'[c.key] = answer[c.key])
  BY <1>1, <1>2, RecordKeeps
<1>5. TypeOK'
  BY <1>1, <1>4 DEF TypeOK
<1>6. QueueOK' /\ CopyOK' /\ KnownIsStored'
  BY <1>1 DEF QueueOK, KeysOnce, ItemsOnce, CopyOK, Copied, KnownIsStored, Pending
<1>7. NetOK'
  BY <1>1, <1>4 DEF NetOK, Oversized
<1>8. EntriesOK'
  <2> SUFFICES ASSUME NEW c \in outbox, NEW e \in c.entries
               PROVE  EntryOK(c, e)'
    BY <1>1 DEF EntriesOK
  <2>1. EntryOK(c, e)
    BY DEF EntriesOK
  <2>2. (Ahead(e)' <=> Ahead(e)) /\ (Applied(e)' <=> Applied(e))
    BY <1>1 DEF Ahead, Applied
  <2>3. CASE c = b
    <3>1. Ahead(e)
      BY <1>1, <2>1, <2>3 DEF EntryOK
    <3> QED  BY <1>1, <1>3, <1>4, <2>1, <2>2, <2>3, <3>1 DEF EntryOK, Refused, Content
  <2>4. CASE c # b
    BY <1>1, <1>4, <2>1, <2>2, <2>4 DEF EntryOK, Refused, Content
  <2> QED  BY <2>3, <2>4
<1> QED  BY <1>5, <1>6, <1>7, <1>8

LEMMA ReceiveKeeps ==
  ASSUME OutboxInv, Receive
  PROVE  OutboxInv'
<1> USE DEF OutboxInv, serviceVars
<1> DEFINE b        == sending
           failed   == Failed(sending)
           accepted == b.entries \ failed
<1>1. /\ b.key \in DOMAIN answer
      /\ known' = KnownAfter(accepted)
      /\ failures' = IF failed = {} THEN failures ELSE Append(failures, failed)
      /\ outbox' = {c \in outbox : c.key # b.key}
      /\ sending' = Idle
      /\ UNCHANGED <<hist, keys, upgraded, net, serviceVars, spent>>
  BY DEF Receive
<1>2. b \in outbox
  BY DEF Receive, QueueOK
<1>3. b.entries \subseteq Entry
  BY <1>2 DEF TypeOK, Request
<1>4. \A e \in b.entries : e \in failed <=> e.item \in answer[b.key]
  BY DEF Failed
<1>5. failed \subseteq b.entries
  BY DEF Failed
<1> HIDE DEF b, failed
<1>6. \A c \in outbox : c \in outbox' <=> c # b
  BY <1>1, <1>2 DEF QueueOK, KeysOnce
<1>7. \A d, e \in b.entries : d.item = e.item => d = e
  BY <1>2 DEF QueueOK, ItemsOnce
<1>8. /\ known' \in [Items -> Revisions \cup {Absent}]
      /\ \A e \in accepted : known'[e.item] = Content(e)
      /\ \A i \in Items : (\A e \in accepted : e.item # i) => known'[i] = known[i]
  <2>1. known \in [Items -> Revisions \cup {Absent}]
    BY DEF TypeOK
  <2> QED  BY <1>1, <1>3, <1>7, <2>1, KnownRows
<1>9. TypeOK'
  <2>1. failures' \in Seq(SUBSET Entry)
    <3>1. failures \in Seq(SUBSET Entry) /\ failed \in SUBSET Entry
      BY <1>3, <1>5 DEF TypeOK
    <3> QED  BY <1>1, <3>1
  <2> QED  BY <1>1, <1>8, <2>1 DEF TypeOK
<1>10. QueueOK'
  <2>1. outbox' \in SUBSET outbox
    BY <1>1
  <2>2. IsFiniteSet(outbox')
    BY <2>1, FS_Subset DEF QueueOK
  <2> QED  BY <1>1, <2>1, <2>2 DEF QueueOK, KeysOnce, ItemsOnce
<1>11. NetOK'
  BY <1>1, <1>6 DEF NetOK, Oversized
<1>12. CopyOK'
  BY <1>1 DEF CopyOK, Copied
<1>13. EntriesOK'
  <2> SUFFICES ASSUME NEW c \in outbox', NEW e \in c.entries
               PROVE  EntryOK(c, e)'
    BY DEF EntriesOK
  <2>1. c \in outbox /\ c # b
    BY <1>1, <1>6
  <2>2. EntryOK(c, e) /\ e.item \in Items
    BY <2>1 DEF EntriesOK, TypeOK, Request, Entry
  <2>3. \A d \in accepted : d.item # e.item
    BY <1>2, <2>1 DEF QueueOK, ItemsOnce
  <2>4. known'[e.item] = known[e.item]
    BY <1>8, <2>2, <2>3
  <2>5. (Ahead(e)' <=> Ahead(e)) /\ (Applied(e)' <=> Applied(e))
    BY <1>1, <2>4 DEF Ahead, Applied
  <2> QED  BY <1>1, <2>2, <2>5 DEF EntryOK, Refused, Content
<1>14. KnownIsStored'
  <2> SUFFICES ASSUME NEW i \in Items, known'[i] # server[i].content
               PROVE  Pending(i)'
    BY <1>1 DEF KnownIsStored
  <2>1. \A e \in accepted : e.item # i
    <3> SUFFICES ASSUME NEW e \in accepted, e.item = i PROVE FALSE
      OBVIOUS
    <3>1. EntryOK(b, e)
      BY <1>2 DEF EntriesOK
    <3>2. Applied(e)
      BY <1>1, <1>4, <3>1 DEF EntryOK
    <3>3. server[i].content = Content(e)
      BY <3>1, <3>2 DEF EntryOK, Applied, CopyOK, Copied
    <3> QED  BY <1>8, <3>3
  <2>2. known[i] # server[i].content
    BY <1>8, <2>1
  <2>3. PICK c \in outbox : \E e \in c.entries : e.item = i
    BY <2>2 DEF KnownIsStored, Pending
  <2>4. PICK e \in c.entries : e.item = i
    BY <2>3
  <2>5. c # b
    <3> SUFFICES ASSUME c = b PROVE FALSE
      OBVIOUS
    <3>1. e \in failed
      BY <2>1, <2>4
    <3>2. EntryOK(b, e) /\ e.item \in answer[b.key]
      BY <1>2, <1>4, <2>4, <3>1 DEF EntriesOK
    <3>3. Ahead(e)
      BY <1>1, <3>2 DEF EntryOK
    <3> QED  BY <2>2, <2>4, <3>3 DEF Ahead
  <2> QED  BY <1>6, <2>4, <2>5 DEF Pending
<1> QED  BY <1>9, <1>10, <1>11, <1>12, <1>13, <1>14

\* What is known of a pending entry before its batch is answered.
Waits(e) ==
  /\ e.at \in 1..Len(hist[e.item]) /\ hist[e.item][e.at] = Content(e)
  /\ Ahead(e) \/ Applied(e)
  /\ Refused(e) => Ahead(e)

\* New batches may take the place of others when they have keys of their own.
LEMMA RequeueKeeps ==
  ASSUME OutboxInv, sending = Idle,
         NEW kept, kept \subseteq outbox, NEW added, added \subseteq Request,
         NEW count \in Nat,
         outbox' = kept \cup added, keys' = keys + count,
         UNCHANGED <<hist, known, failures, sending, upgraded, net, serviceVars, spent>>,
         IsFiniteSet(added), KeysOnce(added), ItemsOnce(kept \cup added),
         \A b \in added : b.key \in (keys + 1)..(keys + count) /\ IsFiniteSet(b.entries),
         \A b \in net : b \in outbox => b \in kept,
         \A b \in added : \A e \in b.entries : Waits(e),
         \A i \in Items : Pending(i) => Pending(i)'
  PROVE  OutboxInv'
<1> USE DEF OutboxInv, serviceVars
<1>1. keys \in Nat /\ DOMAIN answer \subseteq 1..keys
  BY DEF TypeOK
<1>2. TypeOK'
  <2>1. outbox' \subseteq Request /\ keys' \in Nat /\ DOMAIN answer \subseteq 1..keys'
    BY <1>1 DEF TypeOK
  <2> QED  BY <2>1 DEF TypeOK
<1>3. QueueOK'
  <2>1. IsFiniteSet(outbox')
    BY FS_Subset, FS_Union DEF QueueOK
  <2>2. \A b \in kept : b.key \in 1..keys
    BY DEF QueueOK
  <2>3. \A b \in kept, c \in added : b.key # c.key
    BY <1>1, <2>2
  <2>4. KeysOnce(kept)
    BY DEF QueueOK, KeysOnce
  <2>5. KeysOnce(kept \cup added)
    BY <2>3, <2>4 DEF KeysOnce
  <2>6. \A b \in outbox' \cup net : b.key \in 1..keys'
    <3>1. \A b \in net : b.key \in 1..keys
      BY DEF QueueOK
    <3> QED  BY <1>1, <2>2, <3>1
  <2>7. \A b \in outbox' : IsFiniteSet(b.entries)
    BY DEF QueueOK
  <2> QED  BY <2>1, <2>5, <2>6, <2>7 DEF QueueOK, KeysOnce, ItemsOnce
<1>4. NetOK'
  BY DEF NetOK, Oversized
<1>5. CopyOK'
  BY DEF CopyOK, Copied
<1>6. EntriesOK'
  <2> SUFFICES ASSUME NEW b \in outbox', NEW e \in b.entries
               PROVE  EntryOK(b, e)'
    BY DEF EntriesOK
  <2>1. (Ahead(e)' <=> Ahead(e)) /\ (Applied(e)' <=> Applied(e))
    BY DEF Ahead, Applied
  <2>2. CASE b \in kept
    <3>1. EntryOK(b, e)
      BY <2>2 DEF EntriesOK
    <3> QED  BY <2>1, <3>1 DEF EntryOK, Refused, Content
  <2>3. CASE b \in added
    <3>1. Waits(e)
      BY <2>3
    <3>2. b.key \notin DOMAIN answer
      BY <1>1, <2>3
    <3> QED  BY <2>1, <3>1, <3>2 DEF Waits, EntryOK, Refused, Content
  <2> QED  BY <2>2, <2>3
<1>7. KnownIsStored'
  BY DEF KnownIsStored
<1> QED  BY <1>2, <1>3, <1>4, <1>5, <1>6, <1>7

\* What a scan finds is one entry of a file, which the service has not got.
LEMMA ScanFinds ==
  ASSUME OutboxInv, outbox = {}, NEW unread \in SUBSET Items
  PROVE  /\ IsFiniteSet(Changed(unread)) /\ IsFiniteSet(Gone(unread))
         /\ Changed(unread) \cup Gone(unread) \subseteq Entry
         /\ Changed(unread) \cap Gone(unread) = {}
         /\ \A d, e \in Changed(unread) \cup Gone(unread) : d.item = e.item => d = e
         /\ \A e \in Changed(unread) \cup Gone(unread) : Waits(e)
<1> USE DEF OutboxInv
<1> DEFINE new  == {j \in Items \ unread : Disk(j) \notin {Absent, known[j], Quarantined(j)}}
           lost == {j \in Items : /\ unread = {}
                                  /\ Disk(j) = Absent
                                  /\ known[j] \notin {Absent, Quarantined(j)}}
           f == [i \in new |-> EntryOf(i, "Upsert", Disk(i))]
           g == [i \in lost |-> EntryOf(i, "Deleted", known[i])]
<1>1. new \in SUBSET Items /\ lost \in SUBSET Items
  OBVIOUS
<1>2. \A i \in new : Disk(i) \notin {Absent, known[i]}
  OBVIOUS
<1>3. \A i \in lost : Disk(i) = Absent /\ known[i] # Absent
  OBVIOUS
<1>4. Changed(unread) = {f[i] : i \in DOMAIN f}
  BY DEF Changed
<1>5. Gone(unread) = {g[i] : i \in DOMAIN g}
  BY DEF Gone
<1> HIDE DEF new, lost
<1>6. IsFiniteSet(Changed(unread)) /\ IsFiniteSet(Gone(unread))
  <2>1. IsFiniteSet(new) /\ IsFiniteSet(lost)
    BY <1>1, FS_Subset
  <2>2. DOMAIN f = new /\ DOMAIN g = lost
    OBVIOUS
  <2> HIDE DEF f, g
  <2> QED  BY <1>4, <1>5, <2>1, <2>2, ImageFinite
<1>7. \A i \in Items :
        /\ Len(hist[i]) \in Nat \ {0} /\ Disk(i) = hist[i][Len(hist[i])]
        /\ known[i] = server[i].content
        /\ Copied(i) \/ server[i].at = 0
        /\ known[i] \in Revisions \cup {Absent}
        /\ Disk(i) \in Revisions \cup {Absent}
  <2> SUFFICES ASSUME NEW i \in Items
               PROVE  /\ Len(hist[i]) \in Nat \ {0} /\ Disk(i) = hist[i][Len(hist[i])]
                      /\ known[i] = server[i].content
                      /\ Copied(i) \/ server[i].at = 0
                      /\ known[i] \in Revisions \cup {Absent}
                      /\ Disk(i) \in Revisions \cup {Absent}
    OBVIOUS
  <2>1. hist[i] \in Seq(Revisions \cup {Absent}) /\ known[i] \in Revisions \cup {Absent}
    BY DEF TypeOK
  <2>2. Disk(i) = hist[i][Len(hist[i])]
    BY DEF Disk, Last
  <2>3. Len(hist[i]) >= 1 /\ (Copied(i) \/ server[i].at = 0)
    BY DEF CopyOK
  <2>4. known[i] = server[i].content
    BY DEF KnownIsStored, Pending
  <2>5. Disk(i) \in Revisions \cup {Absent}
    BY <2>1, <2>2, <2>3
  <2> QED  BY <2>1, <2>2, <2>3, <2>4, <2>5
<1>8. \A i \in Items : Disk(i) # known[i] => server[i].at < Len(hist[i])
  BY <1>7 DEF Copied
<1>9. \A i \in new : /\ f[i] = [item |-> i, op |-> "Upsert", rev |-> Disk(i), at |-> Len(hist[i])]
                     /\ f[i] \in Entry /\ Content(f[i]) = Disk(i)
                     /\ f[i].item = i /\ f[i].op = "Upsert" /\ f[i].at = Len(hist[i])
                     /\ server[i].at < Len(hist[i])
  <2> SUFFICES ASSUME NEW i \in new
               PROVE  /\ f[i] = [item |-> i, op |-> "Upsert", rev |-> Disk(i), at |-> Len(hist[i])]
                      /\ f[i] \in Entry /\ Content(f[i]) = Disk(i)
                      /\ f[i].item = i /\ f[i].op = "Upsert" /\ f[i].at = Len(hist[i])
                      /\ server[i].at < Len(hist[i])
    OBVIOUS
  <2>1. f[i] = [item |-> i, op |-> "Upsert", rev |-> Disk(i), at |-> Len(hist[i])]
    BY DEF EntryOf
  <2> HIDE DEF f
  <2>2. f[i] \in Entry
    BY <1>1, <1>2, <1>7, <2>1 DEF Entry
  <2>3. Content(f[i]) = Disk(i)
    BY <2>1 DEF Content
  <2>4. server[i].at < Len(hist[i])
    BY <1>1, <1>2, <1>8
  <2>5. f[i].item = i /\ f[i].op = "Upsert" /\ f[i].at = Len(hist[i])
    BY <2>1
  <2> QED  BY <2>1, <2>2, <2>3, <2>4, <2>5
<1>10. \A i \in lost : /\ g[i] = [item |-> i, op |-> "Deleted", rev |-> known[i], at |-> Len(hist[i])]
                       /\ g[i] \in Entry /\ Content(g[i]) = Disk(i)
                       /\ g[i].item = i /\ g[i].op = "Deleted" /\ g[i].at = Len(hist[i])
                       /\ server[i].at < Len(hist[i])
  <2> SUFFICES ASSUME NEW i \in lost
               PROVE  /\ g[i] = [item |-> i, op |-> "Deleted", rev |-> known[i], at |-> Len(hist[i])]
                      /\ g[i] \in Entry /\ Content(g[i]) = Disk(i)
                      /\ g[i].item = i /\ g[i].op = "Deleted" /\ g[i].at = Len(hist[i])
                      /\ server[i].at < Len(hist[i])
    OBVIOUS
  <2>1. g[i] = [item |-> i, op |-> "Deleted", rev |-> known[i], at |-> Len(hist[i])]
    BY DEF EntryOf
  <2> HIDE DEF g
  <2>2. g[i] \in Entry
    BY <1>1, <1>3, <1>7, <2>1 DEF Entry
  <2>3. Content(g[i]) = Disk(i)
    BY <1>3, <2>1 DEF Content
  <2>4. server[i].at < Len(hist[i])
    BY <1>1, <1>3, <1>8
  <2>5. g[i].item = i /\ g[i].op = "Deleted" /\ g[i].at = Len(hist[i])
    BY <2>1
  <2> QED  BY <2>1, <2>2, <2>3, <2>4, <2>5
<1>11. DOMAIN f = new /\ DOMAIN g = lost
  OBVIOUS
<1> HIDE DEF f, g
<1>12. Changed(unread) = {f[i] : i \in new} /\ Gone(unread) = {g[i] : i \in lost}
  BY <1>4, <1>5, <1>11
<1>13. \A e \in Changed(unread) : e.item \in new /\ e = f[e.item] /\ e.op = "Upsert"
  <2> SUFFICES ASSUME NEW e \in Changed(unread)
               PROVE  e.item \in new /\ e = f[e.item] /\ e.op = "Upsert"
    OBVIOUS
  <2>1. PICK i \in new : e = f[i]
    BY <1>12
  <2>2. f[i].item = i /\ f[i].op = "Upsert"
    BY <1>9
  <2> QED  BY <2>1, <2>2
<1>14. \A e \in Gone(unread) : e.item \in lost /\ e = g[e.item] /\ e.op = "Deleted"
  <2> SUFFICES ASSUME NEW e \in Gone(unread)
               PROVE  e.item \in lost /\ e = g[e.item] /\ e.op = "Deleted"
    OBVIOUS
  <2>1. PICK i \in lost : e = g[i]
    BY <1>12
  <2>2. g[i].item = i /\ g[i].op = "Deleted"
    BY <1>10
  <2> QED  BY <2>1, <2>2
<1>15. new \cap lost = {}
  BY <1>2, <1>3
<1>16. Changed(unread) \cup Gone(unread) \subseteq Entry
  <2>1. \A i \in new : f[i] \in Entry
    BY <1>9
  <2>2. \A i \in lost : g[i] \in Entry
    BY <1>10
  <2> QED  BY <1>12, <2>1, <2>2
<1>17. Changed(unread) \cap Gone(unread) = {}
  BY <1>13, <1>14
<1>18. \A d, e \in Changed(unread) \cup Gone(unread) : d.item = e.item => d = e
  BY <1>13, <1>14, <1>15
<1>19. \A e \in Changed(unread) \cup Gone(unread) :
         e.item \in Items /\ e.at = Len(hist[e.item]) /\ Content(e) = Disk(e.item)
           /\ server[e.item].at < Len(hist[e.item])
  <2>1. \A i \in new : f[i].item = i /\ f[i].at = Len(hist[i])
    BY <1>9
  <2>2. \A i \in lost : g[i].item = i /\ g[i].at = Len(hist[i])
    BY <1>10
  <2>3. \A e \in Changed(unread) :
          e.item \in Items /\ e.at = Len(hist[e.item]) /\ Content(e) = Disk(e.item)
            /\ server[e.item].at < Len(hist[e.item])
    BY <1>1, <1>9, <1>13, <2>1
  <2>4. \A e \in Gone(unread) :
          e.item \in Items /\ e.at = Len(hist[e.item]) /\ Content(e) = Disk(e.item)
            /\ server[e.item].at < Len(hist[e.item])
    BY <1>1, <1>10, <1>14, <2>2
  <2> QED  BY <2>3, <2>4
<1>20. \A e \in Changed(unread) \cup Gone(unread) : Waits(e)
  <2> SUFFICES ASSUME NEW e \in Changed(unread) \cup Gone(unread)
               PROVE  Waits(e)
    OBVIOUS
  <2>1. e.item \in Items /\ e.at = Len(hist[e.item]) /\ Content(e) = Disk(e.item)
          /\ server[e.item].at < Len(hist[e.item])
    BY <1>19
  <2>2. e.at \in 1..Len(hist[e.item]) /\ hist[e.item][e.at] = Content(e)
    BY <1>7, <2>1
  <2>3. Ahead(e)
    BY <1>7, <2>1 DEF Ahead
  <2> QED  BY <2>2, <2>3 DEF Waits
<1> QED  BY <1>6, <1>16, <1>17, <1>18, <1>20

LEMMA ScanKeeps ==
  ASSUME NEW unread \in SUBSET Items, OutboxInv, Scan(unread)
  PROVE  OutboxInv'
<1> DEFINE found == Changed(unread) \cup Gone(unread)
           s     == SetToSeq(Changed(unread)) \o SetToSeq(Gone(unread))
           size  == IF upgraded THEN BatchSize ELSE OldBatchSize
           parts == Cut(s, size)
           added == Batches(parts)
<1>1. /\ sending = Idle /\ outbox = {}
      /\ outbox' = outbox \cup added /\ keys' = keys + Len(parts)
      /\ UNCHANGED <<hist, known, failures, sending, upgraded, net, serviceVars, spent>>
  BY DEF Scan, Queue
<1>2. /\ IsFiniteSet(Changed(unread)) /\ IsFiniteSet(Gone(unread))
      /\ found \subseteq Entry
      /\ Changed(unread) \cap Gone(unread) = {}
      /\ \A d, e \in found : d.item = e.item => d = e
      /\ \A e \in found : Waits(e)
  BY <1>1, ScanFinds
<1>3. s \in Seq(found) /\ \A a, b \in 1..Len(s) : s[a] = s[b] => a = b
  <2> DEFINE p == SetToSeq(Changed(unread))
             q == SetToSeq(Gone(unread))
  <2>1. p \in Seq(Changed(unread)) /\ \A a, b \in 1..Len(p) : p[a] = p[b] => a = b
    BY <1>2, SetToSeqLists
  <2>2. q \in Seq(Gone(unread)) /\ \A a, b \in 1..Len(q) : q[a] = q[b] => a = b
    BY <1>2, SetToSeqLists
  <2> HIDE DEF p, q
  <2>3. p \o q \in Seq(found) /\ Len(p \o q) = Len(p) + Len(q)
    BY <2>1, <2>2
  <2>4. \A a \in 1..Len(p) : (p \o q)[a] = p[a] /\ (p \o q)[a] \in Changed(unread)
    BY <2>1, <2>2
  <2>5. \A a \in 1..Len(p) + Len(q) : a \notin 1..Len(p) =>
          /\ a - Len(p) \in 1..Len(q)
          /\ (p \o q)[a] = q[a - Len(p)] /\ (p \o q)[a] \in Gone(unread)
    BY <2>1, <2>2
  <2>6. Len(p) \in Nat /\ Len(q) \in Nat
    BY <2>1, <2>2
  <2>7. \A a, b \in 1..Len(p) + Len(q) : (p \o q)[a] = (p \o q)[b] => a = b
    <3> SUFFICES ASSUME NEW a \in 1..Len(p) + Len(q), NEW b \in 1..Len(p) + Len(q),
                        (p \o q)[a] = (p \o q)[b]
                 PROVE  a = b
      OBVIOUS
    <3>1. CASE a \in 1..Len(p) /\ b \in 1..Len(p)
      BY <2>1, <2>4, <3>1
    <3>2. CASE a \notin 1..Len(p) /\ b \notin 1..Len(p)
      <4>1. a - Len(p) = b - Len(p)
        BY <2>2, <2>5, <3>2
      <4> QED  BY <2>6, <4>1
    <3>3. CASE (a \in 1..Len(p)) # (b \in 1..Len(p))
      BY <1>2, <2>4, <2>5, <3>3
    <3> QED  BY <3>1, <3>2, <3>3
  <2> QED  BY <2>3, <2>7 DEF p, q
<1>4. size \in Nat \ {0}
  OBVIOUS
<1> HIDE DEF s, size
<1>5. /\ Len(parts) \in Nat /\ DOMAIN parts = 1..Len(parts)
      /\ \A n \in DOMAIN parts : parts[n] \subseteq found
      /\ \A n, m \in DOMAIN parts : \A x : x \in parts[n] /\ x \in parts[m] => n = m
  <2>1. Len(parts) \in Nat /\ DOMAIN parts = 1..Len(parts)
    BY <1>3, <1>4, CutCovers
  <2>2. \A n \in DOMAIN parts : parts[n] \subseteq found
    BY <1>3, <1>4, CutCovers
  <2>3. \A n, m \in DOMAIN parts : \A x : x \in parts[n] /\ x \in parts[m] => n = m
    BY <1>3, <1>4, CutSeparates
  <2> QED  BY <2>1, <2>2, <2>3
<1> HIDE DEF parts, found
<1> DEFINE f == [n \in DOMAIN parts |-> [key |-> keys + n, entries |-> parts[n]]]
<1>6. added = {f[n] : n \in DOMAIN f}
  BY DEF Batches
<1>7. \A n \in DOMAIN parts : f[n].key = keys + n /\ f[n].entries = parts[n] /\ f[n] \in Request
  BY <1>2, <1>5 DEF OutboxInv, TypeOK, Request
<1>8. IsFiniteSet(added)
  <2>1. IsFiniteSet(DOMAIN parts)
    BY <1>5, FS_Interval
  <2>2. DOMAIN f = DOMAIN parts
    OBVIOUS
  <2> HIDE DEF f, added
  <2> QED  BY <1>6, <2>1, <2>2, ImageFinite
<1>9. \A b \in added : \E n \in DOMAIN parts : b = f[n]
  BY <1>6
<1> HIDE DEF f, added
<1>10. keys \in Nat
  BY DEF OutboxInv, TypeOK
<1>11. added \subseteq Request
  BY <1>7, <1>9
<1>12. KeysOnce(added)
  <2> SUFFICES ASSUME NEW b \in added, NEW c \in added, b.key = c.key PROVE b = c
    BY DEF KeysOnce
  <2>1. PICK n \in DOMAIN parts : b = f[n]
    BY <1>9
  <2>2. PICK m \in DOMAIN parts : c = f[m]
    BY <1>9
  <2>3. n = m
    BY <1>5, <1>7, <1>10, <2>1, <2>2
  <2> QED  BY <2>1, <2>2, <2>3
<1>13. ItemsOnce(added)
  <2> SUFFICES ASSUME NEW b \in added, NEW c \in added, NEW d \in b.entries, NEW e \in c.entries,
                      d.item = e.item
               PROVE  b = c /\ d = e
    BY DEF ItemsOnce
  <2>1. PICK n \in DOMAIN parts : b = f[n]
    BY <1>9
  <2>2. PICK m \in DOMAIN parts : c = f[m]
    BY <1>9
  <2>3. d \in parts[n] /\ e \in parts[m]
    BY <1>7, <2>1, <2>2
  <2>4. d = e
    BY <1>2, <1>5, <2>3
  <2>5. n = m
    BY <1>5, <2>3, <2>4
  <2> QED  BY <2>1, <2>2, <2>4, <2>5
<1>14. \A b \in added : /\ b.key \in (keys + 1)..(keys + Len(parts)) /\ IsFiniteSet(b.entries)
                        /\ \A e \in b.entries : Waits(e)
  <2> SUFFICES ASSUME NEW b \in added
               PROVE  /\ b.key \in (keys + 1)..(keys + Len(parts)) /\ IsFiniteSet(b.entries)
                      /\ \A e \in b.entries : Waits(e)
    OBVIOUS
  <2>1. PICK n \in DOMAIN parts : b = f[n]
    BY <1>9
  <2>2. b.key = keys + n /\ b.entries = parts[n]
    BY <1>7, <2>1
  <2>3. b.entries \subseteq found
    BY <1>5, <2>2
  <2>4. IsFiniteSet(found)
    BY <1>2, FS_Union DEF found
  <2>5. IsFiniteSet(b.entries)
    BY <2>3, <2>4, FS_Subset
  <2>6. b.key \in (keys + 1)..(keys + Len(parts))
    BY <1>5, <1>10, <2>2
  <2> QED  BY <1>2, <2>3, <2>5, <2>6
<1>15. \A i \in Items : ~Pending(i)
  BY <1>1 DEF Pending
<1> DEFINE kept == {}
<1>16. /\ kept \subseteq outbox /\ outbox' = kept \cup added /\ ItemsOnce(kept \cup added)
       /\ \A b \in net : b \in outbox => b \in kept
  BY <1>1, <1>13
<1>17. \A i \in Items : Pending(i) => Pending(i)'
  BY <1>15
<1> HIDE DEF kept
<1> QED  BY <1>1, <1>5, <1>8, <1>11, <1>12, <1>14, <1>16, <1>17, RequeueKeeps

\* Pieces of different requests, or different pieces of one, get different keys.
LEMMA PiecesPlaced ==
  ASSUME NEW large, large \subseteq Request, IsFiniteSet(large), KeysOnce(large),
         \A b \in large : IsFiniteSet(b.entries)
  PROVE  /\ IsFiniteSet(Pieces(large)) /\ Cardinality(Pieces(large)) \in Nat
         /\ \A p \in Pieces(large) : p = <<p[1], p[2]>> /\ p[1] \in large /\ p[2] \in DOMAIN Parts(p[1])
         /\ \A b \in large : \A n \in DOMAIN Parts(b) : <<b, n>> \in Pieces(large)
         /\ \A p \in Pieces(large) : Place(p, Pieces(large)) \in 1..Cardinality(Pieces(large))
         /\ \A p, q \in Pieces(large) : Place(p, Pieces(large)) = Place(q, Pieces(large)) => p = q
<1> DEFINE P == Pieces(large)
           Upto(q) == {p \in P : \/ p[1].key < q[1].key
                                 \/ p[1].key = q[1].key /\ p[2] <= q[2]}
<1>1. \A b \in large : Len(Parts(b)) \in Nat /\ DOMAIN Parts(b) = 1..Len(Parts(b))
  BY PartsOfBatch
<1>2. \A p \in P : p = <<p[1], p[2]>> /\ p[1] \in large /\ p[2] \in DOMAIN Parts(p[1])
  BY DEF Pieces
<1>3. \A b \in large : \A n \in DOMAIN Parts(b) : <<b, n>> \in P
  BY DEF Pieces
<1>4. IsFiniteSet(P)
  <2> DEFINE f == [b \in large |-> {b} \X DOMAIN Parts(b)]
  <2>1. P = UNION {f[b] : b \in DOMAIN f}
    BY DEF Pieces
  <2>2. \A b \in large : IsFiniteSet(f[b])
    <3> SUFFICES ASSUME NEW b \in large PROVE IsFiniteSet(f[b])
      OBVIOUS
    <3>1. IsFiniteSet({b}) /\ IsFiniteSet(DOMAIN Parts(b))
      <4>1. DOMAIN Parts(b) = 1..Len(Parts(b)) /\ 1 \in Int /\ Len(Parts(b)) \in Int
        BY <1>1
      <4>2. IsFiniteSet(1..Len(Parts(b)))
        BY <4>1, FS_Interval
      <4> QED  BY <4>1, <4>2, FS_Singleton
    <3> QED  BY <3>1, FS_Product
  <2>3. DOMAIN f = large
    OBVIOUS
  <2> HIDE DEF f, P
  <2>4. IsFiniteSet({f[b] : b \in DOMAIN f})
    BY <2>3, ImageFinite
  <2>5. \A T \in {f[b] : b \in DOMAIN f} : IsFiniteSet(T)
    BY <2>2, <2>3
  <2> QED  BY <2>1, <2>4, <2>5, FS_UNION
<1>5. \A q : Place(q, P) = Cardinality(Upto(q))
  BY DEF Place
<1> HIDE DEF P
<1>6. Cardinality(P) \in Nat
  BY <1>4, FS_CardinalityType
<1>7. \A p \in P : p[1].key \in Nat /\ p[2] \in Nat
  <2> SUFFICES ASSUME NEW p \in P PROVE p[1].key \in Nat /\ p[2] \in Nat
    OBVIOUS
  <2>1. p[1] \in large /\ p[2] \in 1..Len(Parts(p[1])) /\ Len(Parts(p[1])) \in Nat
    BY <1>1, <1>2
  <2> QED  BY <2>1 DEF Request
<1>8. \A q \in P : /\ q \in Upto(q) /\ Upto(q) \subseteq P /\ IsFiniteSet(Upto(q))
                   /\ Cardinality(Upto(q)) \in 1..Cardinality(P)
  <2> SUFFICES ASSUME NEW q \in P
               PROVE  /\ q \in Upto(q) /\ Upto(q) \subseteq P /\ IsFiniteSet(Upto(q))
                      /\ Cardinality(Upto(q)) \in 1..Cardinality(P)
    OBVIOUS
  <2>1. q \in Upto(q) /\ Upto(q) \in SUBSET P
    BY <1>7
  <2> HIDE DEF Upto
  <2>2. IsFiniteSet(Upto(q)) /\ Cardinality(Upto(q)) <= Cardinality(P)
    BY <1>4, <2>1, FS_Subset
  <2>3. Cardinality(Upto(q)) \in Nat /\ Cardinality(Upto(q)) # 0
    BY <2>1, <2>2, FS_CardinalityType, FS_EmptySet
  <2> QED  BY <1>6, <2>1, <2>2, <2>3
<1>9. \A p, q \in P : p # q => p \notin Upto(q) \/ q \notin Upto(p)
  <2> SUFFICES ASSUME NEW p \in P, NEW q \in P, p \in Upto(q), q \in Upto(p) PROVE p = q
    OBVIOUS
  <2>1. p[1].key = q[1].key /\ p[2] = q[2]
    BY <1>7
  <2>2. p[1] = q[1]
    BY <1>2, <2>1 DEF KeysOnce
  <2> QED  BY <1>2, <2>1, <2>2
<1>10. \A p, q \in P : Upto(p) \subseteq Upto(q) \/ Upto(q) \subseteq Upto(p)
  <2> SUFFICES ASSUME NEW p \in P, NEW q \in P
               PROVE  Upto(p) \subseteq Upto(q) \/ Upto(q) \subseteq Upto(p)
    OBVIOUS
  <2>1. CASE p[1].key < q[1].key \/ (p[1].key = q[1].key /\ p[2] <= q[2])
    <3>1. Upto(p) \subseteq Upto(q)
      BY <1>7, <2>1
    <3> QED  BY <3>1
  <2>2. CASE q[1].key < p[1].key \/ (p[1].key = q[1].key /\ q[2] <= p[2])
    <3>1. Upto(q) \subseteq Upto(p)
      BY <1>7, <2>2
    <3> QED  BY <3>1
  <2> QED  BY <1>7, <2>1, <2>2
<1> HIDE DEF Upto
<1>11. \A p, q \in P : Cardinality(Upto(p)) = Cardinality(Upto(q)) => p = q
  <2> SUFFICES ASSUME NEW p \in P, NEW q \in P, Cardinality(Upto(p)) = Cardinality(Upto(q))
               PROVE  p = q
    OBVIOUS
  <2>1. Upto(p) = Upto(q)
    <3>1. CASE Upto(p) \in SUBSET Upto(q)
      BY <1>8, <3>1, FS_Subset
    <3>2. CASE Upto(q) \in SUBSET Upto(p)
      BY <1>8, <3>2, FS_Subset
    <3> QED  BY <1>10, <3>1, <3>2
  <2> QED  BY <1>8, <1>9, <2>1
<1> QED  BY <1>2, <1>3, <1>4, <1>5, <1>6, <1>8, <1>11 DEF P

LEMMA SplitKeeps ==
  ASSUME OutboxInv, Split
  PROVE  OutboxInv'
<1> DEFINE large  == {b \in outbox : Oversized(b)}
           pieces == Pieces(large)
           kept   == outbox \ large
           count  == Cardinality(pieces)
           f      == [p \in pieces |-> [key |-> keys + Place(p, pieces), entries |-> Parts(p[1])[p[2]]]]
           added  == {f[p] : p \in DOMAIN f}
<1>1. /\ sending = Idle /\ outbox' = kept \cup added /\ keys' = keys + count
      /\ UNCHANGED <<hist, known, failures, sending, upgraded, net, serviceVars, spent>>
  BY DEF Split
<1>2. /\ large \in SUBSET outbox /\ large \subseteq Request /\ IsFiniteSet(large)
      /\ KeysOnce(large) /\ \A b \in large : IsFiniteSet(b.entries)
  <2>1. IsFiniteSet(large)
    BY FS_Subset DEF OutboxInv, QueueOK
  <2> QED  BY <2>1 DEF OutboxInv, QueueOK, TypeOK, KeysOnce
<1>3. \A b \in net : b \in outbox => b \in kept
  BY DEF OutboxInv, NetOK
<1> HIDE DEF large
<1>4. /\ IsFiniteSet(pieces) /\ count \in Nat
      /\ \A p \in pieces : p = <<p[1], p[2]>> /\ p[1] \in large /\ p[2] \in DOMAIN Parts(p[1])
      /\ \A b \in large : \A n \in DOMAIN Parts(b) : <<b, n>> \in pieces
      /\ \A p \in pieces : Place(p, pieces) \in 1..count
      /\ \A p, q \in pieces : Place(p, pieces) = Place(q, pieces) => p = q
  BY <1>2, PiecesPlaced
<1> HIDE DEF pieces, count
<1>5. /\ \A b \in large : \A n \in DOMAIN Parts(b) : Parts(b)[n] \subseteq b.entries
      /\ \A b \in large : \A n, m \in DOMAIN Parts(b) : \A x :
           x \in Parts(b)[n] /\ x \in Parts(b)[m] => n = m
      /\ \A b \in large : \A x \in b.entries : \E n \in DOMAIN Parts(b) : x \in Parts(b)[n]
  BY <1>2, PartsOfBatch
<1>6. DOMAIN f = pieces /\ \A p \in pieces : f[p] = [key |-> keys + Place(p, pieces), entries |-> Parts(p[1])[p[2]]]
  OBVIOUS
<1>7. \A p \in pieces : f[p].key = keys + Place(p, pieces) /\ f[p].entries = Parts(p[1])[p[2]]
  BY <1>6
<1> HIDE DEF f
<1>8. IsFiniteSet(added)
  BY <1>4, <1>6, ImageFinite
<1>9. \A b \in added : \E p \in pieces : b = f[p]
  BY <1>6
<1>10. \A p \in pieces : f[p] \in added
  BY <1>6
<1> HIDE DEF added
<1>11. keys \in Nat
  BY DEF OutboxInv, TypeOK
<1>12. \A p \in pieces : /\ p[1] \in large /\ p[1] \in outbox /\ p[1] \in Request
                         /\ f[p].entries \subseteq p[1].entries
                         /\ IsFiniteSet(f[p].entries) /\ f[p].entries \subseteq Entry
  <2> SUFFICES ASSUME NEW p \in pieces
               PROVE  /\ p[1] \in large /\ p[1] \in outbox /\ p[1] \in Request
                      /\ f[p].entries \subseteq p[1].entries
                      /\ IsFiniteSet(f[p].entries) /\ f[p].entries \subseteq Entry
    OBVIOUS
  <2>1. p[1] \in large /\ p[2] \in DOMAIN Parts(p[1])
    BY <1>4
  <2>2. f[p].entries \in SUBSET p[1].entries
    BY <1>5, <1>7, <2>1
  <2>3. IsFiniteSet(p[1].entries)
    BY <1>2, <2>1
  <2>4. IsFiniteSet(f[p].entries)
    BY <2>2, <2>3, FS_Subset
  <2>5. p[1] \in outbox /\ p[1] \in Request /\ p[1].entries \subseteq Entry
    BY <1>2, <2>1 DEF Request
  <2> QED  BY <2>1, <2>2, <2>4, <2>5
<1>13. added \subseteq Request
  <2> SUFFICES ASSUME NEW b \in added PROVE b \in Request
    OBVIOUS
  <2>1. PICK p \in pieces : b = f[p]
    BY <1>9
  <2>2. f[p].entries \subseteq Entry /\ keys + Place(p, pieces) \in Nat
    BY <1>4, <1>11, <1>12
  <2> QED  BY <1>6, <1>7, <2>1, <2>2 DEF Request
<1>14. KeysOnce(added)
  <2> SUFFICES ASSUME NEW b \in added, NEW c \in added, b.key = c.key PROVE b = c
    BY DEF KeysOnce
  <2>1. PICK p \in pieces : b = f[p]
    BY <1>9
  <2>2. PICK q \in pieces : c = f[q]
    BY <1>9
  <2>3. Place(p, pieces) = Place(q, pieces)
    <3>1. Place(p, pieces) \in Int /\ Place(q, pieces) \in Int
      BY <1>4
    <3>2. b.key = keys + Place(p, pieces) /\ c.key = keys + Place(q, pieces)
      BY <1>7, <2>1, <2>2
    <3>3. \A x, y \in Int : keys + x = keys + y => x = y
      BY <1>11
    <3> QED  BY <3>1, <3>2, <3>3
  <2> QED  BY <1>4, <2>1, <2>2, <2>3
<1>15. ItemsOnce(kept \cup added)
  <2>1. ItemsOnce(outbox)
    BY DEF OutboxInv, QueueOK
  <2>2. \A b \in kept, c \in added : \A d \in b.entries, e \in c.entries : d.item # e.item
    <3> SUFFICES ASSUME NEW b \in kept, NEW c \in added, NEW d \in b.entries, NEW e \in c.entries,
                        d.item = e.item
                 PROVE  FALSE
      OBVIOUS
    <3>1. PICK p \in pieces : c = f[p]
      BY <1>9
    <3>2. e \in p[1].entries /\ p[1] \in large /\ p[1] \in outbox
      BY <1>12, <3>1
    <3>3. b = p[1]
      BY <2>1, <3>2 DEF ItemsOnce
    <3> QED  BY <3>2, <3>3
  <2>3. ItemsOnce(added)
    <3> SUFFICES ASSUME NEW b \in added, NEW c \in added, NEW d \in b.entries, NEW e \in c.entries,
                        d.item = e.item
                 PROVE  b = c /\ d = e
      BY DEF ItemsOnce
    <3>1. PICK p \in pieces : b = f[p]
      BY <1>9
    <3>2. PICK q \in pieces : c = f[q]
      BY <1>9
    <3>3. d \in p[1].entries /\ e \in q[1].entries /\ p[1] \in outbox /\ q[1] \in outbox /\ p[1] \in large
      BY <1>12, <3>1, <3>2
    <3>4. d = e /\ p[1] = q[1]
      BY <2>1, <3>3 DEF ItemsOnce
    <3>5. d \in Parts(p[1])[p[2]] /\ d \in Parts(p[1])[q[2]]
      BY <1>7, <3>1, <3>2, <3>4
    <3>6. p[2] = q[2]
      BY <1>4, <1>5, <3>3, <3>4, <3>5
    <3>7. p = q
      BY <1>4, <3>4, <3>6
    <3> QED  BY <3>1, <3>2, <3>4, <3>7
  <2>4. ItemsOnce(kept)
    BY <2>1 DEF ItemsOnce
  <2> QED  BY <2>2, <2>3, <2>4 DEF ItemsOnce
<1>16. \A b \in added : /\ b.key \in (keys + 1)..(keys + count) /\ IsFiniteSet(b.entries)
                        /\ \A e \in b.entries : Waits(e)
  <2> SUFFICES ASSUME NEW b \in added
               PROVE  /\ b.key \in (keys + 1)..(keys + count) /\ IsFiniteSet(b.entries)
                      /\ \A e \in b.entries : Waits(e)
    OBVIOUS
  <2>1. PICK p \in pieces : b = f[p]
    BY <1>9
  <2>2. b.key \in (keys + 1)..(keys + count)
    BY <1>4, <1>7, <1>11, <2>1
  <2>3. IsFiniteSet(b.entries) /\ b.entries \subseteq p[1].entries /\ p[1] \in outbox
    BY <1>12, <2>1
  <2>4. \A e \in b.entries : Waits(e)
    BY <2>3 DEF OutboxInv, EntriesOK, EntryOK, Waits
  <2> QED  BY <2>2, <2>3, <2>4
<1>17. \A i \in Items : Pending(i) => Pending(i)'
  <2> SUFFICES ASSUME NEW i \in Items, Pending(i)
               PROVE  \E b \in kept \cup added : \E e \in b.entries : e.item = i
    BY <1>1 DEF Pending
  <2>1. PICK b \in outbox : \E e \in b.entries : e.item = i
    BY DEF Pending
  <2>2. PICK e \in b.entries : e.item = i
    BY <2>1
  <2>3. CASE b \in large
    <3>1. PICK n \in DOMAIN Parts(b) : e \in Parts(b)[n]
      BY <1>5, <2>3
    <3> DEFINE p == <<b, n>>
    <3>2. p \in pieces /\ p[1] = b /\ p[2] = n
      BY <1>4, <2>3
    <3> HIDE DEF p
    <3>3. e \in f[p].entries
      BY <1>7, <3>1, <3>2
    <3> QED  BY <1>10, <2>2, <3>2, <3>3
  <2>4. CASE b \notin large
    BY <2>2, <2>4
  <2> QED  BY <2>3, <2>4
<1>18. kept \subseteq outbox
  OBVIOUS
<1> HIDE DEF kept
<1> QED  BY <1>1, <1>3, <1>4, <1>8, <1>13, <1>14, <1>15, <1>16, <1>17, <1>18, RequeueKeeps

-----------------------------------------------------------------------------
(* The theorems of the outbox. *)

LEMMA OutboxStep == OutboxInv /\ [Next]_vars => OutboxInv'
<1> SUFFICES ASSUME OutboxInv, [Next]_vars PROVE OutboxInv'
  OBVIOUS
<1>1. CASE \E i \in Items, c \in Revisions \cup {Absent} : Edit(i, c)
  BY <1>1, EditKeeps
<1>2. CASE \E unread \in SUBSET Items : Scan(unread)
  BY <1>2, ScanKeeps
<1>3. CASE Send
  BY <1>3, SendKeeps
<1>4. CASE Split
  BY <1>4, SplitKeeps
<1>5. CASE Pause
  BY <1>5, FewerRequestsKeep DEF Pause, OutboxInv, TypeOK, serviceVars
<1>6. CASE Receive
  BY <1>6, ReceiveKeeps
<1>7. CASE Upgrade
  BY <1>7, FewerRequestsKeep DEF Upgrade, serviceVars
<1>8. CASE \E n \in DOMAIN failures : Discard(n)
  BY <1>8, DiscardKeeps
<1>9. CASE \E b \in net : Execute(b)
  BY <1>9, ExecuteKeeps
<1>10. CASE \E b \in net : Refuse(b)
  BY <1>10, RefuseKeeps
<1>11. CASE \E b \in net : Lose(b)
  BY <1>11, FewerRequestsKeep DEF Lose, cliVars, serviceVars, OutboxInv, TypeOK
<1>12. CASE \E k \in DOMAIN answer : Expire(k)
  BY <1>12, ExpireKeeps
<1>13. CASE UNCHANGED vars
  BY <1>13, FewerRequestsKeep DEF vars, cliVars, serviceVars, OutboxInv, TypeOK
<1> QED  BY <1>1, <1>2, <1>3, <1>4, <1>5, <1>6, <1>7, <1>8, <1>9, <1>10, <1>11, <1>12, <1>13 DEF Next

\* The inductive invariant of the outbox: a pending entry is ahead of the
\* service's copy or applied to it, whatever was lost, late or repeated.
THEOREM OutboxInductive == Spec => []OutboxInv
<1>1. Init => OutboxInv
  BY InitOutbox
<1>2. OutboxInv /\ [Next]_vars => OutboxInv'
  BY OutboxStep
<1> QED  BY <1>1, <1>2, PTL DEF Spec

\* The variables of the outbox keep their types, the keys of requests and of
\* their records among them (queue_batches, split_oversized_pending_batches).
THEOREM OutboxTyped == Spec => []TypeOK
<1>1. OutboxInv => TypeOK
  BY DEF OutboxInv
<1> QED  BY <1>1, OutboxInductive, PTL

\* acknowledge_batch never lets the CLI take for accepted what the service
\* has not got, but for items of a pending batch.
THEOREM KnownAlwaysStored == Spec => []KnownIsStored
<1>1. OutboxInv => KnownIsStored
  BY DEF OutboxInv
<1> QED  BY <1>1, OutboxInductive, PTL

(* The source was not removed: every copy is a state of its file. *)
Standing == \A i \in Items : server[i].at >= 1

LEMMA MirrorInit == Init => M!Init /\ Standing
  BY DEF Init, M!Init, Standing

\* What brings no copy back keeps the promise of Mirror.
LEMMA MirrorForward ==
  ASSUME OutboxInv, OutboxInv', Standing, hist' = hist,
         \A i \in Items : server[i].at <= server'[i].at
  PROVE  M!BringForward /\ Standing'
<1>1. \A i \in Items : server[i].at \in Nat /\ server'[i].at \in Nat
  BY DEF OutboxInv, TypeOK, Row
<1>2. Standing'
  BY <1>1 DEF Standing
<1>3. \A i \in Items : Copied(i)'
  BY <1>2 DEF OutboxInv, CopyOK, Standing
<1>4. \A i \in Items : server'[i].at <= Len(hist[i]) /\ server'[i].content = hist[i][server'[i].at]
  BY <1>3 DEF Copied
<1> QED  BY <1>2, <1>4 DEF M!BringForward

LEMMA MirrorExecute ==
  ASSUME OutboxInv, OutboxInv', Standing, NEW b \in net, Execute(b)
  PROVE  M!BringForward /\ Standing'
<1> DEFINE accepted == b.entries \ {e \in b.entries : e.op = "Upsert" /\ <<e.item, e.rev>> \in Rejected}
<1>1. /\ b.key \notin DOMAIN answer /\ server' = Stored(server, accepted) /\ hist' = hist
  BY DEF Execute
<1>2. accepted \subseteq b.entries
  OBVIOUS
<1> HIDE DEF accepted
<1>3. b \in outbox /\ b.entries \subseteq Entry
  BY <1>1 DEF OutboxInv, NetOK, TypeOK, Request
<1>4. \A d, e \in accepted : d.item = e.item => d = e
  BY <1>2, <1>3 DEF OutboxInv, QueueOK, ItemsOnce
<1>5. server \in [Items -> Row] /\ accepted \subseteq Entry
  BY <1>2, <1>3 DEF OutboxInv, TypeOK
<1>6. /\ \A e \in accepted : server'[e.item] = [content |-> Content(e), at |-> e.at]
      /\ \A i \in Items : (\A e \in accepted : e.item # i) => server'[i] = server[i]
  BY <1>1, <1>4, <1>5, StoredRows
<1>7. \A i \in Items : server[i].at <= server'[i].at
  <2> SUFFICES ASSUME NEW i \in Items PROVE server[i].at <= server'[i].at
    OBVIOUS
  <2>1. server[i].at \in Nat
    BY <1>5 DEF Row
  <2>2. CASE \E e \in accepted : e.item = i
    <3>1. PICK e \in accepted : e.item = i
      BY <2>2
    <3>2. server'[i] = [content |-> Content(e), at |-> e.at]
      BY <1>6, <3>1
    <3>3. server'[i].at = e.at /\ e.at \in Nat
      BY <1>5, <3>2 DEF Entry
    <3>4. Ahead(e) \/ Applied(e)
      BY <1>2, <1>3 DEF OutboxInv, EntriesOK, EntryOK
    <3> QED  BY <2>1, <3>1, <3>3, <3>4 DEF Ahead, Applied
  <2>3. CASE \A e \in accepted : e.item # i
    BY <1>6, <2>1, <2>3
  <2> QED  BY <2>2, <2>3
<1> QED  BY <1>1, <1>7, MirrorForward

MirrorVars == <<hist, [i \in Items |-> server[i].at], [i \in Items |-> server[i].content]>>

LEMMA MirrorStep ==
  ASSUME OutboxInv, OutboxInv', Standing, [Next]_vars
  PROVE  [M!Next]_MirrorVars /\ Standing'
<1>1. CASE UNCHANGED <<hist, server>>
  BY <1>1 DEF MirrorVars, Standing
<1>2. CASE \E i \in Items, c \in Revisions \cup {Absent} : Edit(i, c)
  <2>1. PICK i \in Items, c \in Revisions \cup {Absent} : Edit(i, c)
    BY <1>2
  <2>2. M!Edit(i, c) /\ Standing'
    BY <2>1 DEF Edit, M!Edit, Disk, Last, M!Last, serviceVars, Standing
  <2> QED  BY <2>2 DEF M!Next
<1>3. CASE \E b \in net : Execute(b)
  BY <1>3, MirrorExecute DEF M!Next
<1> QED
  BY <1>1, <1>2, <1>3 DEF Next, Scan, Send, Split, Pause, Receive, Upgrade, Discard, Refuse,
     Lose, Expire, vars, cliVars, serviceVars

\* submit_manifest and the records of its requests implement Mirror: the
\* service's copy of a file is always something the file has been and never
\* goes back, although requests come late, again, or split.
THEOREM CopiesMirror == Spec => MirrorSpec
<1>1. Init => M!Init /\ Standing
  BY MirrorInit
<1>2. OutboxInv /\ OutboxInv' /\ Standing /\ [Next]_vars => [M!Next]_MirrorVars /\ Standing'
  BY MirrorStep
<1> QED  BY <1>1, <1>2, OutboxInductive, PTL DEF Spec, MirrorSpec, M!Spec, MirrorVars

-----------------------------------------------------------------------------
(* Imports and the sync that sends them. *)

(* No request is on its way but the one that the sync waits for. *)
OneRequest ==
  \A b \in net : b.key \in DOMAIN answer \/ (sending # Idle /\ sending = b)

(* The service leaves out of a batch what it does not accept, and no more. *)
AnswersOK ==
  \A b \in outbox : b.key \in DOMAIN answer =>
    \A e \in b.entries : e.item \in answer[b.key] => Refused(e)

Captured == {b \in outbox : b.key \in item.captured}

(* A bulk item that is active stands for batches that are pending, and the *)
(* service knows it by its import.                                         *)
ItemOK ==
  /\ step # "Idle" => ItemActive
  /\ ItemActive =>
       /\ item.id \in Imports /\ sending = Idle
       /\ item.captured # {} /\ \A k \in item.captured : \E b \in outbox : b.key = k
       /\ Range(item.rows) = UNION {b.entries : b \in Captured}
       /\ \A e \in Range(item.rows) : e.op = "Upsert"

Live(m) == import[m].status \in {"Queued", "Running", "RetryDue"}

(* Where the import of the item stands, as far as the CLI relies on it. *)
ImportOK ==
  /\ \A m \in Imports : Live(m) => ItemActive /\ item.id = m /\ item.bound
  /\ ItemActive =>
       LET row == import[item.id]
       IN  /\ ~item.bound => row.status \in {"None", "AwaitingUpload"}
           /\ item.bound => row.status # "None"
           /\ step = "Create" => ~item.bound
           /\ step \notin {"Idle", "Create"} => item.bound
           /\ step \in {"Upload", "Complete"} => row.status = "AwaitingUpload"
           /\ step \in {"Result", "Apply"} => row.status = "Succeeded"
           /\ Active(item.id) => row.rows = item.rows

(* A lease is held while its import runs, and nothing of an import is done *)
(* before it is queued.                                                    *)
LeaseOK ==
  \A m \in Imports : /\ import[m].lease \in Workers => import[m].status = "Running"
                     /\ import[m].status = "AwaitingUpload" => import[m].phase = "Waiting"

(* What the merge has brought into the catalogue, and what of it the CLI *)
(* has taken over.                                                       *)
MergeOK ==
  ItemActive =>
    /\ Live(item.id) /\ import[item.id].phase \in {"Merged", "WritingResult"} =>
         \A e \in Range(item.rows) : Refused(e) \/ Applied(e)
    /\ import[item.id].status = "Succeeded" => \A e \in Range(item.rows) : Applied(e)
    /\ item.applied <= Len(item.rows)
    /\ item.applied # 0 => import[item.id].status = "Succeeded"
    /\ \A k \in 1..item.applied : known[item.rows[k].item] = item.rows[k].rev

BulkInv ==
  /\ OutboxInv /\ BulkTypeOK /\ OneRequest /\ AnswersOK
  /\ ItemOK /\ ImportOK /\ LeaseOK /\ MergeOK /\ OneActive /\ StageKept

\* What holds of the outbox beside OutboxInv while no batch is split or
\* refused as a whole.
BatchInv == OutboxInv /\ OneRequest /\ AnswersOK

LEMMA BatchFrame ==
  ASSUME BatchInv, UNCHANGED vars
  PROVE  BatchInv'
<1>1. OutboxInv'
  <2>1. [Next]_vars
    OBVIOUS
  <2> QED  BY <2>1, OutboxStep DEF BatchInv
<1>2. OneRequest' /\ AnswersOK'
  BY DEF BatchInv, OneRequest, AnswersOK, vars, cliVars, serviceVars, Refused
<1> QED  BY <1>1, <1>2 DEF BatchInv

LEMMA BatchSyncKeeps ==
  ASSUME BatchInv, BatchSync
  PROVE  BatchInv'
<1> USE DEF BatchInv
<1>1. CASE \E i \in Items, c \in Revisions \cup {Absent} : Edit(i, c)
  <2>1. OutboxInv'
    BY <1>1, EditKeeps
  <2> QED  BY <1>1, <2>1 DEF Edit, OneRequest, AnswersOK, cliVars, serviceVars, Refused
<1>2. CASE \E unread \in SUBSET Items : Scan(unread)
  <2>1. OutboxInv'
    BY <1>2, ScanKeeps
  <2>2. PICK unread \in SUBSET Items : Scan(unread)
    BY <1>2
  <2>3. outbox = {} /\ UNCHANGED <<sending, net, answer>>
    BY <2>2 DEF Scan, serviceVars
  <2>4. \A b \in outbox' : b.key \notin DOMAIN answer
    <3> DEFINE parts == Cut(SetToSeq(Changed(unread)) \o SetToSeq(Gone(unread)),
                            IF upgraded THEN BatchSize ELSE OldBatchSize)
    <3>1. outbox' = Batches(parts) /\ keys' = keys + Len(parts)
      BY <2>2, <2>3 DEF Scan, Queue
    <3> HIDE DEF parts
    <3> SUFFICES ASSUME NEW b \in outbox' PROVE b.key \notin DOMAIN answer
      OBVIOUS
    <3>2. keys \in Nat /\ DOMAIN answer \subseteq 1..keys /\ b.key \in 1..keys'
      BY <2>1 DEF OutboxInv, TypeOK, QueueOK
    <3>3. PICK n \in DOMAIN parts : b.key = keys + n
      BY <3>1 DEF Batches
    <3>4. n \in Nat /\ n >= 1
      BY <3>3 DEF parts, Cut
    <3> QED  BY <3>2, <3>3, <3>4
  <2> QED  BY <2>1, <2>3, <2>4 DEF OneRequest, AnswersOK
<1>3. CASE SendBatch
  <2>1. Send
    BY <1>3 DEF SendBatch
  <2>2. OutboxInv'
    BY <2>1, SendKeeps
  <2>3. First \in outbox /\ First # Idle
    BY <2>1, FirstPending, IdleAssumption DEF Send, OutboxInv, TypeOK
  <2>4. OneRequest'
    BY <2>1, <2>3 DEF Send, OneRequest, serviceVars
  <2>5. AnswersOK'
    BY <2>1 DEF Send, AnswersOK, serviceVars, Refused
  <2> QED  BY <2>2, <2>4, <2>5
<1>4. CASE PauseBatch
  <2>1. OutboxInv'
    BY <1>4, FewerRequestsKeep DEF PauseBatch, OutboxInv, TypeOK, serviceVars
  <2> QED  BY <1>4, <2>1 DEF PauseBatch, OneRequest, AnswersOK, serviceVars, Refused
<1>5. CASE Receive
  <2>1. OutboxInv'
    BY <1>5, ReceiveKeeps
  <2> QED  BY <1>5, <2>1 DEF Receive, OneRequest, AnswersOK, serviceVars, Refused
<1>6. CASE \E b \in net : Execute(b)
  <2>1. PICK b \in net : Execute(b)
    BY <1>6
  <2>2. OutboxInv'
    BY <2>1, ExecuteKeeps
  <2> DEFINE rejected == {e \in b.entries : e.op = "Upsert" /\ <<e.item, e.rev>> \in Rejected}
             failed   == {e.item : e \in rejected}
  <2>3. /\ b.key \notin DOMAIN answer /\ Record(b, failed)
        /\ UNCHANGED <<hist, cliVars, net, spent>>
    BY <2>1 DEF Execute
  <2>4. failed \subseteq Items /\ rejected \subseteq b.entries
    BY DEF OutboxInv, TypeOK, Request, Entry
  <2>5. \A e \in rejected : Refused(e)
    BY DEF Refused
  <2>6. \A i \in failed : \E e \in rejected : e.item = i
    OBVIOUS
  <2> HIDE DEF rejected, failed
  <2>7. /\ b \in outbox
        /\ DOMAIN answer' = DOMAIN answer \cup {b.key}
        /\ answer'[b.key] = failed
        /\ \A c \in outbox : c # b =>
             c.key # b.key /\ (c.key \in DOMAIN answer' =>
                                 c.key \in DOMAIN answer /\ answer'[c.key] = answer[c.key])
    BY <2>3, <2>4, RecordKeeps
  <2>8. OneRequest'
    BY <2>3, <2>7 DEF OneRequest, cliVars
  <2>9. AnswersOK'
    <3> SUFFICES ASSUME NEW c \in outbox, c.key \in DOMAIN answer',
                        NEW e \in c.entries, e.item \in answer'[c.key]
                 PROVE  Refused(e)
      BY <2>3 DEF AnswersOK, cliVars, Refused
    <3>1. CASE c = b
      <4>1. PICK d \in rejected : d.item = e.item
        BY <2>6, <2>7, <3>1
      <4>2. d = e
        BY <2>4, <2>7, <3>1, <4>1 DEF OutboxInv, QueueOK, ItemsOnce
      <4> QED  BY <2>5, <4>1, <4>2
    <3>2. CASE c # b
      BY <2>7, <3>2 DEF AnswersOK
    <3> QED  BY <3>1, <3>2
  <2> QED  BY <2>2, <2>8, <2>9
<1> QED  BY <1>1, <1>2, <1>3, <1>4, <1>5, <1>6 DEF BatchSync
\* What of BulkInv is about the imports alone, and what it says of the item.
RowsInv == ImportTypeOK /\ LeaseOK /\ OneActive /\ StageKept
ItemInv == item \in Item /\ step \in SyncSteps /\ ItemOK /\ ImportOK /\ MergeOK

LEMMA BulkParts == BulkInv <=> BatchInv /\ RowsInv /\ ItemInv
  BY DEF BulkInv, BatchInv, RowsInv, ItemInv, BulkTypeOK, OutboxInv

LEMMA BulkPartsNext == BatchInv' /\ RowsInv' /\ ItemInv' => BulkInv'
  BY DEF BulkInv, BatchInv, RowsInv, ItemInv, BulkTypeOK, OutboxInv

LEMMA RowsFrame ==
  ASSUME RowsInv, UNCHANGED importVars
  PROVE  RowsInv'
  BY DEF RowsInv, ImportTypeOK, LeaseOK, OneActive, StageKept, Active, importVars

\* While an item is active, batches wait: nothing is sent, executed, answered
\* or scanned.
LEMMA BatchesWait ==
  ASSUME BulkInv, BatchSync, ItemActive
  PROVE  UNCHANGED <<known, outbox, sending, server>>
<1> USE DEF BulkInv, ItemOK
<1>1. sending = Idle /\ outbox # {}
  OBVIOUS
<1>2. CASE \E i \in Items, c \in Revisions \cup {Absent} : Edit(i, c)
  BY <1>2 DEF Edit, cliVars, serviceVars
<1>3. CASE \E unread \in SUBSET Items : Scan(unread)
  BY <1>1, <1>3 DEF Scan
<1>4. CASE SendBatch \/ PauseBatch \/ Receive
  BY <1>1, <1>4 DEF SendBatch, PauseBatch, Receive
<1>5. CASE \E b \in net : Execute(b)
  BY <1>1, <1>5 DEF Execute, OneRequest
<1> QED  BY <1>2, <1>3, <1>4, <1>5 DEF BatchSync

LEMMA BatchSyncBulk ==
  ASSUME BulkInv, BatchSync
  PROVE  BulkInv'
<1>1. BatchInv'
  BY BulkParts, BatchSyncKeeps
<1>2. UNCHANGED <<importVars, bulkVars>>
  BY DEF BatchSync
<1>3. RowsInv'
  BY <1>2, BulkParts, RowsFrame
<1>4. ItemActive' = ItemActive
  BY <1>2 DEF ItemActive, bulkVars
<1>5. ItemOK'
  BY <1>2, <1>4, BatchesWait DEF BulkInv, ItemOK, Captured, bulkVars
<1>6. ImportOK'
  BY <1>2, <1>4 DEF BulkInv, ImportOK, Live, Active, importVars, bulkVars
<1>7. MergeOK'
  BY <1>2, <1>4, BatchesWait DEF BulkInv, MergeOK, Live, Refused, Applied, importVars, bulkVars
<1>8. ItemInv'
  BY <1>2, <1>5, <1>6, <1>7 DEF BulkInv, BulkTypeOK, ItemInv, bulkVars
<1> QED  BY <1>1, <1>3, <1>8, BulkPartsNext
(* The steps of the CLI that leave the service and the batches alone. *)

CliOnly == UNCHANGED <<vars, importVars>>

LEMMA CliFrame ==
  ASSUME BulkInv, CliOnly, ItemInv'
  PROVE  BulkInv'
<1>1. BatchInv'
  BY BulkParts, BatchFrame DEF CliOnly
<1>2. RowsInv'
  BY BulkParts, RowsFrame DEF CliOnly
<1> QED  BY <1>1, <1>2, BulkPartsNext

\* An item is closed when the service does not work on its import.
LEMMA CloseKeeps ==
  ASSUME BulkInv, UNCHANGED importVars, NEW state \in {"FailedPermanent", "Cancelled", "Applied"},
         item' = Closing(state), step' = "Idle",
         \A m \in Imports : ~Live(m)
  PROVE  ItemInv'
<1> USE DEF BulkInv
<1>1. /\ item' = [item EXCEPT !.state = state, !.bound = FALSE, !.captured = {},
                              !.rows = <<>>, !.applied = 0]
      /\ item \in Item
  BY DEF Closing, BulkTypeOK
<1>2. item'.state = state
  BY <1>1 DEF Item
<1>3. item' \in Item
  <2>1. state \in ItemStates
    BY DEF ItemStates, Terminal
  <2>2. /\ item.id \in Imports \cup {Nobody} /\ item.result \in BOOLEAN
        /\ item = [state |-> item.state, id |-> item.id, bound |-> item.bound,
                   captured |-> item.captured, rows |-> item.rows,
                   result |-> item.result, applied |-> item.applied]
    BY <1>1 DEF Item
  <2>3. item' = [state |-> state, id |-> item.id, bound |-> FALSE, captured |-> {},
                 rows |-> <<>>, result |-> item.result, applied |-> 0]
    BY <1>1, <2>2
  <2>4. <<>> \in Seq(Entry)
    OBVIOUS
  <2> QED  BY <2>1, <2>2, <2>3, <2>4 DEF Item
<1>4. ~ItemActive'
  BY <1>2 DEF ItemActive
<1>5. \A m \in Imports : ~Live(m)'
  BY DEF Live, importVars
<1> QED
  BY <1>3, <1>4, <1>5 DEF ItemInv, ItemOK, ImportOK, MergeOK, SyncSteps

\* A step that moves the sync on and renames the state of the item, which
\* stays active or is over for the service too.
LEMMA StateKeeps ==
  ASSUME BulkInv, CliOnly, ItemActive,
         NEW state \in ItemStates,
         item' = item \/ item' = [item EXCEPT !.state = state]
           \/ item' = [item EXCEPT !.state = state, !.result = TRUE],
         step' \in SyncSteps, step' # "Idle" => ItemActive',
         ItemActive' \/ import[item.id].status \in Terminal,
         step' = "Create" => ~item.bound,
         step' \notin {"Idle", "Create"} => item.bound,
         step' \in {"Upload", "Complete"} => import[item.id].status = "AwaitingUpload",
         step' \in {"Result", "Apply"} => import[item.id].status = "Succeeded"
  PROVE  ItemInv'
<1>1. /\ item \in Item /\ ItemOK /\ ImportOK /\ MergeOK
  BY DEF BulkInv, BulkTypeOK
<1>2. /\ item' \in Item
      /\ item'.id = item.id /\ item'.bound = item.bound /\ item'.captured = item.captured
      /\ item'.rows = item.rows /\ item'.applied = item.applied
  BY <1>1 DEF Item
<1>3. /\ import' = import /\ outbox' = outbox /\ sending' = sending
      /\ known' = known /\ server' = server
  BY DEF CliOnly, importVars, vars, cliVars, serviceVars
<1>4. ItemOK'
  BY <1>1, <1>2, <1>3 DEF ItemOK, Captured
<1>5. \A m \in Imports : Live(m)' <=> Live(m)
  BY <1>3 DEF Live
<1>6. ImportOK'
  <2>1. \A m \in Imports : Live(m) => ItemActive' /\ item'.id = m /\ item'.bound
    BY <1>1, <1>2 DEF ImportOK, Live, Terminal
  <2> QED  BY <1>1, <1>2, <1>3, <1>5, <2>1 DEF ImportOK, Active
<1>7. MergeOK'
  BY <1>1, <1>2, <1>3, <1>5 DEF MergeOK, Live, Refused, Applied
<1> QED  BY <1>2, <1>4, <1>6, <1>7 DEF ItemInv
LEMMA CaptureKeeps ==
  ASSUME BulkInv, NEW batches \in SUBSET outbox, Capture(batches)
  PROVE  BulkInv'
<1> USE DEF BulkInv
<1> DEFINE entries == UNION {b.entries : b \in batches}
           rows    == SetToSeq(entries)
           taken   == {b.key : b \in batches}
<1>1. /\ sending = Idle /\ ~ItemActive /\ batches # {} /\ step' = "Create" /\ CliOnly
      /\ \A b \in batches : \A e \in b.entries : e.op = "Upsert"
  BY DEF Capture, CliOnly
<1>2. PICK m \in Fresh : item' = [state |-> "Prepared", id |-> m, bound |-> FALSE, captured |-> taken,
                                  rows |-> rows, result |-> FALSE, applied |-> 0]
  BY DEF Capture
<1>3. m \in Imports /\ import[m].status = "None"
  BY DEF Fresh
<1>4. outbox \subseteq Request /\ IsFiniteSet(outbox) /\ \A b \in outbox : IsFiniteSet(b.entries)
  BY DEF OutboxInv, TypeOK, QueueOK
<1>5. entries \subseteq Entry /\ taken \subseteq Nat /\ taken # {}
  BY <1>1, <1>4 DEF Request
<1>6. IsFiniteSet(entries)
  <2> DEFINE sets == {b.entries : b \in batches}
             f    == [b \in batches |-> b.entries]
  <2>1. IsFiniteSet(batches)
    BY <1>4, FS_Subset
  <2>2. IsFiniteSet({f[b] : b \in DOMAIN f})
    BY <2>1, ImageFinite
  <2>3. sets = {f[b] : b \in DOMAIN f}
    OBVIOUS
  <2>4. \A T \in sets : IsFiniteSet(T)
    BY <1>4
  <2> QED  BY <2>2, <2>3, <2>4, FS_UNION
<1>7. /\ rows \in Seq(entries) /\ Len(rows) \in Nat /\ DOMAIN rows = 1..Len(rows)
      /\ Range(rows) = entries
  <2>1. /\ rows \in [1..Cardinality(entries) -> entries] /\ rows \in Seq(entries)
        /\ Len(rows) = Cardinality(entries) /\ Cardinality(entries) \in Nat
        /\ \A x \in entries : \E a \in 1..Cardinality(entries) : rows[a] = x
    BY <1>6, SetToSeqLists
  <2> HIDE DEF rows, entries
  <2> QED  BY <2>1 DEF Range
<1>8. rows \in Seq(Entry)
  BY <1>5, <1>7
<1>9. entries = UNION {b.entries : b \in {c \in outbox : c.key \in taken}}
  <2>1. {c \in outbox : c.key \in taken} = batches
    BY DEF OutboxInv, QueueOK, KeysOnce
  <2> QED  BY <2>1
<1>10. \A k \in taken : \E b \in outbox : b.key = k
  OBVIOUS
<1>11. \A e \in entries : e.op = "Upsert"
  BY <1>1
<1> HIDE DEF entries, rows, taken
<1>12. /\ item'.state = "Prepared" /\ item'.id = m /\ item'.bound = FALSE /\ item'.captured = taken
       /\ item'.rows = rows /\ item'.applied = 0
  BY <1>2
<1>13. item' \in Item
  BY <1>2, <1>3, <1>5, <1>8 DEF Item, ItemStates
<1>14. ItemActive'
  BY <1>12 DEF ItemActive
<1>15. \A n \in Imports : ~Live(n) /\ ~Live(n)'
  BY <1>1 DEF ImportOK, Live, CliOnly, importVars
<1>16. import' = import /\ outbox' = outbox /\ sending' = sending /\ known' = known
  BY <1>1 DEF CliOnly, importVars, vars, cliVars
<1>17. ItemOK'
  <2>1. Captured' = {c \in outbox : c.key \in taken}
    BY <1>12, <1>16 DEF Captured
  <2>2. Range(item'.rows) = UNION {b.entries : b \in Captured'}
    BY <1>7, <1>9, <1>12, <2>1
  <2> HIDE DEF BulkInv
  <2> QED  BY <1>1, <1>3, <1>5, <1>7, <1>10, <1>11, <1>12, <1>14, <1>16, <2>2 DEF ItemOK
<1>18. ImportOK'
  <2> HIDE DEF BulkInv
  <2> QED  BY <1>1, <1>3, <1>12, <1>14, <1>15, <1>16 DEF ImportOK, Active
<1>19. MergeOK'
  <2> HIDE DEF BulkInv
  <2> QED  BY <1>3, <1>7, <1>12, <1>15, <1>16 DEF MergeOK
<1>20. ItemInv'
  BY <1>1, <1>13, <1>17, <1>18, <1>19 DEF ItemInv, SyncSteps
<1> QED  BY <1>1, <1>20, CliFrame
LEMMA ItemStepKeeps ==
  ASSUME BulkInv, Resume \/ Escape \/ GiveUp \/ Unusable \/ Status \/ DownloadResult
  PROVE  BulkInv'
<1>1. /\ item \in Item /\ step \in SyncSteps /\ ItemOK /\ ImportOK /\ MergeOK /\ ImportTypeOK
  BY DEF BulkInv, BulkTypeOK
<1>2. CliOnly
  BY DEF Resume, Escape, GiveUp, Unusable, Status, DownloadResult, CliOnly
<1>3. ItemActive' \in BOOLEAN /\ ItemActive \in BOOLEAN
  BY DEF ItemActive
<1>4. ItemActive => item.id \in Imports /\ import[item.id].status \in Statuses
  BY <1>1 DEF ItemOK, ImportTypeOK, ImportRow
<1>5. item' = item => ItemActive' = ItemActive
  BY DEF ItemActive
<1>6. UNCHANGED importVars
  BY <1>2 DEF CliOnly
<1>7. item.state \in ItemStates
  BY <1>1 DEF Item
<1>8. \A m \in Imports : Live(m) => ItemActive /\ item.id = m /\ item.bound
  BY <1>1 DEF ImportOK
<1>9. CASE Resume
  <2>1. ItemActive /\ item' = item /\ step' = IF item.bound THEN "Status" ELSE "Create"
    BY <1>9 DEF Resume
  <2>2. ItemInv'
    BY <1>1, <1>2, <1>5, <1>7, <2>1, StateKeeps DEF SyncSteps
  <2> QED  BY <1>2, <2>2, CliFrame
<1>10. CASE GiveUp
  <2>1. ItemActive /\ item' = item /\ step' = "Idle"
    BY <1>1, <1>10 DEF GiveUp, ItemOK
  <2>2. ItemInv'
    BY <1>1, <1>2, <1>5, <1>7, <2>1, StateKeeps DEF SyncSteps
  <2> QED  BY <1>2, <2>2, CliFrame
<1>11. CASE Unusable
  <2>1. ItemActive /\ step \in {"Upload", "Result", "Apply"} /\ Close
    BY <1>1, <1>11 DEF Unusable, ItemOK
  <2>2. import[item.id].status \in {"AwaitingUpload", "Succeeded"}
    BY <1>1, <2>1 DEF ImportOK
  <2>3. \A m \in Imports : ~Live(m)
    BY <1>8, <2>2 DEF Live
  <2>4. ItemInv'
    BY <1>6, <2>1, <2>3, CloseKeeps DEF Close
  <2> QED  BY <1>2, <2>4, CliFrame
<1>12. CASE Escape
  <2>1. ItemActive /\ step = "Idle" /\ step' = "Idle"
    BY <1>12 DEF Escape
  <2>2. CASE ~item.bound \/ StatusOf(item.id) = "AwaitingUpload"
    <3>1. item' = Closing("Cancelled")
      BY <1>12, <2>2 DEF Escape
    <3>2. \A m \in Imports : ~Live(m)
      BY <1>8, <2>2 DEF Live, StatusOf
    <3>3. ItemInv'
      BY <1>6, <2>1, <3>1, <3>2, CloseKeeps
    <3> QED  BY <1>2, <3>3, CliFrame
  <2>3. CASE item.bound /\ StatusOf(item.id) # "AwaitingUpload"
    <3>1. item' = [item EXCEPT !.state = StatusOf(item.id)]
      BY <1>12, <2>3 DEF Escape
    <3>2. StatusOf(item.id) \in ItemStates /\ StatusOf(item.id) # "None"
      BY <1>1, <1>4, <2>1, <2>3 DEF StatusOf, Statuses, ItemStates, ImportOK
    <3>3. item'.state = StatusOf(item.id)
      BY <1>1, <3>1 DEF Item
    <3>4. ItemActive' \/ import[item.id].status \in Terminal
      BY <1>4, <2>1, <3>2, <3>3 DEF ItemActive, StatusOf, Statuses, Terminal
    <3>5. ItemInv'
      BY <1>2, <2>1, <3>1, <3>2, <3>4, StateKeeps DEF SyncSteps
    <3> QED  BY <1>2, <3>5, CliFrame
  <2> QED  BY <2>2, <2>3
<1>13. CASE Status
  <2> DEFINE status == StatusOf(item.id)
  <2>1. step = "Status" /\ ItemActive /\ item.bound
    BY <1>1, <1>13 DEF Status, ItemOK, ImportOK
  <2>2. status \in Statuses /\ status # "None" /\ status = import[item.id].status
    BY <1>1, <1>4, <2>1 DEF StatusOf, ImportOK
  <2>3. CASE status \in Terminal \ {"Succeeded"}
    <3>1. Close
      BY <1>13, <2>3 DEF Status
    <3>2. \A m \in Imports : ~Live(m)
      BY <1>8, <2>2, <2>3 DEF Live, Terminal
    <3>3. ItemInv'
      BY <1>6, <3>1, <3>2, CloseKeeps DEF Close
    <3> QED  BY <1>2, <3>3, CliFrame
  <2>4. CASE status \notin Terminal \ {"Succeeded"}
    <3>1. /\ item' = [item EXCEPT !.state = status]
          /\ step' = CASE status = "AwaitingUpload" -> "Upload"
                       [] status = "RetryDue" -> "Idle"
                       [] status = "Succeeded" -> "Result"
                       [] OTHER -> "Status"
      BY <1>13, <2>4 DEF Status
    <3>2. item'.state = status
      BY <1>1, <3>1 DEF Item
    <3>3. ItemActive' /\ status \in ItemStates
      BY <2>2, <2>4, <3>2 DEF ItemActive, Statuses, Terminal, ItemStates
    <3>4. /\ step' \in {"Upload", "Idle", "Result", "Status"}
          /\ step' = "Upload" => status = "AwaitingUpload"
          /\ step' = "Result" => status = "Succeeded"
      BY <3>1
    <3> HIDE DEF status
    <3>5. ItemInv'
      BY <1>2, <2>1, <2>2, <3>1, <3>3, <3>4, StateKeeps DEF SyncSteps
    <3> QED  BY <1>2, <3>5, CliFrame
  <2> QED  BY <2>3, <2>4
<1>14. CASE DownloadResult
  <2>1. /\ step = "Result" /\ ItemActive /\ step' = "Apply"
        /\ item' = IF item.result THEN item ELSE RecordResult
    BY <1>1, <1>14 DEF DownloadResult, ItemOK
  <2>2. item.bound /\ import[item.id].status = "Succeeded"
    BY <1>1, <2>1 DEF ImportOK
  <2>3. item' = item \/ item' = [item EXCEPT !.state = "ResultReady", !.result = TRUE]
    BY <1>1, <2>1 DEF RecordResult, Item
  <2>4. ItemActive'
    BY <1>1, <2>1, <2>3 DEF ItemActive, Item
  <2>5. ItemInv'
    BY <1>2, <2>1, <2>2, <2>3, <2>4, StateKeeps DEF SyncSteps, ItemStates
  <2> QED  BY <1>2, <2>5, CliFrame
<1> QED  BY <1>9, <1>10, <1>11, <1>12, <1>13, <1>14
(* The calls of the API. *)

LEMMA NoImport ==
  /\ NewImport \in ImportRow /\ NewImport.status = "None" /\ NewImport.phase = "Waiting"
  /\ NewImport.lease = Nobody /\ NewImport.staged = FALSE
  BY DEF NewImport, ImportRow, Statuses, Phases

LEMMA ClosedRow ==
  ASSUME NEW status \in Terminal
  PROVE  /\ Closed(status) \in ImportRow /\ Closed(status).status = status
         /\ Closed(status).phase = "Complete" /\ Closed(status).lease = Nobody
         /\ Closed(status).result = FALSE
<1>1. status \in Statuses /\ "Complete" \in Phases
  BY DEF Statuses, Phases
<1>2. Closed(status) = [NewImport EXCEPT !.status = status, !.phase = "Complete"]
  BY DEF Closed
<1> QED  BY <1>1, <1>2, NoImport DEF NewImport, ImportRow

\* The import of an item that is not known to be created, or whose manifest
\* is not uploaded, is not worked on, and then no import is.
LEMMA CreateKeeps ==
  ASSUME BulkInv, CreateImport
  PROVE  BulkInv'
<1> DEFINE m == item.id
<1>1. /\ item \in Item /\ ItemOK /\ ImportOK /\ MergeOK /\ ImportTypeOK /\ LeaseOK
      /\ OneActive /\ StageKept /\ step = "Create"
  BY DEF BulkInv, BulkTypeOK, CreateImport
<1>2. UNCHANGED vars
  BY DEF CreateImport
<1>3. BatchInv'
  BY <1>2, BulkParts, BatchFrame
<1>4. ItemActive /\ ~item.bound /\ m \in Imports /\ import[m].status \in {"None", "AwaitingUpload"}
  BY <1>1 DEF ItemOK, ImportOK
<1>5. \A n \in Imports : ~Live(n)
  BY <1>1, <1>4 DEF ImportOK
<1>6. CASE CreateAllowed(m) \/ import[m].status # "None"
  <2>1. Create(m, item.rows) /\ (\/ item' = [item EXCEPT !.bound = TRUE, !.state = import'[m].status] /\ step' = "Status"
                                 \/ item' = item /\ step' = "Idle")
    BY <1>6 DEF CreateImport
  <2> DEFINE new == [NewImport EXCEPT !.status = "AwaitingUpload", !.rows = item.rows]
  <2>2. import \in [Imports -> ImportRow] /\ uploaded \subseteq Imports /\ messages \subseteq Imports
        /\ worker \in [Workers -> Claim \cup {Nobody}] /\ item.rows \in Seq(Entry)
    BY <1>1 DEF ImportTypeOK, Item
  <2>3. new \in ImportRow /\ new.status = "AwaitingUpload" /\ new.phase = "Waiting" /\ new.lease = Nobody
        /\ new.rows = item.rows
    BY <2>2, NoImport DEF NewImport, ImportRow, Statuses
  <2>4. UNCHANGED <<uploaded, messages, worker>> /\ DOMAIN import' = Imports
        /\ import' = [n \in Imports |-> import'[n]]
    BY <2>1 DEF Create
  <2>5. import'[m] = IF import[m].status = "None" THEN new ELSE [import[m] EXCEPT !.lapsed = FALSE]
    BY <1>4, <2>1 DEF Create
  <2>6. \A n \in Imports \ {m} :
          import'[n] = IF import[m].status = "None" /\ Lapsed(n) THEN Closed("Expired") ELSE import[n]
    BY <2>1 DEF Create
  <2> HIDE DEF new, m
  <2>7. /\ import'[m] \in ImportRow /\ import'[m].status = "AwaitingUpload"
        /\ import'[m].phase = "Waiting" /\ import'[m].lease \notin Workers
        /\ import'[m].rows = item.rows
    <3>1. CASE import[m].status = "None"
      BY <2>3, <2>5, <3>1, ImportAssumption
    <3>2. CASE import[m].status = "AwaitingUpload"
      <4>1. import[m] \in ImportRow /\ import'[m] = [import[m] EXCEPT !.lapsed = FALSE]
        BY <1>4, <2>2, <2>5, <3>2
      <4>2. /\ import'[m] \in ImportRow /\ import'[m].status = import[m].status
            /\ import'[m].phase = import[m].phase /\ import'[m].lease = import[m].lease
            /\ import'[m].rows = import[m].rows
        BY <4>1 DEF ImportRow
      <4>3. import[m].rows = item.rows /\ import[m].phase = "Waiting" /\ import[m].lease \notin Workers
        BY <1>1, <1>4, <3>2 DEF ImportOK, Active, LeaseOK, m
      <4> QED  BY <3>2, <4>2, <4>3
    <3> QED  BY <1>4, <3>1, <3>2
  <2>8. \A n \in Imports \ {m} :
          /\ import'[n] \in ImportRow
          /\ import'[n] = import[n] \/ import'[n] = Closed("Expired")
    BY <2>2, <2>6, ClosedRow DEF Terminal
  <2>9. ImportTypeOK'
    BY <2>2, <2>4, <2>7, <2>8 DEF ImportTypeOK
  <2>10. Closed("Expired").status = "Expired" /\ Closed("Expired").lease \notin Workers
    BY ClosedRow, ImportAssumption DEF Terminal
  <2>11. LeaseOK'
    BY <1>1, <1>4, <2>7, <2>8, <2>10 DEF LeaseOK
  <2>12. \A n \in Imports \ {m} : ~Active(n)'
    <3>1. CASE import[m].status = "None"
      BY <1>6, <2>6, <2>10, <3>1 DEF Active, CreateAllowed
    <3>2. CASE import[m].status = "AwaitingUpload"
      BY <1>1, <1>4, <2>6, <3>2 DEF Active, OneActive
    <3> QED  BY <1>4, <3>1, <3>2
  <2>13. OneActive'
    BY <1>4, <2>12 DEF OneActive
  <2>14. StageKept'
    BY <1>1, <1>4, <2>7, <2>8, <2>10, <2>12 DEF StageKept
  <2>15. \A n \in Imports : ~Live(n)'
    BY <1>4, <1>5, <2>7, <2>8, <2>10 DEF Live
  <2>16. /\ item' \in Item /\ item'.id = item.id /\ item'.captured = item.captured
         /\ item'.rows = item.rows /\ item'.applied = item.applied
         /\ ItemActive'
         /\ \/ item'.bound = TRUE /\ step' = "Status"
            \/ item'.bound = item.bound /\ step' = "Idle"
    <3>1. CASE item' = item /\ step' = "Idle"
      BY <1>1, <1>4, <3>1 DEF ItemActive
    <3>2. CASE item' = [item EXCEPT !.bound = TRUE, !.state = "AwaitingUpload"] /\ step' = "Status"
      BY <1>1, <3>2 DEF ItemActive, Item, ItemStates
    <3> QED  BY <2>1, <2>7, <3>1, <3>2 DEF m
  <2>17. outbox' = outbox /\ sending' = sending
    BY <1>2 DEF vars, cliVars
  <2>18. ItemOK'
    BY <1>1, <1>4, <2>16, <2>17 DEF ItemOK, Captured
  <2>19. ImportOK'
    BY <1>4, <2>7, <2>15, <2>16 DEF ImportOK, m
  <2>20. MergeOK'
    <3>1. item.applied = 0 /\ Len(item.rows) \in Nat
      BY <1>1, <1>4, <2>2 DEF MergeOK, m
    <3> QED  BY <1>4, <2>7, <2>15, <2>16, <3>1 DEF MergeOK, m
  <2>21. ItemInv' /\ RowsInv'
    BY <2>9, <2>11, <2>13, <2>14, <2>16, <2>18, <2>19, <2>20 DEF ItemInv, RowsInv, SyncSteps
  <2> QED  BY <1>3, <2>21, BulkPartsNext
<1>7. CASE ~(CreateAllowed(m) \/ import[m].status # "None")
  <2>1. Close /\ UNCHANGED importVars
    BY <1>7 DEF CreateImport
  <2>2. ItemInv'
    BY <1>5, <2>1, CloseKeeps DEF Close
  <2>3. RowsInv'
    BY <2>1, BulkParts, RowsFrame
  <2> QED  BY <1>3, <2>2, <2>3, BulkPartsNext
<1> QED  BY <1>6, <1>7
(* A step on the row of an import that is active, for the import that the   *)
(* item stands for or for one that keeps its status.                        *)
RowStep(m, r) ==
  /\ import' = [import EXCEPT ![m] = r]
  /\ r \in ImportRow /\ Active(m)
  /\ r.lease \in Workers => r.status = "Running"
  /\ r.status = "AwaitingUpload" => r.phase = "Waiting"
  /\ r.status # "None" /\ (r.status \notin Terminal => r.rows = import[m].rows)
  /\ r.status \notin Terminal /\ r.phase \in {"Staged", "Merging", "Merged", "WritingResult"} => r.staged
  /\ r.status \in {"Succeeded", "CompletedWithErrors"} => r.result
  /\ r.status = import[m].status \/ (ItemActive /\ item.id = m /\ item.bound)

LEMMA RowKeeps ==
  ASSUME RowsInv, NEW m \in Imports, NEW r, RowStep(m, r),
         uploaded' \subseteq Imports, messages' \subseteq Imports,
         worker' \in [Workers -> Claim \cup {Nobody}]
  PROVE  RowsInv'
<1> USE DEF RowsInv, RowStep
<1>1. import \in [Imports -> ImportRow]
  BY DEF ImportTypeOK
<1>2. import' \in [Imports -> ImportRow] /\ import'[m] = r /\ \A n \in Imports \ {m} : import'[n] = import[n]
  BY <1>1
<1>3. ImportTypeOK'
  BY <1>2 DEF ImportTypeOK
<1>4. LeaseOK'
  BY <1>2 DEF LeaseOK
<1>5. \A n \in Imports : Active(n)' => Active(n)
  BY <1>2 DEF Active
<1>6. OneActive'
  BY <1>5 DEF OneActive
<1>7. StageKept'
  <2> SUFFICES ASSUME NEW n \in Imports
               PROVE  /\ Active(n)' /\ import'[n].phase \in {"Staged", "Merging", "Merged", "WritingResult"}
                           => import'[n].staged
                      /\ import'[n].status \in {"Succeeded", "CompletedWithErrors"} => import'[n].result
    BY DEF StageKept
  <2>1. CASE n = m
    BY <1>2, <2>1 DEF Active, Terminal
  <2>2. CASE n # m
    BY <1>2, <2>2 DEF Active, StageKept
  <2> QED  BY <2>1, <2>2
<1> QED  BY <1>3, <1>4, <1>6, <1>7

\* The sync goes on from a row that the service has changed.
LEMMA RowItem ==
  ASSUME BulkInv, NEW m \in Imports, NEW r, RowStep(m, r),
         UNCHANGED <<outbox, sending>>,
         item' \in Item, item'.id = item.id, item'.bound = item.bound,
         item'.captured = item.captured, item'.rows = item.rows,
         ItemActive' <=> ItemActive,
         step' \in SyncSteps, step' # "Idle" => ItemActive,
         step' = "Create" => ~item.bound,
         step' \notin {"Idle", "Create"} => item.bound,
         step' \in {"Upload", "Complete"} => import'[item.id].status = "AwaitingUpload",
         step' \in {"Result", "Apply"} => import'[item.id].status = "Succeeded"
  PROVE  ItemOK' /\ ImportOK'
<1>1. /\ import \in [Imports -> ImportRow] /\ ItemOK /\ ImportOK
  BY DEF BulkInv, BulkTypeOK, ImportTypeOK
<1>2. import'[m] = r /\ \A n \in Imports \ {m} : import'[n] = import[n]
  BY <1>1 DEF RowStep
<1>3. ItemOK'
  BY <1>1 DEF ItemOK, Captured
<1>4. \A n \in Imports : Live(n)' => ItemActive /\ item.id = n /\ item.bound
  BY <1>1, <1>2 DEF ImportOK, Live, RowStep
<1>5. ASSUME ItemActive
      PROVE  /\ ~item.bound => import'[item.id].status \in {"None", "AwaitingUpload"}
             /\ item.bound => import'[item.id].status # "None"
             /\ Active(item.id)' => import'[item.id].rows = item.rows
  <2>1. (item.id \in Imports /\ item.id = m) \/ item.id \in Imports \ {m}
    BY <1>1, <1>5 DEF ItemOK
  <2>2. CASE item.id # m
    BY <1>1, <1>2, <1>5, <2>1, <2>2 DEF ImportOK, Active
  <2>3. CASE item.id = m
    BY <1>1, <1>2, <1>5, <2>1, <2>3 DEF ImportOK, Active, RowStep, Terminal
  <2> QED  BY <2>2, <2>3
<1>6. ImportOK'
  <2>1. \A n \in Imports : Live(n)' => ItemActive' /\ item'.id = n /\ item'.bound
    BY <1>4
  <2>2. ItemActive' =>
       LET row == import'[item'.id]
       IN  /\ ~item'.bound => row.status \in {"None", "AwaitingUpload"}
           /\ item'.bound => row.status # "None"
           /\ step' = "Create" => ~item'.bound
           /\ step' \notin {"Idle", "Create"} => item'.bound
           /\ step' \in {"Upload", "Complete"} => row.status = "AwaitingUpload"
           /\ step' \in {"Result", "Apply"} => row.status = "Succeeded"
           /\ Active(item.id)' => row.rows = item'.rows
    BY <1>5
  <2> QED  BY <2>1, <2>2 DEF ImportOK
<1> QED  BY <1>3, <1>6

\* What was merged stays merged, and the result of an import is not applied
\* before it is written.
LEMMA RowMerge ==
  ASSUME BulkInv, NEW m \in Imports, NEW r, RowStep(m, r),
         UNCHANGED <<known, server>>,
         item'.id = item.id, item'.rows = item.rows, item'.applied = item.applied,
         ItemActive' <=> ItemActive,
         r.status \notin Terminal /\ r.phase \in {"Merged", "WritingResult"} =>
           Live(m) /\ import[m].phase \in {"Merged", "WritingResult"},
         r.status = "Succeeded" =>
           /\ Live(m) /\ import[m].phase \in {"Merged", "WritingResult"}
           /\ \A e \in Range(import[m].rows) : ~Refused(e)
  PROVE  MergeOK'
<1>1. import \in [Imports -> ImportRow] /\ ItemOK /\ ImportOK /\ MergeOK
  BY DEF BulkInv, BulkTypeOK, ImportTypeOK
<1>2. import'[m] = r /\ \A n \in Imports \ {m} : import'[n] = import[n]
  BY <1>1 DEF RowStep
<1> SUFFICES ASSUME ItemActive PROVE MergeOK'
  BY DEF MergeOK
<1>3. \A e : (Refused(e)' <=> Refused(e)) /\ (Applied(e)' <=> Applied(e))
  BY DEF Refused, Applied
<1>4. item.id \in Imports
  BY <1>1 DEF ItemOK
<1>5. CASE item.id # m
  BY <1>1, <1>2, <1>3, <1>4, <1>5 DEF MergeOK, Live
<1>6. CASE item.id = m
  <2>1. item.applied = 0
    BY <1>1, <1>6 DEF MergeOK, RowStep, Active
  <2>2. item.applied <= Len(item.rows)
    BY <1>1 DEF MergeOK
  <2>3. Live(m)' /\ r.phase \in {"Merged", "WritingResult"} =>
          \A e \in Range(item.rows) : Refused(e) \/ Applied(e)
    BY <1>1, <1>2, <1>6 DEF MergeOK, Live, Terminal
  <2>4. r.status = "Succeeded" => \A e \in Range(item.rows) : Applied(e)
    BY <1>1, <1>6 DEF MergeOK, ImportOK, RowStep
  <2> QED  BY <1>2, <1>3, <1>6, <2>1, <2>2, <2>3, <2>4 DEF MergeOK
<1> QED  BY <1>5, <1>6
LEMMA UploadKeeps ==
  ASSUME BulkInv, UploadManifest
  PROVE  BulkInv'
<1> DEFINE m == item.id
           r == [import[m] EXCEPT !.lapsed = FALSE]
<1>1. /\ item \in Item /\ ItemOK /\ ImportOK /\ MergeOK /\ ImportTypeOK /\ LeaseOK
      /\ OneActive /\ StageKept /\ step = "Upload"
  BY DEF BulkInv, BulkTypeOK, UploadManifest
<1>2. UNCHANGED <<vars, item>> /\ ItemActive' = ItemActive
  BY DEF UploadManifest, ItemActive
<1>3. ItemActive /\ item.bound /\ m \in Imports /\ import[m].status = "AwaitingUpload"
  BY <1>1 DEF ItemOK, ImportOK
<1>4. Upload(m) /\ step' \in {"Complete", "Idle"}
  BY <1>3 DEF UploadManifest
<1>5. import[m] \in ImportRow
  BY <1>1, <1>3 DEF ImportTypeOK
<1>6. /\ r \in ImportRow /\ r.status = "AwaitingUpload" /\ r.phase = import[m].phase
      /\ r.lease = import[m].lease /\ r.rows = import[m].rows /\ r.staged = import[m].staged
  BY <1>3, <1>5 DEF ImportRow
<1>7. import' = [import EXCEPT ![m] = r]
  BY <1>4 DEF Upload
<1> HIDE DEF m, r
<1>8. RowStep(m, r)
  BY <1>1, <1>3, <1>6, <1>7 DEF RowStep, Active, LeaseOK, Terminal
<1>9. RowsInv'
  BY <1>1, <1>3, <1>4, <1>8, BulkParts, RowKeeps DEF Upload, ImportTypeOK
<1>10. import'[m].status = "AwaitingUpload"
  BY <1>1, <1>3, <1>6, <1>7 DEF ImportTypeOK
<1>11. ItemOK' /\ ImportOK'
  BY <1>1, <1>2, <1>3, <1>4, <1>8, <1>10, RowItem DEF vars, cliVars, SyncSteps, m
<1>12. MergeOK'
  BY <1>1, <1>2, <1>3, <1>6, <1>8, RowMerge DEF vars, cliVars, serviceVars, LeaseOK
<1>13. BatchInv' /\ ItemInv'
  BY <1>1, <1>2, <1>4, <1>11, <1>12, BulkParts, BatchFrame DEF ItemInv, SyncSteps
<1> QED  BY <1>9, <1>13, BulkPartsNext

LEMMA CompleteKeeps ==
  ASSUME BulkInv, CompleteImport
  PROVE  BulkInv'
<1> DEFINE m == item.id
           r == [import[m] EXCEPT !.status = "Queued", !.due = TRUE]
<1>1. /\ item \in Item /\ ItemOK /\ ImportOK /\ MergeOK /\ ImportTypeOK /\ LeaseOK
      /\ OneActive /\ StageKept /\ step = "Complete"
  BY DEF BulkInv, BulkTypeOK, CompleteImport
<1>2. UNCHANGED vars
  BY DEF CompleteImport
<1>3. ItemActive /\ item.bound /\ m \in Imports /\ import[m].status = "AwaitingUpload"
  BY <1>1 DEF ItemOK, ImportOK
<1>4. Complete(m)
  BY DEF CompleteImport
<1>5. import[m] \in ImportRow /\ import \in [Imports -> ImportRow]
  BY <1>1, <1>3 DEF ImportTypeOK
<1>6. /\ r \in ImportRow /\ r.status = "Queued" /\ r.phase = import[m].phase
      /\ r.lease = import[m].lease /\ r.rows = import[m].rows /\ r.staged = import[m].staged
  BY <1>3, <1>5 DEF ImportRow, Statuses
<1>7. import' = [import EXCEPT ![m] = r] /\ messages' \in {messages, messages \cup {m}}
      /\ UNCHANGED <<uploaded, worker>>
  BY <1>3, <1>4, <1>5 DEF Complete
<1>8. import'[m].status = "Queued"
  BY <1>3, <1>5, <1>6, <1>7
<1>9. \/ item' = [item EXCEPT !.state = "Queued"] /\ step' = "Status"
      \/ item' = item /\ step' = "Idle"
  BY <1>8 DEF CompleteImport
<1> HIDE DEF m, r
<1>10. /\ item' \in Item /\ item'.id = item.id /\ item'.bound = item.bound
       /\ item'.captured = item.captured /\ item'.rows = item.rows
       /\ item'.applied = item.applied /\ ItemActive'
  <2>1. CASE item' = item
    BY <1>1, <1>3, <2>1 DEF ItemActive
  <2>2. CASE item' = [item EXCEPT !.state = "Queued"]
    BY <1>1, <2>2 DEF ItemActive, Item, ItemStates
  <2> QED  BY <1>9, <2>1, <2>2
<1>11. RowStep(m, r)
  BY <1>1, <1>3, <1>6, <1>7 DEF RowStep, Active, LeaseOK, Terminal, m
<1>12. RowsInv'
  BY <1>1, <1>3, <1>7, <1>11, BulkParts, RowKeeps DEF ImportTypeOK
<1>13. ItemOK' /\ ImportOK'
  BY <1>1, <1>2, <1>3, <1>9, <1>10, <1>11, RowItem DEF vars, cliVars, SyncSteps
<1>14. MergeOK'
  BY <1>1, <1>2, <1>3, <1>6, <1>10, <1>11, RowMerge DEF vars, cliVars, serviceVars, LeaseOK
<1>15. BatchInv' /\ ItemInv'
  BY <1>2, <1>9, <1>10, <1>13, <1>14, BulkParts, BatchFrame DEF ItemInv, SyncSteps
<1> QED  BY <1>12, <1>15, BulkPartsNext
(* The worker and the schedule. *)

LEMMA WorkFrame ==
  ASSUME BulkInv, UNCHANGED <<vars, bulkVars, import>>,
         uploaded' \subseteq Imports, messages' \subseteq Imports,
         worker' \in [Workers -> Claim \cup {Nobody}]
  PROVE  BulkInv'
<1>1. /\ item \in Item /\ ItemOK /\ ImportOK /\ MergeOK /\ RowsInv /\ step \in SyncSteps
  BY DEF BulkInv, BulkTypeOK, RowsInv
<1>2. BatchInv'
  BY BulkParts, BatchFrame
<1>3. RowsInv'
  BY <1>1 DEF RowsInv, ImportTypeOK, LeaseOK, OneActive, StageKept, Active
<1>4. ItemActive' = ItemActive
  BY DEF ItemActive, bulkVars
<1>5. ItemOK' /\ ImportOK'
  BY <1>1, <1>4 DEF ItemOK, ImportOK, Captured, Live, Active, bulkVars, vars, cliVars
<1>6. MergeOK'
  BY <1>1, <1>4 DEF MergeOK, Live, Refused, Applied, bulkVars, vars, cliVars, serviceVars
<1>7. ItemInv'
  BY <1>1, <1>5, <1>6 DEF ItemInv, bulkVars
<1> QED  BY <1>2, <1>3, <1>7, BulkPartsNext

LEMMA WorkRow ==
  ASSUME BulkInv, UNCHANGED <<vars, bulkVars>>, NEW m \in Imports, NEW r, RowStep(m, r),
         uploaded' \subseteq Imports, messages' \subseteq Imports,
         worker' \in [Workers -> Claim \cup {Nobody}],
         import[m].status = "AwaitingUpload" => r.status = "AwaitingUpload",
         r.status \notin Terminal /\ r.phase \in {"Merged", "WritingResult"} =>
           Live(m) /\ import[m].phase \in {"Merged", "WritingResult"},
         r.status = "Succeeded" =>
           /\ Live(m) /\ import[m].phase \in {"Merged", "WritingResult"}
           /\ \A e \in Range(import[m].rows) : ~Refused(e)
  PROVE  BulkInv'
<1>1. /\ item \in Item /\ ItemOK /\ ImportOK /\ RowsInv /\ step \in SyncSteps
  BY DEF BulkInv, BulkTypeOK, RowsInv
<1>2. BatchInv'
  BY BulkParts, BatchFrame
<1>3. RowsInv'
  BY <1>1, RowKeeps
<1>4. ItemActive' = ItemActive /\ item' = item /\ step' = step
  BY DEF ItemActive, bulkVars
<1>5. import'[m] = r /\ \A n \in Imports \ {m} : import'[n] = import[n]
  BY <1>1 DEF RowsInv, ImportTypeOK, RowStep
<1>6. step # "Idle" =>
        /\ ItemActive /\ item.id \in Imports
        /\ step \in {"Upload", "Complete"} => import'[item.id].status = "AwaitingUpload"
        /\ step \in {"Result", "Apply"} => import'[item.id].status = "Succeeded"
  BY <1>1, <1>5 DEF ItemOK, ImportOK, RowStep, Active
<1>7. step = "Create" => ~item.bound
  BY <1>1, <1>6 DEF ImportOK
<1>8. step \notin {"Idle", "Create"} => item.bound
  BY <1>1, <1>6 DEF ImportOK
<1>9. UNCHANGED <<outbox, sending, known, server>>
  BY DEF vars, cliVars, serviceVars
<1>10. ItemOK' /\ ImportOK'
  BY <1>1, <1>4, <1>6, <1>7, <1>8, <1>9, RowItem
<1>11. MergeOK'
  BY <1>4, <1>9, RowMerge
<1>12. ItemInv'
  BY <1>1, <1>4, <1>10, <1>11 DEF ItemInv
<1> QED  BY <1>2, <1>3, <1>12, BulkPartsNext

\* An import that is due is one the item waits for.
LEMMA LiveIsItem ==
  ASSUME BulkInv, NEW m \in Imports, Live(m)
  PROVE  Active(m) /\ ItemActive /\ item.id = m /\ item.bound
  BY DEF BulkInv, ImportOK, Live, Active

LEMMA ClaimOf ==
  ASSUME BulkInv, NEW w \in Workers, worker[w] # Nobody
  PROVE  worker[w] \in Claim /\ worker[w].import \in Imports
  BY DEF BulkInv, BulkTypeOK, ImportTypeOK, Claim

LEMMA ClockKeeps ==
  ASSUME BulkInv, NEW m \in Imports, UploadLapses(m) \/ LeaseRunsOut(m) \/ BackoffEnds(m),
         UNCHANGED <<vars, bulkVars>>
  PROVE  BulkInv'
<1>1. /\ ImportTypeOK /\ LeaseOK /\ StageKept /\ import[m] \in ImportRow
  BY DEF BulkInv, BulkTypeOK, ImportTypeOK
<1>2. PICK r \in ImportRow :
        /\ import' = [import EXCEPT ![m] = r]
        /\ r.status = import[m].status /\ r.phase = import[m].phase /\ r.lease = import[m].lease
        /\ r.rows = import[m].rows /\ r.staged = import[m].staged /\ r.result = import[m].result
  <2>1. CASE UploadLapses(m)
    <3> DEFINE r == [import[m] EXCEPT !.lapsed = TRUE]
    <3>1. import' = [import EXCEPT ![m] = r]
      BY <2>1 DEF UploadLapses
    <3>2. r \in ImportRow /\ r.status = import[m].status /\ r.phase = import[m].phase
          /\ r.lease = import[m].lease /\ r.rows = import[m].rows /\ r.staged = import[m].staged
          /\ r.result = import[m].result
      BY <1>1 DEF ImportRow
    <3> QED  BY <3>1, <3>2
  <2>2. CASE LeaseRunsOut(m)
    <3> DEFINE r == [import[m] EXCEPT !.live = FALSE]
    <3>1. import' = [import EXCEPT ![m] = r]
      BY <2>2 DEF LeaseRunsOut
    <3>2. r \in ImportRow /\ r.status = import[m].status /\ r.phase = import[m].phase
          /\ r.lease = import[m].lease /\ r.rows = import[m].rows /\ r.staged = import[m].staged
          /\ r.result = import[m].result
      BY <1>1 DEF ImportRow
    <3> QED  BY <3>1, <3>2
  <2>3. CASE BackoffEnds(m)
    <3> DEFINE r == [import[m] EXCEPT !.due = TRUE]
    <3>1. import' = [import EXCEPT ![m] = r]
      BY <2>3 DEF BackoffEnds
    <3>2. r \in ImportRow /\ r.status = import[m].status /\ r.phase = import[m].phase
          /\ r.lease = import[m].lease /\ r.rows = import[m].rows /\ r.staged = import[m].staged
          /\ r.result = import[m].result
      BY <1>1 DEF ImportRow
    <3> QED  BY <3>1, <3>2
  <2> QED  BY <2>1, <2>2, <2>3
<1>3. /\ import[m].status \in {"AwaitingUpload", "Running", "RetryDue"}
      /\ UNCHANGED <<uploaded, messages, worker>>
  BY DEF UploadLapses, LeaseRunsOut, BackoffEnds
<1>4. RowStep(m, r)
  BY <1>1, <1>2, <1>3 DEF RowStep, Active, LeaseOK, StageKept, Terminal
<1>5. r.phase \in {"Merged", "WritingResult"} =>
        Live(m) /\ import[m].phase \in {"Merged", "WritingResult"}
  BY <1>1, <1>2, <1>3 DEF Live, LeaseOK
<1> QED  BY <1>1, <1>2, <1>3, <1>4, <1>5, WorkRow DEF ImportTypeOK
LEMMA DueIsLive ==
  ASSUME BulkInv, NEW m \in Imports, Due(m)
  PROVE  Live(m)
  BY DEF Due, Live

LEMMA AbandonKeeps ==
  ASSUME BulkInv, NEW m \in Imports, Abandon(m), UNCHANGED <<vars, bulkVars>>
  PROVE  BulkInv'
<1> DEFINE r == Closed("FailedPermanent")
<1>1. /\ ImportTypeOK /\ Live(m)
  BY DueIsLive DEF BulkInv, BulkTypeOK, Abandon
<1>2. /\ import' = [import EXCEPT ![m] = r] /\ messages' = messages \ {m}
      /\ UNCHANGED <<uploaded, worker>>
  BY DEF Abandon, Acknowledge
<1>3. r \in ImportRow /\ r.status = "FailedPermanent" /\ r.phase = "Complete" /\ r.lease = Nobody
  BY ClosedRow DEF Terminal
<1> HIDE DEF r
<1>4. Active(m) /\ ItemActive /\ item.id = m /\ item.bound
  BY <1>1, LiveIsItem
<1>5. RowStep(m, r)
  BY <1>2, <1>3, <1>4, ImportAssumption DEF RowStep, Terminal
<1> QED  BY <1>1, <1>2, <1>3, <1>5, WorkRow DEF ImportTypeOK, Live, Terminal

LEMMA ClaimKeeps ==
  ASSUME BulkInv, NEW w \in Workers, NEW m \in Imports, ClaimImport(w, m), UNCHANGED <<vars, bulkVars>>
  PROVE  BulkInv'
<1> DEFINE phase == IF FirstStep(import[m].phase) = "Download" THEN "Downloading" ELSE import[m].phase
           first == FirstStep(import[m].phase)
           r == [import[m] EXCEPT !.status = "Running", !.attempts = @ + 1, !.lease = w,
                                  !.live = TRUE, !.due = FALSE, !.phase = phase]
<1>1. ImportTypeOK /\ StageKept /\ Live(m) /\ import[m] \in ImportRow
  BY DueIsLive DEF BulkInv, BulkTypeOK, ClaimImport, ImportTypeOK
<1>2. /\ import' = [import EXCEPT ![m] = r]
      /\ worker' = [worker EXCEPT ![w] = [import |-> m, step |-> first]]
      /\ UNCHANGED <<uploaded, messages>>
  BY <1>1 DEF ClaimImport, ImportTypeOK
<1>3. first \in Steps /\ phase \in Phases
      /\ (phase \in {"Staged", "Merging", "Merged", "WritingResult"} => import[m].phase = phase)
  BY <1>1 DEF FirstStep, Steps, Phases, ImportRow
<1> HIDE DEF phase, first
<1>4. r \in ImportRow /\ r.status = "Running" /\ r.phase = phase /\ r.rows = import[m].rows
      /\ r.staged = import[m].staged
  <2>1. import[m].attempts + 1 \in Nat /\ "Running" \in Statuses
    BY <1>1 DEF ImportRow, Statuses
  <2>2. r = [import[m] EXCEPT !.status = "Running", !.attempts = import[m].attempts + 1, !.lease = w,
                              !.live = TRUE, !.due = FALSE, !.phase = phase]
    OBVIOUS
  <2> HIDE DEF r
  <2> QED  BY <1>1, <1>3, <2>1, <2>2 DEF ImportRow
<1> HIDE DEF r
<1>5. worker' \in [Workers -> Claim \cup {Nobody}]
  BY <1>1, <1>2, <1>3 DEF ImportTypeOK, Claim
<1>6. Active(m) /\ ItemActive /\ item.id = m /\ item.bound
  BY <1>1, LiveIsItem
<1>7. RowStep(m, r)
  BY <1>1, <1>2, <1>3, <1>4, <1>6 DEF RowStep, StageKept, Terminal
<1> QED  BY <1>1, <1>2, <1>3, <1>4, <1>5, <1>7, WorkRow DEF ImportTypeOK, Live

\* The phases between the claim and the result.
LEMMA ProgressKeeps ==
  ASSUME BulkInv, NEW w \in Workers, Stage(w) \/ MarkMerging(w) \/ MarkWriting(w),
         UNCHANGED <<vars, bulkVars>>
  PROVE  BulkInv'
<1> DEFINE m == worker[w].import
<1>1. Leased(w)
  BY DEF Stage, MarkMerging, MarkWriting
<1>2. worker[w] # Nobody /\ import[m].status = "Running"
  BY <1>1 DEF Leased
<1>3. /\ ImportTypeOK /\ StageKept /\ m \in Imports /\ worker[w] \in Claim /\ Live(m) /\ import[m] \in ImportRow
  BY <1>2, ClaimOf DEF BulkInv, BulkTypeOK, ImportTypeOK, Live
<1>4. Active(m) /\ ItemActive /\ item.id = m /\ item.bound
  BY <1>3, LiveIsItem
<1>5. PICK r \in ImportRow, next \in Steps :
        /\ Progress(w, next, r)
        /\ r.status = "Running" /\ r.rows = import[m].rows
        /\ r.phase \in {"Staged", "Merging", "WritingResult"} /\ r.staged
        /\ r.phase = "WritingResult" => import[m].phase \in {"Merged", "WritingResult"}
  <2>1. CASE Stage(w)
    <3> DEFINE r == [import[m] EXCEPT !.phase = "Staged", !.staged = TRUE]
    <3>1. Progress(w, "Mark", r)
      BY <2>1 DEF Stage, Own
    <3>2. r \in ImportRow /\ r.status = "Running" /\ r.rows = import[m].rows /\ r.phase = "Staged" /\ r.staged
      BY <1>2, <1>3 DEF ImportRow, Phases
    <3> HIDE DEF r
    <3>3. "Mark" \in Steps
      BY DEF Steps
    <3> QED  BY <3>1, <3>2, <3>3
  <2>2. CASE MarkMerging(w)
    <3> DEFINE r == [import[m] EXCEPT !.phase = "Merging"]
    <3>1. Progress(w, "Merge", r) /\ import[m].phase \in {"Staged", "Merging"}
      BY <2>2 DEF MarkMerging, Own
    <3>2. import[m].staged
      BY <1>3, <1>4, <3>1 DEF StageKept
    <3>3. r \in ImportRow /\ r.status = "Running" /\ r.rows = import[m].rows /\ r.phase = "Merging" /\ r.staged
      BY <1>2, <1>3, <3>2 DEF ImportRow, Phases
    <3> HIDE DEF r
    <3>4. "Merge" \in Steps
      BY DEF Steps
    <3> QED  BY <3>1, <3>3, <3>4
  <2>3. CASE MarkWriting(w)
    <3> DEFINE r == [import[m] EXCEPT !.phase = "WritingResult"]
    <3>1. Progress(w, "Finish", r) /\ import[m].phase \in {"Merged", "WritingResult"}
      BY <2>3 DEF MarkWriting, Own
    <3>2. import[m].staged
      BY <1>3, <1>4, <3>1 DEF StageKept
    <3>3. r \in ImportRow /\ r.status = "Running" /\ r.rows = import[m].rows /\ r.phase = "WritingResult" /\ r.staged
      BY <1>2, <1>3, <3>2 DEF ImportRow, Phases
    <3> HIDE DEF r
    <3>4. "Finish" \in Steps
      BY DEF Steps
    <3> QED  BY <3>1, <3>3, <3>4
  <2> QED  BY <2>1, <2>2, <2>3
<1>6. /\ import' = [import EXCEPT ![m] = r] /\ worker' = [worker EXCEPT ![w].step = next]
      /\ UNCHANGED <<uploaded, messages>>
  BY <1>5 DEF Progress
<1>7. worker' \in [Workers -> Claim \cup {Nobody}]
  <2>1. [worker[w] EXCEPT !.step = next] \in Claim
    BY <1>3, <1>5 DEF Claim
  <2> QED  BY <1>3, <1>6, <2>1 DEF ImportTypeOK
<1> HIDE DEF m
<1>8. RowStep(m, r)
  BY <1>4, <1>5, <1>6 DEF RowStep, Terminal
<1> QED  BY <1>2, <1>3, <1>5, <1>6, <1>7, <1>8, WorkRow DEF ImportTypeOK
LEMMA FinishKeeps ==
  ASSUME BulkInv, NEW w \in Workers, Finish(w), UNCHANGED <<vars, bulkVars>>
  PROVE  BulkInv'
<1> DEFINE m == worker[w].import
           status == IF RejectedRows(m) = {} THEN "Succeeded" ELSE "CompletedWithErrors"
           r == [Closed(status) EXCEPT !.result = import[m].staged]
<1>1. Leased(w) /\ import[m].phase \in {"Merged", "WritingResult"}
  BY DEF Finish, Own
<1>2. worker[w] # Nobody /\ import[m].status = "Running"
  BY <1>1 DEF Leased
<1>3. /\ ImportTypeOK /\ StageKept /\ m \in Imports /\ Live(m) /\ import[m] \in ImportRow
  BY <1>2, ClaimOf DEF BulkInv, BulkTypeOK, ImportTypeOK, Live
<1>4. Active(m) /\ ItemActive /\ item.id = m /\ item.bound
  BY <1>3, LiveIsItem
<1>5. import[m].staged = TRUE
  BY <1>1, <1>3, <1>4 DEF StageKept, ImportRow
<1>6. /\ import' = [import EXCEPT ![m] = r] /\ worker' = [worker EXCEPT ![w] = Nobody]
      /\ messages' = messages \ {m} /\ UNCHANGED uploaded
  BY DEF Finish, Own, Acknowledge
<1>7. status \in Terminal /\ (status = "Succeeded" => RejectedRows(m) = {})
      /\ status \in {"Succeeded", "CompletedWithErrors"}
  BY DEF Terminal
<1> HIDE DEF status
<1>8. /\ r \in ImportRow /\ r.status = status /\ r.phase = "Complete" /\ r.lease = Nobody /\ r.result = TRUE
  <2> DEFINE c == Closed(status)
  <2>1. c \in ImportRow /\ c.status = status /\ c.phase = "Complete" /\ c.lease = Nobody
    BY <1>7, ClosedRow
  <2>2. r = [c EXCEPT !.result = TRUE]
    BY <1>5
  <2> HIDE DEF c, r
  <2> QED  BY <2>1, <2>2 DEF ImportRow
<1> HIDE DEF r
<1>9. RowStep(m, r)
  BY <1>4, <1>6, <1>7, <1>8, ImportAssumption DEF RowStep, Terminal
<1>10. r.status = "Succeeded" => \A e \in Range(import[m].rows) : ~Refused(e)
  BY <1>7, <1>8 DEF RejectedRows, Refused
<1>11. worker' \in [Workers -> Claim \cup {Nobody}]
  BY <1>3, <1>6 DEF ImportTypeOK
<1> QED  BY <1>1, <1>2, <1>3, <1>6, <1>7, <1>8, <1>9, <1>10, <1>11, WorkRow DEF ImportTypeOK

LEMMA FailKeeps ==
  ASSUME BulkInv, NEW w \in Workers, NEW retryable \in BOOLEAN, Fail(w, retryable),
         UNCHANGED <<vars, bulkVars>>
  PROVE  BulkInv'
<1> DEFINE m == worker[w].import
<1>1. /\ worker[w] # Nobody /\ worker' = [worker EXCEPT ![w] = Nobody]
      /\ messages' = messages \ {m} /\ UNCHANGED uploaded
  BY DEF Fail, Acknowledge
<1>2. /\ ImportTypeOK /\ StageKept /\ LeaseOK /\ m \in Imports /\ import[m] \in ImportRow
  BY <1>1, ClaimOf DEF BulkInv, BulkTypeOK, ImportTypeOK
<1>3. /\ uploaded' \subseteq Imports /\ messages' \subseteq Imports
      /\ worker' \in [Workers -> Claim \cup {Nobody}]
  BY <1>1, <1>2 DEF ImportTypeOK
<1>4. CASE import[m].lease # w
  BY <1>3, <1>4, WorkFrame DEF Fail
<1>5. CASE import[m].lease = w
  <2>1. Live(m) /\ import[m].status = "Running"
    BY <1>2, <1>5 DEF LeaseOK, Live
  <2>2. Active(m) /\ ItemActive /\ item.id = m /\ item.bound
    BY <1>2, <2>1, LiveIsItem
  <2>3. CASE retryable /\ import[m].attempts < MaxAttempts
    <3> DEFINE r == [import[m] EXCEPT !.status = "RetryDue", !.due = FALSE, !.lease = Nobody, !.live = FALSE]
    <3>1. import' = [import EXCEPT ![m] = r]
      BY <1>2, <1>5, <2>3 DEF Fail, ImportTypeOK
    <3>2. r \in ImportRow /\ r.status = "RetryDue" /\ r.phase = import[m].phase /\ r.lease = Nobody
          /\ r.rows = import[m].rows /\ r.staged = import[m].staged
      BY <1>2 DEF ImportRow, Statuses
    <3> HIDE DEF r, m
    <3>3. RowStep(m, r)
      BY <1>2, <2>2, <3>1, <3>2, ImportAssumption DEF RowStep, StageKept, Terminal
    <3> QED  BY <1>2, <1>3, <2>1, <3>2, <3>3, WorkRow
  <2>4. CASE ~(retryable /\ import[m].attempts < MaxAttempts)
    <3> DEFINE r == Closed("FailedPermanent")
    <3>1. import' = [import EXCEPT ![m] = r]
      BY <1>5, <2>4 DEF Fail
    <3>2. r \in ImportRow /\ r.status = "FailedPermanent" /\ r.phase = "Complete" /\ r.lease = Nobody
      BY ClosedRow DEF Terminal
    <3> HIDE DEF r, m
    <3>3. RowStep(m, r)
      BY <2>2, <3>1, <3>2, ImportAssumption DEF RowStep, Terminal
    <3> QED  BY <1>2, <1>3, <2>1, <3>2, <3>3, WorkRow DEF Terminal
  <2> QED  BY <2>3, <2>4
<1> QED  BY <1>4, <1>5

LEMMA WorkKeeps ==
  ASSUME BulkInv, Work
  PROVE  BulkInv'
<1>1. UNCHANGED <<vars, bulkVars>> /\ ImportTypeOK
  BY DEF Work, BulkInv, BulkTypeOK
<1>2. CASE Recover
  BY <1>1, <1>2, WorkFrame DEF Recover, ImportTypeOK
<1>3. CASE \E m \in Imports : UploadLapses(m) \/ LeaseRunsOut(m) \/ BackoffEnds(m)
  BY <1>1, <1>3, ClockKeeps
<1>4. CASE \E m \in Imports : Ignore(m)
  BY <1>1, <1>4, WorkFrame DEF Ignore, ImportTypeOK
<1>5. CASE \E m \in Imports : Abandon(m)
  BY <1>1, <1>5, AbandonKeeps
<1>6. CASE \E w \in Workers, m \in Imports : ClaimImport(w, m)
  BY <1>1, <1>6, ClaimKeeps
<1>7. CASE \E w \in Workers : Stage(w) \/ MarkMerging(w) \/ MarkWriting(w)
  BY <1>1, <1>7, ProgressKeeps
<1>8. CASE \E w \in Workers : Finish(w)
  BY <1>1, <1>8, FinishKeeps
<1>9. CASE \E w \in Workers : \E retryable \in BOOLEAN : Fail(w, retryable)
  BY <1>1, <1>9, FailKeeps
<1>10. CASE \E w \in Workers : LeaseLost(w) \/ Crash(w)
  <2>1. PICK w \in Workers : LeaseLost(w) \/ Crash(w)
    BY <1>10
  <2>2. worker[w].import \in Imports
    BY <2>1, ClaimOf DEF LeaseLost, Crash
  <2>3. UNCHANGED <<import, uploaded>> /\ worker' = [worker EXCEPT ![w] = Nobody]
        /\ messages' \in {messages \ {worker[w].import}, messages \cup {worker[w].import}}
    BY <2>1 DEF LeaseLost, Crash, Acknowledge
  <2> QED  BY <1>1, <2>2, <2>3, WorkFrame DEF ImportTypeOK
<1> QED  BY <1>2, <1>3, <1>4, <1>5, <1>6, <1>7, <1>8, <1>9, <1>10 DEF Work
(* The merge. *)

\* What the worker merges are entries of pending batches that the service
\* accepts; of the rows of the item it leaves the others out.
LEMMA MergeFacts ==
  ASSUME BulkInv, NEW w \in Workers, MergeRows(w)
  PROVE  /\ worker[w].import \in Imports /\ Live(worker[w].import)
         /\ import[worker[w].import].phase \in {"Staged", "Merging"}
         /\ import[worker[w].import].staged
         /\ ItemActive /\ item.id = worker[w].import /\ item.bound
         /\ \A e \in MergedRows(w) : ~Refused(e) /\ \E b \in outbox : e \in b.entries
         /\ \A e \in Range(item.rows) : e \in MergedRows(w) \/ Refused(e)
<1> DEFINE m == worker[w].import
<1>1. Leased(w) /\ import[m].phase \in {"Staged", "Merging"}
  BY DEF MergeRows, Merge, Own
<1>2. worker[w] # Nobody /\ import[m].status = "Running"
  BY <1>1 DEF Leased
<1>3. m \in Imports /\ Live(m)
  BY <1>2, ClaimOf DEF Live
<1>4. Active(m) /\ ItemActive /\ item.id = m /\ item.bound
  BY <1>3, LiveIsItem
<1>5. import[m].staged /\ import[m].rows = item.rows
  BY <1>1, <1>3, <1>4 DEF BulkInv, StageKept, ImportOK
<1>6. MergedRows(w) = {e \in Range(item.rows) : <<e.item, e.rev>> \notin Rejected}
  BY <1>5 DEF MergedRows, Own, RejectedRows
<1>7. Range(item.rows) = UNION {b.entries : b \in Captured} /\ \A e \in Range(item.rows) : e.op = "Upsert"
  BY <1>4 DEF BulkInv, ItemOK
<1>8. \A e \in Range(item.rows) : \E b \in outbox : e \in b.entries
  BY <1>7 DEF Captured
<1> QED  BY <1>1, <1>3, <1>4, <1>5, <1>6, <1>7, <1>8 DEF Refused

LEMMA MergeServer ==
  ASSUME BulkInv, NEW w \in Workers, MergeRows(w)
  PROVE  /\ server \in [Items -> Row] /\ server' \in [Items -> Row]
         /\ MergedRows(w) \subseteq Entry
         /\ \A e \in MergedRows(w) :
              server'[e.item].content = Content(e) /\ server'[e.item].at = e.at
         /\ \A i \in Items : (\A e \in MergedRows(w) : e.item # i) => server'[i] = server[i]
<1>1. \A e \in MergedRows(w) : \E b \in outbox : e \in b.entries
  BY MergeFacts
<1>2. server \in [Items -> Row] /\ outbox \subseteq Request /\ ItemsOnce(outbox)
  BY DEF BulkInv, OutboxInv, TypeOK, QueueOK
<1>3. MergedRows(w) \subseteq Entry
  BY <1>1, <1>2 DEF Request
<1>4. \A d, e \in MergedRows(w) : d.item = e.item => d = e
  BY <1>1, <1>2 DEF ItemsOnce
<1>5. server' = Stored(server, MergedRows(w))
  BY DEF MergeRows
<1>6. \A e \in MergedRows(w) : server'[e.item] = [content |-> Content(e), at |-> e.at]
  BY <1>2, <1>3, <1>4, <1>5, StoredRows
<1>7. ASSUME NEW e \in MergedRows(w)
      PROVE  server'[e.item].content = Content(e) /\ server'[e.item].at = e.at
  <2>1. server'[e.item] = [content |-> Content(e), at |-> e.at]
    BY <1>6
  <2> QED  BY <2>1
<1> QED  BY <1>2, <1>3, <1>4, <1>5, <1>7, StoredRows

LEMMA MergeOutbox ==
  ASSUME BulkInv, NEW w \in Workers, MergeRows(w)
  PROVE  BatchInv'
<1> USE DEF BulkInv, OutboxInv, cliVars
<1> DEFINE merged == MergedRows(w)
<1>1. /\ \A e \in merged : ~Refused(e)
      /\ \A e \in merged : \E b \in outbox : e \in b.entries
  BY MergeFacts
<1>2. /\ server' \in [Items -> Row] /\ merged \subseteq Entry
      /\ \A e \in merged : server'[e.item].content = Content(e) /\ server'[e.item].at = e.at
      /\ \A i \in Items : (\A e \in merged : e.item # i) => server'[i] = server[i]
  BY MergeServer
<1>3. UNCHANGED <<hist, cliVars, net, answer, spent>>
  BY DEF MergeRows
<1> HIDE DEF merged
<1>4. \A e \in merged : server'[e.item].content = Content(e) /\ server'[e.item].at = e.at
  BY <1>2
<1>5. TypeOK'
  BY <1>2, <1>3 DEF TypeOK
<1>6. QueueOK'
  BY <1>3 DEF QueueOK, KeysOnce, ItemsOnce
<1>7. NetOK'
  BY <1>3 DEF NetOK, Oversized
<1>8. \A e \in merged : e.at \in 1..Len(hist[e.item]) /\ hist[e.item][e.at] = Content(e)
  BY <1>1 DEF EntriesOK, EntryOK
<1>9. CopyOK'
  <2> SUFFICES ASSUME NEW i \in Items
               PROVE  Copied(i)' \/ server'[i].at = 0
    BY <1>3 DEF CopyOK
  <2>1. CASE \E e \in merged : e.item = i
    BY <1>3, <1>4, <1>8, <2>1 DEF Copied
  <2>2. CASE \A e \in merged : e.item # i
    BY <1>2, <1>3, <2>2 DEF CopyOK, Copied
  <2> QED  BY <2>1, <2>2
<1>10. KnownIsStored'
  <2> SUFFICES ASSUME NEW i \in Items, known[i] # server'[i].content
               PROVE  Pending(i)
    BY <1>3 DEF KnownIsStored, Pending
  <2>1. CASE \E e \in merged : e.item = i
    BY <1>1, <2>1 DEF Pending
  <2>2. CASE \A e \in merged : e.item # i
    BY <1>2, <2>2 DEF KnownIsStored
  <2> QED  BY <2>1, <2>2
<1>11. EntriesOK'
  <2> SUFFICES ASSUME NEW b \in outbox, NEW e \in b.entries
               PROVE  EntryOK(b, e)'
    BY <1>3 DEF EntriesOK
  <2>1. EntryOK(b, e) /\ e.item \in Items
    BY DEF EntriesOK, TypeOK, Request, Entry
  <2>2. CASE e \in merged
    <3>1. Applied(e)' /\ ~Refused(e)
      BY <1>1, <1>4, <2>2 DEF Applied
    <3>2. b.key \in DOMAIN answer => e.item \notin answer[b.key]
      BY <1>1, <2>2 DEF AnswersOK
    <3> QED  BY <1>3, <2>1, <3>1, <3>2 DEF EntryOK, Refused, Content
  <2>3. CASE e \notin merged
    <3>1. \A d \in merged : d.item # e.item
      BY <1>1, <2>3 DEF QueueOK, ItemsOnce
    <3>2. server'[e.item] = server[e.item]
      BY <1>2, <2>1, <3>1
    <3> QED  BY <1>3, <2>1, <3>2 DEF EntryOK, Ahead, Applied, Refused, Content
  <2> QED  BY <2>2, <2>3
<1>12. OneRequest'
  BY <1>3 DEF OneRequest
<1>13. AnswersOK'
  BY <1>3 DEF AnswersOK, Refused
<1> QED  BY <1>5, <1>6, <1>7, <1>9, <1>10, <1>11, <1>12, <1>13 DEF BatchInv

LEMMA MergeKeeps ==
  ASSUME BulkInv, NEW w \in Workers, MergeRows(w)
  PROVE  BulkInv'
<1> DEFINE m == worker[w].import
           r == [import[m] EXCEPT !.phase = "Merged"]
<1>1. /\ m \in Imports /\ Live(m) /\ import[m].phase \in {"Staged", "Merging"} /\ import[m].staged
      /\ ItemActive /\ item.id = m /\ item.bound
  BY MergeFacts
<1>2. /\ item \in Item /\ ItemOK /\ ImportOK /\ MergeOK /\ RowsInv /\ step \in SyncSteps
      /\ ImportTypeOK /\ LeaseOK /\ import[m] \in ImportRow
  BY <1>1 DEF BulkInv, BulkTypeOK, RowsInv, ImportTypeOK
<1>3. Active(m)
  BY <1>1, LiveIsItem
<1>4. import[m].status = "Running" /\ worker[w] # Nobody
  BY DEF MergeRows, Merge, Leased
<1>5. /\ import' = [import EXCEPT ![m] = r] /\ worker' = [worker EXCEPT ![w].step = "Write"]
      /\ UNCHANGED <<uploaded, messages>>
  BY DEF MergeRows, Merge, Progress, Own
<1>6. /\ r \in ImportRow /\ r.status = "Running" /\ r.phase = "Merged" /\ r.lease = import[m].lease
      /\ r.rows = import[m].rows /\ r.staged = import[m].staged
  BY <1>2, <1>4 DEF ImportRow, Phases
<1>7. worker' \in [Workers -> Claim \cup {Nobody}]
  <2>1. worker[w] \in Claim
    BY <1>4, ClaimOf
  <2>2. [worker[w] EXCEPT !.step = "Write"] \in Claim
    BY <2>1 DEF Claim, Steps
  <2> QED  BY <1>2, <1>5, <2>2 DEF ImportTypeOK
<1>8. UNCHANGED <<outbox, sending, known, bulkVars>>
  BY DEF MergeRows, cliVars
<1>9. ItemActive' = ItemActive /\ item' = item /\ step' = step
  BY <1>8 DEF ItemActive, bulkVars
<1>10. \A e \in Range(item.rows) : e \in MergedRows(w) \/ Refused(e)
  BY MergeFacts
<1>11. \A e \in MergedRows(w) : Applied(e)'
  BY MergeServer DEF Applied
<1> HIDE DEF m, r
<1>12. RowStep(m, r)
  BY <1>1, <1>2, <1>3, <1>4, <1>5, <1>6 DEF RowStep, LeaseOK, Terminal
<1>13. RowsInv'
  BY <1>1, <1>2, <1>5, <1>7, <1>12, RowKeeps DEF ImportTypeOK
<1>14. step \notin {"Create", "Upload", "Complete", "Result", "Apply"}
  BY <1>1, <1>2, <1>4 DEF ImportOK
<1>15. ItemOK' /\ ImportOK'
  BY <1>1, <1>2, <1>8, <1>9, <1>12, <1>14, RowItem
<1>16. import'[m] = r
  BY <1>1, <1>2, <1>5 DEF ImportTypeOK
<1>17. MergeOK'
  <2>1. item.applied = 0 /\ Len(item.rows) \in Nat
    BY <1>1, <1>2, <1>4 DEF MergeOK, Item
  <2>2. \A e \in Range(item.rows) : Refused(e)' \/ Applied(e)'
    BY <1>10, <1>11 DEF Refused
  <2> QED  BY <1>1, <1>6, <1>9, <1>16, <2>1, <2>2 DEF MergeOK
<1>18. ItemInv'
  BY <1>2, <1>9, <1>15, <1>17 DEF ItemInv
<1> QED  BY <1>13, <1>18, MergeOutbox, BulkPartsNext
(* The result. *)

\* A row of a result that is there is in the catalogue as it was sent, and
\* the CLI may take it over.
LEMMA ResultRow ==
  ASSUME BulkInv, ItemActive, import[item.id].status = "Succeeded", NEW e \in Range(item.rows)
  PROVE  /\ e \in Entry /\ Applied(e) /\ server[e.item].content = e.rev
         /\ \E b \in outbox : b.key \in item.captured /\ e \in b.entries
<1> USE DEF BulkInv
<1>1. PICK b \in Captured : e \in b.entries
  BY DEF ItemOK
<1>2. e.op = "Upsert" /\ Applied(e)
  BY DEF ItemOK, MergeOK
<1>3. b \in outbox /\ b.key \in item.captured /\ e \in Entry
  BY <1>1 DEF Captured, OutboxInv, TypeOK, Request
<1>4. EntryOK(b, e) /\ e.item \in Items
  BY <1>1, <1>3 DEF OutboxInv, EntriesOK, Entry
<1>5. server[e.item].content = hist[e.item][e.at] /\ hist[e.item][e.at] = Content(e)
  BY <1>2, <1>4 DEF OutboxInv, CopyOK, Copied, Applied, EntryOK
<1> QED  BY <1>1, <1>2, <1>3, <1>5 DEF Content

LEMMA ApplyKeeps ==
  ASSUME BulkInv, ApplyRows
  PROVE  BulkInv'
<1>1. /\ item \in Item /\ ItemOK /\ ImportOK /\ MergeOK /\ OutboxInv /\ OneRequest /\ AnswersOK
      /\ step = "Apply" /\ item.applied < Len(item.rows)
  BY DEF BulkInv, BulkTypeOK, ApplyRows
<1>2. UNCHANGED <<hist, outbox, failures, keys, sending, upgraded, net, serviceVars, spent>>
      /\ UNCHANGED importVars
  BY DEF ApplyRows
<1>3. ItemActive /\ item.id \in Imports /\ import[item.id].status = "Succeeded"
  BY <1>1 DEF ItemOK, ImportOK
<1>4. RowsInv'
  BY <1>2, BulkParts, RowsFrame
<1>5. \A n \in Imports : ~Live(n)
  BY <1>1, <1>3 DEF ImportOK, Live
<1>6. CASE item.state \notin {"ResultReady", "ApplyingResult"}
  <2>1. Close /\ known' = known
    BY <1>6 DEF ApplyRows
  <2>2. ItemInv'
    BY <1>2, <1>5, <2>1, CloseKeeps DEF Close
  <2>3. BatchInv'
    BY <1>2, <2>1, BulkParts, BatchFrame DEF vars, cliVars
  <2> QED  BY <1>4, <2>2, <2>3, BulkPartsNext
<1>7. CASE item.state \in {"ResultReady", "ApplyingResult"}
  <2> DEFINE n == item.applied + 1
             e == item.rows[n]
  <2>1. /\ known' = [known EXCEPT ![e.item] = e.rev]
        /\ item' = [item EXCEPT !.state = "ApplyingResult", !.applied = n]
        /\ step' = step
    BY <1>7 DEF ApplyRows
  <2>2. item.rows \in Seq(Entry) /\ item.applied \in Nat /\ n \in 1..Len(item.rows) /\ Len(item.rows) \in Nat
        /\ DOMAIN item.rows = 1..Len(item.rows)
    BY <1>1 DEF Item
  <2>3. \A k \in 1..Len(item.rows) : item.rows[k] \in Range(item.rows)
    BY <2>2 DEF Range
  <2>4. e \in Range(item.rows)
    BY <2>2, <2>3
  <2>5. PICK a \in outbox : a.key \in item.captured /\ e \in a.entries
    BY <1>3, <2>4, ResultRow
  <2>6. e \in Entry /\ Applied(e) /\ server[e.item].content = e.rev
    BY <1>3, <2>4, ResultRow
  <2> HIDE DEF n, e
  <2>7. /\ item' \in Item /\ item'.id = item.id /\ item'.bound = item.bound
        /\ item'.captured = item.captured /\ item'.rows = item.rows /\ item'.applied = n
        /\ item'.state = "ApplyingResult"
    <3>1. n \in Nat /\ "ApplyingResult" \in ItemStates
      BY <2>2 DEF ItemStates
    <3> QED  BY <1>1, <2>1, <3>1 DEF Item
  <2>8. ItemActive'
    BY <2>7 DEF ItemActive
  <2>9. /\ e.item \in Items /\ e.rev \in Revisions /\ known \in [Items -> Revisions \cup {Absent}]
        /\ known' \in [Items -> Revisions \cup {Absent}]
        /\ \A i \in Items : known'[i] = IF i = e.item THEN e.rev ELSE known[i]
    BY <1>1, <2>1, <2>6 DEF OutboxInv, TypeOK, Entry
  <2>10. UNCHANGED <<hist, outbox, net, answer, server, sending, import>>
    BY <1>2 DEF serviceVars, importVars
  <2>11. TypeOK'
    BY <1>1, <1>2, <2>9 DEF OutboxInv, TypeOK, serviceVars
  <2>12. QueueOK' /\ NetOK' /\ CopyOK'
    BY <1>1, <1>2 DEF OutboxInv, QueueOK, NetOK, CopyOK, Copied, KeysOnce, ItemsOnce, Oversized, serviceVars
  <2>13. EntriesOK'
    <3> SUFFICES ASSUME NEW b \in outbox, NEW d \in b.entries
                 PROVE  EntryOK(b, d)'
      BY <1>2 DEF EntriesOK
    <3>1. EntryOK(b, d) /\ d.item \in Items
      BY <1>1 DEF OutboxInv, EntriesOK, TypeOK, Request, Entry
    <3>2. CASE d.item = e.item
      <4>1. d = e
        BY <1>1, <2>5, <3>2 DEF OutboxInv, QueueOK, ItemsOnce
      <4>2. ~Ahead(d) /\ Applied(d)'
        BY <2>6, <2>9, <2>10, <4>1 DEF Ahead, Applied, Entry
      <4> QED  BY <2>10, <3>1, <4>2 DEF EntryOK, Refused, Content
    <3>3. CASE d.item # e.item
      BY <2>9, <2>10, <3>1, <3>3 DEF EntryOK, Ahead, Applied, Refused, Content
    <3> QED  BY <3>2, <3>3
  <2>14. KnownIsStored'
    BY <1>1, <2>6, <2>9, <2>10 DEF OutboxInv, KnownIsStored, Pending
  <2>15. BatchInv'
    BY <1>1, <2>10, <2>11, <2>12, <2>13, <2>14
       DEF BatchInv, OutboxInv, OneRequest, AnswersOK, Refused
  <2>16. ItemOK'
    BY <1>1, <1>3, <2>7, <2>8, <2>10 DEF ItemOK, Captured
  <2>17. \A m \in Imports : ~Live(m)'
    BY <1>5, <2>10 DEF Live
  <2>18. ImportOK'
    BY <1>1, <1>3, <2>1, <2>7, <2>8, <2>10, <2>17 DEF ImportOK, Active
  <2>19. MergeOK'
    <3>1. \A k \in 1..n : known'[item.rows[k].item] = item.rows[k].rev
      <4> SUFFICES ASSUME NEW k \in 1..n PROVE known'[item.rows[k].item] = item.rows[k].rev
        OBVIOUS
      <4>1. item.rows[k] \in Range(item.rows) /\ k \in 1..Len(item.rows)
        BY <2>2, <2>3
      <4>2. item.rows[k].item \in Items
        BY <1>3, <4>1, ResultRow DEF Entry
      <4>3. CASE k = n
        BY <2>9, <4>3 DEF e
      <4>4. CASE item.rows[k].item = e.item
        <5>1. PICK b \in outbox : item.rows[k] \in b.entries
          BY <1>3, <4>1, ResultRow
        <5>2. item.rows[k] = e
          BY <1>1, <2>5, <4>4, <5>1 DEF OutboxInv, QueueOK, ItemsOnce
        <5> QED  BY <2>9, <5>2
      <4>5. CASE k # n /\ item.rows[k].item # e.item
        <5>1. k \in 1..item.applied
          BY <2>2, <4>5 DEF n
        <5> QED  BY <1>1, <1>3, <2>9, <4>2, <4>5, <5>1 DEF MergeOK
      <4> QED  BY <4>3, <4>4, <4>5
    <3>2. \A d \in Range(item.rows) : Applied(d)'
      BY <1>1, <1>3, <2>10 DEF MergeOK, Applied
    <3>3. n <= Len(item.rows)
      BY <2>2
    <3>4. ~Live(item.id)'
      BY <1>3, <2>7, <2>17
    <3> QED  BY <1>3, <2>7, <2>10, <3>1, <3>2, <3>3, <3>4 DEF MergeOK
  <2>20. ItemInv'
    BY <1>1, <2>1, <2>7, <2>16, <2>18, <2>19 DEF ItemInv, SyncSteps
  <2> QED  BY <1>4, <2>15, <2>20, BulkPartsNext
<1> QED  BY <1>6, <1>7

\* The batches an item stood for go when all their entries are taken over;
\* what is left answers for itself.
LEMMA CompleteItemKeeps ==
  ASSUME BulkInv, CompleteItem
  PROVE  BulkInv'
<1>1. /\ item \in Item /\ ItemOK /\ ImportOK /\ MergeOK /\ OutboxInv /\ OneRequest /\ AnswersOK
      /\ step = "Apply" /\ item.applied = Len(item.rows)
  BY DEF BulkInv, BulkTypeOK, CompleteItem
<1>2. /\ outbox' = {b \in outbox : b.key \notin item.captured}
      /\ item' = Closing("Applied") /\ step' = "Idle"
      /\ UNCHANGED <<hist, known, failures, keys, sending, upgraded, net, serviceVars, spent>>
      /\ UNCHANGED importVars
  BY DEF CompleteItem
<1>3. ItemActive /\ item.id \in Imports /\ import[item.id].status = "Succeeded" /\ sending = Idle
  BY <1>1 DEF ItemOK, ImportOK
<1>4. RowsInv'
  BY <1>2, BulkParts, RowsFrame
<1>5. \A n \in Imports : ~Live(n)
  BY <1>1, <1>3 DEF ImportOK, Live
<1>6. ItemInv'
  BY <1>2, <1>5, CloseKeeps
<1>7. \A b \in net : b.key \in DOMAIN answer
  BY <1>1, <1>3 DEF OneRequest
<1>8. TypeOK'
  BY <1>1, <1>2 DEF OutboxInv, TypeOK, serviceVars
<1>9. QueueOK'
  <2>1. IsFiniteSet(outbox')
    BY <1>1, <1>2, FS_Subset DEF OutboxInv, QueueOK
  <2> QED  BY <1>1, <1>2, <1>3, <2>1 DEF OutboxInv, QueueOK, KeysOnce, ItemsOnce
<1>10. NetOK' /\ CopyOK'
  BY <1>1, <1>2, <1>7 DEF OutboxInv, NetOK, CopyOK, Copied, Oversized, serviceVars
<1>11. EntriesOK'
  BY <1>1, <1>2 DEF OutboxInv, EntriesOK, EntryOK, Ahead, Applied, Refused, Content, serviceVars
<1>12. KnownIsStored'
  <2> SUFFICES ASSUME NEW i \in Items, known[i] # server[i].content
               PROVE  \E b \in outbox' : \E e \in b.entries : e.item = i
    BY <1>2 DEF KnownIsStored, Pending, serviceVars
  <2>1. PICK b \in outbox : \E e \in b.entries : e.item = i
    BY <1>1 DEF OutboxInv, KnownIsStored, Pending
  <2>2. PICK e \in b.entries : e.item = i
    BY <2>1
  <2>3. SUFFICES ASSUME b.key \in item.captured PROVE FALSE
    BY <1>2, <2>1
  <2>4. e \in Range(item.rows)
    BY <1>1, <1>3, <2>2, <2>3 DEF ItemOK, Captured
  <2>5. server[e.item].content = e.rev
    BY <1>3, <2>4, ResultRow
  <2>6. PICK k \in DOMAIN item.rows : item.rows[k] = e
    BY <2>4 DEF Range
  <2>7. k \in 1..item.applied
    BY <1>1, <2>6 DEF Item
  <2>8. known[e.item] = e.rev
    BY <1>1, <1>3, <2>6, <2>7 DEF MergeOK
  <2> QED  BY <2>2, <2>5, <2>8
<1>13. OneRequest' /\ AnswersOK'
  BY <1>1, <1>2, <1>7 DEF OneRequest, AnswersOK, Refused, serviceVars
<1> QED  BY <1>4, <1>6, <1>8, <1>9, <1>10, <1>11, <1>12, <1>13, BulkPartsNext DEF BatchInv, OutboxInv
LEMMA BulkInitially == BulkInit => BulkInv
<1> SUFFICES ASSUME BulkInit PROVE BulkInv
  OBVIOUS
<1>1. OutboxInv
  BY InitOutbox DEF BulkInit
<1>2. \A m \in Imports : import[m] = NewImport
  BY DEF BulkInit, ImportInit
<1>3. ImportTypeOK
  BY NoImport DEF BulkInit, ImportInit, ImportTypeOK
<1>4. item \in Item /\ step \in SyncSteps
  <2>1. <<>> \in Seq(Entry)
    OBVIOUS
  <2> QED  BY <2>1 DEF BulkInit, Item, ItemStates, SyncSteps
<1>5. item.state = "None" /\ step = "Idle"
  BY DEF BulkInit
<1>6. ~ItemActive
  BY <1>5 DEF ItemActive
<1>7. ItemOK /\ ImportOK /\ MergeOK
  BY <1>2, <1>5, <1>6, NoImport DEF ItemOK, ImportOK, MergeOK, Live
<1>8. LeaseOK /\ OneActive /\ StageKept
  BY <1>2, NoImport, ImportAssumption DEF LeaseOK, OneActive, StageKept, Active
<1>9. OneRequest /\ AnswersOK
  BY DEF BulkInit, Init, OneRequest, AnswersOK
<1> QED  BY <1>1, <1>3, <1>4, <1>7, <1>8, <1>9 DEF BulkInv, BulkTypeOK, OutboxInv

LEMMA BulkStep == BulkInv /\ [BulkNext]_allVars => BulkInv'
<1> SUFFICES ASSUME BulkInv, [BulkNext]_allVars PROVE BulkInv'
  OBVIOUS
<1>1. CASE BatchSync
  BY <1>1, BatchSyncBulk
<1>2. CASE ItemSync
  <2>1. CASE \E batches \in SUBSET outbox : Capture(batches)
    BY <2>1, CaptureKeeps
  <2>2. CASE Resume \/ Escape \/ GiveUp \/ Unusable \/ Status \/ DownloadResult
    BY <2>2, ItemStepKeeps
  <2>3. CASE CreateImport
    BY <2>3, CreateKeeps
  <2>4. CASE UploadManifest
    BY <2>4, UploadKeeps
  <2>5. CASE CompleteImport
    BY <2>5, CompleteKeeps
  <2>6. CASE ApplyRows
    BY <2>6, ApplyKeeps
  <2>7. CASE CompleteItem
    BY <2>7, CompleteItemKeeps
  <2> QED  BY <1>2, <2>1, <2>2, <2>3, <2>4, <2>5, <2>6, <2>7 DEF ItemSync
<1>3. CASE Work
  BY <1>3, WorkKeeps
<1>4. CASE \E w \in Workers : MergeRows(w)
  BY <1>4, MergeKeeps
<1>5. CASE UNCHANGED allVars
  BY <1>5, WorkFrame DEF allVars, importVars, BulkInv, BulkTypeOK, ImportTypeOK
<1> QED  BY <1>1, <1>2, <1>3, <1>4, <1>5 DEF BulkNext

\* The strengthened invariant of the sync with imports: a bulk item that is
\* active stands for pending batches, is known to the service by the one
\* import that is worked on, and knows no more than the merge has stored.
THEOREM BulkInductive == BulkSpec => []BulkInv
<1> QED  BY BulkInitially, BulkStep, PTL DEF BulkSpec

\* Types of the sync, the imports and the batches.
THEOREM BulkTyped == BulkSpec => []BulkTypeOK
<1>1. BulkInv => BulkTypeOK
  BY DEF BulkInv
<1> QED  BY <1>1, BulkInductive, PTL

\* What the CLI takes for accepted is what the service has, whether batches or
\* an import brought it there: a captured batch stays pending until the rows of
\* its import are all taken over.
THEOREM KnownThroughImports == BulkSpec => []KnownIsStored
<1>1. BulkInv => KnownIsStored
  BY DEF BulkInv, OutboxInv
<1> QED  BY <1>1, BulkInductive, PTL

\* At most one import of the source is active at a time, whatever the CLI
\* gives up, repeats or starts over.
THEOREM OneAlwaysActive == BulkSpec => []OneActive
<1>1. BulkInv => OneActive
  BY DEF BulkInv
<1> QED  BY <1>1, BulkInductive, PTL

\* Every attempt finds the stage its phase relies on, and a success has its
\* result, through lost leases, crashes and retries.
THEOREM StageAlwaysKept == BulkSpec => []StageKept
<1>1. BulkInv => StageKept
  BY DEF BulkInv
<1> QED  BY <1>1, BulkInductive, PTL

LEMMA MergeForward ==
  ASSUME BulkInv, BulkInv', Standing, NEW w \in Workers, MergeRows(w)
  PROVE  M!BringForward /\ Standing'
<1>1. /\ \A e \in MergedRows(w) : server'[e.item].content = Content(e) /\ server'[e.item].at = e.at
      /\ \A i \in Items : (\A e \in MergedRows(w) : e.item # i) => server'[i] = server[i]
      /\ server \in [Items -> Row] /\ MergedRows(w) \subseteq Entry
  BY MergeServer
<1>2. \A e \in MergedRows(w) : Ahead(e) \/ Applied(e)
  <2>1. \A e \in MergedRows(w) : \E b \in outbox : e \in b.entries
    BY MergeFacts
  <2> QED  BY <2>1 DEF BulkInv, OutboxInv, EntriesOK, EntryOK
<1>3. \A i \in Items : server[i].at <= server'[i].at
  <2> SUFFICES ASSUME NEW i \in Items PROVE server[i].at <= server'[i].at
    OBVIOUS
  <2>1. server[i].at \in Nat
    BY <1>1 DEF Row
  <2>2. CASE \E e \in MergedRows(w) : e.item = i
    <3>1. PICK e \in MergedRows(w) : e.item = i
      BY <2>2
    <3>2. server'[i].at = e.at /\ e.at \in Nat /\ (Ahead(e) \/ Applied(e))
      BY <1>1, <1>2, <3>1 DEF Entry
    <3> QED  BY <2>1, <3>1, <3>2 DEF Ahead, Applied
  <2>3. CASE \A e \in MergedRows(w) : e.item # i
    BY <1>1, <2>1, <2>3
  <2> QED  BY <2>2, <2>3
<1>4. hist' = hist /\ OutboxInv /\ OutboxInv'
  BY DEF MergeRows, BulkInv
<1> QED  BY <1>3, <1>4, MirrorForward

LEMMA BulkMirrorStep ==
  ASSUME BulkInv, BulkInv', Standing, [BulkNext]_allVars
  PROVE  [M!Next]_MirrorVars /\ Standing'
<1>1. CASE UNCHANGED <<hist, server>>
  BY <1>1 DEF MirrorVars, Standing
<1>2. CASE \E i \in Items, c \in Revisions \cup {Absent} : Edit(i, c)
  <2>1. [Next]_vars
    BY <1>2 DEF Next
  <2> QED  BY <2>1, MirrorStep DEF BulkInv
<1>3. CASE \E b \in net : Execute(b)
  <2>1. [Next]_vars
    BY <1>3 DEF Next
  <2> QED  BY <2>1, MirrorStep DEF BulkInv
<1>4. CASE \E w \in Workers : MergeRows(w)
  BY <1>4, MergeForward DEF M!Next
<1>5. CASE Work \/ ItemSync \/ UNCHANGED allVars
  <2>1. UNCHANGED <<hist, server>>
    BY <1>5 DEF Work, ItemSync, Capture, Resume, Escape, GiveUp, Unusable, CreateImport, Status,
       UploadManifest, CompleteImport, DownloadResult, ApplyRows, CompleteItem,
       allVars, vars, serviceVars
  <2> QED  BY <1>1, <2>1
<1>6. CASE (\E unread \in SUBSET Items : Scan(unread)) \/ SendBatch \/ PauseBatch \/ Receive
  <2>1. UNCHANGED <<hist, server>>
    BY <1>6 DEF Scan, SendBatch, Send, PauseBatch, Receive, serviceVars
  <2> QED  BY <1>1, <2>1
<1> QED  BY <1>2, <1>3, <1>4, <1>5, <1>6 DEF BulkNext, BatchSync

\* With imports too, the service's copy of a file is always something the
\* file has been and never goes back: a merge that comes late, or again after
\* a crash, brings back nothing that a later batch has replaced.
THEOREM ImportsMirror == BulkSpec => MirrorSpec
<1>1. BulkInit => M!Init /\ Standing
  BY MirrorInit DEF BulkInit
<1>2. BulkInv /\ BulkInv' /\ Standing /\ [BulkNext]_allVars => [M!Next]_MirrorVars /\ Standing'
  BY BulkMirrorStep
<1> QED  BY <1>1, <1>2, BulkInductive, PTL DEF BulkSpec, MirrorSpec, M!Spec, MirrorVars
-----------------------------------------------------------------------------
(* Sources that are removed and added again. *)

(* Of a removed source the service has nothing. *)
Emptied ==
  /\ hist \in [Items -> Seq(Revisions \cup {Absent})] /\ \A i \in Items : Len(hist[i]) >= 1
  /\ server = [i \in Items |-> [content |-> Absent, at |-> 0]]
  /\ keys \in Nat /\ DOMAIN answer \subseteq 1..keys
  /\ \A k \in DOMAIN answer : answer[k] \subseteq Items
  /\ upgraded \in BOOLEAN /\ spent \in Nat

(* Without a binding the CLI has nothing of the source either. *)
Forgotten ==
  /\ known = [i \in Items |-> Absent]
  /\ outbox = {} /\ failures = <<>> /\ sending = Idle

(* The record of a removal of this generation means that it took place. *)
RemovalsOK ==
  \A g : <<"remove", g>> \in done =>
    \/ g \in Nat /\ g < generation
    \/ g = generation /\ source = "Removed" /\ bound

LifeInv ==
  /\ source \in {"None", "Active", "Removed"} /\ bound \in BOOLEAN
  /\ generation \in Nat /\ command \in {"None", "Bind", "Unbind"}
  /\ IF source = "Removed" THEN Emptied ELSE OutboxInv
  /\ ~bound => Forgotten
  /\ command = "Unbind" => source = "Removed" /\ bound /\ sending = Idle
  /\ RemovalsOK

LEMMA LifeInit == LifecycleInit => LifeInv
<1> SUFFICES ASSUME LifecycleInit PROVE LifeInv
  OBVIOUS
<1>1. /\ source = "None" /\ bound = FALSE /\ generation = 0 /\ command = "None" /\ done = {}
      /\ OutboxInv
  BY InitOutbox DEF LifecycleInit
<1>2. Forgotten
  BY DEF LifecycleInit, Init, Forgotten
<1>3. RemovalsOK
  BY <1>1 DEF RemovalsOK
<1> QED  BY <1>1, <1>2, <1>3 DEF LifeInv

\* Nothing is left of the time before, so the outbox starts as it did first.
LEMMA FreshStart ==
  ASSUME Emptied, Forgotten, net = {}
  PROVE  OutboxInv
<1> USE DEF Emptied, Forgotten
<1>1. \A i \in Items : server[i].content = Absent /\ server[i].at = 0
  OBVIOUS
<1>2. TypeOK
  <2>1. server \in [Items -> Row]
    BY DEF Row
  <2>2. failures \in Seq(SUBSET Entry)
    OBVIOUS
  <2> QED  BY <2>1, <2>2 DEF TypeOK
<1>3. QueueOK
  BY FS_EmptySet DEF QueueOK, KeysOnce, ItemsOnce
<1>4. NetOK /\ EntriesOK
  BY DEF NetOK, EntriesOK
<1>5. CopyOK /\ KnownIsStored
  BY <1>1 DEF CopyOK, KnownIsStored
<1> QED  BY <1>2, <1>3, <1>4, <1>5 DEF OutboxInv

LEMMA AddKeeps ==
  ASSUME LifeInv, PatientAdd
  PROVE  LifeInv'
<1>1. /\ UNCHANGED <<vars, bound, generation>>
      /\ command = "None" /\ command' \in {"Bind", "None"}
      /\ source = "Removed" => ~bound /\ net = {}
      /\ \/ source' = "Active" /\ done' = done \cup {<<"add", generation>>}
         \/ UNCHANGED <<source, done>>
  BY DEF PatientAdd, SourceAdd, CreateOrReactivate, AddKey, Free, Answered
<1>2. OutboxInv => OutboxInv'
  BY <1>1, OutboxStep
<1>3. Emptied => Emptied'
  BY <1>1 DEF vars, cliVars, serviceVars, Emptied
<1>4. ~bound => Forgotten'
  BY <1>1 DEF LifeInv, Forgotten, vars, cliVars
<1>5. source # "Removed" \/ source' # "Removed" => OutboxInv'
  BY <1>1, <1>2, FreshStart DEF LifeInv
<1>6. RemovalsOK'
  BY <1>1 DEF LifeInv, RemovalsOK
<1>7. IF source' = "Removed" THEN Emptied' ELSE OutboxInv'
  BY <1>1, <1>3, <1>5 DEF LifeInv
<1> QED  BY <1>1, <1>4, <1>6, <1>7 DEF LifeInv

LEMMA RemoveKeeps ==
  ASSUME LifeInv, SourceRemove
  PROVE  LifeInv'
<1>1. /\ UNCHANGED <<hist, cliVars, net, answer, spent, bound, generation>>
      /\ sending = Idle /\ bound /\ command' \in {"Unbind", "None"}
  BY DEF SourceRemove, Free, Answered
<1>2. /\ source' = "Removed" /\ Emptied'
      /\ done' \subseteq done \cup {<<"remove", generation>>}
  <2>1. CASE DeleteSource
    <3>1. OutboxInv /\ source' = "Removed" /\ done' = done \cup {<<"remove", generation>>}
      BY <2>1 DEF LifeInv, DeleteSource, RemoveKey
    <3>2. server' = [i \in Items |-> [content |-> Absent, at |-> 0]]
      BY <2>1 DEF DeleteSource
    <3> QED  BY <1>1, <3>1, <3>2 DEF OutboxInv, TypeOK, CopyOK, Emptied, cliVars
  <2>2. CASE RemoveKey \in done /\ UNCHANGED <<source, done, server>>
    <3>1. source = "Removed"
      BY <2>2 DEF LifeInv, RemovalsOK, RemoveKey
    <3>2. Emptied
      BY <3>1 DEF LifeInv
    <3> QED  BY <1>1, <2>2, <3>1, <3>2 DEF Emptied, cliVars
  <2> QED  BY <2>1, <2>2 DEF SourceRemove
<1>3. RemovalsOK'
  BY <1>1, <1>2 DEF LifeInv, RemovalsOK
<1>4. sending' = Idle /\ bound' /\ bound' \in BOOLEAN /\ generation' \in Nat
  BY <1>1 DEF LifeInv, cliVars
<1> QED  BY <1>1, <1>2, <1>3, <1>4 DEF LifeInv

LEMMA BindingKeeps ==
  ASSUME LifeInv, RemoveBinding
  PROVE  LifeInv'
<1>1. source = "Removed" /\ Emptied
  BY DEF LifeInv, RemoveBinding
<1>2. Emptied'
  BY <1>1 DEF RemoveBinding, serviceVars, Emptied
<1>3. Forgotten'
  BY DEF LifeInv, RemoveBinding, Forgotten
<1>4. RemovalsOK'
  BY DEF LifeInv, RemoveBinding, RemovalsOK
<1>5. source' = "Removed" /\ bound' = FALSE /\ command' = "None"
  BY <1>1 DEF RemoveBinding
<1>6. generation' \in Nat
  BY DEF LifeInv, RemoveBinding
<1> QED  BY <1>2, <1>3, <1>4, <1>5, <1>6 DEF LifeInv

\* Binding the source, or letting a record expire, touches neither the outbox
\* nor the service.
LEMMA OwnerKeeps ==
  ASSUME LifeInv, BindSource \/ \E key \in done : RecordExpires(key)
  PROVE  LifeInv'
<1>1. /\ UNCHANGED <<vars, source, generation>>
      /\ bound' = bound \/ bound' = TRUE
      /\ command' = "None" \/ (command' = command /\ bound' = bound)
      /\ done' \subseteq done
  <2>1. CASE BindSource
    BY <2>1 DEF BindSource
  <2>2. ASSUME NEW key \in done, RecordExpires(key)
        PROVE  /\ UNCHANGED <<vars, source, generation, bound, command>>
               /\ done' \subseteq done
    BY <2>2 DEF RecordExpires
  <2> QED  BY <2>1, <2>2
<1>2. (OutboxInv => OutboxInv') /\ (Emptied => Emptied') /\ (Forgotten => Forgotten')
  <2>1. OutboxInv => OutboxInv'
    BY <1>1, OutboxStep
  <2> QED  BY <1>1, <2>1 DEF vars, cliVars, serviceVars, Emptied, Forgotten
<1>3. RemovalsOK'
  BY <1>1 DEF LifeInv, RemovalsOK
<1>4. sending' = sending
  BY <1>1 DEF vars, cliVars
<1>5. bound' \in BOOLEAN /\ (~bound' => Forgotten')
  <2>1. bound \in BOOLEAN /\ (~bound => Forgotten')
    BY <1>2 DEF LifeInv
  <2>2. CASE bound' = bound
    BY <2>1, <2>2
  <2>3. CASE bound' = TRUE
    BY <2>3
  <2> QED  BY <1>1, <2>2, <2>3
<1>6. IF source' = "Removed" THEN Emptied' ELSE OutboxInv'
  BY <1>1, <1>2 DEF LifeInv
<1>7. command' = "Unbind" => source' = "Removed" /\ bound' /\ sending' = Idle
  BY <1>1, <1>4 DEF LifeInv
<1> QED  BY <1>1, <1>3, <1>5, <1>6, <1>7 DEF LifeInv

\* The number of requests that a scan queues is a number also when the source
\* is gone.
LEMMA ScanCounts ==
  ASSUME NEW unread \in SUBSET Items, keys \in Nat, Scan(unread)
  PROVE  keys' \in Nat /\ keys <= keys'
<1> DEFINE f == [i \in {j \in Items \ unread : Disk(j) \notin {Absent, known[j], Quarantined(j)}} |->
                   EntryOf(i, "Upsert", Disk(i))]
           g == [i \in {j \in Items : /\ unread = {}
                                      /\ Disk(j) = Absent
                                      /\ known[j] \notin {Absent, Quarantined(j)}} |->
                   EntryOf(i, "Deleted", known[i])]
           s == SetToSeq(Changed(unread)) \o SetToSeq(Gone(unread))
           size == IF upgraded THEN BatchSize ELSE OldBatchSize
<1>1. Changed(unread) = {f[i] : i \in DOMAIN f} /\ Gone(unread) = {g[i] : i \in DOMAIN g}
  BY DEF Changed, Gone
<1>2. DOMAIN f \in SUBSET Items /\ DOMAIN g \in SUBSET Items
  OBVIOUS
<1> HIDE DEF f, g
<1>3. IsFiniteSet(Changed(unread)) /\ IsFiniteSet(Gone(unread))
  <2>1. IsFiniteSet(DOMAIN f) /\ IsFiniteSet(DOMAIN g)
    BY <1>2, FS_Subset
  <2> QED  BY <1>1, <2>1, ImageFinite
<1>4. s \in Seq(Changed(unread) \cup Gone(unread))
  <2>1. SetToSeq(Changed(unread)) \in Seq(Changed(unread))
    BY <1>3, SetToSeqLists
  <2>2. SetToSeq(Gone(unread)) \in Seq(Gone(unread))
    BY <1>3, SetToSeqLists
  <2> QED  BY <2>1, <2>2
<1>5. size \in Nat \ {0}
  OBVIOUS
<1>6. keys' = keys + Len(Cut(s, size))
  BY DEF Scan, Queue
<1> HIDE DEF s, size
<1>7. Len(Cut(s, size)) \in Nat
  BY <1>4, <1>5, CutCovers
<1> QED  BY <1>6, <1>7

\* While the source is there, a sync and the service move as without removals.
LEMMA PresentStep ==
  ASSUME LifeInv, source # "Removed", UNCHANGED lifecycleVars,
         \/ \E i \in Items, c \in Revisions \cup {Absent} : Edit(i, c)
         \/ Sync \/ SourceNotFound \/ Service
  PROVE  OutboxInv'
<1>1. OutboxInv
  BY DEF LifeInv
<1>2. [Next]_vars
  BY DEF Sync, SourceNotFound, Service, Next
<1> QED  BY <1>1, <1>2, OutboxStep

\* Once it is removed, only the folder and the CLI move.
LEMMA RemovedStep ==
  ASSUME Emptied, source = "Removed",
         \/ \E i \in Items, c \in Revisions \cup {Absent} : Edit(i, c)
         \/ Sync \/ SourceNotFound \/ Service
  PROVE  Emptied'
<1> USE DEF Emptied
<1>1. ASSUME NEW i \in Items, NEW c \in Revisions \cup {Absent}, Edit(i, c)
      PROVE  Emptied'
  <2>1. hist' = [hist EXCEPT ![i] = Append(@, c)] /\ UNCHANGED <<cliVars, net, serviceVars, spent>>
    BY <1>1 DEF Edit
  <2>2. \A j \in Items : hist'[j] \in Seq(Revisions \cup {Absent}) /\ Len(hist'[j]) >= 1
    <3> SUFFICES ASSUME NEW j \in Items
                 PROVE  hist'[j] \in Seq(Revisions \cup {Absent}) /\ Len(hist'[j]) >= 1
      OBVIOUS
    <3>1. hist[j] \in Seq(Revisions \cup {Absent}) /\ Len(hist[j]) \in Nat /\ Len(hist[j]) >= 1
      OBVIOUS
    <3>2. CASE j = i
      <4>1. hist'[j] = Append(hist[j], c)
        BY <2>1, <3>2
      <4> QED  BY <3>1, <4>1
    <3>3. CASE j # i
      BY <2>1, <3>1, <3>3
    <3> QED  BY <3>2, <3>3
  <2>3. hist' \in [Items -> Seq(Revisions \cup {Absent})]
    BY <2>1, <2>2
  <2> QED  BY <2>1, <2>2, <2>3 DEF cliVars, serviceVars
<1>2. ASSUME NEW unread \in SUBSET Items, Scan(unread)
      PROVE  Emptied'
  <2>1. keys' \in Nat /\ keys <= keys'
    BY <1>2, ScanCounts
  <2>2. UNCHANGED <<hist, upgraded, serviceVars, spent>>
    BY <1>2 DEF Scan
  <2> QED  BY <2>1, <2>2 DEF serviceVars
<1>3. CASE Send \/ Pause \/ Receive \/ SourceNotFound
  <2>1. UNCHANGED <<hist, keys, upgraded, serviceVars, spent>>
    BY <1>3 DEF Send, Pause, Receive, SourceNotFound
  <2> QED  BY <2>1 DEF serviceVars
<1>4. CASE Service
  <2>1. UNCHANGED <<hist, keys, upgraded, serviceVars, spent>>
    BY <1>4 DEF Service, Lose, cliVars
  <2> QED  BY <2>1 DEF serviceVars
<1> QED  BY <1>1, <1>2, <1>3, <1>4 DEF Sync

LEMMA OtherKeeps ==
  ASSUME LifeInv, UNCHANGED lifecycleVars,
         \/ \E i \in Items, c \in Revisions \cup {Absent} : Edit(i, c)
         \/ Sync \/ SourceNotFound \/ Service
  PROVE  LifeInv'
<1>1. UNCHANGED <<source, bound, generation, command, done>>
  BY DEF lifecycleVars
<1>2. IF source = "Removed" THEN Emptied' ELSE OutboxInv'
  BY PresentStep, RemovedStep DEF LifeInv
<1>3. ~bound \/ command # "None" => sending' = sending \/ sending' = Idle
  BY DEF Sync, SourceNotFound, Service, Edit, Execute, Refuse, Lose, cliVars
<1>4. ~bound => Forgotten'
  BY DEF LifeInv, Forgotten, Sync, SourceNotFound, Service, Edit, Execute, Refuse, Lose, cliVars
<1>5. RemovalsOK'
  BY <1>1 DEF LifeInv, RemovalsOK
<1> QED  BY <1>1, <1>2, <1>3, <1>4, <1>5 DEF LifeInv

\* The inductive invariant of a source that its owner removes and adds again.
THEOREM LifecycleInductive == PatientSpec => []LifeInv
<1>1. LifecycleInit => LifeInv
  BY LifeInit
<1>2. LifeInv /\ [PatientAdd \/ OwnerStep]_ownerVars => LifeInv'
  <2> SUFFICES ASSUME LifeInv, [PatientAdd \/ OwnerStep]_ownerVars PROVE LifeInv'
    OBVIOUS
  <2>1. CASE UNCHANGED ownerVars
    <3>1. UNCHANGED <<vars, source, bound, generation, command, done>>
      BY <2>1 DEF ownerVars, lifecycleVars
    <3>2. OutboxInv => OutboxInv'
      BY <3>1, OutboxStep
    <3> QED
      BY <3>1, <3>2 DEF LifeInv, Emptied, Forgotten, RemovalsOK, vars, cliVars, serviceVars
  <2> QED
    BY <2>1, AddKeeps, RemoveKeeps, BindingKeeps, OwnerKeeps, OtherKeeps DEF OwnerStep
<1> QED  BY <1>1, <1>2, PTL DEF PatientSpec

\* remove_binding, with the records of the commands and their generations:
\* what the CLI takes for accepted of a source that is there is what the
\* service has, or pending, though the source was removed and added again, as
\* long as it is not added again before the removal was answered, nor while
\* requests of before are on their way.
THEOREM KnownThroughRemovals == PatientSpec => []KnownWhileActive
<1>1. LifeInv => KnownWhileActive
  BY DEF LifeInv, OutboxInv, KnownWhileActive
<1> QED  BY <1>1, LifecycleInductive, PTL

\* Under the same condition a reactivated source does not look unchanged:
\* what the comment at remove_binding promises.
THEOREM ReactivationAlwaysNoticed == PatientSpec => []ReactivationNoticed
<1>1. KnownWhileActive => ReactivationNoticed
  BY DEF KnownWhileActive, KnownIsStored, ReactivationNoticed
<1> QED  BY <1>1, KnownThroughRemovals, PTL

=============================================================================
