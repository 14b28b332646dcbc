---------------------------- MODULE ManifestOutbox ----------------------------
(***************************************************************************)
(* The manifests of one Local source, from the scan of its folder to the   *)
(* service: the outbox of the CLI (cli/imagetracker_cli/state.py), the     *)
(* sync that fills and delivers it (sync.py) and the idempotency records   *)
(* by which the service executes a request once (services/domain).         *)
(*                                                                         *)
(* The outbox is in SQLite and every action on it is a transaction there;  *)
(* what a sync process holds in memory is sending alone, which a timeout,  *)
(* an error or the end of the process forgets.  A request that was sent    *)
(* may reach the service late, again and again, or never.  The lock of the *)
(* source lets one sync of it run at a time.                               *)
(*                                                                         *)
(* hist, and the field at of entries and of the service's copies, only     *)
(* record which state of the file is meant.                                *)
(***************************************************************************)
EXTENDS Naturals, Sequences, SequencesExt, FiniteSets

CONSTANTS
  Items,
  Revisions,
  Absent,          \* no file, no occurrence
  Idle,            \* no request is being waited for
  BatchSize,       \* entries of a request
  OldBatchSize,    \* entries of the requests an older version has queued
  Rejected,        \* revisions of items that the service does not accept
  MaxEdits,        \* bounds: edits of a file,
  MaxSpent         \* failed batches discarded and records expired

Entry == [item : Items, op : {"Upsert", "Deleted"}, rev : Revisions, at : Nat]
Request == [key : Nat, entries : SUBSET Entry]

ASSUME OutboxAssumption ==
  /\ IsFiniteSet(Items)
  /\ Absent \notin Revisions
  /\ Rejected \subseteq Items \X Revisions
  /\ BatchSize \in Nat \ {0} /\ OldBatchSize \in Nat /\ OldBatchSize >= BatchSize

ASSUME IdleAssumption == Idle \notin Request

VARIABLES
  hist,       \* what every file has been
  known,      \* KnownOccurrence: the revisions the service has accepted
  outbox,     \* ManifestOutbox rows that are Pending, in the order of their keys
  failures,   \* ManifestOutbox rows that are Failed, in their order
  keys,       \* idempotency keys handed out
  sending,    \* the batch whose answer the sync waits for
  upgraded,   \* the version with the smaller requests is installed
  net,        \* requests that may still reach the service
  answer,     \* idempotency records: the items a request failed for
  server,     \* the occurrences of the service
  spent       \* failed batches discarded, records expired

cliVars == <<known, outbox, failures, keys, sending, upgraded>>
serviceVars == <<answer, server>>
vars == <<hist, cliVars, net, serviceVars, spent>>

Row == [content : Revisions \cup {Absent}, at : Nat]

TypeOK ==
  /\ hist \in [Items -> Seq(Revisions \cup {Absent})]
  /\ known \in [Items -> Revisions \cup {Absent}]
  /\ outbox \subseteq Request
  /\ failures \in Seq(SUBSET Entry)
  /\ keys \in Nat
  /\ sending \in Request \cup {Idle}
  /\ upgraded \in BOOLEAN
  /\ net \subseteq Request
  /\ DOMAIN answer \subseteq 1..keys
  /\ \A k \in DOMAIN answer : answer[k] \subseteq Items
  /\ server \in [Items -> Row]
  /\ spent \in Nat

Init ==
  /\ hist = [i \in Items |-> <<Absent>>]
  /\ known = [i \in Items |-> Absent]
  /\ outbox = {} /\ failures = <<>> /\ keys = 0 /\ sending = Idle
  /\ upgraded = FALSE
  /\ net = {}
  /\ answer = <<>>
  /\ server = [i \in Items |-> [content |-> Absent, at |-> 1]]
  /\ spent = 0

-----------------------------------------------------------------------------
(* The folder. *)

Disk(i) == Last(hist[i])

Edit(i, c) ==
  /\ Len(hist[i]) <= MaxEdits[i]
  /\ c # Disk(i)
  /\ hist' = [hist EXCEPT ![i] = Append(@, c)]
  /\ UNCHANGED <<cliVars, net, serviceVars, spent>>

-----------------------------------------------------------------------------
(* The scan, once the outbox is empty. *)

EntryOf(i, op, rev) == [item |-> i, op |-> op, rev |-> rev, at |-> Len(hist[i])]

\* The revision of the item that a failed batch holds back: the last such row.
Quarantined(i) ==
  LET rows == {n \in DOMAIN failures : \E e \in failures[n] : e.item = i}
  IN  IF rows = {} THEN Absent
      ELSE (CHOOSE e \in failures[CHOOSE n \in rows : \A m \in rows : m <= n] : e.item = i).rev

Changed_M(unread) ==                    \* a file that is known is not compared
  {EntryOf(i, "Upsert", Disk(i)) :
     i \in {j \in Items \ unread : known[j] = Absent /\ Disk(j) \notin {Absent, Quarantined(j)}}}

\* New and changed files, and, when every file could be read, those gone.
Changed(unread) ==
  {EntryOf(i, "Upsert", Disk(i)) :
     i \in {j \in Items \ unread : Disk(j) \notin {Absent, known[j], Quarantined(j)}}}

Gone(unread) ==
  {EntryOf(i, "Deleted", known[i]) :
     i \in {j \in Items : /\ unread = {}
                          /\ Disk(j) = Absent
                          /\ known[j] \notin {Absent, Quarantined(j)}}}

\* The entries in their order, cut into what one request holds.
Cut(entries, size) ==
  [n \in 1..((Len(entries) + size - 1) \div size) |->
     {entries[m] : m \in {k \in DOMAIN entries : (k - 1) \div size = n - 1}}]

Batches_M(parts) ==                     \* the keys are counted from zero
  {[key |-> keys + n - 1, entries |-> parts[n]] : n \in DOMAIN parts}

\* The requests of a scan.
Batches(parts) == {[key |-> keys + n, entries |-> parts[n]] : n \in DOMAIN parts}

Queue(parts) ==
  /\ outbox' = outbox \cup Batches(parts)
  /\ keys' = keys + Len(parts)

Scan(unread) ==
  /\ sending = Idle /\ outbox = {}
  /\ Changed(unread) \cup Gone(unread) # {}
  /\ Queue(Cut(SetToSeq(Changed(unread)) \o SetToSeq(Gone(unread)),
               IF upgraded THEN BatchSize ELSE OldBatchSize))
  /\ UNCHANGED <<hist, known, failures, sending, upgraded, net, serviceVars, spent>>

-----------------------------------------------------------------------------
(* Delivery, in order; a batch that is not answered stops it. *)

Oversized(b) == upgraded /\ Cardinality(b.entries) > BatchSize

First == CHOOSE b \in outbox : \A c \in outbox : b.key <= c.key

Send ==
  /\ sending = Idle /\ outbox # {}
  /\ ~\E b \in outbox : Oversized(b)
  /\ sending' = First
  /\ net' = net \cup {First}
  /\ UNCHANGED <<hist, known, outbox, failures, keys, upgraded, serviceVars, spent>>

\* What a large request is cut into.
Parts(b) == Cut(SetToSeq(b.entries), BatchSize)

Pieces(large) == UNION {{b} \X DOMAIN Parts(b) : b \in large}

\* The place of a piece: they are counted through, request by request.
Place(piece, pieces) ==
  Cardinality({p \in pieces : \/ p[1].key < piece[1].key
                              \/ p[1].key = piece[1].key /\ p[2] <= piece[2]})

\* split_oversized_pending_batches: the large ones are discarded, and what
\* they are cut into is queued behind the others under new keys.
Split ==
  /\ sending = Idle
  /\ LET large  == {b \in outbox : Oversized(b)}
         pieces == Pieces(large)
     IN  /\ large # {}
         /\ outbox' = (outbox \ large) \cup
              {[key |-> keys + Place(p, pieces), entries |-> Parts(p[1])[p[2]]] : p \in pieces}
         /\ keys' = keys + Cardinality(pieces)
  /\ UNCHANGED <<hist, known, failures, sending, upgraded, net, serviceVars, spent>>

\* A timeout, a transient error, an expired sign-in, or the process ends.
Pause ==
  /\ sending # Idle
  /\ sending' = Idle
  /\ UNCHANGED <<hist, known, outbox, failures, keys, upgraded, net, serviceVars, spent>>

\* What the CLI takes for accepted once these entries are.
KnownAfter(accepted) ==
  [i \in Items |->
     IF \E e \in accepted : e.item = i
       THEN LET e == CHOOSE e \in accepted : e.item = i
            IN  IF e.op = "Upsert" THEN e.rev ELSE Absent
       ELSE known[i]]

Failed(b) == {e \in b.entries : e.item \in answer[b.key]}

Receive_M ==                            \* the failed items are not looked at
  /\ sending # Idle
  /\ sending.key \in DOMAIN answer
  /\ known' = KnownAfter(sending.entries)
  /\ outbox' = {b \in outbox : b.key # sending.key}
  /\ sending' = Idle
  /\ UNCHANGED <<hist, failures, keys, upgraded, net, serviceVars, spent>>

\* acknowledge_batch, and quarantine_request_error for a refused request.
Receive ==
  /\ sending # Idle
  /\ sending.key \in DOMAIN answer
  /\ known' = KnownAfter(sending.entries \ Failed(sending))
  /\ failures' = IF Failed(sending) = {} THEN failures ELSE Append(failures, Failed(sending))
  /\ outbox' = {b \in outbox : b.key # sending.key}
  /\ sending' = Idle
  /\ UNCHANGED <<hist, keys, upgraded, net, serviceVars, spent>>

\* `outbox discard`, which any failed batch allows.
Discard(n) ==
  /\ n \in DOMAIN failures
  /\ spent < MaxSpent
  /\ failures' = RemoveAt(failures, n)
  /\ spent' = spent + 1
  /\ UNCHANGED <<hist, known, outbox, keys, sending, upgraded, net, serviceVars>>

\* The version with the smaller requests is installed between two syncs; no
\* request of the older one is on its way any more.
Upgrade ==
  /\ ~upgraded /\ sending = Idle
  /\ upgraded' = TRUE
  /\ net' = {}
  /\ UNCHANGED <<hist, known, outbox, failures, keys, sending, serviceVars, spent>>

-----------------------------------------------------------------------------
(* The service. *)

Record(b, failed) ==
  answer' = [k \in DOMAIN answer \cup {b.key} |-> IF k = b.key THEN failed ELSE answer[k]]

\* The occurrences with these entries applied.
Stored(rows, entries) ==
  [i \in Items |->
     IF \E e \in entries : e.item = i
       THEN LET e == CHOOSE e \in entries : e.item = i
            IN  [content |-> IF e.op = "Upsert" THEN e.rev ELSE Absent, at |-> e.at]
       ELSE rows[i]]

Execute_M(b) ==                         \* the key is not looked up
  /\ b \in net
  /\ LET rejected == {e \in b.entries : e.op = "Upsert" /\ <<e.item, e.rev>> \in Rejected}
     IN  /\ server' = Stored(server, b.entries \ rejected)
         /\ Record(b, {e.item : e \in rejected})
  /\ UNCHANGED <<hist, cliVars, net, spent>>

\* The transaction of a manifest.  A request whose key is recorded changes
\* nothing and is answered from the record.
Execute(b) ==
  /\ b \in net
  /\ b.key \notin DOMAIN answer
  /\ LET rejected == {e \in b.entries : e.op = "Upsert" /\ <<e.item, e.rev>> \in Rejected}
     IN  /\ server' = Stored(server, b.entries \ rejected)
         /\ Record(b, {e.item : e \in rejected})
  /\ UNCHANGED <<hist, cliVars, net, spent>>

\* A request is refused as a whole, for what it contains: not one that was
\* accepted before.
Refuse(b) ==
  /\ b \in net
  /\ b.key \notin DOMAIN answer
  /\ ~\E e \in b.entries : server[e.item].at = e.at
  /\ Record(b, {e.item : e \in b.entries})
  /\ UNCHANGED <<hist, cliVars, net, server, spent>>

\* Records are kept longer than any request may be on its way.
Expire(k) ==
  /\ k \in DOMAIN answer
  /\ ~\E b \in net : b.key = k
  /\ spent < MaxSpent
  /\ answer' = [j \in DOMAIN answer \ {k} |-> answer[j]]
  /\ spent' = spent + 1
  /\ UNCHANGED <<hist, cliVars, net, server>>

Lose(b) ==
  /\ b \in net
  /\ net' = net \ {b}
  /\ UNCHANGED <<hist, cliVars, serviceVars, spent>>

Next ==
  \/ \E i \in Items, c \in Revisions \cup {Absent} : Edit(i, c)
  \/ \E unread \in SUBSET Items : Scan(unread)
  \/ Send \/ Split \/ Pause \/ Receive \/ Upgrade
  \/ \E n \in DOMAIN failures : Discard(n)
  \/ \E b \in net : Execute(b) \/ Refuse(b) \/ Lose(b)
  \/ \E k \in DOMAIN answer : Expire(k)

Spec == Init /\ [][Next]_vars

\* The owner syncs again and again; not every sync fails at the same point.
FairSpec ==
  /\ Spec
  /\ SF_vars(Scan({})) /\ WF_vars(Send) /\ WF_vars(Split)
  /\ WF_vars(Pause) /\ SF_vars(Receive)
  /\ SF_vars(\E b \in net : Execute(b) \/ Refuse(b))

-----------------------------------------------------------------------------
Pending(i) == \E b \in outbox : \E e \in b.entries : e.item = i

\* What the CLI takes for accepted is what the service has, except for items
\* of a batch that is still pending: after a crash, a lost answer or a late
\* repetition the next scan compares with the truth.
KnownIsStored == \A i \in Items : known[i] # server[i].content => Pending(i)

M == INSTANCE Mirror WITH
       Contents <- Revisions,
       at   <- [i \in Items |-> server[i].at],
       copy <- [i \in Items |-> server[i].content]

\* The service's copy of a file is always something the file has been, and
\* no late, repeated or re-split request takes it back to an earlier state.
MirrorSpec == M!Spec

\* A folder that is left alone is mirrored in the end, except for files whose
\* last revision, or deletion, sits in a failed batch.
HeldBack(i) == Quarantined(i) = IF Disk(i) = Absent THEN known[i] ELSE Disk(i)

EventuallyMirrored ==
  []<>(\A i \in Items : server[i].content = Disk(i) \/ HeldBack(i))
=============================================================================
