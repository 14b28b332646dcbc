# ImageTracker: TLA+ models, checks and proofs

ImageTracker keeps a searchable index of a user's photos. A command-line client
(CLI) scans folders and sends manifests, as batches or as one bulk import; a
service (AWS Lambda, MySQL) deduplicates the media into assets; on request,
workers add a reverse-geocoded address and a scene description bought from a
provider under a monthly budget. This directory models the parts of that program
where interleaving, failure and money meet. All definitions are translated from
the Python code; `PROJECT.json` maps each to its lines.

## Inventory

| Component | State | Operations | Hard behaviour | What makes it correct |
|---|---|---|---|---|
| Scene-description jobs (`services/domain/service.py`) | `ProcessingJob`: status, attempts, lease, `request_json` | prepare, plan, complete, retry, skip, claim, complete, fail, defer, sweep | late and duplicate messages, expired leases, crash after a paid call | one owner, every queued job finishes |
| Provider ledger | `ProviderUsageMonth`: reserved and processed units, circuit | reserve, consume, settle, reverse, release, open and close the circuit | months, several jobs on one row | ceilings, backed reservations, the bill is covered |
| Preview upload sessions | `UploadSession`, bucket objects | plan, look up, complete, cancel, expire | lease expiry against completion, cleanup against restaging | a queued job's preview exists, no open lease behind it |
| Scene worker (`services/worker`) | one delivery in progress | `process_message`, transaction by transaction | crash between any two | charges once, cleans up its own preview only |
| Dispatch and queue | SQS messages | dispatch, deliver, acknowledge, dead-letter | lost, duplicated and late messages | recovery by the sweep |
| Geocode jobs | `ProcessingJob` per photo and coordinates, `MediaLocation`, ledger row | prepare, retry, claim, reuse a neighbour, reserve, consume, complete, fail, defer, sweep; manifests move, share and clear | coordinates that change under a job, addresses shared from shared ones, leases and months | no stale address, no call past the limit, no unit without a running lookup |
| Media catalogue and manifests | `MediaSource`, `MediaOccurrence`, `MediaAsset` | entries of a manifest, sources registered, changed, removed | deduplication, contents that change, two requests at once | an asset is out of the trash iff an active occurrence refers to it |
| Change feed | `MediaChange` | append, list after a cursor | several changes of a row in one transaction | the last change told is what the row became |
| Idempotent mutations | `IdempotencyRecord` | reserve, replay, reject, expire | a retry that comes late or after its record expired | one effect per key |
| Bulk import API and worker (`services/api/manifest_import_service.py`, `services/bulk`) | `ManifestImport`, stage tables, input and result objects | create, refresh, complete; claim, stage, merge, write, finish, fail; recovery | lease takeover, resume by phase | one active import of a source; the effect of a manifest |
| CLI outbox (`cli/imagetracker_cli/state.py`) | SQLite: known inventory, batches, bulk item, scene tasks, bindings | queue, acknowledge, split, quarantine, discard; capture, apply, close; task states | crash between an answer and its acknowledgement | the inventory never claims what the service lacks |
| CLI engine (`cli/imagetracker_cli/sync.py`, `app.py`) | none of its own | sync, enrich, bulk with fallback, jobs and outbox commands, source commands | lost answers, restarts, replays from records | the service mirrors the folder; every task is staged and followed |
| Legacy indexer (`ImageTracker.py`, `tag_location.py`) | table `ImageAsset` | upsert, locate, infer a category, caption; tag a place | statement-wise commits beside another writer | what the owner set by hand stays |
| HTTP layer, sign-in, parsing, image I/O, deployment | none or files | - | - | not modelled |

The client calls the service over HTTP, with an idempotency key for every
mutation. The service commits to MySQL, then dispatches job identities to SQS; a
failed dispatch is logged and forgotten. A worker claims a job with its message
identity as lease token, opens the provider call between two transactions, and
writes the outcome. An EventBridge rule sends a `RetryDueJobs` message every five
minutes, on the same queue. Imports have a queue, a worker and a recovery
schedule of their own.

## Modules

Arrows show EXTENDS.

```
SceneLedger <- SceneJobs <- SceneOutbox            Mirror (INSTANCE of ManifestOutbox)
GeocodeJobs                                        ManifestOutbox <- BulkImport <- BulkSync
MediaCatalog <- BulkMerge, MediaRace               ManifestOutbox <- SourceLifecycle
LegacyIndexer
```

Each has an `MC` module with `.cfg` files for TLC where a run uses it.

- `SceneLedger` - the helpers of the service that change the *books* (jobs and
  ledger rows) as operators from books to books, composed in the order a
  transaction calls them and proved about one at a time.
- `SceneJobs` - the service's side of scene descriptions: client operations,
  worker, queue, sweep, time. One action is one transaction with the dispatch
  after its commit.
- `SceneOutbox` - `SceneJobs` with the CLI that stages its previews: the tasks in
  SQLite, the calls of a sync one by one, the records that answer repeated calls,
  and the owner's commands.
- `GeocodeJobs` - reverse-geocoding jobs with the manifests that move the photos
  under them. It shares no state with `SceneJobs`: the two features have rows and
  messages of their own.
- `MediaCatalog` - sources, occurrences and assets under manifests, entry by
  entry, with what the change feed told last. The handlers are operators on the
  tables, so that `BulkMerge` (the set-based merge of an import) can be compared
  with the same rows applied in turn, and `MediaRace` can run them on a stale view.
- `Mirror` - the abstract specification of synchronisation: every file has a
  history, and the copy of the service only moves forward along it.
- `ManifestOutbox` - scan, outbox, delivery, acknowledgement and the service's
  idempotency records for one folder. It implements `Mirror`.
- `BulkImport` - the API and the worker of imports. `BulkSync` - the sync that
  sends its batches as an import, applies the result, or falls back; composed with
  `BulkImport` and `ManifestOutbox`, it implements `Mirror` too.
- `SourceLifecycle` - `source add` and `source remove` beside the syncs.
- `LegacyIndexer` - the stand-alone importer and the tagger on one table.
- `SceneJobsProofs` (of `SceneLedger` too) <- `ScenePreviewProofs` <-
  `SceneBillProofs`, `SceneOutboxProofs`; `GeocodeJobsProofs`; `MediaCatalogProofs`
  (of `BulkMerge` too); `BulkSyncProofs` (of `ManifestOutbox`, `BulkImport` and
  `SourceLifecycle` too); `LegacyIndexerProofs` - theorems.

An action's guard is the code's conditions and early returns. A request the code
refuses by raising an error rolls back and is no step. Definitions ending in `_M`
are deliberate faults ("mutants"), one per property of each passing run: the
property fails when its mutant replaces the definition after it. The
specifications never use them.

### State and code

`SceneJobs`, `SceneOutbox`:

| Variable | Code |
|---|---|
| `job[p]` | the Description `ProcessingJob` of photo `p`; `req`, `cost`, `used` are the months named by `providerUsageReservation`, `providerCostReservation` (state Reserved) and `providerRequestConsumption` (state Consumed) of its `request_json`, `staging` its upload session |
| `ledger[m]` | the Request and Usd rows of month `m`, created together |
| `upload[p][n]` | status of the `n`-th session; "Lapsed" is Uploading with `expires_at_utc` past |
| `object[p]` | previews in the bucket |
| `active`, `described` | asset lifecycle, current description |
| `queue` | messages of SQS; a photo stands for its job identity |
| `worker[w]` | where a delivery of `process_message` is, and the claim it holds |
| `month` | the usage month of `_now()` |
| `calls`, `billed` | history variables: calls opened and amounts billed, by the month they were paid in |
| `task[p]` | `DescriptionOutbox` row; "Confirmed" is Sent without a next check |
| `step` | the call the running sync is about to make, lost with the process |
| `plans`, `completed`, `cancelled`, `retried`, `offered` | `IdempotencyRecord` rows of the calls, by the keys the CLI builds |
| `spent` | faults and commands so far, for the bounds |

The failure codes are reduced to those the code branches on. Amounts are units:
`Reservation` is the conservative price of a call and a bill is an element of
`Costs`, at most the reservation - the service bounds the usage it accepts and
the reservation is the maximum price of such usage.

`GeocodeJobs`:

| Variable | Code |
|---|---|
| `at[p]`, `address[p]` | the `MediaLocation` of a photo: its coordinates, and the address it shows, as the place that address was looked up for |
| `active` | photos whose asset is Active |
| `job[<<p, c>>]` | the Geocode `ProcessingJob` of photo `p` at coordinates `c`, its input revision |
| `ledger[m]` | the Request row of the geocode provider in month `m` |
| `queue` | messages: a copy of a job's identity |
| `worker[w]` | where a delivery is, the claim it holds, the month its call was paid in, what it will write |
| `calls` | history: calls opened, by the month they were paid in |

Coordinates are integers on a line and the reuse radius a distance on it. The
checks of `can_reuse` on an address's quality are a free refusal.

`MediaCatalog`, `MediaRace`:

| Variable | Code |
|---|---|
| `source[s]` | `MediaSource`: status and storage mode |
| `occ[i]` | `MediaOccurrence`: state, revision, hash (`NoHash` while pending), and `told`, the kind of the last `MediaChange` row for it |
| `asset[h]` | `MediaAsset` of a content: lifecycle with storage state, declared size, `told` |
| `batch` | the manifest whose transaction runs: its source, what it has seen and created |
| `view[c]` | the snapshot a waiting request reads (`MediaRace`) |

`ManifestOutbox`, `BulkImport`, `BulkSync`, `SourceLifecycle`:

| Variable | Code |
|---|---|
| `hist[i]` | history: what the file has been; its last element is the file |
| `known[i]` | `KnownOccurrence` |
| `outbox` | Pending `ManifestOutbox` rows, as a set: their keys, handed out in sequence, are the order of `CreatedAtUtc, SequenceNumber` |
| `failures` | Failed `ManifestOutbox` rows in their order |
| `sending` | the batch whose answer the sync waits for, in memory |
| `net` | requests that may still reach the service |
| `answer` | `IdempotencyRecord`: for which items a request failed |
| `server[i]` | the occurrence at the service; `at` says which point of the history it is |
| `keys`, `upgraded`, `spent` | keys handed out; the version with smaller requests; bound |
| `import[m]`, `uploaded`, `messages`, `worker[w]` | `ManifestImport` with its stage, input objects, SQS, the claim of an invocation |
| `item`, `step` | the last `BulkManifestOutbox` row; what the running sync does next |
| `source`, `bound`, `generation`, `command`, `done` | the source's status, the binding, the lifecycle generation, what the running command has left to do, records of the commands |

`LegacyIndexer`: `row[f]` is the `ImageAsset` row of a path, `run[r]` the file an
import works on with the row as it read it, `tag[t]` the rows a tagger has matched.

## Runs

| Run | Instance | Question |
|---|---|---|
| `restage` | 1 photo staged twice, 2 messages, 2 workers | `TypeOK`; `PreviewKept`, `NoOpenUploadBehindQueue`, `OneOwner` |
| `months` | 2 photos, 2 months, limits 2 calls and 3 units of price 2 | `CeilingsHold`, `ReservationsBacked`, `BillCovered`, `CircuitStopsCalls`: the ledger shared by two jobs and across a month |
| `live` | 1 photo, 2 messages, 2 months, one call a month, fair | `QueuedJobsFinish`, `DueDeferralsReopen` |
| `geocode_share` | 2 photos at one place, 2 workers, 2 attempts, 2 months, one call a month | `TypeOK`, `BudgetKept`, `UnitsOwned` when lookups race for a call and for each other's address |
| `geocode_moves` | 1 photo, 2 distant places, 1 worker, 2 months, fair | `AddressNearby`, `UnitsOwned`, `LookupsFinish`, `DueLookupsResume` while the photo moves |
| `catalog` | 2 sources with 2 and 1 items, 2 contents, 2 revisions, imports of up to 2 rows | `TypeOK`, `ActiveIffReferenced`, `FeedCurrent`, `RemovedSourceHidden`; `MergeIsManifest` in every reachable catalogue |
| `outbox` | 2 files, 3 edits, requests of 2 entries that must be split, a refused revision, fair | `TypeOK`, `KnownIsStored`, `MirrorSpec` (refinement), `EventuallyMirrored` |
| `bulk` | 2 files, 3 edits, 2 imports, 1 worker, 2 attempts, a refused revision | `BulkTypeOK`, `KnownIsStored`, `OneActive`, `StageKept`, `MirrorSpec` (refinement) |
| `scene` | 1 photo, 4 uploads, 2 faults, 1 command of the owner, fair | `OutboxTypeOK`, `ConfirmedIsDescribed`, `PreparedIsStaged`, `OutcomeIsLearnt` |
| `race`, `readd`, `manual` | small | each finds one disagreement, below |

### Bounds

In every module a bound is in a guard and is named there.

*Scene jobs.* `MaxUploads` and `MaxMonth` bound sessions and months; message
identities are finite and a dispatch with none free stands for another copy of a
queued message. Two identities give a late duplicate, two uploads a restaged
preview, two months a reservation carried over; attempts (one or two) give both a
retry and exhaustion. One refusal happens in `months`, `live` and both geocode
runs; the limit 3 with price 2 makes a ceiling that is not a multiple of the price.

*Geocode jobs.* `MaxCopies` bounds the messages of one job in flight at once; a
single copy can still be late, lost, redelivered, or sent again after it was
acknowledged. The places 1 and 9 are farther apart than the radius, so an address
of one is wrong at the other. Moves and sharing together are too large for TLC:
each run checks one, and `AddressNearby` for their mix is proved.

*Catalogue.* Three items of two sources let an asset lose its last occurrence by
either source, and a third item rule out that it was the last. There is one
declared size: a merge and a manifest treat rows of one content with different
sizes differently (below). Two rows are enough for every relation the merge makes
between rows: the same item twice, the same content twice.

*Outbox, bulk.* `MaxEdits` gives one file two changes (it appears, then changes or
goes, or comes back as it was) and the other one; two revisions of which one is
refused for one file; `MaxSpent` one discarded batch or expired record. Batches
of two entries meet a version with requests of one, so one split happens. Two
imports are needed for `OneActive` and for a fallback followed by another import.

*Scene outbox.* `MaxFaults` bounds failed calls, ended syncs and lapsed leases,
`MaxCommands` what the owner does. Two faults give an interrupted attempt whose
successor is interrupted too; four uploads are more than such a sequence opens.

Symmetry is used in safety runs only (`bulk` checks the refinement as a step
property with it: the imports do not occur in `Mirror`). `outbox`, `bulk` and
`scene` may stop, when nothing is left to send and the bounds are used up, and
say so with `CHECK_DEADLOCK FALSE`.

### Assumptions and fairness

`RedeliveryOutlastsLease`: SQS gives a message back only after the lease of the
delivery that died ran out. `months` needs it for `BillCovered`, `scene` uses it
to keep its instance small; `restage` and `live` do without, and so do all proofs
but that of `BillCovered`. The code
does not guarantee it: both last 900 s, and the lease starts later. Without it a
message redelivered early is handed the job again by its own token
(`service.py` 3943), two calls are paid and one is charged.

*Import queue.* A delivery comes again only after the invocation before it is
over: the visibility timeout is 1800 s, a function ends after 900 s
(`infra/serverless.yml`). One worker stands for `reservedConcurrency: 1`.

`live` and `geocode_moves`: a worker goes on while it runs (weak fairness of its
steps); Lambda polls, so a message that stays in the queue is delivered in the
end, and the five-minute schedule brings a sweep whose dispatch arrives in the
end (strong, because both compete for the same worker); leases run out (weak).
The client may stop, the calendar may stop, crashes and lost dispatches may
happen for ever between two that arrive.

`outbox`: the owner syncs again and again, and not every scan misses a file
(strong fairness of a full scan), a sync sends, splits and gives up what is not
answered (weak); of requests sent for ever some are executed and some answers
received (strong). Any single one may be lost. `scene`: the owner goes on running
`enrich`, and a photo that can be read is read in some run (strong fairness of
preparing, of beginning a plan and of checks); a call that is made is answered
(weak - failures are separate steps, and bounded). The worker is not assumed to
do anything there: `OutcomeIsLearnt` starts from a job that has ended.

*Removed sources.* `PatientSpec` of `SourceLifecycle` restricts the owner, not the
code: a removed source is added again only after its removal was answered and
carried out locally, and when no request of before is still on its way
(`PatientAdd`). Without the first half `ReactivationNoticed` fails, without the second
`KnownWhileActive`. Everything else - lost answers, interrupted commands, expired
records - stays as it is.

*Tags and imports.* Likewise `ApartSpec` of `LegacyIndexer`: a tagger does not write
to a row whose file an import works on. It may read it then, and imports may meet.

Both are the subject of theorems, and no run has them: with `PatientSpec` and
`ApartSpec` as SPECIFICATION (and no deadlock check) the instances of `readd` and
`manual` have no violation.

## Refinement

`Mirror` has three variables: the history of each file, the point of it the
service's copy stands at, and the copy. `Edit` extends a history;
`BringForward` moves points forward. `ManifestOutbox` maps its own history,
`server[i].at` and `server[i].content` to them; `MirrorSpec` is checked as a
property of `outbox` and of `bulk`. It rules out that a late, repeated, split or
re-sent request, or an import merged after its files changed, takes the service
back: an argument that spans the order of the outbox, keys executed once, one
sync at a time, and batches that wait for the import that stands for them.
`at` is a history variable: no guard reads it except in `Refuse`, where it
restricts which requests the service may refuse. Deleted with its source, an occurrence
stands for no point, and its `at` is 0.

`MergeIsManifest` is the other comparison of two levels: the set-based SQL of an
import against the sequential manifest as its reference definition.

## Disagreements found

- `race` - `_mutation` reads the account before it locks it; under REPEATABLE
  READ that fixes what later plain SELECTs see. A photo deleted on one device
  while it is added on another stays in the trash with an active occurrence,
  although the plan says that a deletion is cancelled if an occurrence reappears.
- `readd` - when the answer of `source remove` is lost, the local inventory stays.
  `source add` then reactivates the source once the record of the first add has
  expired, and every file looks unchanged, which is what the comment at
  `remove_binding` sets out to prevent. It cannot happen if the
  removal is answered before the folder is added again, and no request of before is
  still on its way then (theorem `ReactivationAlwaysNoticed`). Such a late request is
  executed although the CLI has forgotten it, and the inventory, emptied and filled
  again, does not say what it did.
- `manual` - a forced import overwrites a category set by hand after the import
  read the row; two documents say it never does. Imports alone keep that promise, and
  so do a tagger and imports that do not meet on a file (theorem `ManualAlwaysKept`).

### Met while modelling, without a run

Money and units: the consumption record of a first attempt is reversed by an
uncalled failure of the second, and the opened call is no longer counted
(`service.py` 5196). Preparing again rewrites the request of a staged job, and its
reserved units belong to nobody until the month ends (1169). The sweep fails an
exhausted job without releasing its units (3642). A job redelivered while its
lease runs is paid twice and charged once (3943).

Jobs: a late message turns a user's skip into a stale preview that cannot be
retried (3923), and a Succeeded job of a trashed photo into a Cancelled one.
`quotaBlockReason` outlives the refusal that set it. The jobs of a deleted and
restored photo stay cancelled; so does the lookup of a photo that moved away and
back before a late message of it was delivered. A shared address is shared onward,
so a chain of photos can carry one farther than the radius, hop by hop:
`AddressNearby` says no more than the code does.

Client: `jobs retry` of a second deferral with the same attempts is answered from
the record of the first. The key of a skip names the job and the reason only, so
a second skip after a retry is answered from the record and the job stays
Preparing. A PUT repeated from a replayed plan after its preview was cleaned up
leaves a stray object. The client compares an error code without an underscore
(`RequestInProgress`), so that answer counts as permanent. A status asked for
after an interrupted application of a result overwrites ResultReady, the import
is given up and its rows are sent again, although `docs/PHASE1_STATUS.md` 67-68
promises that the result lets the client resume. `source remove` does not take the
lock of the syncs. A `complete` that arrives after the fallback to batches can
roll the service back. The key of a source's mode change is the same each time.
`suspend_pending_batches` and `restore_suspended_batches` are called by nothing.

Catalogue: a delete entry with another revision keeps the link to the content. The
feed tells nothing of a location that alone changed. A merge and a manifest
differ on rows of one content with different sizes, and on metadata of rows that
are not canonical. `_trash_orphaned_assets` is never called.

Legacy: an import forced over a failed geocode keeps the old address; a row
left half-done by a crash is not completed without `--force`; the tagger's
`--where-category-is-null` updates rows it does not check again.

## Proofs

Every safety invariant and every action property that a passing run checks is a
theorem, and so is the refinement of `Mirror`. They hold for all values of the
constants that satisfy the named assumptions of the modules: finite sets of photos,
places, items and workers, positive bounds, `Costs` within the reservation, non-empty
sets of revisions and sizes, `Nobody`, `Idle` and `NoBatch` different from what they
stand beside. Three theorems have a condition on the constants besides, stated in
them and below: `OneWorker`, `RedeliveryOutlastsLease`, and one size of a content.
The conditions of `PatientSpec` and `ApartSpec` are steps left out, see above.

The argument is the same throughout: an inductive invariant, stronger than what is
to be shown, with a lemma for each action, or for each operator an action is made of.

### Scene descriptions

| Theorem | Shows |
|---|---|
| `SceneJobsProofs!TypeCorrect`, `CeilingsAlwaysHold`, `ReservationsAlwaysBacked` | `TypeOK`, `CeilingsHold`, `ReservationsBacked` |
| `SceneJobsProofs!CircuitAlwaysStopsCalls` | `OneWorker => (Spec => CircuitStopsCalls)` |
| `ScenePreviewProofs!PreviewsAlwaysKept`, `NoUploadBehindQueue`, `OneOwnerOnly` | `PreviewKept`, `NoOpenUploadBehindQueue`, `OneOwner` |
| `SceneBillProofs!BillAlwaysCovered` | `RedeliveryOutlastsLease => (Spec => []BillCovered)` |
| `SceneOutboxProofs!SceneOutboxTyped`, `ConfirmedAlwaysDescribed`, `ServiceSafeWithClient` | `OutboxTypeOK`, `ConfirmedIsDescribed`, and the service's invariants with the client |

*Ledger* (`IInv == TypeOK /\ BooksOK(books)`, theorem `Inductive`). The ceilings are
not inductive alone: a settlement moves what a job has reserved to what is
processed, and charges up to the full reservation even where `min()` frees less;
it preserves the sum only because the ledger still holds at least what all jobs
hold (`ReservationsBacked`). `SceneJobsProofs` first shows, operator by operator,
that sound books stay sound, counting holders with finite sets; for the
settlements the one job is split from the others (`HolderCounted`,
`OneJobChanges`). The attempt counter is the part of `TypeOK` with content: it
is bounded since a claim checks it before it increments.

*Circuit.* The circuit is read when a call is reserved and not again. That is enough
for one delivery at a time (`OneWorker`): the function that works on the processing
queue is deployed with `reservedConcurrency: 1` (`infra/serverless.yml` 211, which
`infra/scripts/validate_foundation.py` 125 insists on). `CircuitInv` adds that the
circuit of a month to come is closed, so that the calendar may turn in between.

*Previews and owners* (`PInv`, theorem `SessionsInductive`). Operators of the ledger
leave the course of a job (status, preview, lease) alone, so each transaction is
first reduced to what it does to that. `SessionsAgree` relates a job's status to all
its sessions, not only to the one it names; `CleanupHarmless` says that what a
delivery is about to delete is not, and will not again be, the preview of a job at
work - which is why a session that was settled stays settled; `DeliveriesDistinct`,
that two deliveries never hold the same message, carries `OneOwner`, since a lease
is a message identity. `RedeliveryOutlastsLease` is not used.

*Bill* (`BInv`). Two sums are compared, so what is kept is a balance per month: what
is charged and reserved, less the reservations that may still be released (`Free`),
covers the bill and a margin, the most that calls under way may still add or give
back. A margin is the cardinality of a set of pairs of a delivery and a unit, which
lets one delivery be split from the others. `DeliveryAgrees` ties a delivery that
has paid to the job whose reservation stands for it; it is here that a message
which comes again during its own lease would break the argument, as it does the
property.

*The client* (`OInv`). `ServiceSafeWithClient` is not a consequence of the above: the
PUT repeated from a replayed plan (`PutSigned`) is no step of `SceneJobs`. It only
adds an object, and a preview is only named once its session is completed.
`ConfirmedIsDescribed` follows the chain from description to job (`SuccessDescribed`),
job to the status a sync has read (`StepOK`), and status to task (`TaskOK`).

### Reverse geocoding

Module `GeocodeJobsProofs`: `TypeCorrect`, `AddressesNearby`, `UnitsAlwaysOwned`,
`BudgetAlwaysKept` for `TypeOK`, `AddressNearby`, `UnitsOwned`, `BudgetKept`.

`AddressNearby` is not inductive: a worker carries an address from the transaction
that found it to the one that writes it, and the photo may move in between.
`Carried`, in `WorkersOK`, says that what a worker carries is linked to the
coordinates of its *job*; `complete_geocode` compares those with the photo's, which
is what `_claimed_geocode_job` is for. `NearestLinked` and `LinkedNear` show that one
more hop within the radius extends a link.

`UnitsOK` counts the jobs that hold a unit and adds that only a running job does;
each settlement is shown to leave that count and the ledger equal. `BudgetKept`
compares calls made with calls counted: `Margin` adds the deliveries that have
counted theirs and are about to make it.

### Catalogue

Module `MediaCatalogProofs`. Of `Spec` (manifests and source operations):
`TypeCorrect`, `AssetsFollowReferences`, `RemovedSourcesHidden`, `FeedAlwaysCurrent`
for `TypeOK`, `ActiveIffReferenced`, `RemovedSourceHidden`, `FeedCurrent`. Of
`BulkSpec`, in which any imports are merged between manifests: `MergesTyped` and
`MergesHideRemoved`. Of `MergeSpec`, which restricts them (below):
`MergesFollowReferences` and `MergesKeepFeed`, from the invariant `IInv /\ FeedInv`
(`MergesInductive`). `MergeMeetsManifest`, `AgreeingMergedAsManifest` and
`OneSizeMergedAsManifest` compare merges with manifests.

`ActiveIffReferenced` is not inductive: an entry without a hash takes up the link
of a deleted occurrence again, and `Restore` brings an asset back from the trash
but not from nowhere. `Linked` adds that what any occurrence, deleted or not,
refers to exists. `RemovedSourceHidden` needs that the source of the manifest
under way is not removed. Each handler is shown to keep sound tables (`TablesOK`)
as an operator, in the order it stores, trashes, restores and tells; two lemmas
carry them: `RelinkOK` for an item that comes to refer to another content,
`ReviveOK` for one that is shown again with its own. For the feed, `FeedInv` adds that
the only rows untold while a manifest is under way are those it has created, and
that these are shown, so that the one "Upsert" they get at the end is right.

`MergeSpec` restricts the imports of `BulkSpec` to rows that agree on the size of a
content. A hash is of the whole file, so rows that do not agree are no scan of a
folder; for them the properties fail, because the merge restores an asset only if
the first row that names it is valid (see above). `OneSizeAgrees`: where a content
has one size, as in the `catalog` run, nothing of `BulkSpec` is left out. The proof
rests on the canonical row: rows of one content share it (`CanonicalShared`), and one
of them is valid only if it is (`CanonicalValid`).

*Merge and manifest* (`MergeMeetsManifest`). An import of any number of rows, in any
reachable catalogue, leaves the tables and the feed as a manifest of the same rows in
turn would have, if and only if `FirstRowsFit`: wherever a row is applied to an asset in
the trash, the first row of that content declares the size the asset has too. The
set-based SQL compares that row alone when it restores; a manifest restores by the
first row that fits. Rows that agree on sizes always fit, which gives
`AgreeingMergedAsManifest` and, for one size, the property `MergeIsManifest` as the run
checks it. What the tables are after the first `n` entries (`AfterEntries`) is a
recursive function; that it satisfies its recursion, and that it is row by row what
`EntryApplied` says, is shown by the least number for which it would not
(`LeastNumber`, from the well-foundedness of `<`), as the theorems of induction of the
library are of no use here (see below).

### Outbox and imports

Module `BulkSyncProofs`. Of `ManifestOutbox`: `OutboxTyped`, `KnownAlwaysStored`,
`CopiesMirror` for `TypeOK`, `KnownIsStored`, `MirrorSpec`. Of `BulkSpec`:
`BulkTyped`, `KnownThroughImports`, `OneAlwaysActive`, `StageAlwaysKept`,
`ImportsMirror` for `BulkTypeOK`, `KnownIsStored`, `OneActive`, `StageKept`,
`MirrorSpec`.

`OutboxInv` says what a request that comes late or again may rely on. An item is
pending in one entry and a key belongs to one request (`QueueOK`); what may still reach
the service is pending or has its record (`NetOK`); and a pending entry is ahead of the
service's copy, with the inventory equal to that copy, until the record of its request
says that it was applied (`EntriesOK`). Hence executing a request moves the copies
forward, and that is a step of `Mirror`. A split keeps it because the parts cover
the entries of a request once (`PartsOfBatch`), under keys never used.

`BulkInv` adds that an active item stands for pending batches that are not sent
meanwhile (`ItemOK`), which statuses its import can have while the item is bound or
not (`ImportOK`), that nothing of an import is done before it is queued (`LeaseOK`),
and what a merge has brought in while its result is not yet taken over (`MergeOK`).
`OneActive` and `StageKept` are needed for the induction, not only consequences of it.
An import that may still be merged is always that of the active item: the sync closes
an item only before its rows are queued or after a final status.

Of `PatientSpec`: `KnownThroughRemovals` and `ReactivationAlwaysNoticed`, from `LifeInv`.
While the source is there, or was never added, `OutboxInv` holds as it does without
removals; while it is removed the service has nothing (`Emptied`), whatever the CLI
and the network still hold; and without a binding the CLI holds nothing (`Forgotten`).
A source that is added again therefore starts from a state like the first one
(`FreshStart`) - as long as neither the CLI nor the network has anything of before,
which is the condition. `RemovalsOK` says what a replayed removal may
conclude from its record: the record of this generation means that the source is gone.

### Legacy indexer

Module `LegacyIndexerProofs`: `ManualAlwaysKept`, `ApartSpec => ManualKept`, from
`LegacyInv`. An import decides on the row as it read it and writes statements later, so
what it read has to be still true of a manual row (`ReadOK`): if the row is manual now,
the import has seen that, with the category (`TaggedOK`), and has not decided to assign
another. A step of another import on the same file keeps this, since none makes a row
manual; a tagger keeps it if no import is at work on what it tags. The constants are as
`LegacyAssumption` says: `None` is neither a place nor a category.

### Only model-checked, and why

- Liveness: `QueuedJobsFinish`, `DueDeferralsReopen`, `LookupsFinish`,
  `DueLookupsResume`, `EventuallyMirrored`, `PreparedIsStaged`, `OutcomeIsLearnt`. Fairness
  and `ENABLED` are out of the prover's reach.
- `MediaRace` shows what the code does not keep and has no theorem; nor have
  `LifecycleSpec` and the unrestricted `Spec` of `LegacyIndexer`, for the same reason.
- The library's theorems of induction take an operator as a parameter, which the
  installed provers cannot instantiate. Where induction over data is needed - the
  entries of a manifest - it is written out for that case.

## Not modelled, and why

- Transactions are serialisable, except in `MediaRace`: the code locks the rows it
  changes (`with_for_update`); lock waits and deadlock retries are not shown.
- A sweep or a preparation of several rows is one action per row. The 100-row
  limits, and the row limit of the search for neighbours, are left out.
- Deleting an object always succeeds (failures are logged and left to the bucket
  lifecycle rule); a PUT that arrives after its session was closed is ignored.
- A change of configuration is the nondeterministic failure of a claimed job
  (`FailBeforeReserving`); limits do not change during a run.
- Payload contents: hashes, sizes and keys agree whenever the session does. A
  geocode message is always valid, and the coordinates of a location are whole.
- Address normalization; descriptive metadata of assets; locations in
  `MediaCatalog` (they are in `GeocodeJobs`).
- Paging and signing of cursors, and change ids that commit in another order
  than they were given: the feed is the last row told of each item.
- In `ManifestOutbox`: hashing, which decides only whether an upsert carries a
  hash; several sources, which share nothing but the process.
- In `BulkSync`: thresholds that choose the transport, permanent refusals of a
  status call, a `complete` that arrives after the fallback, splitting (it is in
  `outbox`), and two messages of one import at a time.
- In `SceneOutbox`: several occurrences that share a job and the choice of another
  one for it, the shape checks of an upload plan, and the expiry of records.
- In `SourceLifecycle`: changes of mode, pauses, several folders, and commands
  beside syncs.
- In `LegacyIndexer`: the listing of OneDrive, EXIF parsing, the calls of the
  providers, the migration of the table.
- Parsing and guardrails of import files, the scanner and previews, HTTP and
  sign-in, schema migrations, deployment: data conversion, pure I/O or wiring
  without a state of their own; the components marked `not_modelled` in
  `PROJECT.json` say it one by one.

## Plan

1. `SceneLedger`, `SceneJobs`, `GeocodeJobs`, `MediaCatalog` with `BulkMerge` and
   `MediaRace`, `ManifestOutbox`, `BulkImport`, `BulkSync`, `SourceLifecycle` and
   `SceneOutbox` over the abstract `Mirror`, `LegacyIndexer` - modelled and checked.
2. Theorems for every safety invariant and action property of the passing runs, for both
   refinements of `Mirror`, for the merge of an import against the manifest of its rows,
   and for conditions under which what `readd` and `manual` show cannot happen - done.
3. Left: liveness, which stays with TLC; `MediaRace` under the condition that the account
   is locked before it is read, which would be a change of the code.
