------------------------------ MODULE BulkMerge ------------------------------
(***************************************************************************)
(* The set-based merge of a bulk import (services/bulk/repository.py),     *)
(* beside the manifests of MediaCatalog.  The merge reads all staged rows  *)
(* at once, so each of its statements is a set or a function here; what it *)
(* should have done is the same rows, one after another, in a manifest.    *)
(* Enrichment jobs are queued by the merge only under a setting that the   *)
(* deployed worker leaves off; they are not modelled.                      *)
(***************************************************************************)
EXTENDS MediaCatalog, Sequences, SequencesExt

CONSTANT MaxRows   \* rows of an import

ASSUME RowsAssumption == MaxRows \in Nat

RowOf(s) == [item : {i \in Items : SourceOf[i] = s}, rev : Revisions,
             hash : Hashes, size : Sizes]
Imports(s) == BoundedSeq(RowOf(s), MaxRows)

\* Of the rows for one item only the first stays valid.
Unrepeated(rows) == {n \in DOMAIN rows : \A m \in 1..(n - 1) : rows[m].item # rows[n].item}

\* The row an asset is created from, or brought up to date with.
Canonical(rows, n) ==
  CHOOSE m \in Unrepeated(rows) :
    /\ rows[m].hash = rows[n].hash
    /\ \A k \in Unrepeated(rows) : rows[k].hash = rows[n].hash => m <= k

Exists(d, h) == d.asset[h].storage # "None"

SizeKept(d, rows, n) ==
  rows[n].size = IF Exists(d, rows[n].hash) THEN d.asset[rows[n].hash].size
                                            ELSE rows[Canonical(rows, n)].size

ValidRows(d, rows) == {n \in Unrepeated(rows) : SizeKept(d, rows, n)}

\* An import that would give an item another content is refused as a whole.
Relinks(d, rows) ==
  \E n \in Unrepeated(rows) : d.occ[rows[n].item].hash \notin {NoHash, rows[n].hash}

\* Assets are created and restored from their canonical rows alone.
AssetsMerged(d, rows) ==
  LET canonical == {n \in ValidRows(d, rows) : Canonical(rows, n) = n}
      changed   == {n \in canonical : d.asset[rows[n].hash].storage \in {"None", "Trashed"}}
      RowFor(h) == CHOOSE n \in changed : rows[n].hash = h
  IN  [d EXCEPT !.asset = [h \in Hashes |->
         IF \E n \in changed : rows[n].hash = h
           THEN [storage |-> "LocalOnly", size |-> rows[RowFor(h)].size, told |-> "Upsert"]
           ELSE d.asset[h]]]

OccurrencesMerged_M(d, rows) ==         \* rows that change nothing are told of
  LET valid == ValidRows(d, rows)
      RowFor(i) == CHOOSE n \in valid : rows[n].item = i
  IN  [i \in Items |->
         IF \E n \in valid : rows[n].item = i /\ d.occ[i].rev # rows[n].rev
           THEN [state |-> "Active", rev |-> rows[RowFor(i)].rev,
                 hash |-> rows[RowFor(i)].hash, told |-> "Upsert"]
           ELSE d.occ[i]]
OccurrencesMerged(d, rows) ==
  LET valid == ValidRows(d, rows)
      RowFor(i) == CHOOSE n \in valid : rows[n].item = i
      Unchanged(i) == LET row == rows[RowFor(i)] IN
        d.occ[i].state = "Active" /\ d.occ[i].rev = row.rev /\ d.occ[i].hash = row.hash
  IN  [i \in Items |->
         IF \E n \in valid : rows[n].item = i /\ ~Unchanged(i)
           THEN [state |-> "Active", rev |-> rows[RowFor(i)].rev,
                 hash |-> rows[RowFor(i)].hash, told |-> "Upsert"]
           ELSE d.occ[i]]

Merged(d, rows) ==
  [AssetsMerged(d, rows) EXCEPT !.occ = OccurrencesMerged(d, rows)]

\* The worker merges into a Local source that is active, under the locks of
\* the account and of the source.
MergeImport(s, rows) ==
  /\ batch = NoBatch
  /\ source[s] = [status |-> "Active", mode |-> "Local"]
  /\ ~Relinks(Tables, rows)
  /\ occ' = Merged(Tables, rows).occ
  /\ asset' = Merged(Tables, rows).asset
  /\ UNCHANGED <<source, batch>>

BulkNext ==
  \/ Next
  \/ \E s \in Sources : \E rows \in Imports(s) : MergeImport(s, rows)

BulkSpec == Init /\ [][BulkNext]_vars

-----------------------------------------------------------------------------
\* The rows as the entries of one manifest, in their order.
Entry(e, rows, n) ==
  IF n \in Unrepeated(rows)
    THEN HashedUpsert(e, rows[n].item, rows[n].rev, rows[n].hash, rows[n].size, "Local")
    ELSE e

AfterEntries(d, rows) ==
  LET after[n \in 0..Len(rows)] == IF n = 0 THEN d ELSE Entry(after[n - 1], rows, n)
  IN  after

AsManifest(d, rows) ==
  LET applied == AfterEntries(d, rows)[Len(rows)]
  IN  [applied EXCEPT !.occ = [i \in Items |->
         IF d.occ[i].state = "None" /\ applied.occ[i].state # "None"
           THEN [applied.occ[i] EXCEPT !.told = "Upsert"] ELSE applied.occ[i]]]

\* The set-based merge leaves the catalogue and the change feed as a manifest
\* of the same rows would have, whatever is pending, deleted or in the trash
\* and whichever rows share an item or a content.
MergeIsManifest ==
  \A s \in Sources :
    batch = NoBatch /\ source[s] = [status |-> "Active", mode |-> "Local"] =>
      \A rows \in Imports(s) :
        ~Relinks(Tables, rows) => Merged(Tables, rows) = AsManifest(Tables, rows)
=============================================================================
