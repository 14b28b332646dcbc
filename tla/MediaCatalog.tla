---------------------------- MODULE MediaCatalog ----------------------------
(***************************************************************************)
(* The catalogue of an account (services/domain/service.py): its sources,  *)
(* the occurrences of media that the manifests of a source report, the     *)
(* assets these occurrences share by content hash, and the change feed     *)
(* that tells the devices what to fetch again.                             *)
(*                                                                         *)
(* A manifest is one transaction under the lock of the account; its        *)
(* entries are applied one after another, so the batch in progress is part *)
(* of the state and every other operation waits for it.  A revision stands *)
(* for what else identifies the content of an item; a new name or locator  *)
(* alone changes nothing that is modelled and is left out, as are the      *)
(* descriptive metadata of assets and the locations (see GeocodeJobs).     *)
(***************************************************************************)
EXTENDS Naturals

CONSTANTS
  Sources,
  Items,           \* source items, each of one source
  SourceOf,        \* the source of an item
  Hashes,          \* contents, by their SHA-256
  NoHash,          \* the hash of an occurrence that is still to be hashed
  Revisions,
  Sizes,           \* byte sizes a client may declare
  NoBatch

ASSUME CatalogAssumption ==
  /\ SourceOf \in [Items -> Sources]
  /\ NoHash \notin Hashes
  /\ Revisions # {} /\ Sizes # {}

VARIABLES
  source,          \* MediaSource
  occ,             \* MediaOccurrence, with the last change told of it
  asset,           \* MediaAsset, with the last change told of it
  batch            \* the manifest whose transaction is under way

vars == <<source, occ, asset, batch>>

Modes == {"Local", "Remote"}
Told == {"None", "Upsert", "Delete", "Missing"}

SourceRow == [status : {"None", "Active", "Paused", "Removed"}, mode : Modes]
OccurrenceRow == [state : {"None", "Active", "Deleted"}, rev : Revisions,
                  hash : Hashes \cup {NoHash}, told : Told]
AssetRow == [storage : {"None", "LocalOnly", "UploadPending", "Trashed"},
             size : Sizes, told : Told]
Batch == [source : Sources, reliable : BOOLEAN,
          seen : SUBSET Items, created : SUBSET Items]

ASSUME BatchAssumption == NoBatch \notin Batch

TypeOK ==
  /\ source \in [Sources -> SourceRow]
  /\ occ \in [Items -> OccurrenceRow]
  /\ asset \in [Hashes -> AssetRow]
  /\ batch \in Batch \cup {NoBatch}

Init ==
  /\ source = [s \in Sources |-> [status |-> "None", mode |-> "Local"]]
  /\ occ = [i \in Items |-> [state |-> "None", rev |-> CHOOSE r \in Revisions : TRUE,
                             hash |-> NoHash, told |-> "None"]]
  /\ asset = [h \in Hashes |-> [storage |-> "None", told |-> "None",
                                size |-> CHOOSE z \in Sizes : TRUE]]
  /\ batch = NoBatch

-----------------------------------------------------------------------------
(* The two tables as one value d.  A row that changes is untold ("Missing") *)
(* until a change is added to the feed for it.                              *)

Tables == [occ |-> occ, asset |-> asset]

Store(row, new) ==
  IF [new EXCEPT !.told = row.told] = row THEN row ELSE [new EXCEPT !.told = "Missing"]

SetOcc(d, i, new) == [d EXCEPT !.occ[i] = Store(@, new)]
SetAsset(d, h, new) == [d EXCEPT !.asset[h] = Store(@, new)]
TellOcc(d, i, type) == [d EXCEPT !.occ[i].told = type]
TellAsset(d, h, type) == [d EXCEPT !.asset[h].told = type]

\* OccurrenceRepository.active_count_for_asset
Referenced(d, h, others) ==
  \E i \in others : d.occ[i].state = "Active" /\ d.occ[i].hash = h

NewStorage_M(mode) == mode              \* the mode of the source is stored
NewStorage(mode) == IF mode = "Remote" THEN "UploadPending" ELSE "LocalOnly"

TrashIfUnreferenced_M(d, h, i) ==       \* other occurrences are not counted
  IF h = NoHash \/ d.asset[h].storage \in {"None", "Trashed"}
    THEN d
    ELSE TellAsset(SetAsset(d, h, [d.asset[h] EXCEPT !.storage = "Trashed"]), h, "Delete")
TrashIfUnreferenced(d, h, i) ==
  IF \/ h = NoHash
     \/ Referenced(d, h, Items \ {i})
     \/ d.asset[h].storage \in {"None", "Trashed"}
    THEN d
    ELSE TellAsset(SetAsset(d, h, [d.asset[h] EXCEPT !.storage = "Trashed"]), h, "Delete")

Restore_M(d, h, mode) ==                \* the feed is not told
  IF h = NoHash \/ d.asset[h].storage # "Trashed"
    THEN d
    ELSE SetAsset(d, h, [d.asset[h] EXCEPT !.storage = NewStorage(mode)])
Restore(d, h, mode) ==
  IF h = NoHash \/ d.asset[h].storage # "Trashed"
    THEN d
    ELSE TellAsset(SetAsset(d, h, [d.asset[h] EXCEPT !.storage = NewStorage(mode)]),
                   h, "Upsert")

-----------------------------------------------------------------------------
(* The entries of a manifest. *)

\* An entry without a hash keeps the link of an unchanged revision, and
\* unlinks the content of an older one.
PendingUpsert(d, i, rev, mode) ==
  LET old     == d.occ[i]
      fresh   == old.state = "None"
      revised == fresh \/ old.rev # rev
      hash    == IF revised THEN NoHash ELSE old.hash
      changed == ~fresh /\ (revised \/ old.state # "Active")
      stored  == SetOcc(d, i, [old EXCEPT !.state = "Active", !.rev = rev, !.hash = hash])
      linked  == IF revised THEN TrashIfUnreferenced(stored, old.hash, i)
                            ELSE Restore(stored, hash, mode)
  IN  IF changed THEN TellOcc(linked, i, "Upsert") ELSE linked

SizeMismatch(d, h, size) == d.asset[h].storage # "None" /\ d.asset[h].size # size

\* The asset an entry with a hash refers to: created, or made fit for the
\* storage mode of one more source, or taken out of the trash.
PreparedAsset(d, h, size, mode) ==
  LET row == d.asset[h]
      created == row.storage = "None"
      enriched == mode = "Remote" /\ row.storage = "LocalOnly"
      stored == IF created
                  THEN SetAsset(d, h, [row EXCEPT !.storage = NewStorage(mode), !.size = size])
                ELSE IF enriched
                  THEN SetAsset(d, h, [row EXCEPT !.storage = "UploadPending"])
                ELSE d
  IN  Restore(IF created \/ enriched THEN TellAsset(stored, h, "Upsert") ELSE stored, h, mode)

HashedUpsert(d, i, rev, h, size, mode) ==
  LET old       == d.occ[i]
      fresh     == old.state = "None"
      unchanged == old.state = "Active" /\ old.rev = rev /\ old.hash = h
      stored    == SetOcc(PreparedAsset(d, h, size, mode), i,
                          [old EXCEPT !.state = "Active", !.rev = rev, !.hash = h])
      linked    == IF old.hash # h THEN TrashIfUnreferenced(stored, old.hash, i) ELSE stored
  IN  IF SizeMismatch(d, h, size) THEN d
      ELSE IF fresh \/ unchanged THEN linked
      ELSE TellOcc(linked, i, "Upsert")

DeleteOccurrence(d, i, rev) ==
  LET old  == d.occ[i]
      gone == SetOcc(d, i, [old EXCEPT !.state = "Deleted", !.rev = rev])
  IN  TrashIfUnreferenced(TellOcc(gone, i, "Delete"), old.hash, i)

ManifestDelete(d, i, rev, reliable) ==
  IF reliable /\ d.occ[i].state = "Active" THEN DeleteOccurrence(d, i, rev) ELSE d

-----------------------------------------------------------------------------
(* Manifests: submit_manifest takes the lock, applies the entries in order *)
(* and tells of the occurrences it has created when all are applied.  A    *)
(* second entry for the same item is rejected and changes nothing.         *)

BeginManifest_M(s, reliable) ==         \* removed sources are accepted
  /\ batch = NoBatch
  /\ batch' = [source |-> s, reliable |-> reliable, seen |-> {}, created |-> {}]
  /\ UNCHANGED <<source, occ, asset>>
BeginManifest(s, reliable) ==
  /\ batch = NoBatch
  /\ source[s].status \in {"Active", "Paused"}
  /\ batch' = [source |-> s, reliable |-> reliable, seen |-> {}, created |-> {}]
  /\ UNCHANGED <<source, occ, asset>>

Applied(i, result) ==
  /\ batch # NoBatch
  /\ SourceOf[i] = batch.source
  /\ i \notin batch.seen
  /\ occ' = result.occ
  /\ asset' = result.asset
  /\ batch' = [batch EXCEPT
       !.seen = @ \cup {i},
       !.created = IF occ[i].state = "None" /\ result.occ[i].state # "None"
                     THEN @ \cup {i} ELSE @]
  /\ UNCHANGED source

ApplyPending(i, rev) == Applied(i, PendingUpsert(Tables, i, rev, source[SourceOf[i]].mode))

ApplyHashed(i, rev, h, size) ==
  Applied(i, HashedUpsert(Tables, i, rev, h, size, source[SourceOf[i]].mode))

ApplyDelete(i, rev) == Applied(i, ManifestDelete(Tables, i, rev, batch.reliable))

FinishManifest ==
  /\ batch # NoBatch
  /\ occ' = [i \in Items |-> IF i \in batch.created THEN [occ[i] EXCEPT !.told = "Upsert"]
                                                    ELSE occ[i]]
  /\ batch' = NoBatch
  /\ UNCHANGED <<source, asset>>

-----------------------------------------------------------------------------
(* Sources. *)

\* A source is registered, or registered again after its removal.  (A
\* request for an active source is answered with it or refused.)
CreateSource(s, mode) ==
  /\ batch = NoBatch
  /\ source[s].status \in {"None", "Removed"}
  /\ source' = [source EXCEPT ![s] = [status |-> "Active", mode |-> mode]]
  /\ UNCHANGED <<occ, asset, batch>>

\* Turned from Local to Remote, the source wants its originals uploaded.
UpdateSource(s, mode, status) ==
  /\ batch = NoBatch
  /\ source[s].status \in {"Active", "Paused"}
  /\ source' = [source EXCEPT ![s] = [status |-> status, mode |-> mode]]
  /\ LET wanted == {h \in Hashes :
           /\ source[s].mode = "Local" /\ mode = "Remote"
           /\ asset[h].storage = "LocalOnly"
           /\ Referenced(Tables, h, {i \in Items : SourceOf[i] = s})}
     IN  asset' = [h \in Hashes |->
           IF h \in wanted THEN [asset[h] EXCEPT !.storage = "UploadPending", !.told = "Upsert"]
                           ELSE asset[h]]
  /\ UNCHANGED <<occ, batch>>

\* Every active occurrence is deleted in turn; an asset goes to the trash
\* with the last one that refers to it.
RemoveSource(s) ==
  /\ batch = NoBatch
  /\ source[s].status \in {"Active", "Paused"}
  /\ LET own    == {i \in Items : SourceOf[i] = s}
         listed == {i \in own : occ[i].state = "Active"}
         lost   == {h \in Hashes :
           /\ asset[h].storage \notin {"None", "Trashed"}
           /\ Referenced(Tables, h, own)
           /\ ~Referenced(Tables, h, Items \ own)}
     IN  /\ occ' = [i \in Items |->
               IF i \in listed THEN [occ[i] EXCEPT !.state = "Deleted", !.told = "Delete"]
                               ELSE occ[i]]
         /\ asset' = [h \in Hashes |->
               IF h \in lost THEN [asset[h] EXCEPT !.storage = "Trashed", !.told = "Delete"]
                             ELSE asset[h]]
  /\ source' = [source EXCEPT ![s].status = "Removed"]
  /\ UNCHANGED batch

Next ==
  \/ \E s \in Sources, reliable \in BOOLEAN : BeginManifest(s, reliable)
  \/ \E i \in Items, rev \in Revisions :
       \/ ApplyPending(i, rev)
       \/ ApplyDelete(i, rev)
       \/ \E h \in Hashes, size \in Sizes : ApplyHashed(i, rev, h, size)
  \/ FinishManifest
  \/ \E s \in Sources, mode \in Modes :
       \/ CreateSource(s, mode)
       \/ \E status \in {"Active", "Paused"} : UpdateSource(s, mode, status)
  \/ \E s \in Sources : RemoveSource(s)

Spec == Init /\ [][Next]_vars

-----------------------------------------------------------------------------
\* An asset is out of the trash exactly while an active occurrence of some
\* source refers to it: the last one to go sends it there, and any that
\* reappears takes it out, whichever entries, sources and removals do it.
ActiveIffReferenced ==
  \A h \in Hashes :
    asset[h].storage \in {"LocalOnly", "UploadPending"} <=> Referenced(Tables, h, Items)

\* Once a manifest is finished the change feed has told of the last change of
\* every occurrence and asset, and of the kind that a device has to act on.
FeedCurrent ==
  batch = NoBatch =>
    /\ \A i \in Items : occ[i].told =
         CASE occ[i].state = "None" -> "None"
           [] occ[i].state = "Active" -> "Upsert"
           [] occ[i].state = "Deleted" -> "Delete"
    /\ \A h \in Hashes : asset[h].told =
         CASE asset[h].storage = "None" -> "None"
           [] asset[h].storage \in {"LocalOnly", "UploadPending"} -> "Upsert"
           [] asset[h].storage = "Trashed" -> "Delete"

\* Nothing of a removed source is listed: no manifest of it was under way
\* when it was removed, and none is accepted until it is registered again.
RemovedSourceHidden ==
  \A i \in Items : source[SourceOf[i]].status \in {"None", "Removed"} => occ[i].state # "Active"
=============================================================================
