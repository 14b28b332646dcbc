------------------------- MODULE MediaCatalogProofs -------------------------
(***************************************************************************)
(* Theorems of the catalogue, for any sources, items, contents, revisions  *)
(* and sizes, under manifests and source operations (Spec) and with        *)
(* imports merged between them (MergeSpec, BulkSpec): types, assets that   *)
(* are out of the trash exactly while they are referred to, sources that   *)
(* show nothing once they are removed, a feed that tells what the rows     *)
(* became, and the merge of an import as the manifest of the same rows in  *)
(* turn.                                                                   *)
(*                                                                         *)
(* ActiveIffReferenced is not inductive by itself: an entry without a hash *)
(* takes up the link of a deleted occurrence again, which is right only if *)
(* that asset exists. Linked adds that, for occurrences of any state.      *)
(* FeedCurrent speaks of finished manifests; FeedInv adds what a manifest  *)
(* under way has still to tell.                                            *)
(*                                                                         *)
(* The merge is compared with the manifest after every prefix of the rows, *)
(* by the least prefix for which they would differ.                        *)
(***************************************************************************)
EXTENDS BulkMerge, WellFoundedInduction, TLAPS

TableRows == [occ : [Items -> OccurrenceRow], asset : [Hashes -> AssetRow]]

Live(d, h) == d.asset[h].storage \in {"LocalOnly", "UploadPending"}

Sound(d) == \A h \in Hashes : Live(d, h) <=> Referenced(d, h, Items)

Linked(d) ==
  \A i \in Items : d.occ[i].hash \in Hashes => d.asset[d.occ[i].hash].storage # "None"

TablesOK(d) == d \in TableRows /\ Sound(d) /\ Linked(d)

SourcesOK ==
  /\ source \in [Sources -> SourceRow]
  /\ batch \in Batch \cup {NoBatch}
  /\ batch # NoBatch => source[batch.source].status \in {"Active", "Paused"}

IInv == TablesOK(Tables) /\ SourcesOK /\ RemovedSourceHidden

-----------------------------------------------------------------------------
(* Storing and telling *)

LEMMA StoreOcc ==
  ASSUME NEW row \in OccurrenceRow, NEW new \in OccurrenceRow
  PROVE  /\ Store(row, new) \in OccurrenceRow
         /\ Store(row, new).state = new.state
         /\ Store(row, new).hash = new.hash
BY DEF Store, OccurrenceRow, Told

LEMMA StoreAsset ==
  ASSUME NEW row \in AssetRow, NEW new \in AssetRow
  PROVE  /\ Store(row, new) \in AssetRow
         /\ Store(row, new).storage = new.storage
BY DEF Store, AssetRow, Told

LEMMA SetOccSets ==
  ASSUME NEW d \in TableRows, NEW i \in Items, NEW new \in OccurrenceRow
  PROVE  /\ SetOcc(d, i, new) \in TableRows
         /\ SetOcc(d, i, new).asset = d.asset
         /\ SetOcc(d, i, new).occ[i].state = new.state
         /\ SetOcc(d, i, new).occ[i].hash = new.hash
         /\ \A j \in Items \ {i} : SetOcc(d, i, new).occ[j] = d.occ[j]
<1>1. d.occ[i] \in OccurrenceRow
  BY DEF TableRows
<1>2. SetOcc(d, i, new) = [d EXCEPT !.occ = [d.occ EXCEPT ![i] = Store(d.occ[i], new)]]
  BY DEF SetOcc, TableRows
<1> QED  BY <1>1, <1>2, StoreOcc DEF TableRows

LEMMA SetAssetSets ==
  ASSUME NEW d \in TableRows, NEW h \in Hashes, NEW new \in AssetRow
  PROVE  /\ SetAsset(d, h, new) \in TableRows
         /\ SetAsset(d, h, new).occ = d.occ
         /\ SetAsset(d, h, new).asset[h].storage = new.storage
         /\ \A g \in Hashes \ {h} : SetAsset(d, h, new).asset[g] = d.asset[g]
<1>1. d.asset[h] \in AssetRow
  BY DEF TableRows
<1>2. SetAsset(d, h, new) = [d EXCEPT !.asset = [d.asset EXCEPT ![h] = Store(d.asset[h], new)]]
  BY DEF SetAsset, TableRows
<1> QED  BY <1>1, <1>2, StoreAsset DEF TableRows

\* What a row tells is no part of what the theorems are about.
SameState(d, e) ==
  /\ \A i \in Items : e.occ[i].state = d.occ[i].state /\ e.occ[i].hash = d.occ[i].hash
  /\ \A h \in Hashes : e.asset[h].storage = d.asset[h].storage

LEMMA TellOccTells ==
  ASSUME NEW d \in TableRows, NEW i \in Items, NEW type \in Told
  PROVE  TellOcc(d, i, type) \in TableRows /\ SameState(d, TellOcc(d, i, type))
<1>1. d.occ[i] \in OccurrenceRow
  BY DEF TableRows
<1>2. TellOcc(d, i, type) = [d EXCEPT !.occ = [d.occ EXCEPT ![i] = [d.occ[i] EXCEPT !.told = type]]]
  BY DEF TellOcc, TableRows, OccurrenceRow
<1>3. /\ [d.occ[i] EXCEPT !.told = type] \in OccurrenceRow
      /\ [d.occ[i] EXCEPT !.told = type].state = d.occ[i].state
      /\ [d.occ[i] EXCEPT !.told = type].hash = d.occ[i].hash
  BY <1>1 DEF OccurrenceRow
<1> QED  BY <1>2, <1>3 DEF TableRows, SameState

LEMMA TellAssetTells ==
  ASSUME NEW d \in TableRows, NEW h \in Hashes, NEW type \in Told
  PROVE  /\ TellAsset(d, h, type) \in TableRows
         /\ TellAsset(d, h, type).occ = d.occ
         /\ SameState(d, TellAsset(d, h, type))
<1>1. d.asset[h] \in AssetRow
  BY DEF TableRows
<1>2. TellAsset(d, h, type) = [d EXCEPT !.asset = [d.asset EXCEPT ![h] = [d.asset[h] EXCEPT !.told = type]]]
  BY DEF TellAsset, TableRows, AssetRow
<1>3. /\ [d.asset[h] EXCEPT !.told = type] \in AssetRow
      /\ [d.asset[h] EXCEPT !.told = type].storage = d.asset[h].storage
  BY <1>1 DEF AssetRow
<1> QED  BY <1>2, <1>3 DEF TableRows, SameState

\* No other item is shown or hidden.
OthersKept(d, e, i) ==
  \A j \in Items \ {i} : e.occ[j].state = d.occ[j].state

LEMMA SameStateOK ==
  ASSUME NEW d, TablesOK(d), NEW e \in TableRows, SameState(d, e)
  PROVE  TablesOK(e)
<1>1. Sound(e)
  BY DEF TablesOK, Sound, Live, Referenced, SameState
<1>2. Linked(e)
  BY DEF TablesOK, Linked, SameState
<1> QED  BY <1>1, <1>2 DEF TablesOK

LEMMA TellOccOK ==
  ASSUME NEW d, NEW e, TablesOK(e), NEW i \in Items, OthersKept(d, e, i)
  PROVE  TablesOK(TellOcc(e, i, "Upsert")) /\ OthersKept(d, TellOcc(e, i, "Upsert"), i)
<1>1. TellOcc(e, i, "Upsert") \in TableRows /\ SameState(e, TellOcc(e, i, "Upsert"))
  BY TellOccTells DEF TablesOK, Told
<1>2. TablesOK(TellOcc(e, i, "Upsert"))
  BY <1>1, SameStateOK
<1>3. OthersKept(d, TellOcc(e, i, "Upsert"), i)
  BY <1>1 DEF SameState, OthersKept
<1> QED  BY <1>2, <1>3

-----------------------------------------------------------------------------
(* Trash and restore *)

\* One asset changes at most.
AssetStep(d, e, h) ==
  /\ e \in TableRows
  /\ e.occ = d.occ
  /\ \A g \in Hashes \ {h} : e.asset[g].storage = d.asset[g].storage

LEMMA StorageTold ==
  ASSUME NEW d \in TableRows, NEW h \in Hashes, NEW type \in Told,
         NEW new \in AssetRow
  PROVE  /\ AssetStep(d, TellAsset(SetAsset(d, h, new), h, type), h)
         /\ TellAsset(SetAsset(d, h, new), h, type).asset[h].storage = new.storage
<1> DEFINE s == SetAsset(d, h, new)
<1>1. /\ s \in TableRows /\ s.occ = d.occ /\ s.asset[h].storage = new.storage
      /\ \A g \in Hashes \ {h} : s.asset[g] = d.asset[g]
  BY SetAssetSets
<1> HIDE DEF s
<1>2. /\ TellAsset(s, h, type) \in TableRows
      /\ TellAsset(s, h, type).occ = s.occ
      /\ SameState(s, TellAsset(s, h, type))
  BY <1>1, TellAssetTells
<1> QED  BY <1>1, <1>2 DEF AssetStep, SameState, s

LEMMA StoredAs ==
  ASSUME NEW row \in AssetRow,
         NEW storage \in {"None", "LocalOnly", "UploadPending", "Trashed"}
  PROVE  /\ [row EXCEPT !.storage = storage] \in AssetRow
         /\ [row EXCEPT !.storage = storage].storage = storage
BY DEF AssetRow

LEMMA TrashTrashes ==
  ASSUME NEW d \in TableRows, NEW h \in Hashes \cup {NoHash}, NEW i \in Items
  PROVE  /\ AssetStep(d, TrashIfUnreferenced(d, h, i), h)
         /\ h \in Hashes =>
              TrashIfUnreferenced(d, h, i).asset[h].storage =
                IF Referenced(d, h, Items \ {i}) \/ d.asset[h].storage = "None"
                  THEN d.asset[h].storage ELSE "Trashed"
<1> DEFINE kept == \/ h = NoHash
                   \/ Referenced(d, h, Items \ {i})
                   \/ d.asset[h].storage \in {"None", "Trashed"}
<1>1. CASE kept
  <2>1. TrashIfUnreferenced(d, h, i) = d
    BY <1>1 DEF TrashIfUnreferenced
  <2>2. h = NoHash => h \notin Hashes
    BY CatalogAssumption
  <2> QED  BY <1>1, <2>1, <2>2 DEF AssetStep
<1>2. CASE ~kept
  <2> DEFINE new == [d.asset[h] EXCEPT !.storage = "Trashed"]
  <2>1. h \in Hashes
    BY <1>2
  <2>2. d.asset[h] \in AssetRow
    BY <2>1 DEF TableRows
  <2>3. new \in AssetRow /\ new.storage = "Trashed"
    BY <2>2, StoredAs
  <2>4. TrashIfUnreferenced(d, h, i) = TellAsset(SetAsset(d, h, new), h, "Delete")
    BY <1>2 DEF TrashIfUnreferenced
  <2>5. "Delete" \in Told
    BY DEF Told
  <2> HIDE DEF new
  <2>6. /\ AssetStep(d, TrashIfUnreferenced(d, h, i), h)
        /\ TrashIfUnreferenced(d, h, i).asset[h].storage = new.storage
    BY <2>1, <2>3, <2>4, <2>5, StorageTold
  <2> QED  BY <1>2, <2>3, <2>6
<1> QED  BY <1>1, <1>2

LEMMA NewStorageLive ==
  ASSUME NEW mode
  PROVE  NewStorage(mode) \in {"LocalOnly", "UploadPending"}
BY DEF NewStorage

LEMMA RestoreRestores ==
  ASSUME NEW d \in TableRows, NEW h \in Hashes \cup {NoHash}, NEW mode
  PROVE  /\ AssetStep(d, Restore(d, h, mode), h)
         /\ h \in Hashes =>
              IF d.asset[h].storage = "Trashed"
                THEN Live(Restore(d, h, mode), h)
                ELSE Restore(d, h, mode).asset[h].storage = d.asset[h].storage
<1>1. h = NoHash => h \notin Hashes
  BY CatalogAssumption
<1>2. CASE h = NoHash \/ d.asset[h].storage # "Trashed"
  <2>1. Restore(d, h, mode) = d
    BY <1>2 DEF Restore
  <2> QED  BY <1>1, <1>2, <2>1 DEF AssetStep
<1>3. CASE ~(h = NoHash \/ d.asset[h].storage # "Trashed")
  <2> DEFINE new == [d.asset[h] EXCEPT !.storage = NewStorage(mode)]
  <2>1. h \in Hashes
    BY <1>3
  <2>2. d.asset[h] \in AssetRow
    BY <2>1 DEF TableRows
  <2>3. NewStorage(mode) \in {"LocalOnly", "UploadPending"}
    BY NewStorageLive
  <2>4. new \in AssetRow /\ new.storage = NewStorage(mode)
    BY <2>2, <2>3, StoredAs
  <2>5. Restore(d, h, mode) = TellAsset(SetAsset(d, h, new), h, "Upsert")
    BY <1>3 DEF Restore
  <2>6. "Upsert" \in Told
    BY DEF Told
  <2> HIDE DEF new
  <2>7. /\ AssetStep(d, Restore(d, h, mode), h)
        /\ Restore(d, h, mode).asset[h].storage = new.storage
    BY <2>1, <2>4, <2>5, <2>6, StorageTold
  <2> QED  BY <1>3, <2>3, <2>4, <2>7 DEF Live
<1> QED  BY <1>2, <1>3

-----------------------------------------------------------------------------
(* The entries of a manifest *)

\* An item comes to refer to a content that is live, or to none, and the
\* content it referred to is trashed unless another item keeps it.
LEMMA RelinkOK ==
  ASSUME NEW d, TablesOK(d), NEW p \in TableRows, NEW i \in Items,
         NEW new \in OccurrenceRow, new.state = "Active",
         AssetStep(d, p, new.hash),
         new.hash \in Hashes => Live(p, new.hash),
         d.occ[i].hash # new.hash
  PROVE  /\ TablesOK(TrashIfUnreferenced(SetOcc(p, i, new), d.occ[i].hash, i))
         /\ OthersKept(d, TrashIfUnreferenced(SetOcc(p, i, new), d.occ[i].hash, i), i)
<1> DEFINE old == d.occ[i].hash
           s == SetOcc(p, i, new)
           e == TrashIfUnreferenced(s, old, i)
<1>1. /\ d \in TableRows /\ Sound(d) /\ Linked(d)
      /\ old \in Hashes \cup {NoHash}
      /\ new.hash \in Hashes \cup {NoHash}
  BY DEF TablesOK, TableRows, OccurrenceRow
<1>2. /\ s \in TableRows /\ s.asset = p.asset
      /\ s.occ[i].state = "Active" /\ s.occ[i].hash = new.hash
      /\ \A j \in Items \ {i} : s.occ[j] = d.occ[j]
  BY SetOccSets DEF AssetStep
<1> HIDE DEF s
<1>3. /\ AssetStep(s, e, old)
      /\ old \in Hashes =>
           e.asset[old].storage =
             IF Referenced(s, old, Items \ {i}) \/ s.asset[old].storage = "None"
               THEN s.asset[old].storage ELSE "Trashed"
  BY <1>1, <1>2, TrashTrashes
<1> HIDE DEF e, old
<1>4. e \in TableRows /\ e.occ = s.occ
  BY <1>3 DEF AssetStep
<1>5. \A g \in Hashes : g \notin {old, new.hash} =>
        /\ e.asset[g].storage = d.asset[g].storage
        /\ Referenced(e, g, Items) <=> Referenced(d, g, Items)
  BY <1>2, <1>3, <1>4 DEF AssetStep, Referenced, old
<1>6. new.hash \in Hashes => Live(e, new.hash) /\ Referenced(e, new.hash, Items)
  BY <1>2, <1>3, <1>4 DEF AssetStep, Live, Referenced, old
<1>7. ASSUME old \in Hashes
      PROVE  /\ Live(e, old) <=> Referenced(e, old, Items)
             /\ d.asset[old].storage # "None" => e.asset[old].storage # "None"
  <2>1. s.asset[old].storage = d.asset[old].storage
    BY <1>2, <1>7 DEF AssetStep, old
  <2>2. Referenced(e, old, Items) <=> Referenced(s, old, Items \ {i})
    BY <1>2, <1>4 DEF Referenced, old
  <2>3. Referenced(s, old, Items \ {i}) => Referenced(d, old, Items)
    BY <1>2 DEF Referenced
  <2>4. Referenced(s, old, Items \ {i}) => Live(d, old)
    BY <1>1, <1>7, <2>3 DEF Sound
  <2> QED  BY <1>3, <1>7, <2>1, <2>2, <2>4 DEF Live
<1>8. Sound(e)
  BY <1>1, <1>5, <1>6, <1>7 DEF Sound, Live
<1>9. Linked(e)
  <2> SUFFICES ASSUME NEW j \in Items, e.occ[j].hash \in Hashes
               PROVE  e.asset[e.occ[j].hash].storage # "None"
    BY DEF Linked
  <2>1. CASE j = i
    BY <1>2, <1>4, <1>6, <2>1 DEF Live
  <2>2. CASE j # i
    <3>1. e.occ[j].hash = d.occ[j].hash /\ d.asset[d.occ[j].hash].storage # "None"
      BY <1>1, <1>2, <1>4, <2>2 DEF Linked
    <3> QED  BY <1>5, <1>6, <1>7, <3>1 DEF Live
  <2> QED  BY <2>1, <2>2
<1>10. OthersKept(d, e, i)
  BY <1>2, <1>4 DEF OthersKept
<1> QED  BY <1>4, <1>8, <1>9, <1>10 DEF TablesOK, e, s, old

\* An item is shown with the content it referred to, which is live by then.
LEMMA ReviveOK ==
  ASSUME NEW d, TablesOK(d), NEW e \in TableRows, NEW i \in Items,
         e.occ[i].state = "Active", e.occ[i].hash = d.occ[i].hash,
         \A j \in Items \ {i} : /\ e.occ[j].state = d.occ[j].state
                                /\ e.occ[j].hash = d.occ[j].hash,
         \A g \in Hashes \ {d.occ[i].hash} : e.asset[g].storage = d.asset[g].storage,
         d.occ[i].hash \in Hashes => Live(e, d.occ[i].hash)
  PROVE  TablesOK(e)
<1> DEFINE old == d.occ[i].hash
<1>1. Sound(d) /\ Linked(d)
  BY DEF TablesOK
<1>2. old \in Hashes => Live(e, old) /\ Referenced(e, old, Items)
  BY DEF Referenced
<1>3. \A g \in Hashes \ {old} : Referenced(e, g, Items) <=> Referenced(d, g, Items)
  BY DEF Referenced
<1>4. Sound(e)
  BY <1>1, <1>2, <1>3 DEF Sound, Live
<1>5. Linked(e)
  BY <1>1, <1>2 DEF Linked, Live
<1> QED  BY <1>4, <1>5 DEF TablesOK

LEMMA PendingUpsertOK ==
  ASSUME NEW d, TablesOK(d), NEW i \in Items, NEW rev \in Revisions, NEW mode
  PROVE  /\ TablesOK(PendingUpsert(d, i, rev, mode))
         /\ OthersKept(d, PendingUpsert(d, i, rev, mode), i)
<1> DEFINE old     == d.occ[i]
           revised == old.state = "None" \/ old.rev # rev
           changed == old.state # "None" /\ (revised \/ old.state # "Active")
           hash    == IF revised THEN NoHash ELSE old.hash
           new     == [old EXCEPT !.state = "Active", !.rev = rev, !.hash = hash]
           stored  == SetOcc(d, i, new)
           linked  == IF revised THEN TrashIfUnreferenced(stored, old.hash, i)
                                 ELSE Restore(stored, hash, mode)
<1>1. PendingUpsert(d, i, rev, mode) = IF changed THEN TellOcc(linked, i, "Upsert") ELSE linked
  BY DEF PendingUpsert
<1>2. d \in TableRows /\ Linked(d) /\ old \in OccurrenceRow
  BY DEF TablesOK, TableRows
<1>3. /\ hash \in Hashes \cup {NoHash} /\ old.hash \in Hashes \cup {NoHash}
      /\ new \in OccurrenceRow /\ new.state = "Active" /\ new.hash = hash
  BY <1>2 DEF OccurrenceRow
<1> HIDE DEF new
<1>4. TablesOK(linked) /\ OthersKept(d, linked, i)
  <2>1. CASE revised /\ old.hash # NoHash
    <3>1. AssetStep(d, d, new.hash) /\ (new.hash \in Hashes => Live(d, new.hash))
      BY <1>2, <1>3, <2>1, CatalogAssumption DEF AssetStep
    <3> QED  BY <1>2, <1>3, <2>1, <3>1, RelinkOK
  <2>2. CASE revised /\ old.hash = NoHash
    <3>1. linked = stored
      BY <2>2 DEF TrashIfUnreferenced
    <3>2. /\ stored \in TableRows /\ stored.asset = d.asset
          /\ stored.occ[i].state = "Active" /\ stored.occ[i].hash = old.hash
          /\ \A j \in Items \ {i} : stored.occ[j] = d.occ[j]
      BY <1>2, <1>3, <2>2, SetOccSets
    <3>3. old.hash \notin Hashes
      BY <2>2, CatalogAssumption
    <3> HIDE DEF stored, linked
    <3> QED  BY <3>1, <3>2, <3>3, ReviveOK DEF OthersKept
  <2>3. CASE ~revised
    <3>1. /\ stored \in TableRows /\ stored.asset = d.asset
          /\ stored.occ[i].state = "Active" /\ stored.occ[i].hash = old.hash
          /\ \A j \in Items \ {i} : stored.occ[j] = d.occ[j]
      BY <1>2, <1>3, <2>3, SetOccSets
    <3> HIDE DEF stored
    <3>2. /\ linked = Restore(stored, old.hash, mode)
          /\ AssetStep(stored, linked, old.hash)
          /\ old.hash \in Hashes =>
               IF stored.asset[old.hash].storage = "Trashed"
                 THEN Live(linked, old.hash)
                 ELSE linked.asset[old.hash].storage = stored.asset[old.hash].storage
      BY <1>3, <2>3, <3>1, RestoreRestores
    <3> HIDE DEF linked
    <3>3. ASSUME old.hash \in Hashes PROVE Live(linked, old.hash)
      <4>1. d.asset[old.hash] \in AssetRow /\ d.asset[old.hash].storage # "None"
        BY <1>2, <3>3 DEF Linked, TableRows
      <4> QED  BY <3>1, <3>2, <3>3, <4>1 DEF Live, AssetRow
    <3> QED  BY <3>1, <3>2, <3>3, ReviveOK DEF AssetStep, OthersKept
  <2> QED  BY <2>1, <2>2, <2>3
<1> HIDE DEF linked
<1>5. TablesOK(TellOcc(linked, i, "Upsert")) /\ OthersKept(d, TellOcc(linked, i, "Upsert"), i)
  BY <1>4, TellOccOK
<1> QED  BY <1>1, <1>4, <1>5

LEMMA PreparedAssetLive ==
  ASSUME NEW d \in TableRows, NEW h \in Hashes, NEW size \in Sizes, NEW mode
  PROVE  /\ AssetStep(d, PreparedAsset(d, h, size, mode), h)
         /\ Live(PreparedAsset(d, h, size, mode), h)
<1> DEFINE row      == d.asset[h]
           created  == row.storage = "None"
           enriched == mode = "Remote" /\ row.storage = "LocalOnly"
           first    == [row EXCEPT !.storage = NewStorage(mode), !.size = size]
           remote   == [row EXCEPT !.storage = "UploadPending"]
           told(new) == TellAsset(SetAsset(d, h, new), h, "Upsert")
           before   == IF created THEN told(first) ELSE IF enriched THEN told(remote) ELSE d
<1>1. PreparedAsset(d, h, size, mode) = Restore(before, h, mode)
  BY DEF PreparedAsset
<1>2. row \in AssetRow /\ "Upsert" \in Told
  BY DEF TableRows, Told
<1>3. /\ first \in AssetRow /\ first.storage \in {"LocalOnly", "UploadPending"}
      /\ remote \in AssetRow /\ remote.storage = "UploadPending"
  BY <1>2, NewStorageLive DEF AssetRow
<1> HIDE DEF first, remote
<1>4. AssetStep(d, before, h) /\ before.asset[h].storage \in {"LocalOnly", "UploadPending", "Trashed"}
  <2>1. CASE created
    BY <1>2, <1>3, <2>1, StorageTold
  <2>2. CASE ~created /\ enriched
    BY <1>2, <1>3, <2>2, StorageTold
  <2>3. CASE ~created /\ ~enriched
    BY <1>2, <2>3 DEF AssetStep, AssetRow
  <2> QED  BY <2>1, <2>2, <2>3
<1> HIDE DEF before
<1>5. /\ AssetStep(before, Restore(before, h, mode), h)
      /\ IF before.asset[h].storage = "Trashed"
           THEN Live(Restore(before, h, mode), h)
           ELSE Restore(before, h, mode).asset[h].storage = before.asset[h].storage
  BY <1>4, RestoreRestores DEF AssetStep
<1> QED  BY <1>1, <1>4, <1>5 DEF AssetStep, Live

LEMMA HashedUpsertOK ==
  ASSUME NEW d, TablesOK(d), NEW i \in Items, NEW rev \in Revisions,
         NEW h \in Hashes, NEW size \in Sizes, NEW mode
  PROVE  /\ TablesOK(HashedUpsert(d, i, rev, h, size, mode))
         /\ OthersKept(d, HashedUpsert(d, i, rev, h, size, mode), i)
<1> DEFINE old    == d.occ[i]
           p      == PreparedAsset(d, h, size, mode)
           new    == [old EXCEPT !.state = "Active", !.rev = rev, !.hash = h]
           stored == SetOcc(p, i, new)
           linked == IF old.hash # h THEN TrashIfUnreferenced(stored, old.hash, i) ELSE stored
<1>1. HashedUpsert(d, i, rev, h, size, mode) \in {d, linked, TellOcc(linked, i, "Upsert")}
  BY DEF HashedUpsert
<1>2. d \in TableRows /\ old \in OccurrenceRow
  BY DEF TablesOK, TableRows
<1>3. new \in OccurrenceRow /\ new.state = "Active" /\ new.hash = h
  BY <1>2 DEF OccurrenceRow
<1>4. AssetStep(d, p, h) /\ Live(p, h)
  BY <1>2, PreparedAssetLive
<1>5. p \in TableRows /\ p.occ = d.occ
  BY <1>4 DEF AssetStep
<1> HIDE DEF p, new
<1>6. TablesOK(linked) /\ OthersKept(d, linked, i)
  <2>1. CASE old.hash # h
    BY <1>3, <1>4, <1>5, <2>1, RelinkOK
  <2>2. CASE old.hash = h
    <3>1. /\ stored \in TableRows /\ stored.asset = p.asset
          /\ stored.occ[i].state = "Active" /\ stored.occ[i].hash = old.hash
          /\ \A j \in Items \ {i} : stored.occ[j] = d.occ[j]
      BY <1>3, <1>5, <2>2, SetOccSets
    <3> HIDE DEF stored
    <3> QED  BY <1>4, <2>2, <3>1, ReviveOK DEF AssetStep, Live, OthersKept
  <2> QED  BY <2>1, <2>2
<1> HIDE DEF linked
<1>7. TablesOK(TellOcc(linked, i, "Upsert")) /\ OthersKept(d, TellOcc(linked, i, "Upsert"), i)
  BY <1>6, TellOccOK
<1>8. OthersKept(d, d, i)
  BY DEF OthersKept
<1> QED  BY <1>1, <1>6, <1>7, <1>8

LEMMA DeleteOccurrenceOK ==
  ASSUME NEW d, TablesOK(d), NEW i \in Items, NEW rev \in Revisions
  PROVE  /\ TablesOK(DeleteOccurrence(d, i, rev))
         /\ OthersKept(d, DeleteOccurrence(d, i, rev), i)
<1> DEFINE old    == d.occ[i]
           new    == [old EXCEPT !.state = "Deleted", !.rev = rev]
           gone   == SetOcc(d, i, new)
           told   == TellOcc(gone, i, "Delete")
           e      == TrashIfUnreferenced(told, old.hash, i)
<1>1. DeleteOccurrence(d, i, rev) = e
  BY DEF DeleteOccurrence
<1>2. /\ d \in TableRows /\ Sound(d) /\ Linked(d) /\ old \in OccurrenceRow
      /\ old.hash \in Hashes \cup {NoHash}
  BY DEF TablesOK, TableRows, OccurrenceRow
<1>3. new \in OccurrenceRow /\ new.state = "Deleted" /\ new.hash = old.hash
  BY <1>2 DEF OccurrenceRow
<1> HIDE DEF new
<1>4. /\ gone \in TableRows /\ gone.asset = d.asset
      /\ gone.occ[i].state = "Deleted" /\ gone.occ[i].hash = old.hash
      /\ \A j \in Items \ {i} : gone.occ[j] = d.occ[j]
  BY <1>2, <1>3, SetOccSets
<1> HIDE DEF gone
<1>5. told \in TableRows /\ SameState(gone, told)
  BY <1>4, TellOccTells DEF Told
<1> HIDE DEF told
<1>6. /\ AssetStep(told, e, old.hash)
      /\ old.hash \in Hashes =>
           e.asset[old.hash].storage =
             IF Referenced(told, old.hash, Items \ {i}) \/ told.asset[old.hash].storage = "None"
               THEN told.asset[old.hash].storage ELSE "Trashed"
  BY <1>2, <1>5, TrashTrashes
<1> HIDE DEF e
<1>7. /\ e \in TableRows
      /\ e.occ[i].state = "Deleted"
      /\ \A j \in Items : e.occ[j].hash = d.occ[j].hash
      /\ \A j \in Items \ {i} : e.occ[j].state = d.occ[j].state
      /\ \A g \in Hashes \ {old.hash} : e.asset[g].storage = d.asset[g].storage
  BY <1>4, <1>5, <1>6 DEF AssetStep, SameState
<1>8. ASSUME old.hash \in Hashes
      PROVE  /\ Live(e, old.hash) <=> Referenced(e, old.hash, Items)
             /\ e.asset[old.hash].storage # "None"
  <2>1. told.asset[old.hash].storage = d.asset[old.hash].storage
    BY <1>4, <1>5, <1>8 DEF SameState
  <2>2. Referenced(told, old.hash, Items \ {i}) <=> Referenced(e, old.hash, Items)
    BY <1>4, <1>5, <1>7 DEF Referenced, SameState
  <2>3. Referenced(e, old.hash, Items) => Live(d, old.hash)
    BY <1>2, <1>7, <1>8 DEF Referenced, Sound
  <2>4. d.asset[old.hash].storage # "None"
    BY <1>2, <1>8 DEF Linked
  <2> QED  BY <1>6, <1>8, <2>1, <2>2, <2>3, <2>4 DEF Live
<1>9. Sound(e)
  <2> SUFFICES ASSUME NEW g \in Hashes, g # old.hash
               PROVE  Live(e, g) <=> Referenced(e, g, Items)
    BY <1>8 DEF Sound
  <2>1. Referenced(e, g, Items) <=> Referenced(d, g, Items)
    BY <1>7 DEF Referenced
  <2> QED  BY <1>2, <1>7, <2>1 DEF Sound, Live
<1>10. Linked(e)
  BY <1>2, <1>7, <1>8 DEF Linked
<1> QED  BY <1>1, <1>7, <1>9, <1>10 DEF TablesOK, OthersKept

LEMMA ManifestDeleteOK ==
  ASSUME NEW d, TablesOK(d), NEW i \in Items, NEW rev \in Revisions, NEW reliable
  PROVE  /\ TablesOK(ManifestDelete(d, i, rev, reliable))
         /\ OthersKept(d, ManifestDelete(d, i, rev, reliable), i)
<1>1. OthersKept(d, d, i)
  BY DEF OthersKept
<1> QED  BY <1>1, DeleteOccurrenceOK DEF ManifestDelete

-----------------------------------------------------------------------------
(* Steps *)

LEMMA InitOK == Init => IInv
<1> SUFFICES ASSUME Init PROVE IInv
  OBVIOUS
<1>1. (CHOOSE r \in Revisions : TRUE) \in Revisions /\ (CHOOSE z \in Sizes : TRUE) \in Sizes
  BY CatalogAssumption
<1>2. Tables \in TableRows
  BY <1>1 DEF Init, Tables, TableRows, OccurrenceRow, AssetRow, Told
<1>3. Sound(Tables) /\ Linked(Tables) /\ RemovedSourceHidden
  BY CatalogAssumption
  DEF Init, Tables, Sound, Live, Referenced, Linked, RemovedSourceHidden
<1>4. SourcesOK
  BY DEF Init, SourcesOK, SourceRow, Modes
<1> QED  BY <1>2, <1>3, <1>4 DEF IInv, TablesOK

LEMMA AppliedOK ==
  ASSUME IInv, NEW i \in Items, NEW result, TablesOK(result),
         OthersKept(Tables, result, i), Applied(i, result)
  PROVE  IInv'
<1>1. TablesOK(Tables)'
  <2>1. Tables' = result
    BY DEF Applied, Tables, TablesOK, TableRows
  <2> QED  BY <2>1 DEF TablesOK, Sound, Linked, Live, Referenced
<1>2. SourcesOK'
  <2>1. batch \in Batch /\ source' = source
    BY DEF Applied, IInv, SourcesOK
  <2>2. batch' \in Batch /\ batch'.source = batch.source
    BY <2>1 DEF Applied, Batch
  <2> QED  BY <2>1, <2>2 DEF Applied, IInv, SourcesOK
<1>3. RemovedSourceHidden'
  <2> SUFFICES ASSUME NEW j \in Items, source[SourceOf[j]].status \in {"None", "Removed"}
               PROVE  occ'[j].state # "Active"
    BY DEF Applied, RemovedSourceHidden
  <2>1. j # i
    BY DEF Applied, IInv, SourcesOK
  <2> QED  BY <2>1 DEF Applied, IInv, RemovedSourceHidden, OthersKept, Tables
<1> QED  BY <1>1, <1>2, <1>3 DEF IInv

LEMMA TablesKept ==
  ASSUME TablesOK(Tables), UNCHANGED <<occ, asset>>
  PROVE  TablesOK(Tables)'
BY DEF TablesOK, Tables, Sound, Linked, Live, Referenced

LEMMA BeginManifestOK ==
  ASSUME IInv, NEW s \in Sources, NEW reliable \in BOOLEAN, BeginManifest(s, reliable)
  PROVE  IInv'
<1>1. TablesOK(Tables)'
  BY TablesKept DEF IInv, BeginManifest
<1>2. SourcesOK'
  BY DEF IInv, SourcesOK, BeginManifest, Batch
<1>3. RemovedSourceHidden'
  BY DEF IInv, RemovedSourceHidden, BeginManifest
<1> QED  BY <1>1, <1>2, <1>3 DEF IInv

LEMMA FinishManifestOK ==
  ASSUME IInv, FinishManifest
  PROVE  IInv'
<1>1. Tables \in TableRows
  BY DEF IInv, TablesOK
<1>2. \A i \in Items : /\ occ'[i] \in OccurrenceRow
                      /\ occ'[i].state = occ[i].state /\ occ'[i].hash = occ[i].hash
  BY <1>1 DEF FinishManifest, Tables, TableRows, OccurrenceRow, Told
<1>3. asset' = asset /\ occ' = [i \in Items |-> occ'[i]]
  BY DEF FinishManifest
<1>4. [occ |-> occ', asset |-> asset'] \in TableRows
  BY <1>1, <1>2, <1>3 DEF Tables, TableRows
<1>5. SameState(Tables, [occ |-> occ', asset |-> asset'])
  BY <1>2, <1>3 DEF SameState, Tables
<1>6. TablesOK([occ |-> occ', asset |-> asset'])
  BY <1>4, <1>5, SameStateOK DEF IInv
<1>7. TablesOK(Tables)'
  BY <1>6 DEF TablesOK, Tables, Sound, Linked, Live, Referenced
<1>8. SourcesOK' /\ RemovedSourceHidden'
  BY <1>2 DEF IInv, SourcesOK, RemovedSourceHidden, FinishManifest
<1> QED  BY <1>7, <1>8 DEF IInv

LEMMA CreateSourceOK ==
  ASSUME IInv, NEW s \in Sources, NEW mode \in Modes, CreateSource(s, mode)
  PROVE  IInv'
<1>1. TablesOK(Tables)'
  BY TablesKept DEF IInv, CreateSource
<1>2. SourcesOK'
  BY DEF IInv, SourcesOK, CreateSource, SourceRow
<1>3. RemovedSourceHidden'
  BY CatalogAssumption DEF IInv, SourcesOK, RemovedSourceHidden, CreateSource, SourceRow
<1> QED  BY <1>1, <1>2, <1>3 DEF IInv

LEMMA UpdateSourceOK ==
  ASSUME IInv, NEW s \in Sources, NEW mode \in Modes, NEW status \in {"Active", "Paused"},
         UpdateSource(s, mode, status)
  PROVE  IInv'
<1>1. Tables \in TableRows /\ asset \in [Hashes -> AssetRow]
  BY DEF IInv, TablesOK, Tables, TableRows
<1> DEFINE wanted == {h \in Hashes :
             /\ source[s].mode = "Local" /\ mode = "Remote"
             /\ asset[h].storage = "LocalOnly"
             /\ Referenced(Tables, h, {i \in Items : SourceOf[i] = s})}
<1>2. asset' = [h \in Hashes |->
        IF h \in wanted THEN [asset[h] EXCEPT !.storage = "UploadPending", !.told = "Upsert"]
                        ELSE asset[h]]
  BY DEF UpdateSource
<1>3. \A h \in Hashes :
        /\ asset'[h] \in AssetRow
        /\ asset'[h].storage = IF h \in wanted THEN "UploadPending" ELSE asset[h].storage
        /\ h \in wanted => asset[h].storage = "LocalOnly"
  BY <1>1, <1>2 DEF AssetRow, Told
<1> HIDE DEF wanted
<1>4. occ' = occ /\ asset' \in [Hashes -> AssetRow]
  BY <1>2, <1>3 DEF UpdateSource
<1>5. (Tables \in TableRows)'
  BY <1>1, <1>4 DEF Tables, TableRows
<1>6. Sound(Tables)'
  <2> SUFFICES ASSUME NEW h \in Hashes
               PROVE  asset'[h].storage \in {"LocalOnly", "UploadPending"}
                        <=> \E i \in Items : occ[i].state = "Active" /\ occ[i].hash = h
    BY <1>4 DEF Sound, Live, Referenced, Tables
  <2>1. asset[h].storage \in {"LocalOnly", "UploadPending"}
          <=> \E i \in Items : occ[i].state = "Active" /\ occ[i].hash = h
    BY DEF IInv, TablesOK, Sound, Live, Referenced, Tables
  <2> QED  BY <1>3, <2>1
<1>7. Linked(Tables)'
  BY <1>3, <1>4 DEF IInv, TablesOK, Linked, Tables
<1>8. SourcesOK'
  BY DEF IInv, SourcesOK, UpdateSource, SourceRow
<1>9. RemovedSourceHidden'
  BY CatalogAssumption DEF IInv, SourcesOK, RemovedSourceHidden, UpdateSource, SourceRow
<1> QED  BY <1>5, <1>6, <1>7, <1>8, <1>9 DEF IInv, TablesOK

LEMMA RemoveSourceOK ==
  ASSUME IInv, NEW s \in Sources, RemoveSource(s)
  PROVE  IInv'
<1> DEFINE own    == {i \in Items : SourceOf[i] = s}
           listed == {i \in own : occ[i].state = "Active"}
           lost   == {h \in Hashes :
             /\ asset[h].storage \notin {"None", "Trashed"}
             /\ Referenced(Tables, h, own)
             /\ ~Referenced(Tables, h, Items \ own)}
           Shown(i, h) == occ[i].state = "Active" /\ occ[i].hash = h
<1>1. occ \in [Items -> OccurrenceRow] /\ asset \in [Hashes -> AssetRow]
  BY DEF IInv, TablesOK, Tables, TableRows
<1>2. /\ occ' = [i \in Items |->
           IF i \in listed THEN [occ[i] EXCEPT !.state = "Deleted", !.told = "Delete"]
                           ELSE occ[i]]
      /\ asset' = [h \in Hashes |->
           IF h \in lost THEN [asset[h] EXCEPT !.storage = "Trashed", !.told = "Delete"]
                         ELSE asset[h]]
  BY DEF RemoveSource
<1>3. \A i \in Items :
        /\ occ'[i] \in OccurrenceRow /\ occ'[i].hash = occ[i].hash
        /\ occ'[i].state = "Active" <=> occ[i].state = "Active" /\ i \notin own
  BY <1>1, <1>2 DEF OccurrenceRow, Told
<1>4. \A h \in Hashes :
        /\ asset'[h] \in AssetRow
        /\ asset'[h].storage = IF h \in lost THEN "Trashed" ELSE asset[h].storage
  BY <1>1, <1>2 DEF AssetRow, Told
<1>5. \A h \in Hashes :
        h \in lost <=> /\ asset[h].storage \in {"LocalOnly", "UploadPending"}
                       /\ \E i \in own : Shown(i, h)
                       /\ ~\E i \in Items \ own : Shown(i, h)
  BY <1>1 DEF AssetRow, Referenced, Tables
<1>6. (Tables \in TableRows)'
  BY <1>2, <1>3, <1>4 DEF Tables, TableRows
<1> HIDE DEF lost, listed
<1>7. Sound(Tables)'
  <2> SUFFICES ASSUME NEW h \in Hashes
               PROVE  asset'[h].storage \in {"LocalOnly", "UploadPending"}
                        <=> \E i \in Items : occ'[i].state = "Active" /\ occ'[i].hash = h
    BY DEF Sound, Live, Referenced, Tables
  <2>1. asset[h].storage \in {"LocalOnly", "UploadPending"} <=> \E i \in Items : Shown(i, h)
    BY DEF IInv, TablesOK, Sound, Live, Referenced, Tables
  <2>2. (\E i \in Items : occ'[i].state = "Active" /\ occ'[i].hash = h)
          <=> \E i \in Items \ own : Shown(i, h)
    BY <1>3
  <2> QED  BY <1>4, <1>5, <2>1, <2>2
<1>8. Linked(Tables)'
  BY <1>3, <1>4 DEF IInv, TablesOK, Linked, Tables
<1>9. SourcesOK'
  BY DEF IInv, SourcesOK, RemoveSource, SourceRow
<1>10. RemovedSourceHidden'
  <2> SUFFICES ASSUME NEW i \in Items, source'[SourceOf[i]].status \in {"None", "Removed"}
               PROVE  occ'[i].state # "Active"
    BY DEF RemovedSourceHidden
  <2>1. CASE SourceOf[i] = s
    BY <1>3, <2>1
  <2>2. CASE SourceOf[i] # s
    <3>1. source'[SourceOf[i]] = source[SourceOf[i]]
      BY <2>2, CatalogAssumption DEF RemoveSource, IInv, SourcesOK
    <3> QED  BY <1>3, <3>1 DEF IInv, RemovedSourceHidden
  <2> QED  BY <2>1, <2>2
<1> QED  BY <1>6, <1>7, <1>8, <1>9, <1>10 DEF IInv, TablesOK

-----------------------------------------------------------------------------
(* Theorems *)

LEMMA InductiveStep == IInv /\ [Next]_vars => IInv'
<1> SUFFICES ASSUME IInv, [Next]_vars PROVE IInv'
  OBVIOUS
<1>1. ASSUME NEW s \in Sources, NEW reliable \in BOOLEAN, BeginManifest(s, reliable)
      PROVE  IInv'
  BY <1>1, BeginManifestOK
<1>2. ASSUME NEW i \in Items, NEW rev \in Revisions, ApplyPending(i, rev)
      PROVE  IInv'
  BY <1>2, PendingUpsertOK, AppliedOK DEF ApplyPending, IInv
<1>3. ASSUME NEW i \in Items, NEW rev \in Revisions, ApplyDelete(i, rev)
      PROVE  IInv'
  BY <1>3, ManifestDeleteOK, AppliedOK DEF ApplyDelete, IInv
<1>4. ASSUME NEW i \in Items, NEW rev \in Revisions, NEW h \in Hashes,
             NEW size \in Sizes, ApplyHashed(i, rev, h, size)
      PROVE  IInv'
  BY <1>4, HashedUpsertOK, AppliedOK DEF ApplyHashed, IInv
<1>5. CASE FinishManifest
  BY <1>5, FinishManifestOK
<1>6. ASSUME NEW s \in Sources, NEW mode \in Modes, CreateSource(s, mode)
      PROVE  IInv'
  BY <1>6, CreateSourceOK
<1>7. ASSUME NEW s \in Sources, NEW mode \in Modes, NEW status \in {"Active", "Paused"},
             UpdateSource(s, mode, status)
      PROVE  IInv'
  BY <1>7, UpdateSourceOK
<1>8. ASSUME NEW s \in Sources, RemoveSource(s)
      PROVE  IInv'
  BY <1>8, RemoveSourceOK
<1>9. CASE UNCHANGED vars
  <2>1. TablesOK(Tables)'
    BY <1>9, TablesKept DEF vars, IInv
  <2> QED  BY <1>9, <2>1 DEF vars, IInv, SourcesOK, RemovedSourceHidden
<1> QED  BY <1>1, <1>2, <1>3, <1>4, <1>5, <1>6, <1>7, <1>8, <1>9 DEF Next

\* The sound tables, the sources and the manifest under way are an inductive
\* invariant of the catalogue.
THEOREM Inductive == Spec => []IInv
BY InitOK, InductiveStep, PTL DEF Spec

\* Every reachable state of the catalogue is well typed.
THEOREM TypeCorrect == Spec => []TypeOK
<1>1. IInv => TypeOK
  BY DEF IInv, TablesOK, TableRows, Tables, SourcesOK, TypeOK
<1> QED  BY Inductive, <1>1, PTL

\* An asset is out of the trash exactly while an active occurrence of some
\* source refers to it (_trash_if_unreferenced, _restore_asset).
THEOREM AssetsFollowReferences == Spec => []ActiveIffReferenced
<1>1. IInv => ActiveIffReferenced
  BY DEF IInv, TablesOK, Sound, Live, Tables, ActiveIffReferenced
<1> QED  BY Inductive, <1>1, PTL

\* No occurrence of a source that is not there, or not any more, is active
\* (remove_source, and SourceRepository.require before a manifest).
THEOREM RemovedSourcesHidden == Spec => []RemovedSourceHidden
<1>1. IInv => RemovedSourceHidden
  BY DEF IInv
<1> QED  BY Inductive, <1>1, PTL
-----------------------------------------------------------------------------
(* The feed.  FeedCurrent speaks of finished manifests only; what holds    *)
(* while one is under way is that only the items it has created are untold *)
(* and that these are shown, so that the "Upsert" they get is right.       *)

OccCurrent(row) ==
  /\ row.state = "None" => row.told = "None"
  /\ row.state = "Active" => row.told = "Upsert"
  /\ row.state = "Deleted" => row.told = "Delete"

AssetCurrent(row) ==
  /\ row.storage = "None" => row.told = "None"
  /\ row.storage \in {"LocalOnly", "UploadPending"} => row.told = "Upsert"
  /\ row.storage = "Trashed" => row.told = "Delete"

AssetsCurrent(d) == \A h \in Hashes : AssetCurrent(d.asset[h])

Created == IF batch = NoBatch THEN {} ELSE batch.created

FeedInv ==
  /\ IInv
  /\ AssetsCurrent(Tables)
  /\ \A i \in Items : IF i \in Created THEN occ[i].state = "Active" ELSE OccCurrent(occ[i])
  /\ batch # NoBatch => batch.created \subseteq batch.seen

\* What an entry for item i may do to the tables it finds current.
EntryTold(d, e, i) ==
  /\ e \in TableRows
  /\ AssetsCurrent(e)
  /\ \A j \in Items \ {i} : e.occ[j] = d.occ[j]
  /\ IF d.occ[i].state = "None"
       THEN e.occ[i].state = "Active" \/ e.occ[i] = d.occ[i]
       ELSE OccCurrent(e.occ[i])

\* An asset that is stored and told of stays current if the change is of the
\* kind its new storage calls for.
LEMMA AssetToldCurrent ==
  ASSUME NEW d \in TableRows, AssetsCurrent(d), NEW h \in Hashes, NEW type \in Told,
         NEW new \in AssetRow, AssetCurrent([new EXCEPT !.told = type])
  PROVE  AssetsCurrent(TellAsset(SetAsset(d, h, new), h, type))
<1> DEFINE s == SetAsset(d, h, new)
           e == TellAsset(s, h, type)
<1>1. /\ s \in TableRows /\ s.asset[h].storage = new.storage
      /\ \A g \in Hashes \ {h} : s.asset[g] = d.asset[g]
  BY SetAssetSets
<1> HIDE DEF s
<1>2. e.asset = [s.asset EXCEPT ![h] = [s.asset[h] EXCEPT !.told = type]]
  BY <1>1 DEF TellAsset, TableRows
<1>3. s.asset[h] \in AssetRow
  BY <1>1 DEF TableRows
<1>4. e.asset[h].storage = new.storage /\ e.asset[h].told = type
  BY <1>1, <1>2, <1>3 DEF TableRows, AssetRow
<1>5. \A g \in Hashes \ {h} : e.asset[g] = d.asset[g]
  BY <1>1, <1>2 DEF TableRows
<1>6. [new EXCEPT !.told = type].storage = new.storage /\ [new EXCEPT !.told = type].told = type
  BY DEF AssetRow
<1> HIDE DEF e
<1>7. AssetCurrent(e.asset[h])
  BY <1>4, <1>6 DEF AssetCurrent
<1> QED  BY <1>5, <1>7 DEF AssetsCurrent, e, s

LEMMA TrashCurrent ==
  ASSUME NEW d \in TableRows, AssetsCurrent(d), NEW h \in Hashes \cup {NoHash}, NEW i \in Items
  PROVE  LET e == TrashIfUnreferenced(d, h, i)
         IN  e \in TableRows /\ e.occ = d.occ /\ AssetsCurrent(e)
<1>1. TrashIfUnreferenced(d, h, i) \in TableRows /\ TrashIfUnreferenced(d, h, i).occ = d.occ
  BY TrashTrashes DEF AssetStep
<1>2. CASE TrashIfUnreferenced(d, h, i) = d
  BY <1>1, <1>2
<1>3. CASE TrashIfUnreferenced(d, h, i) # d
  <2> DEFINE new == [d.asset[h] EXCEPT !.storage = "Trashed"]
  <2>1. /\ h \in Hashes
        /\ TrashIfUnreferenced(d, h, i) = TellAsset(SetAsset(d, h, new), h, "Delete")
    BY <1>3 DEF TrashIfUnreferenced
  <2>2. d.asset[h] \in AssetRow
    BY <2>1 DEF TableRows
  <2>3. /\ new \in AssetRow /\ "Delete" \in Told
        /\ AssetCurrent([new EXCEPT !.told = "Delete"])
    BY <2>2 DEF AssetRow, Told, AssetCurrent
  <2> HIDE DEF new
  <2> QED  BY <1>1, <2>1, <2>3, AssetToldCurrent
<1> QED  BY <1>2, <1>3

LEMMA RestoreCurrent ==
  ASSUME NEW d \in TableRows, AssetsCurrent(d), NEW h \in Hashes \cup {NoHash}, NEW mode
  PROVE  LET e == Restore(d, h, mode)
         IN  e \in TableRows /\ e.occ = d.occ /\ AssetsCurrent(e)
<1>1. Restore(d, h, mode) \in TableRows /\ Restore(d, h, mode).occ = d.occ
  BY RestoreRestores DEF AssetStep
<1>2. CASE Restore(d, h, mode) = d
  BY <1>1, <1>2
<1>3. CASE Restore(d, h, mode) # d
  <2> DEFINE new == [d.asset[h] EXCEPT !.storage = NewStorage(mode)]
  <2>1. /\ h \in Hashes
        /\ Restore(d, h, mode) = TellAsset(SetAsset(d, h, new), h, "Upsert")
    BY <1>3 DEF Restore
  <2>2. d.asset[h] \in AssetRow
    BY <2>1 DEF TableRows
  <2>3. NewStorage(mode) \in {"LocalOnly", "UploadPending"}
    BY NewStorageLive
  <2>4. /\ new \in AssetRow /\ "Upsert" \in Told
        /\ AssetCurrent([new EXCEPT !.told = "Upsert"])
    BY <2>2, <2>3 DEF AssetRow, Told, AssetCurrent
  <2> HIDE DEF new
  <2> QED  BY <1>1, <2>1, <2>4, AssetToldCurrent
<1> QED  BY <1>2, <1>3

LEMMA PreparedCurrent ==
  ASSUME NEW d \in TableRows, AssetsCurrent(d), NEW h \in Hashes, NEW size \in Sizes, NEW mode
  PROVE  LET e == PreparedAsset(d, h, size, mode)
         IN  e \in TableRows /\ e.occ = d.occ /\ AssetsCurrent(e)
<1> DEFINE row      == d.asset[h]
           created  == row.storage = "None"
           enriched == mode = "Remote" /\ row.storage = "LocalOnly"
           first    == [row EXCEPT !.storage = NewStorage(mode), !.size = size]
           remote   == [row EXCEPT !.storage = "UploadPending"]
           told(new) == TellAsset(SetAsset(d, h, new), h, "Upsert")
           before   == IF created THEN told(first) ELSE IF enriched THEN told(remote) ELSE d
<1>1. PreparedAsset(d, h, size, mode) = Restore(before, h, mode)
  BY DEF PreparedAsset
<1>2. row \in AssetRow /\ "Upsert" \in Told
  BY DEF TableRows, Told
<1>3. NewStorage(mode) \in {"LocalOnly", "UploadPending"}
  BY NewStorageLive
<1>4. /\ first \in AssetRow /\ AssetCurrent([first EXCEPT !.told = "Upsert"])
      /\ remote \in AssetRow /\ AssetCurrent([remote EXCEPT !.told = "Upsert"])
  BY <1>2, <1>3 DEF AssetRow, AssetCurrent, Told
<1> HIDE DEF first, remote
<1>5. ASSUME NEW new \in {first, remote}
      PROVE  told(new) \in TableRows /\ told(new).occ = d.occ /\ AssetsCurrent(told(new))
  <2>1. new \in AssetRow /\ AssetCurrent([new EXCEPT !.told = "Upsert"])
    BY <1>4
  <2>2. told(new) \in TableRows /\ told(new).occ = d.occ
    BY <1>2, <2>1, StorageTold DEF AssetStep
  <2>3. AssetsCurrent(told(new))
    BY <1>2, <2>1, AssetToldCurrent
  <2> QED  BY <2>2, <2>3
<1> HIDE DEF told
<1>6. before \in TableRows /\ before.occ = d.occ /\ AssetsCurrent(before)
  BY <1>5
<1> HIDE DEF before
<1> QED  BY <1>1, <1>6, RestoreCurrent

LEMMA SetOccCurrent ==
  ASSUME NEW d \in TableRows, AssetsCurrent(d), NEW i \in Items, NEW new \in OccurrenceRow
  PROVE  LET e == SetOcc(d, i, new)
         IN  /\ e \in TableRows /\ AssetsCurrent(e)
             /\ e.occ[i].state = new.state
             /\ \A j \in Items \ {i} : e.occ[j] = d.occ[j]
BY SetOccSets DEF AssetsCurrent

LEMMA TellOccCurrent ==
  ASSUME NEW d \in TableRows, AssetsCurrent(d), NEW i \in Items, NEW type \in Told
  PROVE  LET e == TellOcc(d, i, type)
         IN  /\ e \in TableRows /\ AssetsCurrent(e)
             /\ e.occ[i].state = d.occ[i].state /\ e.occ[i].told = type
             /\ \A j \in Items \ {i} : e.occ[j] = d.occ[j]
<1> DEFINE e == TellOcc(d, i, type)
<1>1. e \in TableRows /\ d.occ[i] \in OccurrenceRow
  BY TellOccTells DEF TableRows
<1>2. e.asset = d.asset /\ e.occ = [d.occ EXCEPT ![i] = [d.occ[i] EXCEPT !.told = type]]
  BY DEF TellOcc, TableRows
<1>3. /\ e.occ[i] = [d.occ[i] EXCEPT !.told = type]
      /\ \A j \in Items \ {i} : e.occ[j] = d.occ[j]
  BY <1>2 DEF TableRows
<1>4. /\ [d.occ[i] EXCEPT !.told = type].state = d.occ[i].state
      /\ [d.occ[i] EXCEPT !.told = type].told = type
  BY <1>1 DEF OccurrenceRow
<1> HIDE DEF e
<1>5. AssetsCurrent(e)
  BY <1>2 DEF AssetsCurrent
<1> QED  BY <1>1, <1>3, <1>4, <1>5 DEF e

\* Storing what a row already says changes nothing and leaves nothing to tell.
LEMMA StoreUnchanged ==
  ASSUME NEW d \in TableRows, NEW i \in Items
  PROVE  SetOcc(d, i, d.occ[i]) = d
<1>1. [d.occ[i] EXCEPT !.told = d.occ[i].told] = d.occ[i]
  BY DEF TableRows, OccurrenceRow
<1>2. Store(d.occ[i], d.occ[i]) = d.occ[i]
  BY <1>1 DEF Store
<1> QED  BY <1>2 DEF SetOcc, TableRows

\* An upsert either tells of the item, or has created it, or has left it as
\* it was.
LEMMA UpsertTold ==
  ASSUME NEW d \in TableRows, NEW i \in Items, OccCurrent(d.occ[i]),
         NEW l \in TableRows, AssetsCurrent(l),
         \A j \in Items \ {i} : l.occ[j] = d.occ[j],
         l.occ[i].state = "Active",
         NEW e, \/ e = TellOcc(l, i, "Upsert")
                \/ e = l /\ (d.occ[i].state = "None" \/ l.occ[i] = d.occ[i])
  PROVE  EntryTold(d, e, i)
<1>1. CASE e = TellOcc(l, i, "Upsert")
  <2>1. /\ e \in TableRows /\ AssetsCurrent(e)
        /\ e.occ[i].state = l.occ[i].state /\ e.occ[i].told = "Upsert"
        /\ \A j \in Items \ {i} : e.occ[j] = l.occ[j]
    <3>1. "Upsert" \in Told
      BY DEF Told
    <3> QED  BY <1>1, <3>1, TellOccCurrent
  <2> QED  BY <2>1 DEF EntryTold, OccCurrent
<1>2. CASE e = l /\ (d.occ[i].state = "None" \/ l.occ[i] = d.occ[i])
  BY <1>2 DEF EntryTold
<1> QED  BY <1>1, <1>2

LEMMA PendingUpsertTold ==
  ASSUME NEW d \in TableRows, AssetsCurrent(d), NEW i \in Items, OccCurrent(d.occ[i]),
         NEW rev \in Revisions, NEW mode
  PROVE  EntryTold(d, PendingUpsert(d, i, rev, mode), i)
<1> DEFINE old     == d.occ[i]
           revised == old.state = "None" \/ old.rev # rev
           changed == old.state # "None" /\ (revised \/ old.state # "Active")
           hash    == IF revised THEN NoHash ELSE old.hash
           new     == [old EXCEPT !.state = "Active", !.rev = rev, !.hash = hash]
           stored  == SetOcc(d, i, new)
           linked  == IF revised THEN TrashIfUnreferenced(stored, old.hash, i)
                                 ELSE Restore(stored, hash, mode)
           e       == PendingUpsert(d, i, rev, mode)
<1>1. e = IF changed THEN TellOcc(linked, i, "Upsert") ELSE linked
  BY DEF PendingUpsert
<1>2. old \in OccurrenceRow
  BY DEF TableRows
<1>3. /\ hash \in Hashes \cup {NoHash} /\ old.hash \in Hashes \cup {NoHash}
      /\ new \in OccurrenceRow /\ new.state = "Active"
  BY <1>2 DEF OccurrenceRow
<1>4. ~changed => old.state = "None" \/ new = old
  BY <1>2 DEF OccurrenceRow
<1>5. ~changed => old.state = "None" \/ stored = d
  BY <1>4, StoreUnchanged
<1> HIDE DEF new
<1>6. /\ stored \in TableRows /\ AssetsCurrent(stored)
      /\ stored.occ[i].state = "Active"
      /\ \A j \in Items \ {i} : stored.occ[j] = d.occ[j]
  BY <1>3, SetOccCurrent
<1> HIDE DEF stored, hash
<1>7. linked \in TableRows /\ linked.occ = stored.occ /\ AssetsCurrent(linked)
  BY <1>3, <1>6, TrashCurrent, RestoreCurrent
<1>8. ~changed => old.state = "None" \/ linked.occ[i] = d.occ[i]
  BY <1>5, <1>7
<1> HIDE DEF linked, changed, e
<1>9. EntryTold(d, e, i)
  BY <1>1, <1>6, <1>7, <1>8, UpsertTold
<1> QED  BY <1>9 DEF e

LEMMA HashedUpsertTold ==
  ASSUME NEW d \in TableRows, AssetsCurrent(d), NEW i \in Items, OccCurrent(d.occ[i]),
         NEW rev \in Revisions, NEW h \in Hashes, NEW size \in Sizes, NEW mode
  PROVE  EntryTold(d, HashedUpsert(d, i, rev, h, size, mode), i)
<1> DEFINE old       == d.occ[i]
           unchanged == old.state = "Active" /\ old.rev = rev /\ old.hash = h
           p         == PreparedAsset(d, h, size, mode)
           new       == [old EXCEPT !.state = "Active", !.rev = rev, !.hash = h]
           stored    == SetOcc(p, i, new)
           linked    == IF old.hash # h THEN TrashIfUnreferenced(stored, old.hash, i) ELSE stored
           e         == HashedUpsert(d, i, rev, h, size, mode)
<1>1. \/ e = d
      \/ e = linked /\ (old.state = "None" \/ unchanged)
      \/ e = TellOcc(linked, i, "Upsert")
  BY DEF HashedUpsert
<1>2. old \in OccurrenceRow /\ EntryTold(d, d, i)
  BY DEF TableRows, EntryTold
<1>3. /\ new \in OccurrenceRow /\ new.state = "Active"
      /\ old.hash \in Hashes \cup {NoHash}
      /\ unchanged => new = old
  BY <1>2 DEF OccurrenceRow
<1>4. p \in TableRows /\ p.occ = d.occ /\ AssetsCurrent(p)
  BY PreparedCurrent
<1> HIDE DEF p
<1>5. unchanged => stored = p
  BY <1>3, <1>4, StoreUnchanged
<1> HIDE DEF new
<1>6. /\ stored \in TableRows /\ AssetsCurrent(stored)
      /\ stored.occ[i].state = "Active"
      /\ \A j \in Items \ {i} : stored.occ[j] = d.occ[j]
  BY <1>3, <1>4, SetOccCurrent
<1> HIDE DEF stored
<1>7. linked \in TableRows /\ linked.occ = stored.occ /\ AssetsCurrent(linked)
  BY <1>3, <1>6, TrashCurrent
<1>8. unchanged => linked.occ[i] = d.occ[i]
  BY <1>4, <1>5, <1>7
<1> HIDE DEF linked, unchanged, e
<1>9. EntryTold(d, e, i)
  BY <1>1, <1>2, <1>6, <1>7, <1>8, UpsertTold
<1> QED  BY <1>9 DEF e

LEMMA ManifestDeleteTold ==
  ASSUME NEW d \in TableRows, AssetsCurrent(d), NEW i \in Items, OccCurrent(d.occ[i]),
         NEW rev \in Revisions, NEW reliable
  PROVE  EntryTold(d, ManifestDelete(d, i, rev, reliable), i)
<1> DEFINE old  == d.occ[i]
           new  == [old EXCEPT !.state = "Deleted", !.rev = rev]
           gone == SetOcc(d, i, new)
           told == TellOcc(gone, i, "Delete")
           e    == TrashIfUnreferenced(told, old.hash, i)
<1>1. \/ ManifestDelete(d, i, rev, reliable) = d
      \/ ManifestDelete(d, i, rev, reliable) = e /\ old.state = "Active"
  BY DEF ManifestDelete, DeleteOccurrence
<1>2. old \in OccurrenceRow /\ EntryTold(d, d, i)
  BY DEF TableRows, EntryTold
<1>3. /\ new \in OccurrenceRow /\ new.state = "Deleted"
      /\ old.hash \in Hashes \cup {NoHash}
  BY <1>2 DEF OccurrenceRow
<1> HIDE DEF new
<1>4. /\ gone \in TableRows /\ AssetsCurrent(gone)
      /\ gone.occ[i].state = "Deleted"
      /\ \A j \in Items \ {i} : gone.occ[j] = d.occ[j]
  BY <1>3, SetOccCurrent
<1> HIDE DEF gone
<1>5. /\ told \in TableRows /\ AssetsCurrent(told)
      /\ told.occ[i].state = "Deleted" /\ told.occ[i].told = "Delete"
      /\ \A j \in Items \ {i} : told.occ[j] = gone.occ[j]
  BY <1>4, TellOccCurrent DEF Told
<1> HIDE DEF told
<1>6. e \in TableRows /\ e.occ = told.occ /\ AssetsCurrent(e)
  BY <1>3, <1>5, TrashCurrent
<1> HIDE DEF e
<1>7. old.state = "Active" => EntryTold(d, e, i)
  BY <1>4, <1>5, <1>6 DEF EntryTold, OccCurrent
<1> QED  BY <1>1, <1>2, <1>7

LEMMA AppliedTold ==
  ASSUME FeedInv, IInv', NEW i \in Items, NEW result,
         i \notin Created => EntryTold(Tables, result, i), Applied(i, result)
  PROVE  FeedInv'
<1>1. /\ batch # NoBatch /\ batch \in Batch /\ i \notin batch.seen
      /\ batch.created \subseteq batch.seen /\ Created = batch.created
  BY DEF FeedInv, IInv, SourcesOK, Applied, Created
<1>2. i \notin Created /\ EntryTold(Tables, result, i)
  BY <1>1
<1>3. occ' = result.occ /\ asset' = result.asset
  BY DEF Applied
<1>4. AssetsCurrent(Tables)'
  BY <1>2, <1>3 DEF EntryTold, AssetsCurrent, Tables
<1> DEFINE adds == occ[i].state = "None" /\ result.occ[i].state # "None"
<1>5. /\ batch' \in Batch
      /\ batch'.seen = batch.seen \cup {i}
      /\ batch'.created = IF adds THEN batch.created \cup {i} ELSE batch.created
  BY <1>1 DEF Applied, Batch
<1>6. batch' # NoBatch
  BY <1>5, BatchAssumption
<1>7. Created' = batch'.created /\ batch'.created \subseteq batch'.seen
  BY <1>1, <1>5, <1>6 DEF Created
<1>8. ASSUME NEW j \in Items
      PROVE  IF j \in Created' THEN occ'[j].state = "Active" ELSE OccCurrent(occ'[j])
  <2>1. CASE j # i
    <3>1. occ'[j] = occ[j] /\ (j \in Created' <=> j \in Created)
      BY <1>1, <1>2, <1>3, <1>5, <1>7, <2>1 DEF EntryTold, Tables
    <3> QED  BY <3>1 DEF FeedInv
  <2>2. CASE j = i
    <3>1. IF occ[i].state = "None"
            THEN occ'[i].state = "Active" \/ occ'[i] = occ[i]
            ELSE OccCurrent(occ'[i])
      BY <1>2, <1>3 DEF EntryTold, Tables
    <3>2. i \in Created' <=> adds
      BY <1>1, <1>2, <1>5, <1>7
    <3>3. adds <=> occ[i].state = "None" /\ occ'[i].state # "None"
      BY <1>3
    <3>4. OccCurrent(occ[i])
      BY <1>2 DEF FeedInv
    <3> HIDE DEF adds
    <3> QED  BY <2>2, <3>1, <3>2, <3>3, <3>4
  <2> QED  BY <2>1, <2>2
<1>9. \A j \in Items : (IF j \in Created THEN occ[j].state = "Active" ELSE OccCurrent(occ[j]))'
  BY <1>8 DEF OccCurrent
<1> QED  BY <1>4, <1>7, <1>9 DEF FeedInv
LEMMA InitFeed == Init => FeedInv
<1> SUFFICES ASSUME Init PROVE FeedInv
  OBVIOUS
<1>1. IInv
  BY InitOK
<1>2. \A i \in Items : occ[i].state = "None" /\ occ[i].told = "None"
  BY DEF Init
<1>3. \A h \in Hashes : asset[h].storage = "None" /\ asset[h].told = "None"
  BY DEF Init
<1>4. batch = NoBatch
  BY DEF Init
<1> QED  BY <1>1, <1>2, <1>3, <1>4
         DEF FeedInv, AssetsCurrent, AssetCurrent, OccCurrent, Created, Tables

LEMMA FeedSame ==
  ASSUME FeedInv, IInv', UNCHANGED <<occ, asset>>,
         Created' = Created, batch' # NoBatch => batch'.created \subseteq batch'.seen
  PROVE  FeedInv'
BY DEF FeedInv, AssetsCurrent, AssetCurrent, OccCurrent, Tables

LEMMA BeginFeed ==
  ASSUME FeedInv, IInv', NEW s \in Sources, NEW reliable \in BOOLEAN,
         BeginManifest(s, reliable)
  PROVE  FeedInv'
<1>1. /\ batch = NoBatch /\ UNCHANGED <<occ, asset>>
      /\ batch'.created = {} /\ batch'.seen = {}
  BY DEF BeginManifest
<1>2. Created' = Created
  BY <1>1 DEF Created
<1> QED  BY <1>1, <1>2, FeedSame

\* The occurrences created are told of at the end, all as "Upsert".
LEMMA FinishFeed ==
  ASSUME FeedInv, IInv', FinishManifest
  PROVE  FeedInv'
<1>1. /\ batch # NoBatch /\ Created = batch.created
      /\ batch' = NoBatch /\ asset' = asset
      /\ occ' = [i \in Items |-> IF i \in batch.created THEN [occ[i] EXCEPT !.told = "Upsert"]
                                                        ELSE occ[i]]
  BY DEF FinishManifest, Created
<1>2. ASSUME NEW i \in Items
      PROVE  OccCurrent(occ'[i])
  <2>1. occ[i] \in OccurrenceRow
    BY DEF FeedInv, IInv, TablesOK, TableRows, Tables
  <2>2. CASE i \in batch.created
    <3>1. occ[i].state = "Active"
      BY <1>1, <2>2 DEF FeedInv
    <3>2. occ'[i] = [occ[i] EXCEPT !.told = "Upsert"]
      BY <1>1, <2>2
    <3>3. occ'[i].state = "Active" /\ occ'[i].told = "Upsert"
      BY <2>1, <3>1, <3>2 DEF OccurrenceRow
    <3> QED  BY <3>3 DEF OccCurrent
  <2>3. CASE i \notin batch.created
    <3>1. OccCurrent(occ[i]) /\ occ'[i] = occ[i]
      BY <1>1, <2>3 DEF FeedInv
    <3> QED  BY <3>1
  <2> QED  BY <2>2, <2>3
<1>3. \A i \in Items : OccCurrent(occ[i])'
  BY <1>2 DEF OccCurrent
<1>4. AssetsCurrent(Tables)'
  BY <1>1 DEF FeedInv, AssetsCurrent, AssetCurrent, Tables
<1>5. Created' = {}
  BY <1>1 DEF Created
<1> QED  BY <1>1, <1>3, <1>4, <1>5 DEF FeedInv

LEMMA UpdateSourceFeed ==
  ASSUME FeedInv, IInv', NEW s \in Sources, NEW mode \in Modes,
         NEW status \in {"Active", "Paused"}, UpdateSource(s, mode, status)
  PROVE  FeedInv'
<1> DEFINE wanted == {h \in Hashes :
             /\ source[s].mode = "Local" /\ mode = "Remote"
             /\ asset[h].storage = "LocalOnly"
             /\ Referenced(Tables, h, {i \in Items : SourceOf[i] = s})}
<1>1. asset' = [h \in Hashes |->
        IF h \in wanted THEN [asset[h] EXCEPT !.storage = "UploadPending", !.told = "Upsert"]
                        ELSE asset[h]]
  BY DEF UpdateSource
<1>2. UNCHANGED <<occ, batch>> /\ batch = NoBatch
  BY DEF UpdateSource
<1> HIDE DEF wanted
<1>3. ASSUME NEW h \in Hashes
      PROVE  AssetCurrent(asset'[h])
  <2>1. asset[h] \in AssetRow /\ AssetCurrent(asset[h])
    BY DEF FeedInv, IInv, TablesOK, TableRows, AssetsCurrent, Tables
  <2>2. CASE h \in wanted
    <3>1. asset'[h].storage = "UploadPending" /\ asset'[h].told = "Upsert"
      BY <1>1, <2>1, <2>2 DEF AssetRow
    <3> QED  BY <3>1 DEF AssetCurrent
  <2>3. CASE h \notin wanted
    BY <1>1, <2>1, <2>3
  <2> QED  BY <2>2, <2>3
<1>4. AssetsCurrent(Tables)'
  BY <1>3 DEF AssetsCurrent, AssetCurrent, Tables
<1> QED  BY <1>2, <1>4 DEF FeedInv, OccCurrent, Created

LEMMA RemoveSourceFeed ==
  ASSUME FeedInv, IInv', NEW s \in Sources, RemoveSource(s)
  PROVE  FeedInv'
<1> DEFINE own    == {i \in Items : SourceOf[i] = s}
           listed == {i \in own : occ[i].state = "Active"}
           lost   == {h \in Hashes :
             /\ asset[h].storage \notin {"None", "Trashed"}
             /\ Referenced(Tables, h, own)
             /\ ~Referenced(Tables, h, Items \ own)}
<1>1. /\ occ' = [i \in Items |->
           IF i \in listed THEN [occ[i] EXCEPT !.state = "Deleted", !.told = "Delete"]
                           ELSE occ[i]]
      /\ asset' = [h \in Hashes |->
           IF h \in lost THEN [asset[h] EXCEPT !.storage = "Trashed", !.told = "Delete"]
                         ELSE asset[h]]
  BY DEF RemoveSource
<1>2. UNCHANGED batch /\ batch = NoBatch
  BY DEF RemoveSource
<1> HIDE DEF listed, lost
<1>3. ASSUME NEW h \in Hashes
      PROVE  AssetCurrent(asset'[h])
  <2>1. asset[h] \in AssetRow /\ AssetCurrent(asset[h])
    BY DEF FeedInv, IInv, TablesOK, TableRows, AssetsCurrent, Tables
  <2>2. CASE h \in lost
    <3>1. asset'[h].storage = "Trashed" /\ asset'[h].told = "Delete"
      BY <1>1, <2>1, <2>2 DEF AssetRow
    <3> QED  BY <3>1 DEF AssetCurrent
  <2>3. CASE h \notin lost
    BY <1>1, <2>1, <2>3
  <2> QED  BY <2>2, <2>3
<1>4. ASSUME NEW i \in Items
      PROVE  OccCurrent(occ'[i])
  <2>1. occ[i] \in OccurrenceRow /\ OccCurrent(occ[i])
    BY <1>2 DEF FeedInv, IInv, TablesOK, TableRows, Tables, Created
  <2>2. CASE i \in listed
    <3>1. occ'[i].state = "Deleted" /\ occ'[i].told = "Delete"
      BY <1>1, <2>1, <2>2 DEF OccurrenceRow
    <3> QED  BY <3>1 DEF OccCurrent
  <2>3. CASE i \notin listed
    BY <1>1, <2>1, <2>3
  <2> QED  BY <2>2, <2>3
<1>5. AssetsCurrent(Tables)' /\ \A i \in Items : OccCurrent(occ[i])'
  BY <1>3, <1>4 DEF AssetsCurrent, AssetCurrent, OccCurrent, Tables
<1> QED  BY <1>2, <1>5 DEF FeedInv, Created

LEMMA FeedStep == FeedInv /\ IInv' /\ [Next]_vars => FeedInv'
<1> SUFFICES ASSUME FeedInv, IInv', [Next]_vars PROVE FeedInv'
  OBVIOUS
<1>0. Tables \in TableRows /\ AssetsCurrent(Tables) /\ Tables.occ = occ
  BY DEF FeedInv, IInv, TablesOK, Tables
<1>1. \A i \in Items : i \notin Created => OccCurrent(Tables.occ[i])
  BY <1>0 DEF FeedInv
<1>2. ASSUME NEW s \in Sources, NEW reliable \in BOOLEAN, BeginManifest(s, reliable)
      PROVE  FeedInv'
  BY <1>2, BeginFeed
<1>3. ASSUME NEW i \in Items, NEW rev \in Revisions, ApplyPending(i, rev)
      PROVE  FeedInv'
  BY <1>0, <1>1, <1>3, PendingUpsertTold, AppliedTold DEF ApplyPending
<1>4. ASSUME NEW i \in Items, NEW rev \in Revisions, ApplyDelete(i, rev)
      PROVE  FeedInv'
  BY <1>0, <1>1, <1>4, ManifestDeleteTold, AppliedTold DEF ApplyDelete
<1>5. ASSUME NEW i \in Items, NEW rev \in Revisions, NEW h \in Hashes,
             NEW size \in Sizes, ApplyHashed(i, rev, h, size)
      PROVE  FeedInv'
  BY <1>0, <1>1, <1>5, HashedUpsertTold, AppliedTold DEF ApplyHashed
<1>6. CASE FinishManifest
  BY <1>6, FinishFeed
<1>7. ASSUME NEW s \in Sources, NEW mode \in Modes, CreateSource(s, mode)
      PROVE  FeedInv'
  BY <1>7, FeedSame DEF CreateSource, FeedInv, Created
<1>8. ASSUME NEW s \in Sources, NEW mode \in Modes, NEW status \in {"Active", "Paused"},
             UpdateSource(s, mode, status)
      PROVE  FeedInv'
  BY <1>8, UpdateSourceFeed
<1>9. ASSUME NEW s \in Sources, RemoveSource(s)
      PROVE  FeedInv'
  BY <1>9, RemoveSourceFeed
<1>10. CASE UNCHANGED vars
  BY <1>10, FeedSame DEF vars, FeedInv, Created
<1> QED  BY <1>2, <1>3, <1>4, <1>5, <1>6, <1>7, <1>8, <1>9, <1>10 DEF Next

\* The feed, with what a manifest under way has still to tell, is an
\* inductive invariant of the catalogue.
THEOREM FeedInductive == Spec => []FeedInv
<1>1. []IInv /\ [][Next]_vars /\ FeedInv => []FeedInv
  BY FeedStep, PTL
<1> QED  BY InitFeed, Inductive, <1>1, PTL DEF Spec

LEMMA FeedIsCurrent == FeedInv => FeedCurrent
<1> SUFFICES ASSUME FeedInv, batch = NoBatch PROVE FeedCurrent
  BY DEF FeedCurrent
<1>1. ASSUME NEW i \in Items
      PROVE  occ[i].told = CASE occ[i].state = "None" -> "None"
                             [] occ[i].state = "Active" -> "Upsert"
                             [] occ[i].state = "Deleted" -> "Delete"
  <2>1. OccCurrent(occ[i]) /\ occ[i].state \in {"None", "Active", "Deleted"}
    BY DEF FeedInv, IInv, TablesOK, TableRows, Tables, OccurrenceRow, Created
  <2> QED  BY <2>1 DEF OccCurrent
<1>2. ASSUME NEW h \in Hashes
      PROVE  asset[h].told =
               CASE asset[h].storage = "None" -> "None"
                 [] asset[h].storage \in {"LocalOnly", "UploadPending"} -> "Upsert"
                 [] asset[h].storage = "Trashed" -> "Delete"
  <2>1. /\ AssetCurrent(asset[h])
        /\ asset[h].storage \in {"None", "LocalOnly", "UploadPending", "Trashed"}
    BY DEF FeedInv, IInv, TablesOK, TableRows, Tables, AssetsCurrent, AssetRow
  <2> QED  BY <2>1 DEF AssetCurrent
<1> QED  BY <1>1, <1>2 DEF FeedCurrent

\* Once a manifest is finished the feed has told of the last change of every
\* occurrence and asset, and of the right kind, whichever entries, restores,
\* trashings and removals made it (_record_change, submit_manifest).
THEOREM FeedAlwaysCurrent == Spec => []FeedCurrent
BY FeedInductive, FeedIsCurrent, PTL

-----------------------------------------------------------------------------
(* The merge of an import.  Rows of one content that declare different     *)
(* sizes are not what a scan produces (the hash is of the whole file), and *)
(* the merge does treat them unlike a manifest: it looks at the first row  *)
(* alone.  For rows that agree on the size of a content the merge keeps    *)
(* what the manifests keep.                                                *)

Agreeing(rows) ==
  \A m, n \in DOMAIN rows : rows[m].hash = rows[n].hash => rows[m].size = rows[n].size

MergeNext ==
  \/ Next
  \/ \E s \in Sources : \E rows \in Imports(s) : Agreeing(rows) /\ MergeImport(s, rows)

MergeSpec == Init /\ [][MergeNext]_vars

LEMMA LeastNumber ==
  ASSUME NEW T, T \subseteq Nat, T # {}
  PROVE  \E k \in T : \A y \in T : k <= y
<1> DEFINE R == {ss \in Nat \X Nat : ss[1] < ss[2]}
<1>1. OpToRel(<, Nat) = R
  BY DEF OpToRel
<1>2. IsWellFoundedOn(R, Nat)
  BY <1>1, NatLessThanWellFounded
<1>3. \A x, y \in Nat : x < y => <<x, y>> \in R
  OBVIOUS
<1> HIDE DEF R
<1>4. PICK k \in T : \A y \in T : ~(<<y, k>> \in R)
  BY <1>2, WFMin
<1>5. \A y \in T : ~(y < k)
  BY <1>3, <1>4
<1> QED  BY <1>5

LEMMA RowsTyped ==
  ASSUME NEW s \in Sources, NEW rows \in Imports(s)
  PROVE  /\ \A n \in DOMAIN rows : n \in Nat /\ rows[n] \in RowOf(s)
         /\ \A m, n \in DOMAIN rows : m < n => m \in 1..(n - 1)
<1>1. PICK k \in 0..MaxRows : rows \in [1..k -> RowOf(s)]
  BY DEF Imports, BoundedSeq, SeqOf
<1> QED  BY <1>1, RowsAssumption

\* Two rows that stay valid are of different items.
LEMMA OneRowOfItem ==
  ASSUME NEW s \in Sources, NEW rows \in Imports(s),
         NEW m \in Unrepeated(rows), NEW n \in Unrepeated(rows),
         rows[m].item = rows[n].item
  PROVE  m = n
<1>1. m \in DOMAIN rows /\ n \in DOMAIN rows /\ m \in Nat /\ n \in Nat
  BY RowsTyped DEF Unrepeated
<1>2. ~(m < n)
  BY <1>1, RowsTyped DEF Unrepeated
<1>3. ~(n < m)
  BY <1>1, RowsTyped DEF Unrepeated
<1> QED  BY <1>1, <1>2, <1>3

\* Every content has its canonical row, the same for all its rows.
LEMMA CanonicalRow ==
  ASSUME NEW s \in Sources, NEW rows \in Imports(s), NEW n \in Unrepeated(rows)
  PROVE  /\ Canonical(rows, n) \in Unrepeated(rows)
         /\ rows[Canonical(rows, n)].hash = rows[n].hash
         /\ \A k \in Unrepeated(rows) : rows[k].hash = rows[n].hash => Canonical(rows, n) <= k
<1> DEFINE T == {k \in Unrepeated(rows) : rows[k].hash = rows[n].hash}
<1>1. T \subseteq Nat /\ T # {}
  BY RowsTyped DEF Unrepeated
<1>2. PICK c \in T : \A k \in T : c <= k
  BY <1>1, LeastNumber
<1>3. /\ c \in Unrepeated(rows) /\ rows[c].hash = rows[n].hash
      /\ \A k \in Unrepeated(rows) : rows[k].hash = rows[n].hash => c <= k
  BY <1>2
<1> QED  BY <1>3 DEF Canonical

LEMMA CanonicalShared ==
  ASSUME NEW s \in Sources, NEW rows \in Imports(s),
         NEW m \in Unrepeated(rows), NEW n \in Unrepeated(rows),
         rows[m].hash = rows[n].hash
  PROVE  Canonical(rows, m) = Canonical(rows, n)
<1>1. Canonical(rows, m) <= Canonical(rows, n) /\ Canonical(rows, n) <= Canonical(rows, m)
  BY CanonicalRow
<1>2. Canonical(rows, m) \in Nat /\ Canonical(rows, n) \in Nat
  BY CanonicalRow, RowsTyped DEF Unrepeated
<1> QED  BY <1>1, <1>2

\* Rows that agree are valid or refused by content, and the canonical row
\* of a valid row is valid and its own canonical row.
LEMMA CanonicalValid ==
  ASSUME NEW s \in Sources, NEW rows \in Imports(s), Agreeing(rows), NEW d,
         NEW n \in ValidRows(d, rows)
  PROVE  /\ Canonical(rows, n) \in ValidRows(d, rows)
         /\ rows[Canonical(rows, n)].hash = rows[n].hash
         /\ Canonical(rows, Canonical(rows, n)) = Canonical(rows, n)
<1> DEFINE c == Canonical(rows, n)
<1>1. n \in Unrepeated(rows) /\ SizeKept(d, rows, n)
  BY DEF ValidRows
<1>2. c \in Unrepeated(rows) /\ rows[c].hash = rows[n].hash
  BY <1>1, CanonicalRow
<1>3. Canonical(rows, c) = c
  BY <1>1, <1>2, CanonicalShared
<1>4. rows[c].size = rows[n].size
  BY <1>1, <1>2 DEF Agreeing, Unrepeated
<1> HIDE DEF c
<1>5. SizeKept(d, rows, c)
  BY <1>1, <1>2, <1>3, <1>4 DEF SizeKept, Exists
<1> QED  BY <1>2, <1>3, <1>5 DEF ValidRows, c

\* A content is named by an import if some valid row is of it.
Named(d, rows, h) == \E n \in ValidRows(d, rows) : rows[n].hash = h

LEMMA AssetsAfterMerge ==
  ASSUME NEW s \in Sources, NEW rows \in Imports(s), Agreeing(rows),
         NEW d \in TableRows, NEW h \in Hashes
  PROVE  LET new == AssetsMerged(d, rows).asset[h] IN
         IF Named(d, rows, h) /\ d.asset[h].storage \in {"None", "Trashed"}
           THEN new \in AssetRow /\ new.storage = "LocalOnly" /\ new.told = "Upsert"
           ELSE new = d.asset[h]
<1> DEFINE canonical == {n \in ValidRows(d, rows) : Canonical(rows, n) = n}
           changed == {n \in canonical : d.asset[rows[n].hash].storage \in {"None", "Trashed"}}
           RowFor(g) == CHOOSE n \in changed : rows[n].hash = g
           new == AssetsMerged(d, rows).asset[h]
<1>1. new = IF \E n \in changed : rows[n].hash = h
              THEN [storage |-> "LocalOnly", size |-> rows[RowFor(h)].size, told |-> "Upsert"]
              ELSE d.asset[h]
  BY DEF AssetsMerged, TableRows
<1>2. (\E n \in changed : rows[n].hash = h)
        <=> Named(d, rows, h) /\ d.asset[h].storage \in {"None", "Trashed"}
  <2>1. ASSUME NEW n \in ValidRows(d, rows), rows[n].hash = h,
               d.asset[h].storage \in {"None", "Trashed"}
        PROVE  \E m \in changed : rows[m].hash = h
    <3>1. Canonical(rows, n) \in changed /\ rows[Canonical(rows, n)].hash = h
      BY <2>1, CanonicalValid
    <3> QED  BY <3>1
  <2> QED  BY <2>1 DEF Named
<1>3. ASSUME \E n \in changed : rows[n].hash = h
      PROVE  rows[RowFor(h)].size \in Sizes
  <2>1. RowFor(h) \in changed
    BY <1>3
  <2>2. RowFor(h) \in DOMAIN rows
    BY <2>1 DEF ValidRows, Unrepeated
  <2> QED  BY <2>2, RowsTyped DEF RowOf
<1> HIDE DEF changed, RowFor, new
<1> QED  BY <1>1, <1>2, <1>3 DEF AssetRow, Told, new

LEMMA OccurrencesAfterMerge ==
  ASSUME NEW s \in Sources, NEW rows \in Imports(s), NEW d \in TableRows, NEW i \in Items
  PROVE  LET new == OccurrencesMerged(d, rows)[i] IN
         /\ new \in OccurrenceRow
         /\ new = d.occ[i] \/ new.told = "Upsert"
         /\ \A n \in ValidRows(d, rows) : rows[n].item = i =>
              new.state = "Active" /\ new.hash = rows[n].hash
         /\ (\A n \in ValidRows(d, rows) : rows[n].item # i) => new = d.occ[i]
<1> DEFINE valid == ValidRows(d, rows)
           RowFor(j) == CHOOSE n \in valid : rows[n].item = j
           r == rows[RowFor(i)]
           same == d.occ[i].state = "Active" /\ d.occ[i].rev = r.rev /\ d.occ[i].hash = r.hash
           new == OccurrencesMerged(d, rows)[i]
<1>1. new = IF (\E n \in valid : rows[n].item = i) /\ ~same
              THEN [state |-> "Active", rev |-> r.rev, hash |-> r.hash, told |-> "Upsert"]
              ELSE d.occ[i]
  BY DEF OccurrencesMerged
<1>2. d.occ[i] \in OccurrenceRow
  BY DEF TableRows
<1>3. CASE \A n \in valid : rows[n].item # i
  BY <1>1, <1>2, <1>3
<1>4. CASE \E n \in valid : rows[n].item = i
  <2>1. RowFor(i) \in valid /\ rows[RowFor(i)].item = i
    BY <1>4
  <2>2. \A n \in valid : rows[n].item = i => rows[n] = r
    BY <2>1, OneRowOfItem DEF ValidRows
  <2>3. r \in RowOf(s)
    BY <2>1, RowsTyped DEF ValidRows, Unrepeated
  <2> HIDE DEF valid, r, new
  <2>4. r.rev \in Revisions /\ r.hash \in Hashes
    BY <2>3 DEF RowOf
  <2>5. new \in OccurrenceRow /\ new.state = "Active" /\ new.hash = r.hash
        /\ (new = d.occ[i] \/ new.told = "Upsert")
    <3>1. CASE same
      BY <1>1, <1>2, <3>1
    <3>2. CASE ~same
      <4>1. new = [state |-> "Active", rev |-> r.rev, hash |-> r.hash, told |-> "Upsert"]
        BY <1>1, <1>4, <3>2
      <4> QED  BY <2>4, <4>1 DEF OccurrenceRow, Told
    <3> QED  BY <3>1, <3>2
  <2>6. \A n \in valid : rows[n].item = i => new.state = "Active" /\ new.hash = rows[n].hash
    BY <2>2, <2>5
  <2> QED  BY <1>4, <2>5, <2>6 DEF valid, new
<1> QED  BY <1>3, <1>4

LEMMA MergedTables ==
  ASSUME NEW rows, NEW d \in TableRows
  PROVE  /\ Merged(d, rows).asset = AssetsMerged(d, rows).asset
         /\ Merged(d, rows).occ = OccurrencesMerged(d, rows)
         /\ AssetsMerged(d, rows).asset = [h \in Hashes |-> AssetsMerged(d, rows).asset[h]]
         /\ OccurrencesMerged(d, rows) = [i \in Items |-> OccurrencesMerged(d, rows)[i]]
BY DEF Merged, AssetsMerged, OccurrencesMerged, TableRows

LEMMA MergeImportOK ==
  ASSUME IInv, NEW s \in Sources, NEW rows \in Imports(s), Agreeing(rows),
         MergeImport(s, rows)
  PROVE  IInv'
<1> DEFINE valid == ValidRows(Tables, rows)
           named(h) == Named(Tables, rows, h)
<1>1. Tables \in TableRows /\ Tables.occ = occ /\ Tables.asset = asset
  BY DEF IInv, TablesOK, Tables
<1>2. /\ UNCHANGED <<source, batch>>
      /\ asset' = AssetsMerged(Tables, rows).asset /\ occ' = OccurrencesMerged(Tables, rows)
  BY <1>1, MergedTables DEF MergeImport
<1>3. ASSUME NEW h \in Hashes
      PROVE  /\ asset'[h] \in AssetRow
             /\ asset'[h].storage = IF named(h) /\ asset[h].storage \in {"None", "Trashed"}
                                      THEN "LocalOnly" ELSE asset[h].storage
  <2>1. asset[h] \in AssetRow
    BY <1>1 DEF TableRows
  <2>2. CASE named(h) /\ asset[h].storage \in {"None", "Trashed"}
    BY <1>1, <1>2, <2>2, AssetsAfterMerge
  <2>3. CASE ~(named(h) /\ asset[h].storage \in {"None", "Trashed"})
    BY <1>1, <1>2, <2>1, <2>3, AssetsAfterMerge
  <2> QED  BY <2>2, <2>3
<1>4. ASSUME NEW i \in Items
      PROVE  /\ occ'[i] \in OccurrenceRow
             /\ \A n \in valid : rows[n].item = i =>
                  occ'[i].state = "Active" /\ occ'[i].hash = rows[n].hash
             /\ (\A n \in valid : rows[n].item # i) => occ'[i] = occ[i]
  BY <1>1, <1>2, OccurrencesAfterMerge
<1>5. ASSUME NEW n \in valid
      PROVE  /\ rows[n].item \in Items /\ SourceOf[rows[n].item] = s /\ rows[n].hash \in Hashes
             /\ occ[rows[n].item].hash \in {NoHash, rows[n].hash}
  <2>1. n \in Unrepeated(rows) /\ n \in DOMAIN rows
    BY <1>5 DEF ValidRows, Unrepeated
  <2>2. rows[n] \in RowOf(s)
    BY <2>1, RowsTyped
  <2>3. occ[rows[n].item].hash \in {NoHash, rows[n].hash}
    BY <1>1, <2>1 DEF MergeImport, Relinks
  <2> QED  BY <2>2, <2>3 DEF RowOf
<1> HIDE DEF valid
<1>6. (Tables \in TableRows)'
  <2>1. asset' = [h \in Hashes |-> asset'[h]] /\ occ' = [i \in Items |-> occ'[i]]
    BY <1>1, <1>2, MergedTables
  <2>2. asset' \in [Hashes -> AssetRow]
    BY <1>3, <2>1
  <2>3. occ' \in [Items -> OccurrenceRow]
    BY <1>4, <2>1
  <2> QED  BY <2>2, <2>3 DEF TableRows, Tables
<1>7. Sound(Tables)'
  <2> DEFINE Shown(i, h) == occ[i].state = "Active" /\ occ[i].hash = h
             ShownNext(i, h) == occ'[i].state = "Active" /\ occ'[i].hash = h
  <2> SUFFICES ASSUME NEW h \in Hashes
               PROVE  asset'[h].storage \in {"LocalOnly", "UploadPending"}
                        <=> \E i \in Items : ShownNext(i, h)
    BY DEF Sound, Live, Referenced, Tables
  <2>1. asset[h].storage \in {"LocalOnly", "UploadPending"} <=> \E i \in Items : Shown(i, h)
    BY DEF IInv, TablesOK, Sound, Live, Referenced, Tables
  <2>2. asset'[h].storage \in {"LocalOnly", "UploadPending"}
          <=> named(h) \/ asset[h].storage \in {"LocalOnly", "UploadPending"}
    <3>1. asset[h].storage \in {"None", "LocalOnly", "UploadPending", "Trashed"}
      BY <1>1 DEF TableRows, AssetRow
    <3> HIDE DEF named
    <3> QED  BY <1>3, <3>1
  <2>3. ASSUME NEW i \in Items, ShownNext(i, h) PROVE named(h) \/ Shown(i, h)
    BY <1>4, <2>3 DEF Named, valid
  <2>4. ASSUME named(h) PROVE \E i \in Items : ShownNext(i, h)
    <3>1. PICK n \in valid : rows[n].hash = h
      BY <2>4 DEF Named, valid
    <3> QED  BY <1>4, <1>5, <3>1
  <2>5. ASSUME NEW i \in Items, Shown(i, h) PROVE ShownNext(i, h)
    <3>1. CASE \A n \in valid : rows[n].item # i
      BY <1>4, <2>5, <3>1
    <3>2. ASSUME NEW n \in valid, rows[n].item = i PROVE ShownNext(i, h)
      <4>1. h # NoHash
        BY CatalogAssumption
      <4> QED  BY <1>4, <1>5, <2>5, <3>2, <4>1
    <3> QED  BY <3>1, <3>2
  <2> HIDE DEF named, Shown, ShownNext
  <2> QED  BY <2>1, <2>2, <2>3, <2>4, <2>5
<1>8. Linked(Tables)'
  <2> SUFFICES ASSUME NEW i \in Items, occ'[i].hash \in Hashes
               PROVE  asset'[occ'[i].hash].storage # "None"
    BY DEF Linked, Tables
  <2>1. CASE \A n \in valid : rows[n].item # i
    <3>1. asset[occ'[i].hash].storage # "None"
      BY <1>1, <1>4, <2>1 DEF IInv, TablesOK, Linked
    <3> HIDE DEF named
    <3> QED  BY <1>3, <3>1
  <2>2. ASSUME NEW n \in valid, rows[n].item = i PROVE asset'[occ'[i].hash].storage # "None"
    <3>1. named(occ'[i].hash)
      BY <1>4, <2>2 DEF Named, valid
    <3> HIDE DEF named
    <3> QED  BY <1>3, <3>1
  <2> QED  BY <2>1, <2>2
<1>9. SourcesOK'
  BY <1>2 DEF IInv, SourcesOK
<1>10. RemovedSourceHidden'
  <2> SUFFICES ASSUME NEW i \in Items, source[SourceOf[i]].status \in {"None", "Removed"}
               PROVE  occ'[i].state # "Active"
    BY <1>2 DEF RemovedSourceHidden
  <2>1. source[s].status = "Active"
    BY DEF MergeImport
  <2>2. \A n \in valid : rows[n].item # i
    BY <1>5, <2>1
  <2> QED  BY <1>4, <2>2 DEF IInv, RemovedSourceHidden
<1> QED  BY <1>6, <1>7, <1>8, <1>9, <1>10 DEF IInv, TablesOK

LEMMA MergeImportFeed ==
  ASSUME FeedInv, IInv', NEW s \in Sources, NEW rows \in Imports(s), Agreeing(rows),
         MergeImport(s, rows)
  PROVE  FeedInv'
<1>1. Tables \in TableRows /\ Tables.occ = occ /\ Tables.asset = asset
  BY DEF FeedInv, IInv, TablesOK, Tables
<1>2. /\ batch = NoBatch /\ batch' = NoBatch
      /\ asset' = AssetsMerged(Tables, rows).asset /\ occ' = OccurrencesMerged(Tables, rows)
  BY <1>1, MergedTables DEF MergeImport
<1>3. ASSUME NEW h \in Hashes
      PROVE  AssetCurrent(asset'[h])
  <2>1. AssetCurrent(asset[h])
    BY <1>1 DEF FeedInv, AssetsCurrent
  <2>2. \/ asset'[h].storage = "LocalOnly" /\ asset'[h].told = "Upsert"
        \/ asset'[h] = asset[h]
    BY <1>1, <1>2, AssetsAfterMerge
  <2> QED  BY <2>1, <2>2 DEF AssetCurrent
<1>4. ASSUME NEW i \in Items
      PROVE  OccCurrent(occ'[i])
  <2>1. OccCurrent(occ[i])
    BY <1>2 DEF FeedInv, Created
  <2>2. CASE occ'[i] = occ[i]
    BY <2>1, <2>2
  <2>3. CASE occ'[i] # occ[i]
    <3>1. PICK n \in ValidRows(Tables, rows) : rows[n].item = i
      BY <1>1, <1>2, <2>3, OccurrencesAfterMerge
    <3>2. occ'[i].told = "Upsert" /\ occ'[i].state = "Active"
      BY <1>1, <1>2, <2>3, <3>1, OccurrencesAfterMerge
    <3> QED  BY <3>2 DEF OccCurrent
  <2> QED  BY <2>2, <2>3
<1>5. AssetsCurrent(Tables)' /\ \A i \in Items : OccCurrent(occ[i])'
  BY <1>3, <1>4 DEF AssetsCurrent, AssetCurrent, OccCurrent, Tables
<1> QED  BY <1>2, <1>5 DEF FeedInv, Created

LEMMA MergeStep == IInv /\ [MergeNext]_vars => IInv'
BY InductiveStep, MergeImportOK DEF MergeNext

LEMMA MergeFeedStep == FeedInv /\ IInv' /\ [MergeNext]_vars => FeedInv'
BY FeedStep, MergeImportFeed DEF MergeNext

\* With imports merged between manifests, whatever is pending, deleted or in
\* the trash when they are, the tables and the feed stay sound (the statements
\* of merge_import, repository.py).
THEOREM MergesInductive == MergeSpec => [](IInv /\ FeedInv)
<1>1. MergeSpec => []IInv
  BY InitOK, MergeStep, PTL DEF MergeSpec
<1>2. []IInv /\ [][MergeNext]_vars /\ FeedInv => []FeedInv
  BY MergeFeedStep, PTL
<1> QED  BY InitFeed, <1>1, <1>2, PTL DEF MergeSpec

\* A merge trashes nothing that is referred to and restores every content its
\* valid rows name.
THEOREM MergesFollowReferences == MergeSpec => []ActiveIffReferenced
<1>1. IInv => ActiveIffReferenced
  BY DEF IInv, TablesOK, Sound, Live, Tables, ActiveIffReferenced
<1> QED  BY MergesInductive, <1>1, PTL

\* A merge tells the feed of every row it changes, and of the right kind.
THEOREM MergesKeepFeed == MergeSpec => []FeedCurrent
BY MergesInductive, FeedIsCurrent, PTL

\* If a content has one size the catalogue with imports is that of the run:
\* none of its merges is left out by Agreeing.
THEOREM OneSizeAgrees == (\A y, z \in Sizes : y = z) => (BulkSpec => MergeSpec)
<1> SUFFICES ASSUME \A y, z \in Sizes : y = z PROVE BulkSpec => MergeSpec
  OBVIOUS
<1>1. ASSUME NEW s \in Sources, NEW rows \in Imports(s) PROVE Agreeing(rows)
  <2>1. \A n \in DOMAIN rows : rows[n].size \in Sizes
    BY RowsTyped DEF RowOf
  <2> QED  BY <2>1 DEF Agreeing
<1>2. [BulkNext]_vars => [MergeNext]_vars
  BY <1>1 DEF BulkNext, MergeNext
<1> QED  BY <1>2, PTL DEF BulkSpec, MergeSpec
-----------------------------------------------------------------------------
(* The merge against a manifest of the same rows.  What the entries lead   *)
(* to one after another is a recursive function; what it is after n of     *)
(* them follows by induction, as a least number that refutes it.           *)

\* What a function on 0..k takes from its definition by recursion.
LEMMA EntriesUnfold ==
  ASSUME NEW d, NEW rows, Len(rows) \in Nat
  PROVE  /\ AfterEntries(d, rows)[0] = d
         /\ \A n \in 1..Len(rows) :
              AfterEntries(d, rows)[n] = Entry(AfterEntries(d, rows)[n - 1], rows, n)
<1> DEFINE Rec(g, n) == IF n = 0 THEN d ELSE Entry(g[n - 1], rows, n)
           Upto(g, k) == g = [n \in 0..k |-> Rec(g, n)]
           bad == {k \in Nat : ~ \E g : Upto(g, k)}
<1>1. \E g : Upto(g, 0)
  <2> DEFINE g == [n \in 0..0 |-> d]
  <2>1. g = [n \in 0..0 |-> Rec(g, n)]
    OBVIOUS
  <2> QED  BY <2>1
<1>2. ASSUME NEW k \in Nat, NEW g, Upto(g, k) PROVE \E e : Upto(e, k + 1)
  <2> DEFINE e == [n \in 0..(k + 1) |-> IF n = k + 1 THEN Entry(g[k], rows, k + 1) ELSE g[n]]
  <2> HIDE DEF Rec
  <2>1. ASSUME NEW n \in 0..(k + 1) PROVE e[n] = Rec(e, n)
    <3>1. CASE n = k + 1
      BY <3>1 DEF Rec
    <3>2. CASE n # k + 1
      <4>1. n \in 0..k /\ e[n] = g[n] /\ g[n] = Rec(g, n)
        BY <1>2, <3>2
      <4>2. n # 0 => n - 1 \in 0..k /\ e[n - 1] = g[n - 1]
        BY <4>1
      <4> HIDE DEF e
      <4> QED  BY <4>1, <4>2 DEF Rec
    <3> QED  BY <3>1, <3>2
  <2>2. e = [n \in 0..(k + 1) |-> e[n]]
    OBVIOUS
  <2> HIDE DEF e
  <2>3. e = [n \in 0..(k + 1) |-> Rec(e, n)]
    BY <2>1, <2>2
  <2> QED  BY <2>3
<1> HIDE DEF Rec
<1>3. \A k \in Nat : \E g : Upto(g, k)
  <2> HIDE DEF Upto
  <2> SUFFICES ASSUME bad # {} PROVE FALSE
    OBVIOUS
  <2>1. PICK k \in bad : \A y \in bad : k <= y
    BY LeastNumber
  <2>2. k # 0 /\ k \in Nat
    BY <1>1, <2>1
  <2>3. k - 1 \in Nat /\ k - 1 \notin bad
    BY <2>1, <2>2
  <2>4. PICK g : Upto(g, k - 1)
    BY <2>3
  <2>5. \E e : Upto(e, (k - 1) + 1)
    BY <1>2, <2>3, <2>4
  <2> QED  BY <2>1, <2>2, <2>5
<1>4. Upto(AfterEntries(d, rows), Len(rows))
  <2>1. AfterEntries(d, rows) = CHOOSE g : Upto(g, Len(rows))
    BY DEF AfterEntries, Rec
  <2> HIDE DEF Upto
  <2> QED  BY <1>3, <2>1
<1>5. \A n \in 0..Len(rows) : AfterEntries(d, rows)[n] = Rec(AfterEntries(d, rows), n)
  BY <1>4
<1> QED  BY <1>5 DEF Rec
\* An asset is out of the catalogue or in the trash, so an entry brings it in.
Absentee(row) == row.storage \in {"None", "Trashed"}

Brought(row, size) ==
  [storage |-> "LocalOnly", size |-> IF row.storage = "None" THEN size ELSE row.size,
   told |-> "Upsert"]

LEMMA AssetWithTold ==
  ASSUME NEW row \in AssetRow, NEW type
  PROVE  [row EXCEPT !.told = type]
           = [storage |-> row.storage, size |-> row.size, told |-> type]
BY DEF AssetRow

LEMMA OccWithTold ==
  ASSUME NEW row \in OccurrenceRow, NEW type
  PROVE  [row EXCEPT !.told = type]
           = [state |-> row.state, rev |-> row.rev, hash |-> row.hash, told |-> type]
BY DEF OccurrenceRow

\* What is stored and then told of is told, changed or not.
LEMMA AssetToldTwice ==
  ASSUME NEW new \in AssetRow, NEW x, NEW type
  PROVE  [[new EXCEPT !.told = x] EXCEPT !.told = type] = [new EXCEPT !.told = type]
BY DEF AssetRow

LEMMA OccToldTwice ==
  ASSUME NEW new \in OccurrenceRow, NEW x, NEW type
  PROVE  [[new EXCEPT !.told = x] EXCEPT !.told = type] = [new EXCEPT !.told = type]
BY DEF OccurrenceRow

LEMMA AssetStoredTold ==
  ASSUME NEW row, NEW new \in AssetRow, NEW type
  PROVE  [Store(row, new) EXCEPT !.told = type] = [new EXCEPT !.told = type]
<1>1. CASE [new EXCEPT !.told = row.told] = row
  <2>1. Store(row, new) = [new EXCEPT !.told = row.told]
    BY <1>1 DEF Store
  <2> QED  BY <2>1, AssetToldTwice
<1>2. CASE [new EXCEPT !.told = row.told] # row
  <2>1. Store(row, new) = [new EXCEPT !.told = "Missing"]
    BY <1>2 DEF Store
  <2> QED  BY <2>1, AssetToldTwice
<1> QED  BY <1>1, <1>2

LEMMA OccStoredTold ==
  ASSUME NEW row, NEW new \in OccurrenceRow, NEW type
  PROVE  [Store(row, new) EXCEPT !.told = type] = [new EXCEPT !.told = type]
<1>1. CASE [new EXCEPT !.told = row.told] = row
  <2>1. Store(row, new) = [new EXCEPT !.told = row.told]
    BY <1>1 DEF Store
  <2> QED  BY <2>1, OccToldTwice
<1>2. CASE [new EXCEPT !.told = row.told] # row
  <2>1. Store(row, new) = [new EXCEPT !.told = "Missing"]
    BY <1>2 DEF Store
  <2> QED  BY <2>1, OccToldTwice
<1> QED  BY <1>1, <1>2

LEMMA ToldOf ==
  ASSUME NEW row \in AssetRow, NEW size \in Sizes
  PROVE  [Store(row, [row EXCEPT !.storage = "LocalOnly", !.size = size]) EXCEPT !.told = "Upsert"]
           = [storage |-> "LocalOnly", size |-> size, told |-> "Upsert"]
<1> DEFINE new == [row EXCEPT !.storage = "LocalOnly", !.size = size]
<1>1. new \in AssetRow /\ new.storage = "LocalOnly" /\ new.size = size
  BY DEF AssetRow
<1> HIDE DEF new
<1>2. [new EXCEPT !.told = "Upsert"] = [storage |-> "LocalOnly", size |-> size, told |-> "Upsert"]
  BY <1>1, AssetWithTold
<1>3. [Store(row, new) EXCEPT !.told = "Upsert"] = [new EXCEPT !.told = "Upsert"]
  BY <1>1, AssetStoredTold
<1> QED  BY <1>2, <1>3 DEF new

LEMMA ToldAgain ==
  ASSUME NEW row \in AssetRow
  PROVE  [Store(row, [row EXCEPT !.storage = "LocalOnly"]) EXCEPT !.told = "Upsert"]
           = [storage |-> "LocalOnly", size |-> row.size, told |-> "Upsert"]
<1> DEFINE new == [row EXCEPT !.storage = "LocalOnly"]
<1>1. new \in AssetRow /\ new.storage = "LocalOnly" /\ new.size = row.size
  BY DEF AssetRow
<1> HIDE DEF new
<1>2. [new EXCEPT !.told = "Upsert"] = [storage |-> "LocalOnly", size |-> row.size, told |-> "Upsert"]
  BY <1>1, AssetWithTold
<1>3. [Store(row, new) EXCEPT !.told = "Upsert"] = [new EXCEPT !.told = "Upsert"]
  BY <1>1, AssetStoredTold
<1> QED  BY <1>2, <1>3 DEF new

LEMMA TellAfterSet ==
  ASSUME NEW d \in TableRows, NEW h \in Hashes, NEW new, NEW type
  PROVE  TellAsset(SetAsset(d, h, new), h, type)
           = [occ |-> d.occ,
              asset |-> [d.asset EXCEPT ![h] = [Store(d.asset[h], new) EXCEPT !.told = type]]]
<1> DEFINE stored == Store(d.asset[h], new)
           s == [d.asset EXCEPT ![h] = stored]
<1>1. SetAsset(d, h, new) = [occ |-> d.occ, asset |-> s]
  BY DEF SetAsset, TableRows
<1>2. s[h] = stored
  BY DEF TableRows
<1> HIDE DEF stored
<1>3. [s EXCEPT ![h] = [stored EXCEPT !.told = type]]
        = [d.asset EXCEPT ![h] = [stored EXCEPT !.told = type]]
  BY DEF TableRows
<1> HIDE DEF s
<1>4. TellAsset([occ |-> d.occ, asset |-> s], h, type)
        = [occ |-> d.occ, asset |-> [s EXCEPT ![h] = [s[h] EXCEPT !.told = type]]]
  BY DEF TellAsset
<1> QED  BY <1>1, <1>2, <1>3, <1>4 DEF stored

\* What a hashed entry of a Local source makes of the asset.
LEMMA PreparedLocal ==
  ASSUME NEW d \in TableRows, NEW h \in Hashes, NEW size \in Sizes
  PROVE  PreparedAsset(d, h, size, "Local")
           = [occ |-> d.occ,
              asset |-> [d.asset EXCEPT ![h] =
                IF Absentee(d.asset[h]) THEN Brought(d.asset[h], size) ELSE d.asset[h]]]
<1> DEFINE row == d.asset[h]
<1>1. row \in AssetRow /\ h # NoHash
  BY CatalogAssumption DEF TableRows
<1>2. CASE row.storage = "None"
  <2> DEFINE new == [row EXCEPT !.storage = "LocalOnly", !.size = size]
             e == TellAsset(SetAsset(d, h, new), h, "Upsert")
  <2>1. PreparedAsset(d, h, size, "Local") = Restore(e, h, "Local")
    BY <1>2 DEF PreparedAsset, NewStorage
  <2>2. e = [occ |-> d.occ,
             asset |-> [d.asset EXCEPT ![h] = [Store(row, new) EXCEPT !.told = "Upsert"]]]
    BY TellAfterSet
  <2>3. [Store(row, new) EXCEPT !.told = "Upsert"] = Brought(row, size)
    BY <1>1, <1>2, ToldOf DEF Brought
  <2> HIDE DEF e, new
  <2>4. e.asset[h] = Brought(row, size)
    BY <2>2, <2>3 DEF TableRows
  <2>5. e.asset[h].storage # "Trashed"
    BY <2>4 DEF Brought
  <2>6. Restore(e, h, "Local") = e
    BY <2>5 DEF Restore
  <2> QED  BY <1>2, <2>1, <2>2, <2>3, <2>6 DEF Absentee
<1>3. CASE row.storage = "Trashed"
  <2> DEFINE new == [row EXCEPT !.storage = "LocalOnly"]
  <2>1. PreparedAsset(d, h, size, "Local") = Restore(d, h, "Local")
    BY <1>3 DEF PreparedAsset
  <2>2. Restore(d, h, "Local") = TellAsset(SetAsset(d, h, new), h, "Upsert")
    BY <1>1, <1>3 DEF Restore, NewStorage
  <2>3. TellAsset(SetAsset(d, h, new), h, "Upsert")
          = [occ |-> d.occ,
             asset |-> [d.asset EXCEPT ![h] = [Store(row, new) EXCEPT !.told = "Upsert"]]]
    BY TellAfterSet
  <2>4. [Store(row, new) EXCEPT !.told = "Upsert"] = Brought(row, size)
    BY <1>1, <1>3, ToldAgain DEF Brought
  <2> QED  BY <1>3, <2>1, <2>2, <2>3, <2>4 DEF Absentee
<1>4. CASE row.storage \notin {"None", "Trashed"}
  <2>1. PreparedAsset(d, h, size, "Local") = Restore(d, h, "Local")
    BY <1>4 DEF PreparedAsset
  <2>2. Restore(d, h, "Local") = d
    BY <1>4 DEF Restore
  <2>3. d = [occ |-> d.occ, asset |-> [d.asset EXCEPT ![h] = d.asset[h]]]
    BY DEF TableRows
  <2> QED  BY <1>4, <2>1, <2>2, <2>3 DEF Absentee
<1> QED  BY <1>2, <1>3, <1>4

\* What it makes of the occurrence.
ReportedRow(old, rev, h) ==
  IF old.state = "Active" /\ old.rev = rev /\ old.hash = h
    THEN old
    ELSE [state |-> "Active", rev |-> rev, hash |-> h,
          told |-> IF old.state = "None" THEN "Missing" ELSE "Upsert"]

LEMMA ReportedIsStored ==
  ASSUME NEW old \in OccurrenceRow, NEW rev \in Revisions, NEW h \in Hashes
  PROVE  LET new == [old EXCEPT !.state = "Active", !.rev = rev, !.hash = h]
             unchanged == old.state = "Active" /\ old.rev = rev /\ old.hash = h
         IN
         /\ unchanged => Store(old, new) = ReportedRow(old, rev, h)
         /\ old.state = "None" => Store(old, new) = ReportedRow(old, rev, h)
         /\ ~unchanged /\ old.state # "None" =>
              [Store(old, new) EXCEPT !.told = "Upsert"] = ReportedRow(old, rev, h)
<1> DEFINE new == [old EXCEPT !.state = "Active", !.rev = rev, !.hash = h]
           unchanged == old.state = "Active" /\ old.rev = rev /\ old.hash = h
<1>1. new \in OccurrenceRow /\ new.state = "Active" /\ new.rev = rev /\ new.hash = h
  BY DEF OccurrenceRow
<1>2. \A type : [new EXCEPT !.told = type]
                  = [state |-> "Active", rev |-> rev, hash |-> h, told |-> type]
  <2> HIDE DEF new
  <2> QED  BY <1>1, OccWithTold
<1>3. unchanged => [new EXCEPT !.told = old.told] = old
  BY DEF OccurrenceRow
<1>4. [new EXCEPT !.told = old.told].state = "Active"
  BY <1>2
<1> HIDE DEF new
<1>5. unchanged => Store(old, new) = old
  BY <1>3 DEF Store
<1>6. old.state = "None" => Store(old, new) = [new EXCEPT !.told = "Missing"]
  BY <1>4 DEF Store
<1>7. [Store(old, new) EXCEPT !.told = "Upsert"] = [new EXCEPT !.told = "Upsert"]
  BY <1>1, OccStoredTold
<1>8. unchanged => Store(old, new) = ReportedRow(old, rev, h)
  BY <1>5 DEF ReportedRow
<1>9. old.state = "None" => Store(old, new) = ReportedRow(old, rev, h)
  BY <1>2, <1>6 DEF ReportedRow
<1>10. ~unchanged /\ old.state # "None" =>
         [Store(old, new) EXCEPT !.told = "Upsert"] = ReportedRow(old, rev, h)
  BY <1>2, <1>7 DEF ReportedRow
<1> QED  BY <1>8, <1>9, <1>10 DEF new

\* An entry that fits the asset, of an item that had this content or none.
LEMMA HashedLocal ==
  ASSUME NEW d \in TableRows, NEW i \in Items, NEW rev \in Revisions, NEW h \in Hashes,
         NEW size \in Sizes, ~SizeMismatch(d, h, size), d.occ[i].hash \in {NoHash, h}
  PROVE  HashedUpsert(d, i, rev, h, size, "Local")
           = [occ |-> [d.occ EXCEPT ![i] = ReportedRow(d.occ[i], rev, h)],
              asset |-> [d.asset EXCEPT ![h] =
                IF Absentee(d.asset[h]) THEN Brought(d.asset[h], size) ELSE d.asset[h]]]
<1> DEFINE old == d.occ[i]
           prepared == PreparedAsset(d, h, size, "Local")
           new == [old EXCEPT !.state = "Active", !.rev = rev, !.hash = h]
           stored == SetOcc(prepared, i, new)
           linked == IF old.hash # h THEN TrashIfUnreferenced(stored, old.hash, i) ELSE stored
           unchanged == old.state = "Active" /\ old.rev = rev /\ old.hash = h
           assets == [d.asset EXCEPT ![h] =
                       IF Absentee(d.asset[h]) THEN Brought(d.asset[h], size) ELSE d.asset[h]]
<1>1. old \in OccurrenceRow
  BY DEF TableRows
<1>2. HashedUpsert(d, i, rev, h, size, "Local")
        = IF old.state = "None" \/ unchanged THEN linked ELSE TellOcc(linked, i, "Upsert")
  BY DEF HashedUpsert
<1>3. prepared = [occ |-> d.occ, asset |-> assets]
  BY PreparedLocal
<1> HIDE DEF prepared, assets
<1>4. stored = [occ |-> [d.occ EXCEPT ![i] = Store(old, new)], asset |-> assets]
  BY <1>3 DEF SetOcc
<1>5. linked = stored
  BY DEF TrashIfUnreferenced
<1> HIDE DEF new, stored, linked
<1>6. TellOcc(stored, i, "Upsert")
        = [occ |-> [d.occ EXCEPT ![i] = [Store(old, new) EXCEPT !.told = "Upsert"]], asset |-> assets]
  BY <1>4 DEF TellOcc, TableRows
<1>7. /\ unchanged => Store(old, new) = ReportedRow(old, rev, h)
      /\ old.state = "None" => Store(old, new) = ReportedRow(old, rev, h)
      /\ ~unchanged /\ old.state # "None" =>
           [Store(old, new) EXCEPT !.told = "Upsert"] = ReportedRow(old, rev, h)
  BY <1>1, ReportedIsStored DEF new
<1>8. CASE old.state = "None" \/ unchanged
  BY <1>2, <1>4, <1>5, <1>7, <1>8 DEF assets
<1>9. CASE ~(old.state = "None" \/ unchanged)
  BY <1>2, <1>5, <1>6, <1>7, <1>9 DEF assets
<1> QED  BY <1>8, <1>9
AssetFor(row, size) == IF Absentee(row) THEN Brought(row, size) ELSE row

LEMMA AssetForTyped ==
  ASSUME NEW row \in AssetRow, NEW size \in Sizes
  PROVE  /\ AssetFor(row, size) \in AssetRow
         /\ ~Absentee(AssetFor(row, size))
         /\ AssetFor(row, size).size = IF row.storage = "None" THEN size ELSE row.size
         /\ \A other : AssetFor(AssetFor(row, size), other) = AssetFor(row, size)
<1>1. Brought(row, size) \in AssetRow /\ ~Absentee(Brought(row, size))
  BY DEF Brought, AssetRow, Told, Absentee
<1>2. Absentee(row) => AssetFor(row, size) = Brought(row, size)
  BY DEF AssetFor
<1>3. ~Absentee(row) => AssetFor(row, size) = row /\ row.storage # "None"
  BY DEF AssetFor, Absentee
<1>4. AssetFor(row, size) \in AssetRow /\ ~Absentee(AssetFor(row, size))
  BY <1>1, <1>2, <1>3
<1>5. Brought(row, size).size = IF row.storage = "None" THEN size ELSE row.size
  BY DEF Brought
<1>6. AssetFor(row, size).size = IF row.storage = "None" THEN size ELSE row.size
  BY <1>2, <1>3, <1>5
<1>7. \A other : AssetFor(AssetFor(row, size), other) = AssetFor(row, size)
  BY <1>4 DEF AssetFor
<1> QED  BY <1>4, <1>6, <1>7

LEMMA ReportedRowTyped ==
  ASSUME NEW old \in OccurrenceRow, NEW rev \in Revisions, NEW h \in Hashes
  PROVE  ReportedRow(old, rev, h) \in OccurrenceRow
BY DEF ReportedRow, OccurrenceRow, Told

\* The tables after the first n rows: each valid row has been reported and
\* has brought in its content, and nothing else has changed.
Done(d, rows, n) == {m \in ValidRows(d, rows) : m <= n}

After(d, rows, n, e) ==
  /\ e \in TableRows
  /\ \A m \in Done(d, rows, n) :
       /\ e.occ[rows[m].item] = ReportedRow(d.occ[rows[m].item], rows[m].rev, rows[m].hash)
       /\ e.asset[rows[m].hash] = AssetFor(d.asset[rows[m].hash], rows[m].size)
  /\ \A i \in Items : (\A m \in Done(d, rows, n) : rows[m].item # i) => e.occ[i] = d.occ[i]
  /\ \A h \in Hashes : (\A m \in Done(d, rows, n) : rows[m].hash # h) => e.asset[h] = d.asset[h]

\* Of a content that does not exist the canonical row is valid, and the size
\* of a valid row is its own.
LEMMA ValidSizes ==
  ASSUME NEW s \in Sources, NEW rows \in Imports(s), NEW d \in TableRows,
         NEW n \in Unrepeated(rows)
  PROVE  /\ ~Exists(d, rows[n].hash) =>
              /\ Canonical(rows, n) \in ValidRows(d, rows)
              /\ n \in ValidRows(d, rows) <=> rows[n].size = rows[Canonical(rows, n)].size
         /\ Exists(d, rows[n].hash) =>
              (n \in ValidRows(d, rows) <=> rows[n].size = d.asset[rows[n].hash].size)
<1> DEFINE c == Canonical(rows, n)
<1>1. c \in Unrepeated(rows) /\ rows[c].hash = rows[n].hash
  BY CanonicalRow
<1>2. Canonical(rows, c) = c
  BY <1>1, CanonicalShared
<1> HIDE DEF c
<1>3. ~Exists(d, rows[n].hash) => c \in ValidRows(d, rows)
  BY <1>1, <1>2 DEF ValidRows, SizeKept
<1> QED  BY <1>3 DEF c, ValidRows, SizeKept

\* The manifest refuses for its size what the merge refuses.
LEMMA SizesRefused ==
  ASSUME NEW s \in Sources, NEW rows \in Imports(s), NEW d \in TableRows,
         NEW n \in Nat, n + 1 \in Unrepeated(rows), NEW e, After(d, rows, n, e)
  PROVE  SizeMismatch(e, rows[n + 1].hash, rows[n + 1].size) <=> n + 1 \notin ValidRows(d, rows)
<1> DEFINE h == rows[n + 1].hash
           size == rows[n + 1].size
           c == Canonical(rows, n + 1)
<1>1. h \in Hashes /\ size \in Sizes
  BY RowsTyped DEF Unrepeated, RowOf
<1>2. d.asset[h] \in AssetRow
  BY <1>1 DEF TableRows
<1>3. ASSUME NEW m \in Done(d, rows, n), rows[m].hash = h
      PROVE  SizeMismatch(e, h, size) <=> n + 1 \notin ValidRows(d, rows)
  <2>1. m \in ValidRows(d, rows) /\ m \in Unrepeated(rows) /\ rows[m].size \in Sizes
    BY RowsTyped DEF Done, ValidRows, Unrepeated, RowOf
  <2>2. e.asset[h] = AssetFor(d.asset[h], rows[m].size)
    BY <1>3 DEF After
  <2>3. /\ ~Absentee(e.asset[h])
        /\ e.asset[h].size = IF d.asset[h].storage = "None" THEN rows[m].size ELSE d.asset[h].size
    BY <1>2, <2>1, <2>2, AssetForTyped
  <2>4. SizeMismatch(e, h, size)
          <=> size # IF Exists(d, h) THEN d.asset[h].size ELSE rows[m].size
    BY <2>3 DEF SizeMismatch, Absentee, Exists
  <2>5. Canonical(rows, m) = c
    BY <1>3, <2>1, CanonicalShared
  <2>6. ~Exists(d, h) => rows[m].size = rows[c].size
    BY <1>3, <2>1, <2>5, ValidSizes
  <2> HIDE DEF c
  <2>7. n + 1 \in ValidRows(d, rows)
          <=> size = IF Exists(d, h) THEN d.asset[h].size ELSE rows[c].size
    BY ValidSizes DEF c
  <2> QED  BY <2>4, <2>6, <2>7
<1>4. ASSUME \A m \in Done(d, rows, n) : rows[m].hash # h
      PROVE  SizeMismatch(e, h, size) <=> n + 1 \notin ValidRows(d, rows)
  <2>1. e.asset[h] = d.asset[h]
    BY <1>1, <1>4 DEF After
  <2>2. CASE Exists(d, h)
    BY <2>1, <2>2, ValidSizes DEF SizeMismatch, Exists
  <2>3. CASE ~Exists(d, h)
    <3>1. c \in ValidRows(d, rows) /\ rows[c].hash = h /\ c <= n + 1
      BY <2>3, ValidSizes, CanonicalRow
    <3>2. c \in Nat
      BY <3>1, RowsTyped DEF ValidRows, Unrepeated
    <3>3. c = n + 1
      <4>1. ~(c <= n)
        BY <1>4, <3>1 DEF Done
      <4> QED  BY <3>1, <3>2, <4>1
    <3>4. ~SizeMismatch(e, h, size)
      BY <2>1, <2>3 DEF SizeMismatch, Exists
    <3> QED  BY <3>1, <3>3, <3>4
  <2> QED  BY <2>2, <2>3
<1> QED  BY <1>3, <1>4

LEMMA EntryApplied ==
  ASSUME NEW s \in Sources, NEW rows \in Imports(s), NEW d \in TableRows, ~Relinks(d, rows),
         NEW n \in Nat, n + 1 \in DOMAIN rows, NEW e, After(d, rows, n, e)
  PROVE  After(d, rows, n + 1, Entry(e, rows, n + 1))
<1> DEFINE r == rows[n + 1]
           f == Entry(e, rows, n + 1)
<1>1. r.item \in Items /\ r.rev \in Revisions /\ r.hash \in Hashes /\ r.size \in Sizes
  BY RowsTyped DEF RowOf
<1>2. ASSUME f = e, n + 1 \notin ValidRows(d, rows)
      PROVE  After(d, rows, n + 1, f)
  <2>1. \A m \in ValidRows(d, rows) : m \in Nat
    BY RowsTyped DEF ValidRows, Unrepeated
  <2>2. Done(d, rows, n + 1) = Done(d, rows, n)
    BY <1>2, <2>1 DEF Done
  <2> QED  BY <1>2, <2>2 DEF After
<1>3. CASE n + 1 \notin Unrepeated(rows)
  BY <1>2, <1>3 DEF Entry, ValidRows
<1>4. CASE n + 1 \in Unrepeated(rows) /\ n + 1 \notin ValidRows(d, rows)
  <2>1. SizeMismatch(e, r.hash, r.size)
    BY <1>4, SizesRefused
  <2>2. f = e
    BY <1>4, <2>1 DEF Entry, HashedUpsert
  <2> QED  BY <1>2, <1>4, <2>2
<1>5. CASE n + 1 \in ValidRows(d, rows)
  <2>1. n + 1 \in Unrepeated(rows)
    BY <1>5 DEF ValidRows
  <2>2. ~SizeMismatch(e, r.hash, r.size)
    BY <1>5, <2>1, SizesRefused
  <2>3. \A m \in Done(d, rows, n) : m \in Unrepeated(rows) /\ m \in Nat /\ m <= n /\ m # n + 1
    BY RowsTyped DEF Done, ValidRows, Unrepeated
  <2>4. \A m \in Done(d, rows, n) : rows[m].item # r.item
    BY <2>1, <2>3, OneRowOfItem
  <2>5. e \in TableRows /\ e.occ[r.item] = d.occ[r.item]
    BY <1>1, <2>4 DEF After
  <2>6. d.occ[r.item].hash \in {NoHash, r.hash}
    BY <2>1 DEF Relinks
  <2>7. f = [occ |-> [e.occ EXCEPT ![r.item] = ReportedRow(d.occ[r.item], r.rev, r.hash)],
             asset |-> [e.asset EXCEPT ![r.hash] = AssetFor(e.asset[r.hash], r.size)]]
    BY <1>1, <2>1, <2>2, <2>5, <2>6, HashedLocal DEF Entry, AssetFor
  <2>8. d.occ[r.item] \in OccurrenceRow /\ d.asset[r.hash] \in AssetRow /\ e.asset[r.hash] \in AssetRow
    BY <1>1, <2>5 DEF TableRows
  <2>9. AssetFor(e.asset[r.hash], r.size) = AssetFor(d.asset[r.hash], r.size)
    <3>1. CASE \A m \in Done(d, rows, n) : rows[m].hash # r.hash
      BY <1>1, <3>1 DEF After
    <3>2. ASSUME NEW m \in Done(d, rows, n), rows[m].hash = r.hash
          PROVE  AssetFor(e.asset[r.hash], r.size) = AssetFor(d.asset[r.hash], r.size)
      <4>1. m \in ValidRows(d, rows) /\ rows[m].size \in Sizes
        BY <2>3, RowsTyped DEF Done, Unrepeated, RowOf
      <4>2. e.asset[r.hash] = AssetFor(d.asset[r.hash], rows[m].size)
        BY <3>2 DEF After
      <4>3. AssetFor(e.asset[r.hash], r.size) = AssetFor(d.asset[r.hash], rows[m].size)
        BY <2>8, <4>1, <4>2, AssetForTyped
      <4>4. Canonical(rows, m) = Canonical(rows, n + 1)
        BY <2>1, <2>3, <3>2, CanonicalShared
      <4>5. ~Exists(d, r.hash) => rows[m].size = r.size
        BY <1>5, <2>1, <2>3, <3>2, <4>1, <4>4, ValidSizes
      <4>6. AssetFor(d.asset[r.hash], rows[m].size) = AssetFor(d.asset[r.hash], r.size)
        BY <4>5 DEF AssetFor, Brought, Exists
      <4> QED  BY <4>3, <4>6
    <3> QED  BY <3>1, <3>2
  <2> DEFINE a == AssetFor(d.asset[r.hash], r.size)
             o == ReportedRow(d.occ[r.item], r.rev, r.hash)
  <2>10. a \in AssetRow /\ o \in OccurrenceRow
    BY <1>1, <2>8, AssetForTyped, ReportedRowTyped
  <2>11. f = [occ |-> [e.occ EXCEPT ![r.item] = o], asset |-> [e.asset EXCEPT ![r.hash] = a]]
    BY <2>7, <2>9
  <2>12. Done(d, rows, n + 1) = Done(d, rows, n) \cup {n + 1}
    <3>1. \A m \in ValidRows(d, rows) : m \in Nat
      BY RowsTyped DEF ValidRows, Unrepeated
    <3> QED  BY <1>5, <3>1 DEF Done
  <2>13. ASSUME NEW m \in Done(d, rows, n), rows[m].hash = r.hash
         PROVE  AssetFor(d.asset[r.hash], rows[m].size) = a
    <3>1. m \in ValidRows(d, rows) /\ rows[m].size \in Sizes
      BY <2>3, RowsTyped DEF Done, Unrepeated, RowOf
    <3>2. Canonical(rows, m) = Canonical(rows, n + 1)
      BY <2>1, <2>3, <2>13, CanonicalShared
    <3>3. ~Exists(d, r.hash) => rows[m].size = r.size
      BY <1>5, <2>1, <2>3, <2>13, <3>1, <3>2, ValidSizes
    <3> QED  BY <3>3 DEF AssetFor, Brought, Exists
  <2> HIDE DEF a, o, f
  <2>14. f \in TableRows
    BY <1>1, <2>5, <2>10, <2>11 DEF TableRows
  <2>15. /\ f.occ[r.item] = o /\ \A i \in Items \ {r.item} : f.occ[i] = e.occ[i]
         /\ f.asset[r.hash] = a /\ \A h \in Hashes \ {r.hash} : f.asset[h] = e.asset[h]
    BY <1>1, <2>5, <2>11 DEF TableRows
  <2>16. ASSUME NEW m \in Done(d, rows, n + 1)
         PROVE  /\ f.occ[rows[m].item] = ReportedRow(d.occ[rows[m].item], rows[m].rev, rows[m].hash)
                /\ f.asset[rows[m].hash] = AssetFor(d.asset[rows[m].hash], rows[m].size)
    <3>1. CASE m = n + 1
      BY <2>15, <3>1 DEF a, o
    <3>2. CASE m # n + 1
      <4>1. m \in Done(d, rows, n)
        BY <2>12, <3>2
      <4>2. rows[m].item \in Items /\ rows[m].hash \in Hashes
        BY <2>3, <4>1, RowsTyped DEF Unrepeated, RowOf
      <4>3. /\ e.occ[rows[m].item] = ReportedRow(d.occ[rows[m].item], rows[m].rev, rows[m].hash)
            /\ e.asset[rows[m].hash] = AssetFor(d.asset[rows[m].hash], rows[m].size)
        BY <4>1 DEF After
      <4>4. f.occ[rows[m].item] = e.occ[rows[m].item]
        BY <2>4, <2>15, <4>1, <4>2
      <4>5. CASE rows[m].hash = r.hash
        BY <2>13, <2>15, <4>1, <4>3, <4>4, <4>5
      <4>6. CASE rows[m].hash # r.hash
        BY <2>15, <4>2, <4>3, <4>4, <4>6
      <4> QED  BY <4>5, <4>6
    <3> QED  BY <3>1, <3>2
  <2>17. ASSUME NEW i \in Items, \A m \in Done(d, rows, n + 1) : rows[m].item # i
         PROVE  f.occ[i] = d.occ[i]
    BY <2>12, <2>15, <2>17 DEF After
  <2>18. ASSUME NEW h \in Hashes, \A m \in Done(d, rows, n + 1) : rows[m].hash # h
         PROVE  f.asset[h] = d.asset[h]
    BY <2>12, <2>15, <2>18 DEF After
  <2>19. After(d, rows, n + 1, f)
    BY <2>14, <2>16, <2>17, <2>18 DEF After
  <2> QED  BY <2>19 DEF f
<1> QED  BY <1>3, <1>4, <1>5 DEF ValidRows
LEMMA RowsLength ==
  ASSUME NEW s \in Sources, NEW rows \in Imports(s)
  PROVE  Len(rows) \in Nat /\ DOMAIN rows = 1..Len(rows)
<1>1. PICK k \in 0..MaxRows : rows \in [1..k -> RowOf(s)]
  BY DEF Imports, BoundedSeq, SeqOf
<1>2. rows \in Seq(RowOf(s))
  BY <1>1, RowsAssumption
<1> QED  BY <1>2

LEMMA AfterAllEntries ==
  ASSUME NEW s \in Sources, NEW rows \in Imports(s), NEW d \in TableRows, ~Relinks(d, rows)
  PROVE  After(d, rows, Len(rows), AfterEntries(d, rows)[Len(rows)])
<1> DEFINE after == AfterEntries(d, rows)
           bad == {n \in 0..Len(rows) : ~After(d, rows, n, after[n])}
<1>1. Len(rows) \in Nat /\ DOMAIN rows = 1..Len(rows)
  BY RowsLength
<1>2. after[0] = d /\ \A n \in 1..Len(rows) : after[n] = Entry(after[n - 1], rows, n)
  BY <1>1, EntriesUnfold
<1>3. After(d, rows, 0, after[0])
  <2>1. Done(d, rows, 0) = {}
    BY <1>1 DEF Done, ValidRows, Unrepeated
  <2> QED  BY <1>2, <2>1 DEF After
<1> HIDE DEF after
<1>4. bad = {}
  <2> SUFFICES ASSUME bad # {} PROVE FALSE
    OBVIOUS
  <2>0. bad \subseteq Nat
    BY <1>1
  <2>1. PICK n \in bad : \A y \in bad : n <= y
    BY <2>0, LeastNumber
  <2>2. n \in 1..Len(rows) /\ n - 1 \in Nat /\ (n - 1) + 1 = n
    BY <1>1, <1>3, <2>1
  <2>3. After(d, rows, n - 1, after[n - 1])
    BY <1>1, <2>1, <2>2
  <2>4. After(d, rows, (n - 1) + 1, Entry(after[n - 1], rows, (n - 1) + 1))
    BY <1>1, <2>2, <2>3, EntryApplied
  <2>5. After(d, rows, n, after[n])
    BY <1>2, <2>2, <2>4
  <2> QED  BY <2>1, <2>5
<1> QED  BY <1>1, <1>4 DEF after

\* The merge brings a trashed content back only if its first row fits.
FirstRowsFit(d, rows) ==
  \A n \in ValidRows(d, rows) :
    d.asset[rows[n].hash].storage = "Trashed" => Canonical(rows, n) \in ValidRows(d, rows)

\* An occurrence that is new has been told of when its manifest is finished.
Finished(old, row) ==
  IF old.state = "None" /\ row.state # "None" THEN [row EXCEPT !.told = "Upsert"] ELSE row

LEMMA OccurrencesAgree ==
  ASSUME NEW s \in Sources, NEW rows \in Imports(s), NEW d \in TableRows,
         NEW e, After(d, rows, Len(rows), e), NEW i \in Items
  PROVE  OccurrencesMerged(d, rows)[i] = Finished(d.occ[i], e.occ[i])
<1> DEFINE valid == ValidRows(d, rows)
           RowFor(j) == CHOOSE n \in valid : rows[n].item = j
           r == rows[RowFor(i)]
           same == d.occ[i].state = "Active" /\ d.occ[i].rev = r.rev /\ d.occ[i].hash = r.hash
           new == OccurrencesMerged(d, rows)[i]
<1>1. new = IF (\E n \in valid : rows[n].item = i) /\ ~same
              THEN [state |-> "Active", rev |-> r.rev, hash |-> r.hash, told |-> "Upsert"]
              ELSE d.occ[i]
  BY DEF OccurrencesMerged
<1>2. valid = Done(d, rows, Len(rows))
  BY RowsLength DEF Done, ValidRows, Unrepeated
<1>3. CASE \A n \in valid : rows[n].item # i
  <2>1. e.occ[i] = d.occ[i]
    BY <1>2, <1>3 DEF After
  <2> QED  BY <1>1, <1>3, <2>1 DEF Finished
<1>4. CASE \E n \in valid : rows[n].item = i
  <2>1. RowFor(i) \in valid /\ r.item = i
    BY <1>4
  <2> HIDE DEF valid, r, new
  <2>2. e.occ[i] = ReportedRow(d.occ[i], r.rev, r.hash)
    BY <1>2, <2>1 DEF After, r
  <2>3. CASE same
    BY <1>1, <2>2, <2>3 DEF ReportedRow, Finished, new
  <2>4. CASE ~same /\ d.occ[i].state = "None"
    <3>1. e.occ[i] = [state |-> "Active", rev |-> r.rev, hash |-> r.hash, told |-> "Missing"]
      BY <2>2, <2>4 DEF ReportedRow
    <3>2. [e.occ[i] EXCEPT !.told = "Upsert"]
            = [state |-> "Active", rev |-> r.rev, hash |-> r.hash, told |-> "Upsert"]
      BY <3>1
    <3> QED  BY <1>1, <1>4, <2>4, <3>1, <3>2 DEF Finished, new
  <2>5. CASE ~same /\ d.occ[i].state # "None"
    <3>1. e.occ[i] = [state |-> "Active", rev |-> r.rev, hash |-> r.hash, told |-> "Upsert"]
      BY <2>2, <2>5 DEF ReportedRow
    <3> QED  BY <1>1, <1>4, <2>5, <3>1 DEF Finished, new
  <2> QED  BY <2>3, <2>4, <2>5
<1> QED  BY <1>3, <1>4

\* The rows an asset is created or restored from.
Changed(d, rows) ==
  {n \in ValidRows(d, rows) : Canonical(rows, n) = n /\ Absentee(d.asset[rows[n].hash])}

LEMMA AssetsAgree ==
  ASSUME NEW s \in Sources, NEW rows \in Imports(s), NEW d \in TableRows,
         NEW e, After(d, rows, Len(rows), e), NEW h \in Hashes,
         \/ ~Named(d, rows, h) \/ ~Absentee(d.asset[h])
         \/ \E n \in Changed(d, rows) : rows[n].hash = h
  PROVE  AssetsMerged(d, rows).asset[h] = e.asset[h]
<1> DEFINE valid == ValidRows(d, rows)
           changed == Changed(d, rows)
           RowFor(g) == CHOOSE n \in changed : rows[n].hash = g
           r == rows[RowFor(h)]
           new == AssetsMerged(d, rows).asset[h]
<1>1. new = IF \E n \in changed : rows[n].hash = h
              THEN [storage |-> "LocalOnly", size |-> r.size, told |-> "Upsert"]
              ELSE d.asset[h]
  <2>1. changed = {n \in {m \in valid : Canonical(rows, m) = m} :
                     d.asset[rows[n].hash].storage \in {"None", "Trashed"}}
    BY DEF Changed, Absentee
  <2> HIDE DEF changed
  <2> QED  BY <2>1 DEF AssetsMerged, TableRows
<1>2. valid = Done(d, rows, Len(rows))
  BY RowsLength DEF Done, ValidRows, Unrepeated
<1>3. CASE \E n \in changed : rows[n].hash = h
  <2>1. RowFor(h) \in changed /\ r.hash = h
    BY <1>3
  <2>2. RowFor(h) \in valid /\ RowFor(h) \in Unrepeated(rows) /\ Absentee(d.asset[h])
    BY <2>1 DEF Changed, ValidRows
  <2> HIDE DEF valid, changed, new, RowFor
  <2>3. e.asset[h] = Brought(d.asset[h], r.size)
    BY <1>2, <2>1, <2>2 DEF After, AssetFor
  <2>4. d.asset[h].storage = "Trashed" => d.asset[h].size = r.size
    BY <2>1, <2>2, ValidSizes DEF Exists, valid
  <2>5. Brought(d.asset[h], r.size) = [storage |-> "LocalOnly", size |-> r.size, told |-> "Upsert"]
    BY <2>2, <2>4 DEF Brought, Absentee
  <2> QED  BY <1>1, <1>3, <2>3, <2>5 DEF new
<1>4. CASE ~ \E n \in changed : rows[n].hash = h
  <2>1. CASE ~Named(d, rows, h)
    <3>1. e.asset[h] = d.asset[h]
      BY <1>2, <2>1 DEF After, Named
    <3> QED  BY <1>1, <1>4, <3>1
  <2>2. ASSUME NEW n \in valid, rows[n].hash = h, ~Absentee(d.asset[h]) PROVE new = e.asset[h]
    <3>1. e.asset[h] = d.asset[h]
      BY <1>2, <2>2 DEF After, AssetFor
    <3> QED  BY <1>1, <1>4, <3>1
  <2> QED  BY <1>4, <2>1, <2>2 DEF Named
<1> QED  BY <1>3, <1>4

\* Where a first row does not fit, the trash keeps what a manifest restores.
LEMMA AssetsDiffer ==
  ASSUME NEW s \in Sources, NEW rows \in Imports(s), NEW d \in TableRows,
         NEW e, After(d, rows, Len(rows), e), ~FirstRowsFit(d, rows)
  PROVE  \E h \in Hashes : AssetsMerged(d, rows).asset[h] # e.asset[h]
<1>1. PICK n \in ValidRows(d, rows) :
        /\ d.asset[rows[n].hash].storage = "Trashed"
        /\ Canonical(rows, n) \notin ValidRows(d, rows)
  BY DEF FirstRowsFit
<1> DEFINE h == rows[n].hash
           canonical == {m \in ValidRows(d, rows) : Canonical(rows, m) = m}
           changed == {m \in canonical : d.asset[rows[m].hash].storage \in {"None", "Trashed"}}
<1>2. n \in Unrepeated(rows) /\ h \in Hashes /\ rows[n].size \in Sizes
  BY RowsTyped DEF ValidRows, Unrepeated, RowOf
<1>3. ASSUME NEW m \in canonical, rows[m].hash = h PROVE FALSE
  <2>1. m \in ValidRows(d, rows) /\ m \in Unrepeated(rows) /\ Canonical(rows, m) = m
    BY <1>3 DEF ValidRows
  <2>2. Canonical(rows, n) = m
    BY <1>2, <1>3, <2>1, CanonicalShared
  <2> QED  BY <1>1, <2>1, <2>2
<1>4. AssetsMerged(d, rows).asset[h] = d.asset[h]
  <2>1. ~ \E m \in changed : rows[m].hash = h
    BY <1>3
  <2> QED  BY <1>2, <2>1 DEF AssetsMerged, TableRows
<1>5. n \in Done(d, rows, Len(rows))
  BY RowsLength DEF Done, ValidRows, Unrepeated
<1>6. e.asset[h] = AssetFor(d.asset[h], rows[n].size)
  BY <1>5 DEF After
<1>7. e.asset[h].storage = "LocalOnly"
  BY <1>1, <1>6 DEF AssetFor, Brought, Absentee
<1> QED  BY <1>1, <1>2, <1>4, <1>7

\* Merge and manifest agree exactly where the first rows fit.
LEMMA MergedAsManifest ==
  ASSUME NEW s \in Sources, NEW rows \in Imports(s), NEW d \in TableRows, ~Relinks(d, rows)
  PROVE  Merged(d, rows) = AsManifest(d, rows) <=> FirstRowsFit(d, rows)
<1> DEFINE e == AfterEntries(d, rows)[Len(rows)]
           a == AssetsMerged(d, rows).asset
           o == OccurrencesMerged(d, rows)
           told == [i \in Items |-> Finished(d.occ[i], e.occ[i])]
<1>1. After(d, rows, Len(rows), e)
  BY AfterAllEntries
<1>2. AsManifest(d, rows) = [e EXCEPT !.occ = told]
  BY DEF AsManifest, Finished
<1> HIDE DEF e
<1>3. e \in TableRows
  BY <1>1 DEF After
<1>4. AsManifest(d, rows) = [occ |-> told, asset |-> e.asset]
  BY <1>2, <1>3 DEF TableRows
<1>5. Merged(d, rows) = [occ |-> o, asset |-> a]
  <2>1. \E x : AssetsMerged(d, rows) = [d EXCEPT !.asset = x]
    BY DEF AssetsMerged
  <2>2. AssetsMerged(d, rows) = [occ |-> d.occ, asset |-> a]
    BY <2>1 DEF TableRows
  <2> HIDE DEF a, o
  <2>3. Merged(d, rows) = [AssetsMerged(d, rows) EXCEPT !.occ = o]
    BY DEF Merged, o
  <2> QED  BY <2>2, <2>3
<1>6. o = [i \in Items |-> o[i]] /\ a = [h \in Hashes |-> a[h]]
  BY MergedTables
<1>7. \A i \in Items : o[i] = Finished(d.occ[i], e.occ[i])
  BY <1>1, OccurrencesAgree
<1>8. FirstRowsFit(d, rows) => \A h \in Hashes : a[h] = e.asset[h]
  <2> SUFFICES ASSUME FirstRowsFit(d, rows), NEW h \in Hashes, Named(d, rows, h), Absentee(d.asset[h])
               PROVE  \E n \in Changed(d, rows) : rows[n].hash = h
    BY <1>1, AssetsAgree
  <2>1. PICK n \in ValidRows(d, rows) : rows[n].hash = h
    BY DEF Named
  <2> DEFINE c == Canonical(rows, n)
  <2>2. n \in Unrepeated(rows)
    BY DEF ValidRows
  <2>3. c \in ValidRows(d, rows)
    BY <2>1, <2>2, ValidSizes DEF FirstRowsFit, Absentee, Exists
  <2>4. c \in Unrepeated(rows) /\ rows[c].hash = h
    BY <2>1, <2>2, CanonicalRow
  <2>5. Canonical(rows, c) = c
    BY <2>1, <2>2, <2>4, CanonicalShared
  <2> HIDE DEF c
  <2> QED  BY <2>3, <2>4, <2>5 DEF Changed
<1>9. (\A h \in Hashes : a[h] = e.asset[h]) => FirstRowsFit(d, rows)
  BY <1>1, AssetsDiffer
<1> HIDE DEF a, o
<1>10. o = told
  BY <1>6, <1>7
<1>11. a = e.asset <=> \A h \in Hashes : a[h] = e.asset[h]
  <2>1. e.asset = [h \in Hashes |-> e.asset[h]]
    BY <1>3 DEF TableRows
  <2> QED  BY <1>6, <2>1
<1>12. Merged(d, rows) = AsManifest(d, rows) <=> a = e.asset
  BY <1>4, <1>5, <1>10
<1> QED  BY <1>8, <1>9, <1>11, <1>12

-----------------------------------------------------------------------------
(* Types under any imports, rows that declare different sizes included, and *)
(* the merges of all these imports against manifests.                      *)

Typed == Tables \in TableRows /\ SourcesOK /\ RemovedSourceHidden

\* What an entry for an item may do to the tables.
ItemStep(d, e, i) == e \in TableRows /\ OthersKept(d, e, i)

LEMMA TellItem ==
  ASSUME NEW d, NEW e, NEW i \in Items, ItemStep(d, e, i), NEW type \in Told
  PROVE  ItemStep(d, TellOcc(e, i, type), i)
<1>1. e \in TableRows
  BY DEF ItemStep
<1>2. TellOcc(e, i, type) \in TableRows /\ SameState(e, TellOcc(e, i, type))
  BY <1>1, TellOccTells
<1> QED  BY <1>2 DEF ItemStep, OthersKept, SameState

LEMMA SetItem ==
  ASSUME NEW d \in TableRows, NEW p \in TableRows, p.occ = d.occ, NEW i \in Items,
         NEW new \in OccurrenceRow
  PROVE  ItemStep(d, SetOcc(p, i, new), i)
BY SetOccSets DEF ItemStep, OthersKept

LEMMA TrashItem ==
  ASSUME NEW d, NEW e, NEW i \in Items, ItemStep(d, e, i), NEW h \in Hashes \cup {NoHash}
  PROVE  ItemStep(d, TrashIfUnreferenced(e, h, i), i)
<1>1. e \in TableRows
  BY DEF ItemStep
<1>2. AssetStep(e, TrashIfUnreferenced(e, h, i), h)
  BY <1>1, TrashTrashes
<1> QED  BY <1>2 DEF ItemStep, OthersKept, AssetStep

LEMMA RestoreItem ==
  ASSUME NEW d, NEW e, NEW i \in Items, ItemStep(d, e, i),
         NEW h \in Hashes \cup {NoHash}, NEW mode
  PROVE  ItemStep(d, Restore(e, h, mode), i)
<1>1. e \in TableRows
  BY DEF ItemStep
<1>2. AssetStep(e, Restore(e, h, mode), h)
  BY <1>1, RestoreRestores
<1> QED  BY <1>2 DEF ItemStep, OthersKept, AssetStep

LEMMA PendingUpsertStep ==
  ASSUME NEW d \in TableRows, NEW i \in Items, NEW rev \in Revisions, NEW mode
  PROVE  ItemStep(d, PendingUpsert(d, i, rev, mode), i)
<1> DEFINE old     == d.occ[i]
           revised == old.state = "None" \/ old.rev # rev
           hash    == IF revised THEN NoHash ELSE old.hash
           new     == [old EXCEPT !.state = "Active", !.rev = rev, !.hash = hash]
           stored  == SetOcc(d, i, new)
           linked  == IF revised THEN TrashIfUnreferenced(stored, old.hash, i)
                                 ELSE Restore(stored, hash, mode)
<1>1. PendingUpsert(d, i, rev, mode) \in {linked, TellOcc(linked, i, "Upsert")}
  BY DEF PendingUpsert
<1>2. /\ new \in OccurrenceRow /\ "Upsert" \in Told
      /\ hash \in Hashes \cup {NoHash} /\ old.hash \in Hashes \cup {NoHash}
  BY DEF TableRows, OccurrenceRow, Told
<1> HIDE DEF new
<1>3. ItemStep(d, stored, i)
  BY <1>2, SetItem
<1> HIDE DEF stored
<1>4. ItemStep(d, linked, i)
  BY <1>2, <1>3, TrashItem, RestoreItem
<1> HIDE DEF linked
<1> QED  BY <1>1, <1>2, <1>4, TellItem

LEMMA HashedUpsertStep ==
  ASSUME NEW d \in TableRows, NEW i \in Items, NEW rev \in Revisions,
         NEW h \in Hashes, NEW size \in Sizes, NEW mode
  PROVE  ItemStep(d, HashedUpsert(d, i, rev, h, size, mode), i)
<1> DEFINE old    == d.occ[i]
           p      == PreparedAsset(d, h, size, mode)
           new    == [old EXCEPT !.state = "Active", !.rev = rev, !.hash = h]
           stored == SetOcc(p, i, new)
           linked == IF old.hash # h THEN TrashIfUnreferenced(stored, old.hash, i) ELSE stored
<1>1. HashedUpsert(d, i, rev, h, size, mode) \in {d, linked, TellOcc(linked, i, "Upsert")}
  BY DEF HashedUpsert
<1>2. new \in OccurrenceRow /\ "Upsert" \in Told /\ old.hash \in Hashes \cup {NoHash}
  BY DEF TableRows, OccurrenceRow, Told
<1>3. p \in TableRows /\ p.occ = d.occ
  BY PreparedAssetLive DEF AssetStep
<1> HIDE DEF p, new
<1>4. ItemStep(d, stored, i)
  BY <1>2, <1>3, SetItem
<1> HIDE DEF stored
<1>5. ItemStep(d, linked, i)
  BY <1>2, <1>4, TrashItem
<1> HIDE DEF linked
<1>6. ItemStep(d, d, i)
  BY DEF ItemStep, OthersKept
<1> QED  BY <1>1, <1>2, <1>5, <1>6, TellItem

LEMMA ManifestDeleteStep ==
  ASSUME NEW d \in TableRows, NEW i \in Items, NEW rev \in Revisions, NEW reliable
  PROVE  ItemStep(d, ManifestDelete(d, i, rev, reliable), i)
<1> DEFINE old  == d.occ[i]
           new  == [old EXCEPT !.state = "Deleted", !.rev = rev]
           gone == SetOcc(d, i, new)
<1>1. ManifestDelete(d, i, rev, reliable)
        \in {d, TrashIfUnreferenced(TellOcc(gone, i, "Delete"), old.hash, i)}
  BY DEF ManifestDelete, DeleteOccurrence
<1>2. new \in OccurrenceRow /\ "Delete" \in Told /\ old.hash \in Hashes \cup {NoHash}
  BY DEF TableRows, OccurrenceRow, Told
<1> HIDE DEF new
<1>3. ItemStep(d, gone, i)
  BY <1>2, SetItem
<1> HIDE DEF gone
<1>4. ItemStep(d, d, i)
  BY DEF ItemStep, OthersKept
<1> QED  BY <1>1, <1>2, <1>3, <1>4, TellItem, TrashItem

LEMMA AppliedTyped ==
  ASSUME Typed, NEW i \in Items, NEW result, ItemStep(Tables, result, i), Applied(i, result)
  PROVE  Typed'
<1>1. (Tables \in TableRows)'
  BY DEF Applied, Tables, ItemStep, TableRows
<1>2. SourcesOK'
  <2>1. batch \in Batch /\ source' = source
    BY DEF Applied, Typed, SourcesOK
  <2>2. batch' \in Batch /\ batch'.source = batch.source
    BY <2>1 DEF Applied, Batch
  <2> QED  BY <2>1, <2>2 DEF Applied, Typed, SourcesOK
<1>3. RemovedSourceHidden'
  <2> SUFFICES ASSUME NEW j \in Items, source[SourceOf[j]].status \in {"None", "Removed"}
               PROVE  occ'[j].state # "Active"
    BY DEF Applied, RemovedSourceHidden
  <2>1. j # i
    BY DEF Applied, Typed, SourcesOK
  <2> QED  BY <2>1 DEF Applied, Typed, RemovedSourceHidden, ItemStep, OthersKept, Tables
<1> QED  BY <1>1, <1>2, <1>3 DEF Typed

LEMMA BeginTyped ==
  ASSUME Typed, NEW s \in Sources, NEW reliable \in BOOLEAN, BeginManifest(s, reliable)
  PROVE  Typed'
BY DEF Typed, SourcesOK, RemovedSourceHidden, Tables, BeginManifest, Batch

LEMMA FinishTyped ==
  ASSUME Typed, FinishManifest
  PROVE  Typed'
<1>1. Tables \in TableRows /\ Tables.occ = occ /\ Tables.asset = asset
  BY DEF Typed, Tables
<1>2. \A i \in Items : occ'[i] \in OccurrenceRow /\ occ'[i].state = occ[i].state
  BY <1>1 DEF FinishManifest, TableRows, OccurrenceRow, Told
<1>3. asset' = asset /\ occ' = [i \in Items |-> occ'[i]]
  BY DEF FinishManifest
<1>4. (Tables \in TableRows)'
  BY <1>1, <1>2, <1>3 DEF Tables, TableRows
<1> QED  BY <1>2, <1>4 DEF Typed, SourcesOK, RemovedSourceHidden, FinishManifest

LEMMA CreateTyped ==
  ASSUME Typed, NEW s \in Sources, NEW mode \in Modes, CreateSource(s, mode)
  PROVE  Typed'
<1>1. (Tables \in TableRows)'
  BY DEF Typed, Tables, CreateSource
<1>2. SourcesOK'
  BY DEF Typed, SourcesOK, CreateSource, SourceRow
<1>3. RemovedSourceHidden'
  BY CatalogAssumption DEF Typed, SourcesOK, RemovedSourceHidden, CreateSource, SourceRow
<1> QED  BY <1>1, <1>2, <1>3 DEF Typed

LEMMA UpdateTyped ==
  ASSUME Typed, NEW s \in Sources, NEW mode \in Modes, NEW status \in {"Active", "Paused"},
         UpdateSource(s, mode, status)
  PROVE  Typed'
<1>1. occ \in [Items -> OccurrenceRow] /\ asset \in [Hashes -> AssetRow]
  BY DEF Typed, Tables, TableRows
<1> DEFINE wanted == {h \in Hashes :
             /\ source[s].mode = "Local" /\ mode = "Remote"
             /\ asset[h].storage = "LocalOnly"
             /\ Referenced(Tables, h, {i \in Items : SourceOf[i] = s})}
<1>2. /\ occ' = occ
      /\ asset' = [h \in Hashes |->
           IF h \in wanted THEN [asset[h] EXCEPT !.storage = "UploadPending", !.told = "Upsert"]
                           ELSE asset[h]]
  BY DEF UpdateSource
<1> HIDE DEF wanted
<1>3. \A h \in Hashes : asset'[h] \in AssetRow
  BY <1>1, <1>2 DEF AssetRow, Told
<1>4. (Tables \in TableRows)'
  BY <1>1, <1>2, <1>3 DEF Tables, TableRows
<1>5. SourcesOK'
  BY DEF Typed, SourcesOK, UpdateSource, SourceRow
<1>6. RemovedSourceHidden'
  BY CatalogAssumption DEF Typed, SourcesOK, RemovedSourceHidden, UpdateSource, SourceRow
<1> QED  BY <1>4, <1>5, <1>6 DEF Typed

LEMMA RemoveTyped ==
  ASSUME Typed, NEW s \in Sources, RemoveSource(s)
  PROVE  Typed'
<1> DEFINE own    == {i \in Items : SourceOf[i] = s}
           listed == {i \in own : occ[i].state = "Active"}
           lost   == {h \in Hashes :
             /\ asset[h].storage \notin {"None", "Trashed"}
             /\ Referenced(Tables, h, own)
             /\ ~Referenced(Tables, h, Items \ own)}
<1>1. occ \in [Items -> OccurrenceRow] /\ asset \in [Hashes -> AssetRow]
  BY DEF Typed, Tables, TableRows
<1>2. /\ occ' = [i \in Items |->
           IF i \in listed THEN [occ[i] EXCEPT !.state = "Deleted", !.told = "Delete"]
                           ELSE occ[i]]
      /\ asset' = [h \in Hashes |->
           IF h \in lost THEN [asset[h] EXCEPT !.storage = "Trashed", !.told = "Delete"]
                         ELSE asset[h]]
  BY DEF RemoveSource
<1>3. \A i \in Items :
        /\ occ'[i] \in OccurrenceRow
        /\ occ'[i].state = "Active" => occ[i].state = "Active" /\ SourceOf[i] # s
  BY <1>1, <1>2 DEF OccurrenceRow, Told
<1> HIDE DEF lost, listed
<1>4. \A h \in Hashes : asset'[h] \in AssetRow
  BY <1>1, <1>2 DEF AssetRow, Told
<1>5. (Tables \in TableRows)'
  BY <1>2, <1>3, <1>4 DEF Tables, TableRows
<1>6. SourcesOK'
  BY DEF Typed, SourcesOK, RemoveSource, SourceRow
<1>7. RemovedSourceHidden'
  <2> SUFFICES ASSUME NEW i \in Items, source'[SourceOf[i]].status \in {"None", "Removed"},
                      occ'[i].state = "Active"
               PROVE  FALSE
    BY DEF RemovedSourceHidden
  <2>1. SourceOf[i] # s /\ occ[i].state = "Active"
    BY <1>3
  <2>2. source'[SourceOf[i]] = source[SourceOf[i]]
    BY <2>1, CatalogAssumption DEF RemoveSource, Typed, SourcesOK
  <2> QED  BY <2>1, <2>2 DEF Typed, RemovedSourceHidden
<1> QED  BY <1>5, <1>6, <1>7 DEF Typed

LEMMA MergeTyped ==
  ASSUME Typed, NEW s \in Sources, NEW rows \in Imports(s), MergeImport(s, rows)
  PROVE  Typed'
<1>1. Tables \in TableRows /\ Tables.occ = occ /\ Tables.asset = asset
  BY DEF Typed, Tables
<1>2. /\ UNCHANGED <<source, batch>> /\ source[s].status = "Active"
      /\ asset' = AssetsMerged(Tables, rows).asset /\ occ' = OccurrencesMerged(Tables, rows)
  <2>1. UNCHANGED <<source, batch>> /\ source[s].status = "Active"
    BY DEF MergeImport
  <2>2. asset' = AssetsMerged(Tables, rows).asset /\ occ' = OccurrencesMerged(Tables, rows)
    BY <1>1, MergedTables DEF MergeImport
  <2> QED  BY <2>1, <2>2
<1>3. ASSUME NEW h \in Hashes PROVE asset'[h] \in AssetRow
  <2> DEFINE changed == {n \in {m \in ValidRows(Tables, rows) : Canonical(rows, m) = m} :
                           Tables.asset[rows[n].hash].storage \in {"None", "Trashed"}}
             RowFor(g) == CHOOSE n \in changed : rows[n].hash = g
  <2>1. asset'[h] = IF \E n \in changed : rows[n].hash = h
                      THEN [storage |-> "LocalOnly", size |-> rows[RowFor(h)].size, told |-> "Upsert"]
                      ELSE asset[h]
    BY <1>1, <1>2 DEF AssetsMerged, TableRows
  <2>2. ASSUME \E n \in changed : rows[n].hash = h PROVE rows[RowFor(h)].size \in Sizes
    <3>1. RowFor(h) \in changed
      BY <2>2
    <3>2. RowFor(h) \in DOMAIN rows
      BY <3>1 DEF ValidRows, Unrepeated
    <3> QED  BY <3>2, RowsTyped DEF RowOf
  <2>3. asset[h] \in AssetRow
    BY <1>1 DEF TableRows
  <2> HIDE DEF changed, RowFor
  <2> QED  BY <2>1, <2>2, <2>3 DEF AssetRow, Told
<1>4. ASSUME NEW i \in Items
      PROVE  /\ occ'[i] \in OccurrenceRow
             /\ (\A n \in ValidRows(Tables, rows) : rows[n].item # i) => occ'[i] = occ[i]
  BY <1>1, <1>2, OccurrencesAfterMerge
<1>5. (Tables \in TableRows)'
  <2>1. asset' = [h \in Hashes |-> asset'[h]] /\ occ' = [i \in Items |-> occ'[i]]
    BY <1>1, <1>2, MergedTables
  <2>2. asset' \in [Hashes -> AssetRow]
    BY <1>3, <2>1
  <2>3. occ' \in [Items -> OccurrenceRow]
    BY <1>4, <2>1
  <2> QED  BY <2>2, <2>3 DEF TableRows, Tables
<1>6. SourcesOK'
  BY <1>2 DEF Typed, SourcesOK
<1>7. RemovedSourceHidden'
  <2> SUFFICES ASSUME NEW i \in Items, source[SourceOf[i]].status \in {"None", "Removed"}
               PROVE  occ'[i].state # "Active"
    BY <1>2 DEF RemovedSourceHidden
  <2>1. ASSUME NEW n \in ValidRows(Tables, rows), rows[n].item = i PROVE FALSE
    <3>1. rows[n] \in RowOf(s)
      BY RowsTyped DEF ValidRows, Unrepeated
    <3> QED  BY <1>2, <2>1, <3>1 DEF RowOf
  <2> QED  BY <1>4, <2>1 DEF Typed, RemovedSourceHidden
<1> QED  BY <1>5, <1>6, <1>7 DEF Typed

LEMMA TypedStep == Typed /\ [BulkNext]_vars => Typed'
<1> SUFFICES ASSUME Typed, [BulkNext]_vars PROVE Typed'
  OBVIOUS
<1>0. Tables \in TableRows
  BY DEF Typed
<1>1. ASSUME NEW s \in Sources, NEW reliable \in BOOLEAN, BeginManifest(s, reliable)
      PROVE  Typed'
  BY <1>1, BeginTyped
<1>2. ASSUME NEW i \in Items, NEW rev \in Revisions, ApplyPending(i, rev)
      PROVE  Typed'
  BY <1>0, <1>2, PendingUpsertStep, AppliedTyped DEF ApplyPending
<1>3. ASSUME NEW i \in Items, NEW rev \in Revisions, ApplyDelete(i, rev)
      PROVE  Typed'
  BY <1>0, <1>3, ManifestDeleteStep, AppliedTyped DEF ApplyDelete
<1>4. ASSUME NEW i \in Items, NEW rev \in Revisions, NEW h \in Hashes,
             NEW size \in Sizes, ApplyHashed(i, rev, h, size)
      PROVE  Typed'
  BY <1>0, <1>4, HashedUpsertStep, AppliedTyped DEF ApplyHashed
<1>5. CASE FinishManifest
  BY <1>5, FinishTyped
<1>6. ASSUME NEW s \in Sources, NEW mode \in Modes, CreateSource(s, mode)
      PROVE  Typed'
  BY <1>6, CreateTyped
<1>7. ASSUME NEW s \in Sources, NEW mode \in Modes, NEW status \in {"Active", "Paused"},
             UpdateSource(s, mode, status)
      PROVE  Typed'
  BY <1>7, UpdateTyped
<1>8. ASSUME NEW s \in Sources, RemoveSource(s)
      PROVE  Typed'
  BY <1>8, RemoveTyped
<1>9. ASSUME NEW s \in Sources, NEW rows \in Imports(s), MergeImport(s, rows)
      PROVE  Typed'
  BY <1>9, MergeTyped
<1>10. CASE UNCHANGED vars
  BY <1>10 DEF vars, Typed, SourcesOK, RemovedSourceHidden, Tables
<1> QED  BY <1>1, <1>2, <1>3, <1>4, <1>5, <1>6, <1>7, <1>8, <1>9, <1>10 DEF BulkNext, Next

LEMMA BulkTypes == BulkSpec => []Typed
<1>1. Init => Typed
  BY InitOK DEF IInv, TablesOK, Typed
<1> QED  BY <1>1, TypedStep, PTL DEF BulkSpec

\* Whatever sizes the rows of an import declare, the merge leaves well-typed
\* tables.
THEOREM MergesTyped == BulkSpec => []TypeOK
<1>1. Typed => TypeOK
  BY DEF Typed, SourcesOK, Tables, TableRows, TypeOK
<1> QED  BY BulkTypes, <1>1, PTL

\* Nothing of a removed source is listed, though its import may be merged
\* late: the merge asks for an active source under its lock (merge,
\* repository.py).
THEOREM MergesHideRemoved == BulkSpec => []RemovedSourceHidden
<1>1. Typed => RemovedSourceHidden
  BY DEF Typed
<1> QED  BY BulkTypes, <1>1, PTL

\* For every import that a Local source may be sent the merge does what a
\* manifest of the same rows does, exactly if the first row of each content
\* in the trash declares the size the asset has: this row alone is compared
\* with the asset (_build_asset_work, _merge_assets).
MergesWhereFits ==
  \A s \in Sources : \A rows \in Imports(s) :
    ~Relinks(Tables, rows) =>
      (Merged(Tables, rows) = AsManifest(Tables, rows) <=> FirstRowsFit(Tables, rows))

THEOREM MergeMeetsManifest == BulkSpec => []MergesWhereFits
<1>1. Typed => MergesWhereFits
  BY MergedAsManifest DEF Typed, MergesWhereFits
<1> QED  BY BulkTypes, <1>1, PTL

LEMMA AgreeingFit ==
  ASSUME NEW s \in Sources, NEW rows \in Imports(s), Agreeing(rows), NEW d
  PROVE  FirstRowsFit(d, rows)
BY CanonicalValid DEF FirstRowsFit

\* Rows that agree on the size of a content, as those of a scan do, are merged
\* as a manifest would apply them, for any number of rows and whatever is
\* pending, deleted or in the trash.
MergesAgreeing ==
  \A s \in Sources : \A rows \in Imports(s) :
    Agreeing(rows) /\ ~Relinks(Tables, rows) => Merged(Tables, rows) = AsManifest(Tables, rows)

THEOREM AgreeingMergedAsManifest == BulkSpec => []MergesAgreeing
<1>1. MergesWhereFits => MergesAgreeing
  BY AgreeingFit DEF MergesWhereFits, MergesAgreeing
<1> QED  BY MergeMeetsManifest, <1>1, PTL

\* Where contents have one size, as in the run, every import is of this kind.
THEOREM OneSizeMergedAsManifest ==
  (\A y, z \in Sizes : y = z) => (BulkSpec => []MergeIsManifest)
<1> SUFFICES ASSUME \A y, z \in Sizes : y = z PROVE BulkSpec => []MergeIsManifest
  OBVIOUS
<1>1. ASSUME NEW s \in Sources, NEW rows \in Imports(s) PROVE Agreeing(rows)
  <2>1. \A n \in DOMAIN rows : rows[n].size \in Sizes
    BY RowsTyped DEF RowOf
  <2> QED  BY <2>1 DEF Agreeing
<1>2. MergesAgreeing => MergeIsManifest
  BY <1>1 DEF MergesAgreeing, MergeIsManifest
<1> QED  BY AgreeingMergedAsManifest, <1>2, PTL

=============================================================================
