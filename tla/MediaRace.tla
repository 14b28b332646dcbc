------------------------------ MODULE MediaRace ------------------------------
(***************************************************************************)
(* Two API requests of one account at once (services/domain/service.py).   *)
(*                                                                         *)
(* A mutation reads the account before it waits for the account's lock.    *)
(* Under REPEATABLE READ that first read fixes what every later plain      *)
(* SELECT of the transaction sees, so a request that has waited decides on *)
(* the tables as they were before the requests it waited for.  Its flush   *)
(* writes the fields that differ from what it read, and an insert of a row *)
(* that exists by now fails on the unique key and rolls all back.          *)
(***************************************************************************)
EXTENDS MediaCatalog

CONSTANTS Clients, Idle

VARIABLE view      \* what a waiting request of a client reads

raceVars == <<vars, view>>

RaceInit == Init /\ view = [c \in Clients |-> Idle]

\* Fields of a row the late transaction has changed win; the others stay.
Written(now, seen, result) ==
  [f \in DOMAIN now |-> IF result[f] # seen[f] THEN result[f] ELSE now[f]]

WrittenRows(now, seen, result) ==
  [k \in DOMAIN now |-> Written(now[k], seen[k], result[k])]

DuplicateInsert(seen, result) ==
  \/ \E i \in Items : /\ seen.occ[i].state = "None" /\ result.occ[i].state # "None"
                      /\ occ[i].state # "None"
  \/ \E h \in Hashes : /\ seen.asset[h].storage = "None"
                       /\ result.asset[h].storage # "None"
                       /\ asset[h].storage # "None"

Arrive(c) ==
  /\ view[c] = Idle
  /\ view' = [view EXCEPT ![c] =
       [occ |-> occ, asset |-> asset, source |-> source]]
  /\ UNCHANGED vars

\* The request of a client gets the lock: a manifest of one entry.
Run(c, i, result) ==
  /\ view[c] # Idle
  /\ view[c].source[SourceOf[i]].status \in {"Active", "Paused"}
  /\ view' = [view EXCEPT ![c] = Idle]
  /\ IF DuplicateInsert(view[c], result)
       THEN UNCHANGED <<occ, asset>>
       ELSE /\ occ' = WrittenRows(occ, view[c].occ, result.occ)
            /\ asset' = WrittenRows(asset, view[c].asset, result.asset)
  /\ UNCHANGED <<source, batch>>

\* SourceRepository.require: the source is not there, or not any more.
Refused(c) ==
  /\ view[c] # Idle
  /\ \E s \in Sources : view[c].source[s].status \notin {"Active", "Paused"}
  /\ view' = [view EXCEPT ![c] = Idle]
  /\ UNCHANGED vars

RunUpsert(c, i, rev, h, size) ==
  Run(c, i, HashedUpsert(view[c], i, rev, h, size, view[c].source[SourceOf[i]].mode))

RunDelete(c, i, rev) == Run(c, i, ManifestDelete(view[c], i, rev, TRUE))

RaceNext ==
  \/ \E s \in Sources : CreateSource(s, "Local") /\ UNCHANGED view
  \/ \E c \in Clients :
       \/ Arrive(c)
       \/ Refused(c)
       \/ \E i \in Items, rev \in Revisions :
            \/ RunDelete(c, i, rev)
            \/ \E h \in Hashes, size \in Sizes : RunUpsert(c, i, rev, h, size)

RaceSpec == RaceInit /\ [][RaceNext]_raceVars

-----------------------------------------------------------------------------
\* "If the last occurrence disappears, the asset enters trash; deletion is
\* cancelled if any occurrence reappears": no active occurrence refers to an
\* asset in the trash.
ReappearedIsRestored ==
  \A i \in Items :
    occ[i].state = "Active" /\ occ[i].hash # NoHash => asset[occ[i].hash].storage # "Trashed"
=============================================================================
