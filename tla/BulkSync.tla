------------------------------- MODULE BulkSync -------------------------------
(***************************************************************************)
(* The sync of a source that may send its pending batches as one bulk      *)
(* import (cli/imagetracker_cli/sync.py, BulkManifestOutbox in state.py),  *)
(* with the service's side of imports (BulkImport) and the batches it      *)
(* falls back to (ManifestOutbox).                                         *)
(*                                                                         *)
(* item is persistent; step is what the running sync does next, which a    *)
(* pause or the end of the process forgets.  A call of the API is one      *)
(* step: it is answered, or the sync pauses before or after the service    *)
(* has executed it.                                                        *)
(***************************************************************************)
EXTENDS BulkImport

VARIABLES
  item,      \* the last BulkManifestOutbox row
  step

bulkVars == <<item, step>>
allVars == <<vars, importVars, bulkVars>>

ItemStates ==
  {"None", "Prepared", "AwaitingUpload", "Queued", "Running", "RetryDue"} \cup Terminal
    \cup {"ResultReady", "ApplyingResult", "Applied", "Cancelled"}

SyncSteps == {"Idle", "Create", "Status", "Upload", "Complete", "Result", "Apply"}

Item == [state : ItemStates,
         id : Imports \cup {Nobody},   \* the import, by its idempotency key
         bound : BOOLEAN,              \* ServerImportId is known
         captured : SUBSET Nat,        \* keys of the batches it stands for
         rows : Seq(Entry),
         result : BOOLEAN,             \* the result is downloaded and verified
         applied : Nat]                \* ResultAppliedThrough

BulkTypeOK ==
  /\ TypeOK /\ ImportTypeOK
  /\ item \in Item
  /\ step \in SyncSteps

BulkInit ==
  /\ Init /\ ImportInit
  /\ item = [state |-> "None", id |-> Nobody, bound |-> FALSE, captured |-> {},
             rows |-> <<>>, result |-> FALSE, applied |-> 0]
  /\ step = "Idle"

-----------------------------------------------------------------------------
(* active_bulk_manifest *)
ItemActive ==
  item.state \notin {"None", "Applied", "FailedPermanent", "Cancelled", "Expired"}

Fresh == {m \in Imports : m # item.id /\ import[m].status = "None"}

\* The first batches of the outbox, if they hold upserts alone.  (Hashes are
\* all known, or the fallback is taken; thresholds only choose the transport.)
Capture(batches) ==
  /\ sending = Idle /\ step = "Idle" /\ ~ItemActive
  /\ batches # {}
  /\ \A b \in batches, c \in outbox : c.key < b.key => c \in batches
  /\ \A b \in batches : \A e \in b.entries : e.op = "Upsert"
  /\ \E m \in Fresh :
       item' = [state |-> "Prepared", id |-> m, bound |-> FALSE,
                captured |-> {b.key : b \in batches},
                rows |-> SetToSeq(UNION {b.entries : b \in batches}),
                result |-> FALSE, applied |-> 0]
  /\ step' = "Create"
  /\ UNCHANGED <<vars, importVars>>

\* A sync finds an active item and resumes it.
Resume ==
  /\ sending = Idle /\ step = "Idle" /\ ItemActive
  /\ step' = IF item.bound THEN "Status" ELSE "Create"
  /\ UNCHANGED <<vars, importVars, item>>

\* A row that is closed is not read again, but for its state.
Closing(state) == [item EXCEPT !.state = state, !.bound = FALSE, !.captured = {},
                               !.rows = <<>>, !.applied = 0]

Close == item' = Closing("FailedPermanent") /\ step' = "Idle"

\* --transport batch: an import that was not submitted is given up.
Escape ==
  /\ sending = Idle /\ step = "Idle" /\ ItemActive
  /\ IF ~item.bound \/ StatusOf(item.id) = "AwaitingUpload"
       THEN item' = Closing("Cancelled")
       ELSE item' = [item EXCEPT !.state = StatusOf(item.id)]
  /\ UNCHANGED <<vars, importVars, step>>

\* Transient errors, an expired sign-in, the end of the process.
GiveUp ==
  /\ step # "Idle"
  /\ step' = "Idle"
  /\ UNCHANGED <<vars, importVars, item>>

\* The manifest or the result cannot be read or is not what was declared.
Unusable ==
  /\ step \in {"Upload", "Result", "Apply"}
  /\ Close
  /\ UNCHANGED <<vars, importVars>>

CreateImport ==
  /\ step = "Create"
  /\ IF CreateAllowed(item.id) \/ import[item.id].status # "None"
       THEN /\ Create(item.id, item.rows)
            /\ \/ /\ item' = [item EXCEPT !.bound = TRUE,
                                          !.state = import'[item.id].status]
                  /\ step' = "Status"
               \/ UNCHANGED item /\ step' = "Idle"
       ELSE Close /\ UNCHANGED importVars
  /\ UNCHANGED vars

Status_M ==                             \* an import with errors is a success
  /\ step = "Status"
  /\ LET row == import[item.id]
     IN  IF row.status \in Terminal \ {"Succeeded", "CompletedWithErrors"}
           THEN Close
           ELSE /\ item' = [item EXCEPT !.state = row.status]
                /\ step' = CASE row.status = "AwaitingUpload" -> "Upload"
                             [] row.status = "RetryDue" -> "Idle"
                             [] row.status \in {"Succeeded", "CompletedWithErrors"} -> "Result"
                             [] OTHER -> "Status"
  /\ UNCHANGED <<vars, importVars>>

\* What the service says of the import decides; asked again while it runs.
Status ==
  /\ step = "Status"
  /\ LET status == StatusOf(item.id)
     IN  IF status \in Terminal \ {"Succeeded"}
           THEN Close
           ELSE /\ item' = [item EXCEPT !.state = status]
                /\ step' = CASE status = "AwaitingUpload" -> "Upload"
                             [] status = "RetryDue" -> "Idle"
                             [] status = "Succeeded" -> "Result"
                             [] OTHER -> "Status"
  /\ UNCHANGED <<vars, importVars>>

UploadManifest ==
  /\ step = "Upload"
  /\ IF import[item.id].status = "AwaitingUpload"
       THEN Upload(item.id) /\ step' \in {"Complete", "Idle"}
       ELSE step' = "Status" /\ UNCHANGED importVars
  /\ UNCHANGED <<vars, item>>

CompleteImport ==
  /\ step = "Complete"
  /\ Complete(item.id)
  /\ \/ /\ item' = [item EXCEPT !.state = import'[item.id].status]
        /\ step' = "Status"
     \/ UNCHANGED item /\ step' = "Idle"
  /\ UNCHANGED vars

\* record_bulk_manifest_result
RecordResult == [item EXCEPT !.result = TRUE, !.state = "ResultReady"]

\* A result that was downloaded before is not downloaded again.
DownloadResult ==
  /\ step = "Result"
  /\ item.result \/ ResultOffered(item.id)
  /\ item' = IF item.result THEN item ELSE RecordResult
  /\ step' = "Apply"
  /\ UNCHANGED <<vars, importVars>>

\* apply_bulk_result_rows: a page of rows with the cursor behind it.
ApplyRows ==
  /\ step = "Apply" /\ item.applied < Len(item.rows)
  /\ IF item.state \in {"ResultReady", "ApplyingResult"}
       THEN /\ LET e == item.rows[item.applied + 1]
               IN  known' = [known EXCEPT ![e.item] = e.rev]
            /\ item' = [item EXCEPT !.state = "ApplyingResult", !.applied = @ + 1]
            /\ UNCHANGED step
       ELSE Close /\ UNCHANGED known
  /\ UNCHANGED <<hist, outbox, failures, keys, sending, upgraded, net, serviceVars, spent>>
  /\ UNCHANGED importVars

\* complete_bulk_manifest: the captured batches have nothing left to do.
CompleteItem ==
  /\ step = "Apply" /\ item.applied = Len(item.rows)
  /\ outbox' = {b \in outbox : b.key \notin item.captured}
  /\ item' = Closing("Applied")
  /\ step' = "Idle"
  /\ UNCHANGED <<hist, known, failures, keys, sending, upgraded, net, serviceVars, spent>>
  /\ UNCHANGED importVars

-----------------------------------------------------------------------------
\* The merge of the worker, in the catalogue of the service.
MergeRows(w) ==
  /\ Merge(w)
  /\ server' = Stored(server, MergedRows(w))
  /\ UNCHANGED <<hist, cliVars, net, answer, spent, bulkVars>>

Work ==
  /\ \/ Recover
     \/ \E m \in Imports : UploadLapses(m) \/ LeaseRunsOut(m) \/ BackoffEnds(m)
     \/ \E m \in Imports : Ignore(m) \/ Abandon(m)
     \/ \E w \in Workers :
          \/ \E m \in Imports : ClaimImport(w, m)
          \/ Stage(w) \/ MarkMerging(w) \/ MarkWriting(w) \/ Finish(w)
          \/ \E retryable \in BOOLEAN : Fail(w, retryable)
          \/ LeaseLost(w) \/ Crash(w)
  /\ UNCHANGED <<vars, bulkVars>>

SendBatch_M == Send /\ step = "Idle"    \* batches do not wait

\* Batches wait while a bulk item stands for some of them.
SendBatch == Send /\ step = "Idle" /\ ~ItemActive

PauseBatch ==
  /\ sending # Idle
  /\ sending' = Idle
  /\ net' = {}
  /\ UNCHANGED <<hist, known, outbox, failures, keys, upgraded, serviceVars, spent>>

BatchSync ==
  /\ \/ \E i \in Items, c \in Revisions \cup {Absent} : Edit(i, c)
     \/ step = "Idle" /\ \E unread \in SUBSET Items : Scan(unread)
     \/ SendBatch \/ PauseBatch \/ Receive
     \/ \E b \in net : Execute(b)
  /\ UNCHANGED <<importVars, bulkVars>>

ItemSync ==
  \/ \E batches \in SUBSET outbox : Capture(batches)
  \/ Resume \/ Escape \/ GiveUp \/ Unusable
  \/ CreateImport \/ Status \/ UploadManifest \/ CompleteImport
  \/ DownloadResult \/ ApplyRows \/ CompleteItem

BulkNext == BatchSync \/ ItemSync \/ Work \/ \E w \in Workers : MergeRows(w)

BulkSpec == BulkInit /\ [][BulkNext]_allVars

=============================================================================
