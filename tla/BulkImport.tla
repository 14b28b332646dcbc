------------------------------ MODULE BulkImport ------------------------------
(***************************************************************************)
(* The service's side of a bulk manifest import: the API that creates it   *)
(* and queues it once its file is uploaded (services/api/                  *)
(* manifest_import_service.py), and the worker that stages, merges and     *)
(* answers it phase by phase under a lease (services/bulk).                *)
(*                                                                         *)
(* A message names an import and may be delivered again and again; the     *)
(* recovery schedule publishes another for every import that is due.  A    *)
(* message is delivered again only after the invocation that had it is     *)
(* over, so a worker stands for the message it was invoked with, whose id  *)
(* is the identity of the lease.  The marker that makes the active import  *)
(* of a source unique follows the status and is not a field of its own.    *)
(***************************************************************************)
EXTENDS ManifestOutbox

CONSTANTS Imports, Workers, Nobody, MaxAttempts

ASSUME ImportAssumption == Nobody \notin Workers

VARIABLES
  import,      \* ManifestImport, with its staged rows
  uploaded,    \* imports whose input object is in the store
  messages,    \* imports with a message in the queue
  worker       \* the claim an invocation works on

importVars == <<import, uploaded, messages, worker>>

Terminal == {"Succeeded", "CompletedWithErrors", "FailedPermanent", "Expired"}
Statuses == {"None", "AwaitingUpload", "Queued", "Running", "RetryDue"} \cup Terminal
Phases == {"Waiting", "Downloading", "Staged", "Merging", "Merged", "WritingResult", "Complete"}

ImportRow == [status : Statuses, phase : Phases, attempts : Nat,
              lease : Workers \cup {Nobody},
              live : BOOLEAN,            \* the lease has not run out
              due : BOOLEAN,             \* the next attempt is due
              lapsed : BOOLEAN,          \* the upload has expired
              rows : Seq(Entry),         \* of the input object
              staged : BOOLEAN,          \* the rows are in the stage
              result : BOOLEAN]          \* the result object is written

Steps == {"Download", "Mark", "Merge", "Write", "Finish"}
Claim == [import : Imports, step : Steps]

NewImport == [status |-> "None", phase |-> "Waiting", attempts |-> 0, lease |-> Nobody,
              live |-> FALSE, due |-> FALSE, lapsed |-> FALSE, rows |-> <<>>,
              staged |-> FALSE, result |-> FALSE]

\* A row that is not worked on any more keeps its outcome.
Closed(status) == [NewImport EXCEPT !.status = status, !.phase = "Complete"]

ImportTypeOK ==
  /\ import \in [Imports -> ImportRow]
  /\ uploaded \subseteq Imports
  /\ messages \subseteq Imports
  /\ worker \in [Workers -> Claim \cup {Nobody}]

ImportInit ==
  /\ import = [m \in Imports |-> NewImport]
  /\ uploaded = {} /\ messages = {}
  /\ worker = [w \in Workers |-> Nobody]

-----------------------------------------------------------------------------
(* The API. *)

Active(m) == import[m].status \in {"AwaitingUpload", "Queued", "Running", "RetryDue"}

Lapsed(m) == import[m].status = "AwaitingUpload" /\ import[m].lapsed

CreateAllowed_M(m) == TRUE              \* the source's imports are not compared
\* Another import of the source is refused, unless its upload has expired.
CreateAllowed(m) == \A n \in Imports \ {m} : Active(n) => Lapsed(n)

\* create, and its repetition under the same key.
Create(m, rows) ==
  /\ import' = [n \in Imports |->
       IF n = m
         THEN CASE import[m].status = "None" ->
                     [NewImport EXCEPT !.status = "AwaitingUpload", !.rows = rows]
                [] import[m].status = "AwaitingUpload" -> [import[m] EXCEPT !.lapsed = FALSE]
                [] OTHER -> import[m]
         ELSE IF import[m].status = "None" /\ Lapsed(n)
                THEN Closed("Expired")
                ELSE import[n]]
  /\ UNCHANGED <<uploaded, messages, worker>>

\* A fresh signed request, and the upload made with it.
Upload(m) ==
  /\ import[m].status = "AwaitingUpload"
  /\ import' = [import EXCEPT ![m].lapsed = FALSE]
  /\ uploaded' = uploaded \cup {m}
  /\ UNCHANGED <<messages, worker>>

\* complete: the object is there as declared.  The message may not be sent.
Complete(m) ==
  /\ m \in uploaded
  /\ IF import[m].status = "AwaitingUpload"
       THEN /\ import' = [import EXCEPT ![m].status = "Queued", ![m].due = TRUE]
            /\ messages' \in {messages, messages \cup {m}}
       ELSE UNCHANGED <<import, messages>>
  /\ UNCHANGED <<uploaded, worker>>

UploadLapses(m) ==
  /\ import[m].status = "AwaitingUpload" /\ ~import[m].lapsed
  /\ import' = [import EXCEPT ![m].lapsed = TRUE]
  /\ UNCHANGED <<uploaded, messages, worker>>

\* get, and the download that result offers of an import that is over.
StatusOf(m) == import[m].status
ResultOffered(m) ==
  import[m].status \in {"Succeeded", "CompletedWithErrors"} /\ import[m].result

-----------------------------------------------------------------------------
(* Time, and the recovery schedule. *)

LeaseRunsOut(m) ==
  /\ import[m].status = "Running" /\ import[m].live
  /\ import' = [import EXCEPT ![m].live = FALSE]
  /\ UNCHANGED <<uploaded, messages, worker>>

BackoffEnds(m) ==
  /\ import[m].status = "RetryDue" /\ ~import[m].due
  /\ import' = [import EXCEPT ![m].due = TRUE]
  /\ UNCHANGED <<uploaded, messages, worker>>

\* due_import_ids, and the dispatch of what it finds.
Due(m) ==
  \/ import[m].status \in {"Queued", "RetryDue"} /\ import[m].due
  \/ import[m].status = "Running" /\ ~import[m].live

Recover ==
  /\ ~{m \in Imports : Due(m)} \subseteq messages
  /\ messages' = messages \cup {m \in Imports : Due(m)}
  /\ UNCHANGED <<import, uploaded, worker>>

-----------------------------------------------------------------------------
(* The worker. *)

Acknowledge(m) == messages' = messages \ {m}

\* claim returns nothing, and the message is dropped.
Ignore(m) ==
  /\ m \in messages
  /\ ~Due(m)
  /\ messages' = messages \ {m}
  /\ UNCHANGED <<import, uploaded, worker>>

\* claim finds the account closed, the source removed or no longer Local, or
\* the attempts used up.
Abandon(m) ==
  /\ m \in messages /\ Due(m)
  /\ import' = [import EXCEPT ![m] = Closed("FailedPermanent")]
  /\ Acknowledge(m)
  /\ UNCHANGED <<uploaded, worker>>

FirstStep(phase) ==
  CASE phase \in {"Staged", "Merging"} -> "Mark"
    [] phase \in {"Merged", "WritingResult"} -> "Write"
    [] OTHER -> "Download"

ClaimImport(w, m) ==
  /\ worker[w] = Nobody
  /\ m \in messages /\ Due(m)
  /\ import[m].attempts < MaxAttempts
  /\ import' = [import EXCEPT
       ![m].status = "Running", ![m].attempts = @ + 1,
       ![m].lease = w, ![m].live = TRUE, ![m].due = FALSE,
       ![m].phase = IF FirstStep(@) = "Download" THEN "Downloading" ELSE @]
  /\ worker' = [worker EXCEPT ![w] = [import |-> m, step |-> FirstStep(import[m].phase)]]
  /\ UNCHANGED <<uploaded, messages>>

\* _require_lease
Leased(w) ==
  /\ worker[w] # Nobody
  /\ LET row == import[worker[w].import]
     IN  row.status = "Running" /\ row.lease = w /\ row.live

Progress(w, step, row) ==
  /\ import' = [import EXCEPT ![worker[w].import] = row]
  /\ worker' = [worker EXCEPT ![w].step = step]
  /\ UNCHANGED <<uploaded, messages>>

Own(w) == import[worker[w].import]

\* load_stage: what an earlier attempt has staged is replaced.
Stage(w) ==
  /\ Leased(w) /\ worker[w].step = "Download"
  /\ Progress(w, "Mark", [Own(w) EXCEPT !.phase = "Staged", !.staged = TRUE])

MarkMerging(w) ==
  /\ Leased(w) /\ worker[w].step = "Mark"
  /\ Own(w).phase \in {"Staged", "Merging"}
  /\ Progress(w, "Merge", [Own(w) EXCEPT !.phase = "Merging"])

\* merge: one transaction brings the rows that are valid into the catalogue.
Merge(w) ==
  /\ Leased(w) /\ worker[w].step = "Merge"
  /\ Own(w).phase \in {"Staged", "Merging"}
  /\ Progress(w, "Write", [Own(w) EXCEPT !.phase = "Merged"])

RejectedRows(m) == {e \in Range(import[m].rows) : <<e.item, e.rev>> \in Rejected}

MergedRows(w) ==
  IF Own(w).staged THEN Range(Own(w).rows) \ RejectedRows(worker[w].import) ELSE {}

MarkWriting(w) ==
  /\ Leased(w) /\ worker[w].step = "Write"
  /\ Own(w).phase \in {"Merged", "WritingResult"}
  /\ Progress(w, "Finish", [Own(w) EXCEPT !.phase = "WritingResult"])

\* The result is written from the stage, which is then released.
Finish(w) ==
  /\ Leased(w) /\ worker[w].step = "Finish"
  /\ Own(w).phase \in {"Merged", "WritingResult"}
  /\ import' = [import EXCEPT ![worker[w].import] =
       [Closed(IF RejectedRows(worker[w].import) = {} THEN "Succeeded"
                                                      ELSE "CompletedWithErrors")
          EXCEPT !.result = Own(w).staged]]
  /\ worker' = [worker EXCEPT ![w] = Nobody]
  /\ Acknowledge(worker[w].import)
  /\ UNCHANGED uploaded

Fail_M(w, retryable) ==                 \* a retry starts with an empty stage
  /\ worker[w] # Nobody
  /\ LET m   == worker[w].import
         row == import[m]
     IN  /\ import' = IF row.lease # w THEN import
                      ELSE IF retryable /\ row.attempts < MaxAttempts
                        THEN [import EXCEPT ![m] = [@ EXCEPT
                               !.status = "RetryDue", !.staged = FALSE,
                               !.lease = Nobody, !.live = FALSE]]
                      ELSE [import EXCEPT ![m] = Closed("FailedPermanent")]
         /\ Acknowledge(m)
  /\ worker' = [worker EXCEPT ![w] = Nobody]
  /\ UNCHANGED uploaded

\* An error: fail writes the outcome if the lease is still this worker's.
Fail(w, retryable) ==
  /\ worker[w] # Nobody
  /\ LET m   == worker[w].import
         row == import[m]
     IN  /\ import' = IF row.lease # w THEN import
                      ELSE IF retryable /\ row.attempts < MaxAttempts
                        THEN [import EXCEPT ![m] = [@ EXCEPT
                               !.status = "RetryDue", !.due = FALSE,
                               !.lease = Nobody, !.live = FALSE]]
                      ELSE [import EXCEPT ![m] = Closed("FailedPermanent")]
         /\ Acknowledge(m)
  /\ worker' = [worker EXCEPT ![w] = Nobody]
  /\ UNCHANGED uploaded

\* The lease is found lost: the invocation ends and changes nothing.
LeaseLost(w) ==
  /\ worker[w] # Nobody /\ ~Leased(w)
  /\ worker' = [worker EXCEPT ![w] = Nobody]
  /\ Acknowledge(worker[w].import)
  /\ UNCHANGED <<import, uploaded>>

\* The invocation ends half-way; its message comes back.
Crash(w) ==
  /\ worker[w] # Nobody
  /\ worker' = [worker EXCEPT ![w] = Nobody]
  /\ messages' = messages \cup {worker[w].import}
  /\ UNCHANGED <<import, uploaded>>

-----------------------------------------------------------------------------
\* At most one import of the source is active.
OneActive == \A m, n \in Imports : Active(m) /\ Active(n) => m = n

\* Whatever attempt picks an import up finds the rows its phase relies on: the
\* stage is released only with the last attempt or with the result.
StageKept ==
  \A m \in Imports :
    /\ Active(m) /\ import[m].phase \in {"Staged", "Merging", "Merged", "WritingResult"}
         => import[m].staged
    /\ import[m].status \in {"Succeeded", "CompletedWithErrors"} => import[m].result
=============================================================================
