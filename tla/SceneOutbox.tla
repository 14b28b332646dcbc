----------------------------- MODULE SceneOutbox -----------------------------
(***************************************************************************)
(* The scene descriptions of one Local source, from the CLI that stages    *)
(* the previews to the service that owns the jobs: DescriptionOutbox       *)
(* (cli/imagetracker_cli/state.py) and the part of the sync that prepares, *)
(* stages, skips and follows its tasks (sync.py), composed with SceneJobs. *)
(*                                                                         *)
(* A task is a row of SQLite.  What the sync holds in memory is step: the  *)
(* call it is about to make, forgotten when the process ends.  A call is   *)
(* one action, with the transaction it causes; Fail and Stop let its       *)
(* answer get lost.  The calls carry idempotency keys, and a request whose *)
(* key is recorded is answered from the record.                            *)
(***************************************************************************)
EXTENDS SceneJobs

CONSTANTS
  MaxFaults,     \* bound: calls that fail, syncs that end, leases that lapse
  MaxCommands    \* bound: commands of the owner

ASSUME FaultsAssumption == MaxFaults \in Nat /\ MaxCommands \in Nat

VARIABLES
  task,       \* DescriptionOutbox rows
  step,       \* the sync: its next call
  plans,      \* records of upload plans, under the keys of the current attempt
  completed,  \* records of completions
  cancelled,  \* records of skips
  retried,    \* records of `jobs retry`
  offered,    \* records of prepare_enrichment whose key is still in use
  spent       \* faults and commands so far

cliVars == <<task, step, plans, completed, cancelled, retried, offered, spent>>
allVars == <<vars, cliVars>>

(* "Confirmed" is the state Sent without a next check.                     *)
TaskState ==
  {"None", "Pending", "Deferred", "Sent", "Confirmed", "Failed", "Skipped"}

Plan == [kind : {"LeaseHeld", "Deferred", "UploadRequired"},
         up : {None} \cup UploadIds]
NoPlan == [kind |-> "None", up |-> None]

Call == {"idle", "queue", "plan", "session", "put", "complete", "finish",
         "swap", "look", "skip", "checked"}
Waiting == [call |-> "idle", photo |-> NoPhoto, up |-> None, second |-> 0,
            seen |-> "None"]

OutboxTypeOK ==
  /\ TypeOK
  /\ task \in [Photos -> TaskState]
  /\ step \in [call : Call, photo : Photos \cup {NoPhoto},
               up : {None} \cup UploadIds, second : 0..1, seen : JobStatus]
  /\ plans \in [Photos -> [0..1 -> Plan \cup {NoPlan}]]
  /\ completed \in [Photos -> SUBSET UploadIds]
  /\ cancelled \subseteq Photos
  /\ retried \in [Photos -> SUBSET (JobStatus \X (0..MaxAttempts))]
  /\ offered \subseteq Photos
  /\ spent \in [faults : 0..MaxFaults, commands : 0..MaxCommands]

OutboxInit ==
  /\ Init
  /\ task = [p \in Photos |-> "None"]
  /\ step = Waiting
  /\ plans = [p \in Photos |-> [n \in 0..1 |-> NoPlan]]
  /\ completed = [p \in Photos |-> {}]
  /\ cancelled = {}
  /\ retried = [p \in Photos |-> {}]
  /\ offered = {}
  /\ spent = [faults |-> 0, commands |-> 0]

records == <<plans, completed, cancelled, retried, offered>>

-----------------------------------------------------------------------------
(* What a call comes to. *)

At(p, call) == step.call = call /\ step.photo = p
Goes(call) == step' = [step EXCEPT !.call = call]

(* The attempt is over: its count goes up, and with it the plan's key.     *)
Ends_M(p, state) ==        \* the count is left alone
  task' = [task EXCEPT ![p] = state] /\ step' = Waiting /\ UNCHANGED plans
Ends(p, state) ==
  /\ task' = [task EXCEPT ![p] = state]
  /\ plans' = [plans EXCEPT ![p] = [n \in 0..1 |-> NoPlan]]
  /\ step' = Waiting

MarkSent(p) == Ends(p, "Sent")
Quarantine(p) == Ends(p, "Failed")
Defer(p) == Ends(p, "Pending")

(* retry_description and the changes that are not an attempt.              *)
Becomes(p, state) == task' = [task EXCEPT ![p] = state] /\ step' = Waiting

(* A closed or missing upload is replaced once in an attempt.              *)
Replace(p) ==
  IF step.second = 0
    THEN /\ step' = [step EXCEPT !.call = "plan", !.up = None, !.second = 1]
         /\ UNCHANGED <<task, plans>>
    ELSE Defer(p)

-----------------------------------------------------------------------------
(* _prepare_enrichment: the key is kept until the tasks are in the outbox, *)
(* so a repetition is answered with the tasks of the first execution.      *)
Prepare(p) ==
  /\ step.call = "idle"
  /\ IF p \in offered THEN UNCHANGED <<vars, offered>>
     ELSE /\ DescriptionActionable(p)
          /\ PrepareEnrichment(p, FALSE)
          /\ offered' = offered \cup {p}
  /\ step' = [Waiting EXCEPT !.call = "queue", !.photo = p]
  /\ UNCHANGED <<task, plans, completed, cancelled, retried, spent>>

(* queue_scene_description_tasks *)
QueueTask(p) ==
  /\ At(p, "queue")
  /\ Becomes(p, IF task[p] \in {"None", "Deferred", "Failed", "Skipped"}
                  THEN "Pending" ELSE task[p])
  /\ offered' = offered \ {p}
  /\ UNCHANGED <<vars, plans, completed, cancelled, retried, spent>>

(* A due task.  The photo is read before anything is asked of the service. *)
Begin(p, call) ==
  /\ step.call = "idle"
  /\ task[p] \in {"Pending", "Deferred"}
  /\ step' = [Waiting EXCEPT !.call = call, !.photo = p]
  /\ UNCHANGED <<vars, task, records, spent>>

PhotoUnreadable(p) ==
  /\ step.call = "idle"
  /\ task[p] \in {"Pending", "Deferred"}
  /\ Defer(p)
  /\ UNCHANGED <<vars, completed, cancelled, retried, offered, spent>>

(* The answer to an upload plan that was just executed.                    *)
Planned(p) ==
  LET open == {n \in UploadIds : upload'[p][n] = "Uploading"} IN
  [kind |-> IF job'[p].status = "DeferredQuota" THEN "Deferred"
            ELSE IF LeaseHeld(p) THEN "LeaseHeld" ELSE "UploadRequired",
   up |-> IF open = {} THEN None ELSE CHOOSE n \in open : TRUE]

(* An account-wide refusal defers whatever else is due.                    *)
DeferAll(p) ==
  /\ \E due \in SUBSET {q \in Photos : task[q] \in {"Pending", "Deferred"}} :
       task' = [q \in Photos |-> IF q \in due \cup {p} THEN "Deferred" ELSE task[q]]
  /\ plans' = [plans EXCEPT ![p] = [n \in 0..1 |-> NoPlan]]
  /\ step' = Waiting

Follow(p, plan) ==
  IF plan.kind = "Deferred" THEN DeferAll(p)
  ELSE /\ step' = [step EXCEPT !.up = plan.up,
                     !.call = IF plan.kind = "LeaseHeld" THEN "session" ELSE "put"]
       /\ plans' = [plans EXCEPT ![p][step.second] = plan]
       /\ UNCHANGED task

RequestPlan(p) ==
  /\ At(p, "plan")
  /\ \/ /\ plans[p][step.second] # NoPlan
        /\ Follow(p, plans[p][step.second])
        /\ UNCHANGED vars
     \/ /\ plans[p][step.second] = NoPlan
        /\ CreateUploadPlan(p)
        /\ Follow(p, Planned(p))
     \/ /\ plans[p][step.second] = NoPlan
        /\ UNCHANGED vars
        /\ \/ p \notin active /\ Quarantine(p)
           \/ /\ p \in active /\ job[p].status # "Preparing" /\ ~Due(p)
              /\ Goes("look") /\ UNCHANGED <<task, plans>>
  /\ UNCHANGED <<completed, cancelled, retried, offered, spent>>

(* The lease of an earlier, interrupted attempt.                           *)
AskSession(p) ==
  LET n == step.up IN
  /\ At(p, "session")
  /\ GetUploadSession(p, n) \/ (upload[p][n] # "Lapsed" /\ UNCHANGED vars)
  /\ \/ upload'[p][n] = "Completed" /\ MarkSent(p)
     \/ upload'[p][n] = "Uploading" /\ Goes("finish") /\ UNCHANGED <<task, plans>>
     \/ upload'[p][n] \in {"Cancelled", "Expired"} /\ Replace(p)
  /\ UNCHANGED <<completed, cancelled, retried, offered, spent>>

(* The signed PUT.  The URL is not tied to the session: it may be one of a *)
(* replayed plan whose session is over.                                    *)
PutSigned(p) ==
  /\ At(p, "put")
  /\ object' = [object EXCEPT ![p] = @ \cup {step.up}]
  /\ Goes("complete")
  /\ UNCHANGED <<month, active, described, job, ledger, upload, queue, worker,
                 history, task, records, spent>>

(* It failed, or the URL is out of date: the session is cancelled, if the  *)
(* service can be reached and allows it, and the photo waits.              *)
PutFails(p) ==
  /\ At(p, "put")
  /\ spent.faults < MaxFaults
  /\ CancelUpload(p, step.up) \/ UNCHANGED vars
  /\ Defer(p)
  /\ spent' = [spent EXCEPT !.faults = @ + 1]
  /\ UNCHANGED <<completed, cancelled, retried, offered>>

(* _complete_preview_upload, after a PUT or for an earlier attempt's.      *)
Refused(p, n) ==
  IF upload[p][n] # "Uploading" THEN "UploadNotCompletable"
  ELSE IF job[p].status # "Preparing" THEN "ProcessingJobNotPreparing"
  ELSE IF n \notin object[p] THEN "UploadedObjectNotFound"
  ELSE "None"

Complete(p) ==
  LET n == step.up
      answered == n \in completed[p] \/ upload[p][n] = "Completed"
  IN
  /\ At(p, "complete") \/ At(p, "finish")
  /\ \/ /\ answered /\ MarkSent(p)
        /\ UNCHANGED <<vars, completed>>
     \/ /\ ~answered /\ CompleteUpload(p, n)
        /\ MarkSent(p)
        /\ completed' = [completed EXCEPT ![p] = @ \cup {n}]
     \/ /\ ~answered
        /\ UNCHANGED <<vars, completed>>
        /\ \/ Refused(p, n) = "UploadNotCompletable" /\ Quarantine(p)
           \/ /\ Refused(p, n) = "ProcessingJobNotPreparing"
              /\ Goes("look") /\ UNCHANGED <<task, plans>>
           \/ /\ Refused(p, n) = "UploadedObjectNotFound"
              /\ Goes("swap") /\ UNCHANGED <<task, plans>>
  /\ UNCHANGED <<cancelled, retried, offered, spent>>

(* The preview of the earlier attempt never arrived.  A refusal to cancel  *)
(* says that the job has been queued.                                      *)
Swap(p) ==
  LET n == step.up IN
  /\ At(p, "swap")
  /\ \/ CancelUpload(p, n) /\ Replace(p)
     \/ /\ UNCHANGED vars
        /\ \/ upload[p][n] = "Cancelled" /\ Replace(p)
           \/ /\ upload[p][n] # "Cancelled"
              /\ upload[p][n] = "Completed" \/ job[p].status # "Preparing"
              /\ MarkSent(p)
  /\ UNCHANGED <<completed, cancelled, retried, offered, spent>>

(* _reconcile_not_preparing *)
Look(p) ==
  /\ At(p, "look")
  /\ \/ job[p].status \in {"Succeeded", "Queued", "Running"} /\ MarkSent(p)
     \/ job[p].status \in {"Failed", "Cancelled"} /\ Quarantine(p)
     \/ job[p].status \in {"DeferredQuota", "Preparing"} /\ Defer(p)
  /\ UNCHANGED <<vars, completed, cancelled, retried, offered, spent>>

(* _skip_description *)
Skip(p) ==
  /\ At(p, "skip")
  /\ \/ /\ p \in cancelled \/ job[p].status = "Cancelled"
        /\ UNCHANGED vars
     \/ /\ p \notin cancelled
        /\ CancelJob(p)
  /\ cancelled' = cancelled \cup {p}
  /\ Becomes(p, "Skipped")
  /\ UNCHANGED <<plans, completed, retried, offered, spent>>

SkipRefused(p) ==
  /\ At(p, "skip")
  /\ p \notin cancelled /\ job[p].status = "Succeeded"
  /\ Defer(p)
  /\ UNCHANGED <<vars, completed, cancelled, retried, offered, spent>>

(* _reconcile_sent_descriptions: the job is read, then the task is         *)
(* changed; the owner may have retried it in between.                      *)
Check(p) ==
  /\ step.call = "idle"
  /\ task[p] = "Sent"
  /\ step' = [Waiting EXCEPT !.call = "checked", !.photo = p,
                             !.seen = job[p].status]
  /\ UNCHANGED <<vars, task, records, spent>>

Checked_M(p) ==            \* a job that runs is taken for done
  /\ At(p, "checked")
  /\ Becomes(p, IF step.seen \in {"Running", "Succeeded"} THEN "Confirmed" ELSE task[p])
  /\ UNCHANGED <<vars, records, spent>>
Checked_MF(p) ==           \* the failure of a job is not looked for
  /\ At(p, "checked")
  /\ Becomes(p, CASE step.seen = "Succeeded" -> "Confirmed"
                  [] step.seen = "Preparing" -> "Pending"
                  [] OTHER -> task[p])
  /\ UNCHANGED <<vars, records, spent>>
Checked(p) ==
  /\ At(p, "checked")
  /\ \/ step.seen = "Succeeded"
        /\ Becomes(p, IF task[p] = "Sent" THEN "Confirmed" ELSE task[p])
     \/ step.seen = "Preparing" /\ Becomes(p, "Pending")
     \/ step.seen \in {"Failed", "Cancelled"} /\ Becomes(p, "Failed")
     \/ /\ step.seen \in {"Queued", "Running", "DeferredQuota"}
        /\ step' = Waiting /\ UNCHANGED task
  /\ UNCHANGED <<vars, records, spent>>

(* A call is answered by a transient error, or not at all, or the sync is  *)
(* ended: the service may or may not have executed it.                     *)
Executed(p) ==
  LET n == step.up IN
  \/ UNCHANGED <<vars, completed, cancelled>>
  \/ /\ At(p, "complete") \/ At(p, "finish")
     /\ CompleteUpload(p, n)
     /\ completed' = [completed EXCEPT ![p] = @ \cup {n}]
     /\ UNCHANGED cancelled
  \/ /\ At(p, "swap") /\ CancelUpload(p, n)
     /\ UNCHANGED <<completed, cancelled>>
  \/ /\ At(p, "skip") /\ p \notin cancelled /\ CancelJob(p)
     /\ cancelled' = cancelled \cup {p}
     /\ UNCHANGED completed

Fails ==
  /\ spent.faults < MaxFaults
  /\ spent' = [spent EXCEPT !.faults = @ + 1]

Fail(p) ==
  /\ Fails
  /\ step.call \in {"plan", "session", "complete", "finish", "swap", "look", "skip"}
  /\ step.photo = p
  /\ Executed(p)
  /\ Defer(p)
  /\ UNCHANGED <<retried, offered>>

Stop(p) ==
  /\ Fails
  /\ step.call # "idle" /\ step.photo = p
  /\ \/ Executed(p) /\ UNCHANGED plans
     \/ /\ At(p, "plan") /\ plans[p][step.second] = NoPlan
        /\ CreateUploadPlan(p)
        /\ plans' = [plans EXCEPT ![p][step.second] = Planned(p)]
        /\ UNCHANGED <<completed, cancelled>>
  /\ step' = Waiting
  /\ UNCHANGED <<task, retried, offered>>

-----------------------------------------------------------------------------
(* The commands of the owner, beside a sync that may be running.           *)
Command ==
  /\ spent.commands < MaxCommands
  /\ spent' = [spent EXCEPT !.commands = @ + 1]

(* retry_all_deferred_descriptions *)
RetryAllDeferred(tasks) ==
  [p \in Photos |-> IF tasks[p] = "Deferred" THEN "Pending" ELSE tasks[p]]

(* `jobs retry`, whose key names the status and the attempts of the job:   *)
(* when both are what they were before, the service does nothing again.    *)
(* A refusal of the whole account is retried for every deferred task.      *)
JobsRetry(p) ==
  LET key == <<job[p].status, job[p].attempt>>
      pending == [task EXCEPT ![p] = "Pending"] IN
  /\ task[p] # "None"
  /\ \/ job[p].code # "CircuitOpen" /\ task' = pending
     \/ task' = RetryAllDeferred(pending)
  /\ \/ key \in retried[p] /\ UNCHANGED <<vars, retried, spent>>
     \/ /\ key \notin retried[p] /\ Command
        /\ RetryJob(p)
        /\ retried' = [retried EXCEPT ![p] = @ \cup {key}]
  /\ UNCHANGED <<step, plans, completed, cancelled, offered>>

(* `outbox retry-description` *)
OutboxRetry(p) ==
  /\ Command
  /\ task[p] \in {"Failed", "Deferred", "Skipped"}
  /\ task' = [task EXCEPT ![p] = "Pending"]
  /\ UNCHANGED <<vars, step, records>>

(* The photo is deleted from the folder, and a sync has reported it. *)
Remove(p) ==
  /\ Command
  /\ Trash(p)
  /\ UNCHANGED <<task, step, records>>

(* _recover_supported_description_skips, after an upgrade of the CLI.      *)
RecoverSkip(p) ==
  /\ Command
  /\ step.call = "idle"
  /\ task[p] = "Skipped"
  /\ RetryJob(p)
  /\ task' = [task EXCEPT ![p] = "Pending"]
  /\ UNCHANGED <<step, records>>

-----------------------------------------------------------------------------
Sync(p) ==
  \/ Prepare(p) \/ QueueTask(p)
  \/ Begin(p, "plan") \/ Begin(p, "skip") \/ PhotoUnreadable(p)
  \/ RequestPlan(p) \/ AskSession(p) \/ PutSigned(p) \/ PutFails(p)
  \/ Complete(p) \/ Swap(p) \/ Look(p) \/ Skip(p) \/ SkipRefused(p)
  \/ Check(p) \/ Checked(p) \/ Fail(p) \/ Stop(p)

(* The service, its worker and the folder, as in SceneJobs. *)
Lapse(p, n) ==
  /\ spent.faults < MaxFaults
  /\ UploadLapses(p, n)
  /\ spent' = [spent EXCEPT !.faults = @ + 1]
  /\ UNCHANGED <<task, step, records>>

Elsewhere ==
  /\ \/ \E w \in Workers : \/ \E m \in queue : Claim(w, m)
                           \/ WorkerStep(w)
                           \/ Crash(w)
                           \/ \E p \in Photos, arrives \in BOOLEAN :
                                Sweep(w, p, arrives)
     \/ \E p \in Photos : LeaseExpires(p)
  /\ UNCHANGED cliVars

OutboxNext ==
  \/ \E p \in Photos : Sync(p)
  \/ \E p \in Photos : JobsRetry(p) \/ OutboxRetry(p) \/ RecoverSkip(p) \/ Remove(p)
  \/ \E p \in Photos, n \in UploadIds : Lapse(p, n)
  \/ Elsewhere

OutboxSpec == OutboxInit /\ [][OutboxNext]_allVars

(* The owner goes on running `enrich`, a photo that can be read is read in *)
(* some run, and a call that is made is answered (Fail is bounded).        *)
OutboxFairness ==
  /\ \A p \in Photos :
       /\ SF_allVars(Prepare(p)) /\ WF_allVars(QueueTask(p))
       /\ SF_allVars(Begin(p, "plan"))
       /\ SF_allVars(Check(p)) /\ WF_allVars(Checked(p))
       /\ WF_allVars(RequestPlan(p) \/ AskSession(p) \/ PutSigned(p)
                      \/ Complete(p) \/ Swap(p) \/ Look(p)
                      \/ Skip(p) \/ SkipRefused(p))

OutboxFairSpec == OutboxSpec /\ OutboxFairness

-----------------------------------------------------------------------------
(* A task is followed until the service has its description: the check is  *)
(* dropped for good by confirm_description_complete, and never for a job   *)
(* that was only queued, deferred or cancelled, whatever the worker, the   *)
(* owner and late messages made of it since its status was read.           *)
ConfirmedIsDescribed ==
  \A p \in Photos : task[p] = "Confirmed" => p \in described

(* A job that waits for its preview gets past that, however the sync that  *)
(* stages it was interrupted: after lost answers, replayed plans, lapsed   *)
(* leases, previews that never arrived and uploads that an earlier attempt *)
(* left open (_stage_description).                                         *)
PreparedIsStaged ==
  \A p \in Photos :
    job[p].status = "Preparing" ~> job[p].status # "Preparing" \/ p \notin active

(* A task that was sent learns how its job ended, or that the service      *)
(* wants another preview (_reconcile_sent_descriptions).                   *)
OutcomeIsLearnt ==
  \A p \in Photos :
    task[p] = "Sent" /\ job[p].status \in {"Succeeded", "Failed", "Cancelled", "Preparing"}
      ~> task[p] # "Sent" \/ job[p].status \notin {"Succeeded", "Failed", "Cancelled", "Preparing"}
=============================================================================
