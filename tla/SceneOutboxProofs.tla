-------------------------- MODULE SceneOutboxProofs --------------------------
(***************************************************************************)
(* Theorems of the scene pipeline with the client that drives it           *)
(* (OutboxSpec), for any photos, workers, messages, sessions and months    *)
(* and any bounds on faults and commands: types, and a task that counts as *)
(* done only when its photo has a description; and what ScenePreviewProofs *)
(* shows of the service, which this client keeps although it adds a step   *)
(* of its own, the PUT that is repeated from a replayed plan.              *)
(*                                                                         *)
(* ConfirmedIsDescribed follows the chain from the description to the job  *)
(* (SuccessDescribed: a job that succeeded has left one), from the job to  *)
(* the status a sync has read (StepOK), and from there to the task         *)
(* (TaskOK); no description is ever taken back.                            *)
(***************************************************************************)
EXTENDS SceneOutbox, ScenePreviewProofs

(* A job is over with a description only when its photo has one. *)
SuccessDescribed == \A p \in Photos : job[p].status = "Succeeded" => p \in described

(* What a step does to that: a status is reached with its description, and *)
(* no description is taken back.                                           *)
DescribesOnly ==
  /\ described \subseteq described'
  /\ \A p \in Photos : job'[p].status = "Succeeded" =>
       job[p].status = "Succeeded" \/ p \in described'

LEMMA ClientDescribes ==
  ASSUME IInv, NEW p \in Photos, Client(p)
  PROVE  DescribesOnly
<1>1. UNCHANGED described
  BY DEF Client, PrepareEnrichment, CreateUploadPlan, PutPreview, GetUploadSession,
     CompleteUpload, CancelUpload, RetryJob, CancelJob, Trash, Restore
<1>2. ASSUME NEW geo \in BOOLEAN, PrepareEnrichment(p, geo)
      PROVE  DescribesOnly
  BY <1>1, <1>2, PrepareTurn DEF DescribesOnly
<1>3. CASE CreateUploadPlan(p)
  BY <1>1, <1>3, PlanTurn DEF DescribesOnly, Course
<1>4. ASSUME NEW n \in UploadIds, GetUploadSession(p, n)
      PROVE  DescribesOnly
  BY <1>1, <1>4, GetSessionTurn DEF DescribesOnly, Course
<1>5. ASSUME NEW n \in UploadIds, CompleteUpload(p, n)
      PROVE  DescribesOnly
  BY <1>1, <1>5, CompleteUploadTurn DEF DescribesOnly
<1>6. ASSUME NEW n \in UploadIds, CancelUpload(p, n)
      PROVE  DescribesOnly
  BY <1>1, <1>6, CancelUploadTurn DEF DescribesOnly, Course
<1>7. CASE RetryJob(p)
  BY <1>1, <1>7, RetryTurn DEF DescribesOnly, Course
<1>8. CASE CancelJob(p) \/ Trash(p)
  BY <1>1, <1>8, CancelTurn DEF DescribesOnly, Course
<1>9. CASE Restore(p) \/ \E n \in UploadIds : PutPreview(p, n)
  BY <1>1, <1>9 DEF DescribesOnly, Restore, PutPreview
<1> QED
  BY <1>2, <1>3, <1>4, <1>5, <1>6, <1>7, <1>8, <1>9 DEF Client

LEMMA WorkerDescribes ==
  ASSUME IInv, NEW w \in Workers, WorkerStep(w)
  PROVE  DescribesOnly
<1>1. CASE \/ FailBeforeReserving(w) \/ DeferRefused(w)
           \/ CredentialUnavailable(w) \/ HandleProviderFailure(w)
  <2>1. /\ worker[w].phase # "idle" /\ UNCHANGED described
        /\ \E called \in BOOLEAN : \E answer :
             FailDescription(w, answer, called) \/ DeferDescription(w, called)
    BY <1>1 DEF FailBeforeReserving, DeferRefused, CredentialUnavailable,
       HandleProviderFailure, workerOnly
  <2>2. PICK called \in BOOLEAN : \E answer :
          FailDescription(w, answer, called) \/ DeferDescription(w, called)
    BY <2>1
  <2>3. PICK answer :
          FailDescription(w, answer, called) \/ DeferDescription(w, called)
    BY <2>2
  <2> QED
    BY <2>1, <2>3, FailTurn DEF DescribesOnly, Course, Parked
<1>2. CASE ReserveProviderCall(w) \/ ConsumeProviderCall(w)
  BY <1>2, ReserveCallTurn, ConsumeTurn
     DEF DescribesOnly, Course, ReserveProviderCall, ConsumeProviderCall, workerOnly
<1>3. CASE CallAny(w) \/ Acknowledge(w) \/ CleanUp(w)
  BY <1>3 DEF DescribesOnly, CallAny, CallProvider, Acknowledge, CleanUp, serverVars
<1>4. CASE CompleteDescription(w)
  BY <1>4, CompleteTurn DEF DescribesOnly, Course, Parked
<1> QED
  BY <1>1, <1>2, <1>3, <1>4 DEF WorkerStep

LEMMA StepDescribes ==
  ASSUME IInv, [Next]_vars
  PROVE  DescribesOnly
<1>1. ASSUME NEW w \in Workers, NEW m \in queue, Claim(w, m)
      PROVE  DescribesOnly
  BY <1>1, ClaimTurn DEF DescribesOnly, Course, Claim
<1>2. ASSUME NEW w \in Workers, NEW p \in Photos, NEW arrives \in BOOLEAN,
             Sweep(w, p, arrives)
      PROVE  DescribesOnly
  BY <1>2, SweepTurn DEF DescribesOnly, Course, Parked, Sweep
<1>3. ASSUME NEW p \in Photos, LeaseExpires(p)
      PROVE  DescribesOnly
  BY <1>3, LeaseExpiresTurn DEF DescribesOnly, LeaseExpires
<1>4. CASE \/ MonthTurns \/ UNCHANGED vars
           \/ \E w \in Workers : Crash(w)
           \/ \E p \in Photos, n \in UploadIds : UploadLapses(p, n)
  BY <1>4 DEF DescribesOnly, MonthTurns, Crash, UploadLapses, serverVars, vars
<1> QED
  BY <1>1, <1>2, <1>3, <1>4, ClientDescribes, WorkerDescribes DEF Next, Time
-----------------------------------------------------------------------------
(* The CLI's state, part by part.  A call that names an upload was made    *)
(* with one, a plan that grants an upload names it, and the status read of *)
(* a finished job is true: its photo is described already.                 *)
NamesUpload == {"session", "put", "complete", "finish", "swap"}

TaskOK ==
  /\ task \in [Photos -> TaskState]
  /\ ConfirmedIsDescribed

StepRecord ==
  [call : Call, photo : Photos \cup {NoPhoto}, up : {None} \cup UploadIds,
   second : 0..1, seen : JobStatus]

StepOK ==
  /\ step \in StepRecord
  /\ step.call \in NamesUpload => step.up \in UploadIds
  /\ step.call = "checked" /\ step.seen = "Succeeded" => step.photo \in described

Granted(plan) ==
  plan.kind \in {"LeaseHeld", "UploadRequired"} => plan.up \in UploadIds

PlansOK ==
  /\ plans \in [Photos -> [0..1 -> Plan \cup {NoPlan}]]
  /\ \A p \in Photos, n \in 0..1 : Granted(plans[p][n])

RecordsOK ==
  /\ completed \in [Photos -> SUBSET UploadIds]
  /\ cancelled \subseteq Photos
  /\ retried \in [Photos -> SUBSET (JobStatus \X (0..MaxAttempts))]
  /\ offered \subseteq Photos
  /\ spent \in [faults : 0..MaxFaults, commands : 0..MaxCommands]

ClientOK == TaskOK /\ StepOK /\ PlansOK /\ RecordsOK

OInv == PInv /\ SuccessDescribed /\ ClientOK

(* A task may take any state but that of a confirmed one. *)
LEMMA TaskTurns ==
  ASSUME TaskOK, described \subseteq described', NEW p \in Photos,
         NEW state \in TaskState, state = "Confirmed" => p \in described,
         task' = [task EXCEPT ![p] = state]
  PROVE  TaskOK'
BY DEF TaskOK, ConfirmedIsDescribed

LEMMA TaskStays ==
  ASSUME TaskOK, described \subseteq described', UNCHANGED task
  PROVE  TaskOK'
BY DEF TaskOK, ConfirmedIsDescribed

LEMMA StepStays ==
  ASSUME StepOK, described \subseteq described', UNCHANGED step
  PROVE  StepOK'
BY DEF StepOK

LEMMA PlansStay ==
  ASSUME PlansOK, UNCHANGED plans
  PROVE  PlansOK'
BY DEF PlansOK

LEMMA RecordsStay ==
  ASSUME RecordsOK, UNCHANGED <<completed, cancelled, retried, offered, spent>>
  PROVE  RecordsOK'
BY DEF RecordsOK

(* A call that starts with nothing but its photo. *)
LEMMA StepStarts ==
  ASSUME NEW p \in Photos \cup {NoPhoto}, NEW call \in Call, call \notin NamesUpload,
         NEW seen \in JobStatus,
         call = "checked" /\ seen = "Succeeded" => p \in described',
         step' = [Waiting EXCEPT !.call = call, !.photo = p, !.seen = seen]
  PROVE  StepOK'
<1> DEFINE k == [Waiting EXCEPT !.call = call, !.photo = p, !.seen = seen]
<1>1. Waiting \in StepRecord
  BY DEF Waiting, StepRecord, Call, JobStatus
<1>2. k \in StepRecord
  BY <1>1 DEF StepRecord
<1>3. k.call = call /\ k.photo = p /\ k.seen = seen
  BY <1>1 DEF StepRecord
<1> HIDE DEF k
<1>4. step' = k
  BY DEF k
<1> QED
  BY <1>2, <1>3, <1>4 DEF StepOK

LEMMA StepWaits ==
  ASSUME step' = Waiting
  PROVE  StepOK'
<1>1. Waiting \in StepRecord /\ Waiting.call = "idle"
  BY DEF Waiting, StepRecord, Call, JobStatus
<1> QED
  BY <1>1 DEF StepOK, NamesUpload

(* The sync goes on with the upload it has. *)
LEMMA StepGoes ==
  ASSUME StepOK, NEW call \in Call \ {"checked"},
         call \in NamesUpload => step.up \in UploadIds, Goes(call)
  PROVE  StepOK'
<1> DEFINE k == [step EXCEPT !.call = call]
<1>1. step \in StepRecord
  BY DEF StepOK
<1>2. k \in StepRecord /\ k.call = call /\ k.up = step.up
  BY <1>1 DEF StepRecord
<1> HIDE DEF k
<1>3. step' = k
  BY DEF k, Goes
<1> QED
  BY <1>2, <1>3 DEF StepOK

LEMMA NoPlanGrants ==
  Granted(NoPlan) /\ NoPlan \in Plan \cup {NoPlan}
BY DEF Granted, NoPlan

LEMMA PlansForgotten ==
  ASSUME PlansOK, NEW p \in Photos,
         plans' = [plans EXCEPT ![p] = [n \in 0..1 |-> NoPlan]]
  PROVE  PlansOK'
BY NoPlanGrants DEF PlansOK

LEMMA PlanKept ==
  ASSUME PlansOK, NEW p \in Photos, NEW n \in 0..1, NEW plan \in Plan, Granted(plan),
         plans' = [plans EXCEPT ![p][n] = plan]
  PROVE  PlansOK'
<1>1. plans \in [Photos -> [0..1 -> Plan \cup {NoPlan}]]
  BY DEF PlansOK
<1>2. plans' \in [Photos -> [0..1 -> Plan \cup {NoPlan}]]
  BY <1>1
<1>3. \A q \in Photos, m \in 0..1 :
        plans'[q][m] = IF q = p /\ m = n THEN plan ELSE plans[q][m]
  BY <1>1
<1> QED
  BY <1>2, <1>3 DEF PlansOK

(* The attempt ends, without its task being confirmed. *)
LEMMA AttemptEnds ==
  ASSUME TaskOK, PlansOK, described \subseteq described', NEW p \in Photos,
         NEW state \in TaskState \ {"Confirmed"}, Ends(p, state)
  PROVE  TaskOK' /\ StepOK' /\ PlansOK'
<1>1. TaskOK'
  BY TaskTurns DEF Ends
<1> QED
  BY <1>1, StepWaits, PlansForgotten DEF Ends

LEMMA AttemptOutcomes ==
  ASSUME TaskOK, PlansOK, described \subseteq described', NEW p \in Photos,
         MarkSent(p) \/ Quarantine(p) \/ Defer(p)
  PROVE  TaskOK' /\ StepOK' /\ PlansOK'
<1>1. {"Sent", "Failed", "Pending"} \subseteq TaskState \ {"Confirmed"}
  BY DEF TaskState
<1> QED
  BY <1>1, AttemptEnds DEF MarkSent, Quarantine, Defer

LEMMA UploadReplaced ==
  ASSUME TaskOK, StepOK, PlansOK, described \subseteq described', NEW p \in Photos,
         Replace(p)
  PROVE  TaskOK' /\ StepOK' /\ PlansOK'
<1>1. CASE Defer(p)
  BY <1>1, AttemptOutcomes
<1>2. CASE /\ step' = [step EXCEPT !.call = "plan", !.up = None, !.second = 1]
           /\ UNCHANGED <<task, plans>>
  <2> DEFINE k == [step EXCEPT !.call = "plan", !.up = None, !.second = 1]
  <2>1. step \in StepRecord
    BY DEF StepOK
  <2>2. "plan" \in Call /\ "plan" \notin NamesUpload
    BY DEF Call, NamesUpload
  <2>7. 1 \in 0..1 /\ None \in {None} \cup UploadIds
    OBVIOUS
  <2>3. k \in StepRecord
    BY <2>1, <2>2, <2>7 DEF StepRecord
  <2>6. k.call = "plan"
    BY <2>1 DEF StepRecord
  <2> HIDE DEF k
  <2>4. step' = k
    BY <1>2 DEF k
  <2>5. StepOK'
    BY <2>2, <2>3, <2>4, <2>6 DEF StepOK
  <2> QED
    BY <1>2, <2>5, TaskStays, PlansStay
<1> QED
  BY <1>1, <1>2 DEF Replace

(* What an upload plan leads to. *)
LEMMA PlanFollowed ==
  ASSUME TaskOK, StepOK, PlansOK, described \subseteq described', NEW p \in Photos,
         NEW plan \in Plan, Granted(plan), Follow(p, plan)
  PROVE  TaskOK' /\ StepOK' /\ PlansOK'
<1>1. CASE plan.kind = "Deferred"
  <2>1. DeferAll(p)
    BY <1>1 DEF Follow
  <2>2. StepOK' /\ PlansOK'
    BY <2>1, StepWaits, PlansForgotten DEF DeferAll
  <2>3. PICK due \in SUBSET {q \in Photos : task[q] \in {"Pending", "Deferred"}} :
          task' = [q \in Photos |-> IF q \in due \cup {p} THEN "Deferred" ELSE task[q]]
    BY <2>1 DEF DeferAll
  <2>4. TaskOK'
    BY <2>3 DEF TaskOK, ConfirmedIsDescribed, TaskState
  <2> QED
    BY <2>2, <2>4
<1>2. CASE plan.kind # "Deferred"
  <2> DEFINE call == IF plan.kind = "LeaseHeld" THEN "session" ELSE "put"
             k == [step EXCEPT !.up = plan.up, !.call = call]
  <2>1. plan.up \in UploadIds
    BY <1>2 DEF Granted, Plan
  <2>2. call \in Call /\ call # "checked"
    BY DEF Call
  <2>3. step \in StepRecord /\ step.second \in 0..1
    BY DEF StepOK, StepRecord
  <2>4. step' = k
    BY <1>2 DEF Follow
  <2>5. /\ plans' = [plans EXCEPT ![p][step.second] = plan]
        /\ UNCHANGED task
    BY <1>2 DEF Follow
  <2> HIDE DEF call
  <2>6. k \in StepRecord /\ k.up = plan.up /\ k.call = call
    BY <2>1, <2>2, <2>3 DEF StepRecord
  <2> HIDE DEF k
  <2>7. StepOK'
    BY <2>1, <2>2, <2>4, <2>6 DEF StepOK
  <2> QED
    BY <2>3, <2>5, <2>7, TaskStays, PlanKept
<1> QED
  BY <1>1, <1>2
-----------------------------------------------------------------------------
(* The service's part: but for the signed PUT, which adds an object to the *)
(* bucket whatever has become of its session, what the sync, the owner and *)
(* the service do is a step of SceneJobs.                                  *)
LEMMA ClientSteps ==
  ASSUME NEW p \in Photos, UNCHANGED vars \/ Client(p)
  PROVE  [Next]_vars
BY DEF Next

LEMMA ExecutedSteps ==
  ASSUME StepOK, NEW p \in Photos, Executed(p)
  PROVE  [Next]_vars
<1>1. CASE UNCHANGED vars
  BY <1>1
<1>2. CASE At(p, "complete") \/ At(p, "finish") \/ At(p, "swap")
  <2>1. step.up \in UploadIds
    BY <1>2 DEF StepOK, At, NamesUpload
  <2> QED
    BY <2>1, ClientSteps DEF Executed, Client
<1>3. CASE At(p, "skip") /\ CancelJob(p)
  BY <1>3, ClientSteps DEF Client
<1> QED
  BY <1>1, <1>2, <1>3 DEF Executed

LEMMA SyncSteps ==
  ASSUME StepOK, NEW p \in Photos, Sync(p)
  PROVE  [Next]_vars \/ PutSigned(p)
<1>1. CASE Prepare(p)
  BY <1>1, ClientSteps DEF Prepare, Client
<1>2. CASE \/ QueueTask(p) \/ Begin(p, "plan") \/ Begin(p, "skip")
           \/ PhotoUnreadable(p) \/ Look(p) \/ SkipRefused(p) \/ Check(p)
           \/ Checked(p)
  BY <1>2, ClientSteps
     DEF QueueTask, Begin, PhotoUnreadable, Look, SkipRefused, Check, Checked
<1>3. CASE RequestPlan(p)
  BY <1>3, ClientSteps DEF RequestPlan, Client
<1>4. CASE AskSession(p) \/ PutFails(p) \/ Complete(p) \/ Swap(p)
  <2>1. step.up \in UploadIds
    BY <1>4 DEF StepOK, At, NamesUpload, AskSession, PutFails, Complete, Swap
  <2>2. UNCHANGED vars \/ Client(p)
    BY <1>4, <2>1 DEF AskSession, PutFails, Complete, Swap, Client
  <2> QED
    BY <2>2, ClientSteps
<1>5. CASE Skip(p)
  BY <1>5, ClientSteps DEF Skip, Client
<1>6. CASE Fail(p)
  BY <1>6, ExecutedSteps DEF Fail
<1>7. CASE Stop(p)
  BY <1>7, ExecutedSteps, ClientSteps DEF Stop, Client
<1> QED
  BY <1>1, <1>2, <1>3, <1>4, <1>5, <1>6, <1>7 DEF Sync

LEMMA OutboxSteps ==
  ASSUME StepOK, [OutboxNext]_allVars
  PROVE  [Next]_vars \/ \E p \in Photos : PutSigned(p)
<1>1. CASE \E p \in Photos : Sync(p)
  BY <1>1, SyncSteps
<1>2. CASE \E p \in Photos :
             JobsRetry(p) \/ OutboxRetry(p) \/ RecoverSkip(p) \/ Remove(p)
  BY <1>2, ClientSteps DEF JobsRetry, OutboxRetry, RecoverSkip, Remove, Client
<1>3. CASE \E p \in Photos, n \in UploadIds : Lapse(p, n)
  BY <1>3 DEF Lapse, Next, Time
<1>4. CASE Elsewhere
  BY <1>4 DEF Elsewhere, Next, Time
<1>5. CASE UNCHANGED allVars
  BY <1>5 DEF allVars
<1> QED
  BY <1>1, <1>2, <1>3, <1>4, <1>5 DEF OutboxNext

(* An object more in the bucket is no harm to the sessions. *)
LEMMA PutKeepsPInv ==
  ASSUME PInv, NEW p \in Photos, PutSigned(p), step.up \in UploadIds
  PROVE  PInv'
<1>0. IInv /\ TypeOK
  BY DEF PInv, IInv
<1>1. /\ object \in [Photos -> SUBSET UploadIds]
      /\ object' = [object EXCEPT ![p] = @ \cup {step.up}]
      /\ UNCHANGED <<month, active, described, job, ledger, upload, queue, worker,
                     calls, billed>>
  BY <1>0 DEF TypeOK, PutSigned, history
<1>2. /\ object' \in [Photos -> SUBSET UploadIds]
      /\ \A q \in Photos : object[q] \subseteq object'[q]
  BY <1>1
<1>3. IInv'
  BY <1>0, <1>1, <1>2 DEF IInv, TypeOK, books
<1>4. ASSUME NEW q \in Photos
      PROVE  SessionsAgree(q)'
  BY <1>1, <1>2 DEF PInv, SessionsAgree
<1>5. ASSUME NEW w \in Workers
      PROVE  CleanupHarmless(w)'
  BY <1>1 DEF PInv, CleanupHarmless
<1>6. DeliveriesDistinct'
  BY <1>1 DEF PInv, DeliveriesDistinct, Busy
<1> QED
  BY <1>3, <1>4, <1>5, <1>6 DEF PInv

LEMMA OutboxDescribes ==
  ASSUME PInv, SuccessDescribed, StepOK, [OutboxNext]_allVars
  PROVE  PInv' /\ SuccessDescribed' /\ described \subseteq described'
<1>1. CASE [Next]_vars
  <2>1. PInv' /\ DescribesOnly
    BY <1>1, StepKeepsPInv, StepDescribes DEF PInv
  <2> QED
    BY <2>1 DEF DescribesOnly, SuccessDescribed
<1>2. ASSUME NEW p \in Photos, PutSigned(p)
      PROVE  PInv' /\ SuccessDescribed' /\ described \subseteq described'
  <2>1. step.up \in UploadIds
    BY <1>2 DEF PutSigned, At, StepOK, NamesUpload
  <2>2. UNCHANGED <<job, described>>
    BY <1>2 DEF PutSigned
  <2> QED
    BY <1>2, <2>1, <2>2, PutKeepsPInv DEF SuccessDescribed
<1> QED
  BY <1>1, <1>2, OutboxSteps
-----------------------------------------------------------------------------
(* The CLI's part, action by action.  Nothing the service does takes a     *)
(* description back.                                                       *)
LEMMA PlannedGrants ==
  ASSUME IInv, NEW p \in Photos, CreateUploadPlan(p)
  PROVE  Planned(p) \in Plan /\ Granted(Planned(p))
<1> DEFINE open == {n \in UploadIds : upload'[p][n] = "Uploading"}
           kind == IF job'[p].status = "DeferredQuota" THEN "Deferred"
                   ELSE IF LeaseHeld(p) THEN "LeaseHeld" ELSE "UploadRequired"
           up == IF open = {} THEN None ELSE CHOOSE n \in open : TRUE
           b == ReleaseLapsed(Reopened(p))
           r == Reserve(p, month, b)
<1>1. Planned(p) = [kind |-> kind, up |-> up]
  BY DEF Planned
<1>2. kind # "Deferred" => open # {}
  <2>1. CASE LeaseHeld(p)
    <3>1. upload' = ExpiredUploads
      BY <2>1 DEF CreateUploadPlan
    <3> QED
      BY <2>1, <3>1 DEF LeaseHeld
  <2>2. CASE ~LeaseHeld(p) /\ ~CanReserve(p, month, b)
    <3>1. Commit(DeferredPlan(p, r))
      BY <2>2 DEF CreateUploadPlan
    <3>2. BooksOK(b) /\ month \in Months
      BY ReopenedTurn DEF IInv, TypeOK
    <3> HIDE DEF b
    <3>3. BooksOK(r)
      BY <3>2, ReserveKeepsBooks
    <3> HIDE DEF r
    <3>4. job'[p].status = "DeferredQuota"
      BY <3>1, <3>3, ParkCourse DEF DeferredPlan, Commit, Parked
    <3> QED
      BY <3>4
  <2>3. CASE ~LeaseHeld(p) /\ CanReserve(p, month, b)
    <3>1. PICK n \in UnusedUploads(p) :
            upload' = [ExpiredUploads EXCEPT ![p][n] = "Uploading"]
      BY <2>3 DEF CreateUploadPlan
    <3>2. n \in UploadIds
      BY DEF UnusedUploads
    <3>3. upload'[p][n] = "Uploading"
      BY <3>1, <3>2 DEF ExpiredUploads
    <3> QED
      BY <3>2, <3>3
  <2> QED
    BY <2>1, <2>2, <2>3
<1>3. open # {} => up \in UploadIds
  OBVIOUS
<1>4. up \in {None} \cup UploadIds
  BY <1>3
<1>5. kind \in {"LeaseHeld", "Deferred", "UploadRequired"}
  OBVIOUS
<1> HIDE DEF kind, open, up
<1> QED
  BY <1>1, <1>2, <1>3, <1>4, <1>5 DEF Plan, Granted


LEMMA RecordsGrow ==
  ASSUME RecordsOK, NEW p \in Photos, NEW n \in UploadIds,
         completed' \in {completed, [completed EXCEPT ![p] = @ \cup {n}]},
         cancelled' \in {cancelled, cancelled \cup {p}},
         offered' \in {offered, offered \cup {p}, offered \ {p}},
         UNCHANGED <<retried, spent>>
  PROVE  RecordsOK'
BY DEF RecordsOK

LEMMA SpentMore ==
  ASSUME RecordsOK,
         \/ /\ spent.faults < MaxFaults
            /\ spent' = [spent EXCEPT !.faults = @ + 1]
         \/ /\ spent.commands < MaxCommands
            /\ spent' = [spent EXCEPT !.commands = @ + 1]
  PROVE  spent' \in [faults : 0..MaxFaults, commands : 0..MaxCommands]
<1>1. /\ spent \in [faults : 0..MaxFaults, commands : 0..MaxCommands]
      /\ spent.faults \in 0..MaxFaults /\ spent.commands \in 0..MaxCommands
  BY DEF RecordsOK
<1>2. CASE /\ spent.faults < MaxFaults
           /\ spent' = [spent EXCEPT !.faults = @ + 1]
  <2>1. spent.faults + 1 \in 0..MaxFaults
    BY <1>1, <1>2, FaultsAssumption
  <2> QED
    BY <1>1, <1>2, <2>1
<1>3. CASE /\ spent.commands < MaxCommands
           /\ spent' = [spent EXCEPT !.commands = @ + 1]
  <2>1. spent.commands + 1 \in 0..MaxCommands
    BY <1>1, <1>3, FaultsAssumption
  <2> QED
    BY <1>1, <1>3, <2>1
<1> QED
  BY <1>2, <1>3
LEMMA StepBegins ==
  ASSUME NEW p \in Photos, NEW call \in Call \ {"checked"}, call \notin NamesUpload,
         step' = [Waiting EXCEPT !.call = call, !.photo = p]
  PROVE  StepOK'
<1> DEFINE k == [Waiting EXCEPT !.call = call, !.photo = p]
<1>1. Waiting \in StepRecord
  BY DEF Waiting, StepRecord, Call, JobStatus
<1>2. k \in StepRecord /\ k.call = call
  BY <1>1 DEF StepRecord
<1> HIDE DEF k
<1>3. step' = k
  BY DEF k
<1> QED
  BY <1>2, <1>3 DEF StepOK

LEMMA QueuesKeep ==
  ASSUME ClientOK, described \subseteq described', NEW p \in Photos,
         Prepare(p) \/ QueueTask(p) \/ Begin(p, "plan") \/ Begin(p, "skip")
  PROVE  ClientOK'
<1>0. TaskOK /\ StepOK /\ PlansOK /\ RecordsOK
  BY DEF ClientOK
<1>1. \A call \in {"queue", "plan", "skip"} :
        call \in Call \ {"checked"} /\ call \notin NamesUpload
  BY DEF Call, NamesUpload
<1>2. CASE Prepare(p)
  <2>1. /\ step' = [Waiting EXCEPT !.call = "queue", !.photo = p]
        /\ UNCHANGED <<task, plans>>
    BY <1>2 DEF Prepare
  <2>3. StepOK'
    BY <1>1, <2>1, StepBegins
  <2>2. RecordsOK'
    BY <1>0, <1>2 DEF RecordsOK, Prepare
  <2> QED
    BY <1>0, <2>1, <2>2, <2>3, TaskStays, PlansStay DEF ClientOK
<1>3. CASE QueueTask(p)
  <2> DEFINE state == IF task[p] \in {"None", "Deferred", "Failed", "Skipped"}
                        THEN "Pending" ELSE task[p]
  <2>1. state \in TaskState /\ (state = "Confirmed" => p \in described)
    BY <1>0 DEF TaskOK, ConfirmedIsDescribed, TaskState
  <2>2. task' = [task EXCEPT ![p] = state] /\ step' = Waiting
    BY <1>3 DEF QueueTask, Becomes
  <2> HIDE DEF state
  <2>3. TaskOK' /\ StepOK' /\ PlansOK'
    BY <1>0, <1>3, <2>1, <2>2, TaskTurns, StepWaits, PlansStay DEF QueueTask
  <2>4. RecordsOK'
    BY <1>0, <1>3 DEF RecordsOK, QueueTask
  <2> QED
    BY <2>3, <2>4 DEF ClientOK
<1>4. CASE Begin(p, "plan") \/ Begin(p, "skip")
  <2>1. PICK call \in {"plan", "skip"} : Begin(p, call)
    BY <1>4
  <2>3. /\ step' = [Waiting EXCEPT !.call = call, !.photo = p]
        /\ UNCHANGED <<task, plans>>
    BY <2>1 DEF Begin, records
  <2>4. StepOK'
    BY <1>1, <2>3, StepBegins
  <2>2. RecordsOK'
    BY <1>0, <1>4, RecordsStay DEF Begin, records
  <2> QED
    BY <1>0, <2>2, <2>3, <2>4, TaskStays, PlansStay DEF ClientOK
<1> QED
  BY <1>2, <1>3, <1>4

LEMMA PlanKeeps ==
  ASSUME IInv, ClientOK, described \subseteq described', NEW p \in Photos, RequestPlan(p)
  PROVE  ClientOK'
<1>0. TaskOK /\ StepOK /\ PlansOK /\ RecordsOK /\ step.second \in 0..1
  BY DEF ClientOK, StepOK, StepRecord
<1>1. RecordsOK'
  BY <1>0, RecordsStay DEF RequestPlan
<1>2. CASE plans[p][step.second] # NoPlan /\ Follow(p, plans[p][step.second])
  <2>1. plans[p][step.second] \in Plan /\ Granted(plans[p][step.second])
    BY <1>0, <1>2 DEF PlansOK
  <2> QED
    BY <1>0, <1>1, <1>2, <2>1, PlanFollowed DEF ClientOK
<1>3. CASE CreateUploadPlan(p) /\ Follow(p, Planned(p))
  <2>1. Planned(p) \in Plan /\ Granted(Planned(p))
    BY <1>3, PlannedGrants
  <2> DEFINE plan == Planned(p)
  <2> HIDE DEF plan
  <2>2. plan \in Plan /\ Granted(plan) /\ Follow(p, plan)
    BY <1>3, <2>1 DEF plan
  <2> QED
    BY <1>0, <1>1, <2>2, PlanFollowed DEF ClientOK
<1>4. CASE Quarantine(p)
  BY <1>0, <1>1, <1>4, AttemptOutcomes DEF ClientOK
<1>5. CASE Goes("look") /\ UNCHANGED <<task, plans>>
  <2>1. "look" \in Call \ {"checked"} /\ "look" \notin NamesUpload
    BY DEF Call, NamesUpload
  <2> QED
    BY <1>0, <1>1, <1>5, <2>1, StepGoes, TaskStays, PlansStay DEF ClientOK
<1> QED
  BY <1>2, <1>3, <1>4, <1>5 DEF RequestPlan

LEMMA SessionKeeps ==
  ASSUME ClientOK, described \subseteq described', NEW p \in Photos,
         AskSession(p) \/ PutSigned(p) \/ PutFails(p) \/ Swap(p)
  PROVE  ClientOK'
<1>0. TaskOK /\ StepOK /\ PlansOK /\ RecordsOK
  BY DEF ClientOK
<1>1. step.up \in UploadIds
  BY <1>0 DEF StepOK, At, NamesUpload, AskSession, PutSigned, PutFails, Swap
<1>2. {"finish", "complete"} \subseteq Call \ {"checked"}
  BY DEF Call
<1>3. CASE AskSession(p)
  <2>1. RecordsOK'
    BY <1>0, <1>3, RecordsStay DEF AskSession
  <2>2. \/ MarkSent(p) \/ Replace(p)
        \/ Goes("finish") /\ UNCHANGED <<task, plans>>
    BY <1>3 DEF AskSession
  <2> QED
    BY <1>0, <1>1, <1>2, <2>1, <2>2, AttemptOutcomes, UploadReplaced, StepGoes, TaskStays,
       PlansStay DEF ClientOK
<1>4. CASE PutSigned(p)
  <2>1. RecordsOK' /\ TaskOK' /\ PlansOK'
    BY <1>0, <1>4, RecordsStay, TaskStays, PlansStay DEF PutSigned, records
  <2>2. StepOK'
    BY <1>0, <1>1, <1>2, <1>4, StepGoes DEF PutSigned
  <2> QED
    BY <2>1, <2>2 DEF ClientOK
<1>5. CASE PutFails(p)
  <2>1. RecordsOK'
    BY <1>0, <1>5, SpentMore DEF PutFails, RecordsOK
  <2> QED
    BY <1>0, <1>5, <2>1, AttemptOutcomes DEF PutFails, ClientOK
<1>6. CASE Swap(p)
  <2>1. RecordsOK'
    BY <1>0, <1>6, RecordsStay DEF Swap
  <2>2. Replace(p) \/ MarkSent(p)
    BY <1>6 DEF Swap
  <2> QED
    BY <1>0, <2>1, <2>2, AttemptOutcomes, UploadReplaced DEF ClientOK
<1> QED
  BY <1>3, <1>4, <1>5, <1>6

LEMMA CompleteKeeps ==
  ASSUME ClientOK, described \subseteq described', NEW p \in Photos, Complete(p)
  PROVE  ClientOK'
<1>0. TaskOK /\ StepOK /\ PlansOK /\ RecordsOK
  BY DEF ClientOK
<1>1. step.up \in UploadIds
  BY <1>0 DEF StepOK, At, NamesUpload, Complete
<1>2. {"look", "swap"} \subseteq Call \ {"checked"}
  BY DEF Call
<1>3. completed' \in {completed, [completed EXCEPT ![p] = @ \cup {step.up}]}
  BY DEF Complete
<1>4. RecordsOK'
  BY <1>0, <1>1, <1>3 DEF RecordsOK, Complete
<1>5. \/ MarkSent(p) \/ Quarantine(p)
      \/ \E call \in {"look", "swap"} : Goes(call) /\ UNCHANGED <<task, plans>>
  BY DEF Complete
<1>6. CASE MarkSent(p) \/ Quarantine(p)
  BY <1>0, <1>4, <1>6, AttemptOutcomes DEF ClientOK
<1>7. ASSUME NEW call \in {"look", "swap"}, Goes(call), UNCHANGED <<task, plans>>
      PROVE  ClientOK'
  BY <1>0, <1>1, <1>2, <1>4, <1>7, StepGoes, TaskStays, PlansStay DEF ClientOK
<1> QED
  BY <1>5, <1>6, <1>7
LEMMA LooksKeep ==
  ASSUME IInv, SuccessDescribed, ClientOK, described \subseteq described', NEW p \in Photos,
         Look(p) \/ Skip(p) \/ SkipRefused(p) \/ PhotoUnreadable(p) \/ Check(p) \/ Checked(p)
  PROVE  ClientOK'
<1>0. TaskOK /\ StepOK /\ PlansOK /\ RecordsOK
  BY DEF ClientOK
<1>1. CASE Look(p) \/ SkipRefused(p) \/ PhotoUnreadable(p)
  <2>1. RecordsOK'
    BY <1>0, <1>1, RecordsStay DEF Look, SkipRefused, PhotoUnreadable
  <2>2. MarkSent(p) \/ Quarantine(p) \/ Defer(p)
    BY <1>1 DEF Look, SkipRefused, PhotoUnreadable
  <2> QED
    BY <1>0, <2>1, <2>2, AttemptOutcomes DEF ClientOK
<1>2. CASE Skip(p)
  <2>1. RecordsOK'
    BY <1>0, <1>2 DEF RecordsOK, Skip
  <2>2. task' = [task EXCEPT ![p] = "Skipped"] /\ step' = Waiting /\ UNCHANGED plans
    BY <1>2 DEF Skip, Becomes
  <2>3. "Skipped" \in TaskState
    BY DEF TaskState
  <2> QED
    BY <1>0, <2>1, <2>2, <2>3, TaskTurns, StepWaits, PlansStay DEF ClientOK
<1>3. CASE Check(p)
  <2>1. RecordsOK' /\ TaskOK' /\ PlansOK'
    BY <1>0, <1>3, RecordsStay, TaskStays, PlansStay DEF Check, records
  <2>2. step' = [Waiting EXCEPT !.call = "checked", !.photo = p, !.seen = job[p].status]
    BY <1>3 DEF Check
  <2>3. "checked" \in Call /\ "checked" \notin NamesUpload
    BY DEF Call, NamesUpload
  <2>4. job[p].status \in JobStatus
    BY DEF IInv, TypeOK, JobRecord
  <2>5. job[p].status = "Succeeded" => p \in described'
    BY DEF SuccessDescribed
  <2>6. StepOK'
    BY <2>2, <2>3, <2>4, <2>5, StepStarts
  <2> QED
    BY <2>1, <2>6 DEF ClientOK
<1>4. CASE Checked(p)
  <2>1. RecordsOK' /\ PlansOK'
    BY <1>0, <1>4, RecordsStay, PlansStay DEF Checked, records
  <2>2. step' = Waiting
    BY <1>4 DEF Checked, Becomes
  <2>3. step.seen = "Succeeded" => p \in described
    BY <1>0, <1>4 DEF StepOK, Checked, At
  <2>4. PICK state \in {"Pending", "Failed", "Confirmed", task[p]} :
          /\ state \in {"Pending", "Failed", task[p]} \/ step.seen = "Succeeded"
          /\ task' = [task EXCEPT ![p] = state] \/ UNCHANGED task
    BY <1>4 DEF Checked, Becomes
  <2>5. state \in TaskState /\ (state = "Confirmed" => p \in described)
    BY <1>0, <2>3, <2>4 DEF TaskOK, ConfirmedIsDescribed, TaskState
  <2>6. TaskOK'
    BY <1>0, <2>4, <2>5, TaskTurns, TaskStays
  <2> QED
    BY <2>1, <2>2, <2>6, StepWaits DEF ClientOK
<1> QED
  BY <1>1, <1>2, <1>3, <1>4

LEMMA ExecutedRecords ==
  ASSUME StepOK, RecordsOK, NEW p \in Photos, Executed(p)
  PROVE  completed' \in [Photos -> SUBSET UploadIds] /\ cancelled' \subseteq Photos
<1>1. At(p, "complete") \/ At(p, "finish") => step.up \in UploadIds
  BY DEF StepOK, At, NamesUpload
<1> QED
  BY <1>1 DEF Executed, RecordsOK

(* A failed call, and a sync that ends between two calls or inside one. *)
LEMMA FailuresKeep ==
  ASSUME IInv, ClientOK, described \subseteq described', NEW p \in Photos,
         Fail(p) \/ Stop(p)
  PROVE  ClientOK'
<1>0. TaskOK /\ StepOK /\ PlansOK /\ RecordsOK /\ step.second \in 0..1
  BY DEF ClientOK, StepOK, StepRecord
<1>1. spent' \in [faults : 0..MaxFaults, commands : 0..MaxCommands]
  BY <1>0, SpentMore DEF Fail, Stop, Fails
<1>2. CASE Fail(p)
  <2>1. RecordsOK'
    BY <1>0, <1>1, <1>2, ExecutedRecords DEF Fail, RecordsOK
  <2> QED
    BY <1>0, <1>2, <2>1, AttemptOutcomes DEF Fail, ClientOK
<1>3. CASE Stop(p)
  <2>1. StepOK' /\ TaskOK'
    BY <1>0, <1>3, StepWaits, TaskStays DEF Stop
  <2>2. UNCHANGED <<retried, offered>>
    BY <1>3 DEF Stop
  <2>3. CASE Executed(p) /\ UNCHANGED plans
    BY <1>0, <1>1, <2>1, <2>2, <2>3, ExecutedRecords, PlansStay DEF RecordsOK, ClientOK
  <2>4. CASE /\ CreateUploadPlan(p)
             /\ plans' = [plans EXCEPT ![p][step.second] = Planned(p)]
             /\ UNCHANGED <<completed, cancelled>>
    <3>1. Planned(p) \in Plan /\ Granted(Planned(p))
      BY <2>4, PlannedGrants
    <3> DEFINE plan == Planned(p)
    <3> HIDE DEF plan
    <3>2. /\ plan \in Plan /\ Granted(plan)
          /\ plans' = [plans EXCEPT ![p][step.second] = plan]
      BY <2>4, <3>1 DEF plan
    <3>3. PlansOK'
      BY <1>0, <3>2, PlanKept
    <3>4. RecordsOK'
      BY <1>0, <1>1, <2>2, <2>4 DEF RecordsOK
    <3> QED
      BY <2>1, <3>3, <3>4 DEF ClientOK
  <2> QED
    BY <1>3, <2>3, <2>4 DEF Stop
<1> QED
  BY <1>2, <1>3

(* The commands of the owner. *)
LEMMA CommandsKeep ==
  ASSUME IInv, ClientOK, described \subseteq described', NEW p \in Photos,
         JobsRetry(p) \/ OutboxRetry(p) \/ RecoverSkip(p) \/ Remove(p)
  PROVE  ClientOK'
<1>0. TaskOK /\ StepOK /\ PlansOK /\ RecordsOK
  BY DEF ClientOK
<1>1. UNCHANGED <<step, plans>>
  BY DEF JobsRetry, OutboxRetry, RecoverSkip, Remove, records
<1>2. StepOK' /\ PlansOK'
  BY <1>0, <1>1, StepStays, PlansStay
<1>3. "Pending" \in TaskState
  BY DEF TaskState
<1>4. CASE JobsRetry(p)
  <2> DEFINE key == <<job[p].status, job[p].attempt>>
             pending == [task EXCEPT ![p] = "Pending"]
  <2>1. key \in JobStatus \X (0..MaxAttempts)
    BY DEF IInv, TypeOK, JobRecord
  <2>2. task' = pending \/ task' = RetryAllDeferred(pending)
    BY <1>4 DEF JobsRetry
  <2>3. /\ task \in [Photos -> TaskState]
        /\ \A q \in Photos : task[q] = "Confirmed" => q \in described
    BY <1>0 DEF TaskOK, ConfirmedIsDescribed
  <2>4. /\ task' \in [Photos -> TaskState]
        /\ \A q \in Photos : task'[q] = "Confirmed" => task[q] = "Confirmed"
    BY <1>3, <2>2, <2>3 DEF RetryAllDeferred
  <2>5. TaskOK'
    BY <2>3, <2>4 DEF TaskOK, ConfirmedIsDescribed
  <2>6. \/ UNCHANGED <<retried, spent>>
        \/ /\ Command
           /\ retried' = [retried EXCEPT ![p] = @ \cup {key}]
    BY <1>4 DEF JobsRetry
  <2> HIDE DEF key
  <2>7. /\ retried' \in [Photos -> SUBSET (JobStatus \X (0..MaxAttempts))]
        /\ spent' \in [faults : 0..MaxFaults, commands : 0..MaxCommands]
    BY <1>0, <2>1, <2>6, SpentMore DEF RecordsOK, Command
  <2>8. RecordsOK'
    BY <1>0, <1>4, <2>7 DEF RecordsOK, JobsRetry
  <2> QED
    BY <1>2, <2>5, <2>8 DEF ClientOK
<1>5. CASE OutboxRetry(p) \/ RecoverSkip(p) \/ Remove(p)
  <2>1. UNCHANGED <<completed, cancelled, retried, offered>>
    BY <1>5 DEF OutboxRetry, RecoverSkip, Remove, records
  <2>2. RecordsOK'
    BY <1>0, <1>5, <2>1, SpentMore
       DEF RecordsOK, OutboxRetry, RecoverSkip, Remove, Command
  <2>3. task' = [task EXCEPT ![p] = "Pending"] \/ UNCHANGED task
    BY <1>5 DEF OutboxRetry, RecoverSkip, Remove
  <2> QED
    BY <1>0, <1>2, <1>3, <2>2, <2>3, TaskTurns, TaskStays DEF ClientOK
<1> QED
  BY <1>4, <1>5

LEMMA OutboxKeepsClient ==
  ASSUME OInv, described \subseteq described', [OutboxNext]_allVars
  PROVE  ClientOK'
<1>0. /\ IInv /\ SuccessDescribed /\ ClientOK
      /\ TaskOK /\ StepOK /\ PlansOK /\ RecordsOK
  BY DEF OInv, PInv, ClientOK
<1>1. ASSUME NEW p \in Photos, Sync(p)
      PROVE  ClientOK'
  BY <1>0, <1>1, QueuesKeep, PlanKeeps, SessionKeeps, CompleteKeeps, LooksKeep,
     FailuresKeep DEF Sync
<1>2. CASE \E p \in Photos, n \in UploadIds : Lapse(p, n)
  <2>1. /\ UNCHANGED <<task, step, plans, completed, cancelled, retried, offered>>
        /\ spent' \in [faults : 0..MaxFaults, commands : 0..MaxCommands]
    BY <1>0, <1>2, SpentMore DEF Lapse, records
  <2>2. RecordsOK'
    BY <1>0, <2>1 DEF RecordsOK
  <2> QED
    BY <1>0, <2>1, <2>2, TaskStays, StepStays, PlansStay DEF ClientOK
<1>3. CASE Elsewhere \/ UNCHANGED allVars
  <2>1. UNCHANGED cliVars
    BY <1>3 DEF Elsewhere, allVars
  <2> QED
    BY <1>0, <2>1, TaskStays, StepStays, PlansStay, RecordsStay DEF ClientOK, cliVars
<1> QED
  BY <1>0, <1>1, <1>2, <1>3, CommandsKeep DEF OutboxNext

LEMMA InitialOutbox ==
  ASSUME OutboxInit
  PROVE  OInv
<1>1. PInv
  BY InitialSessions DEF OutboxInit
<1>2. SuccessDescribed
  BY DEF OutboxInit, Init, NoJob, SuccessDescribed
<1>3. TaskOK
  BY DEF OutboxInit, TaskOK, TaskState, ConfirmedIsDescribed
<1>4. StepOK
  <2>1. Waiting \in StepRecord /\ Waiting.call = "idle"
    BY DEF Waiting, StepRecord, Call, JobStatus
  <2> QED
    BY <2>1 DEF OutboxInit, StepOK, NamesUpload
<1>5. PlansOK
  BY NoPlanGrants DEF OutboxInit, PlansOK
<1>6. RecordsOK
  BY FaultsAssumption DEF OutboxInit, RecordsOK
<1> QED
  BY <1>1, <1>2, <1>3, <1>4, <1>5, <1>6 DEF OInv, ClientOK

-----------------------------------------------------------------------------
(* The invariant of the CLI with the service holds in every reachable      *)
(* state.                                                                  *)
THEOREM OutboxAndServiceInductive == OutboxSpec => []OInv
<1>1. OutboxInit => OInv
  BY InitialOutbox
<1>2. OInv /\ [OutboxNext]_allVars => OInv'
  <2> SUFFICES ASSUME OInv, [OutboxNext]_allVars
               PROVE  OInv'
    OBVIOUS
  <2>1. PInv' /\ SuccessDescribed' /\ described \subseteq described'
    BY OutboxDescribes DEF OInv, ClientOK
  <2>2. ClientOK'
    BY <2>1, OutboxKeepsClient
  <2> QED
    BY <2>1, <2>2 DEF OInv
<1> QED
  BY <1>1, <1>2, PTL DEF OutboxSpec

(* Types of the CLI's scene-description outbox beside the service. *)
THEOREM SceneOutboxTyped == OutboxSpec => []OutboxTypeOK
<1>1. OInv => OutboxTypeOK
  BY DEF OInv, PInv, IInv, ClientOK, TaskOK, StepOK, StepRecord, PlansOK, RecordsOK,
     OutboxTypeOK
<1> QED
  BY <1>1, OutboxAndServiceInductive, PTL

(* A task whose follow-up is dropped for good (confirm_description_        *)
(* complete) belongs to a photo that has its description, whatever the     *)
(* workers, the owner, late messages and lost answers made of the job      *)
(* between the reading of its status and the change of the task.           *)
THEOREM ConfirmedAlwaysDescribed == OutboxSpec => []ConfirmedIsDescribed
<1>1. OInv => ConfirmedIsDescribed
  BY DEF OInv, ClientOK, TaskOK
<1> QED
  BY <1>1, OutboxAndServiceInductive, PTL

(* The service keeps its promises to a client that is interrupted anywhere *)
(* and puts previews for sessions that are over: previews of working jobs, *)
(* no open upload behind the queue, the provider's ceilings.               *)
THEOREM ServiceSafeWithClient ==
  OutboxSpec => [](PreviewKept /\ NoOpenUploadBehindQueue /\ CeilingsHold)
<1>1. OInv => PreviewKept /\ NoOpenUploadBehindQueue
  BY DEF OInv, PInv, SessionsAgree, PreviewKept, NoOpenUploadBehindQueue, Working
<1>2. OInv => CeilingsHold
  BY DEF OInv, PInv, IInv, BooksOK, CeilingsHold
<1> QED
  BY <1>1, <1>2, OutboxAndServiceInductive, PTL

=============================================================================
