------------------------------ MODULE Pipeline ------------------------------
(***************************************************************************)
(* One project of the music-video generator and the pipeline of jobs that   *)
(* builds its video: the Project and Job rows in Postgres, the BullMQ       *)
(* entries in Redis, the worker of every stage queue, the HTTP handlers     *)
(* that start, cancel and replay, and the stale-job watchdog.               *)
(*                                                                          *)
(* A job is <<r, s>>: stage s of the r-th run created for the project.      *)
(* Stages are numbered in the order of pipeline-definition.service.ts; the  *)
(* last one is FINALIZE, which is executed inline by whoever dispatches it. *)
(***************************************************************************)
EXTENDS Integers

CONSTANTS
  Stages,    \* number of stages of the run, FINALIZE included
  Attempts,  \* BullMQ "attempts" of a queued stage
  Clients,   \* HTTP requests that may be in progress at the same time
  Limit      \* how often each event of Kind may happen (bounds the model)

Kind == {"start", "cancel", "replay", "crash", "fault", "evict"}

ASSUME PipelineAssumption ==
  /\ Stages \in Nat \ {0, 1}
  /\ Attempts \in Nat \ {0}
  /\ Clients \cap Int = {}
  /\ Limit \in [Kind -> Nat]

Stage    == 1 .. Stages
Finalize == Stages
Workers  == 1 .. Stages - 1              \* one worker, concurrency 1, per stage queue
Thread   == Workers \cup Clients
JobId    == (1 .. Limit["start"]) \X Stage
NoJob    == <<0, 0>>
NoClient == 0

JobStatus     == {"PENDING", "PROCESSING", "COMPLETED", "FAILED", "CANCELLED"}
ProjectStatus == {"DRAFT", "PROCESSING", "COMPLETED", "FAILED", "CANCELLED"}
EntryState    == {"none", "waiting", "active", "delayed", "completed", "failed"}

(* Where a thread stands: the await it will execute next.                   *)
PC == {"idle",
       "fetched", "running", "ran", "finish",           \* a worker, on success
       "retry", "failing", "deadletter", "throw",       \* a worker's catch block
       "create", "reuse", "replay",                     \* an HTTP handler
       "advance", "dispatching", "completing"}          \* either, in advancePipeline

VARIABLES
  project,  \* Project.status
  run,      \* runs created so far; the rows in the table are those of this run
  row,      \* Job.status of every job, "NONE" when the table has no such row
  stale,    \* jobs whose updatedAt is older than JOB_STALE_TIMEOUT_MS
  entry,    \* BullMQ state of the entry with jobId = job.id, "none" when absent
  made,     \* BullMQ attemptsMade
  stalls,   \* BullMQ stalledCounter
  pc, work, target,  \* of every thread: position, own job, job being dispatched
  lock,     \* request holding the FOR UPDATE lock on the Project row
  batch,    \* stale jobs the watchdog cycle has read and not yet handled
  dead,     \* jobs with an entry in the dead-letter queue
  ran,      \* history: jobs whose script has ended in success
  spent     \* how often each event of Kind has happened

dbVars     == <<project, run, row, stale>>
queueVars  == <<entry, made, stalls>>
threadVars == <<pc, work, target>>
vars == <<project, run, row, stale, entry, made, stalls, pc, work, target,
          lock, batch, dead, ran, spent>>

TypeOK ==
  /\ project \in ProjectStatus
  /\ run \in 0 .. Limit["start"]
  /\ row \in [JobId -> JobStatus \cup {"NONE"}]
  /\ stale \in SUBSET JobId
  /\ entry \in [JobId -> EntryState]
  /\ made \in [JobId -> Nat]
  /\ stalls \in [JobId -> Nat]
  /\ pc \in [Thread -> PC]
  /\ work \in [Thread -> JobId \cup {NoJob}]
  /\ target \in [Thread -> JobId \cup {NoJob}]
  /\ lock \in Clients \cup {NoClient}
  /\ batch \in SUBSET JobId
  /\ dead \in SUBSET JobId
  /\ ran \in SUBSET JobId
  /\ spent \in [Kind -> Nat]

Init ==
  /\ project = "DRAFT"
  /\ run = 0
  /\ row = [j \in JobId |-> "NONE"]
  /\ stale = {}
  /\ entry = [j \in JobId |-> "none"]
  /\ made = [j \in JobId |-> 0]
  /\ stalls = [j \in JobId |-> 0]
  /\ pc = [t \in Thread |-> "idle"]
  /\ work = [t \in Thread |-> NoJob]
  /\ target = [t \in Thread |-> NoJob]
  /\ lock = NoClient
  /\ batch = {}
  /\ dead = {}
  /\ ran = {}
  /\ spent = [k \in Kind |-> 0]

-----------------------------------------------------------------------------
(* Helpers.                                                                 *)

Spend(k) == /\ spent[k] < Limit[k]
            /\ spent' = [spent EXCEPT ![k] = @ + 1]

Goto(t, p) == pc' = [pc EXCEPT ![t] = p]

IsActive(j)    == row[j] \in {"PENDING", "PROCESSING"}
SomeActive     == \E j \in JobId : IsActive(j)
SomeProcessing == \E j \in JobId : row[j] = "PROCESSING"
SomePending    == \E j \in JobId : row[j] = "PENDING"

(* Mutation: a cancelled job counts as one still to do.                     *)
FirstPending_cancelledToo(j) ==
  /\ row[j] \in {"PENDING", "CANCELLED"}
  /\ \A k \in JobId : row[k] = "PENDING" => j[2] <= k[2]

(* find(status === PENDING) on the rows in createdAt order.                 *)
FirstPending(j) ==
  /\ row[j] = "PENDING"
  /\ \A k \in JobId : row[k] = "PENDING" => j[2] <= k[2]

(* Mutation: only the running jobs are cancelled.                           *)
FailOneCancelRest_keepPending(j) ==
  [k \in JobId |-> IF k = j THEN "FAILED"
                   ELSE IF row[k] = "PROCESSING" THEN "CANCELLED" ELSE row[k]]

(* updateMany(status in [PENDING, PROCESSING]) to CANCELLED, after the row  *)
(* of j (NoJob for none) has been set to FAILED.                            *)
FailOneCancelRest(j) ==
  [k \in JobId |-> IF k = j THEN "FAILED"
                   ELSE IF IsActive(k) THEN "CANCELLED" ELSE row[k]]

(* Mutation: complete as soon as nothing is active.                         *)
AllCompleted_noneActive == ~SomeActive

AllCompleted == /\ \E j \in JobId : row[j] # "NONE"
                /\ \A j \in JobId : row[j] \in {"NONE", "COMPLETED"}

(* Mutation: an id whose entry has finished is queued again.                *)
Enqueue_again(j) ==
  entry' = [entry EXCEPT ![j] =
              IF @ \in {"none", "completed", "failed"} THEN "waiting" ELSE @]

(* Queue.add with jobId = job.id: BullMQ ignores an id it still knows,      *)
(* whatever the state of that entry.                                        *)
Enqueue(j) == entry' = [entry EXCEPT ![j] = IF @ = "none" THEN "waiting" ELSE @]

(* What follows an await: a worker returns from process(), a handler        *)
(* answers its request.                                                     *)
Returned(t) == IF t \in Workers THEN "finish" ELSE "idle"

(* Mutation: the error is swallowed and the pipeline advances.              *)
Caught_swallow(w, retryable) == "advance"

(* Where process()'s catch block goes after an error: classifyJobError and  *)
(* shouldRetryError, on attemptNumber = attemptsMade + 1.                   *)
Caught(w, retryable) ==
  IF retryable /\ made[work[w]] + 1 < Attempts THEN "retry" ELSE "failing"

(* Mutation: the transaction takes no lock.                                 *)
LockProject_none(c) == lock' = c

(* SELECT ... FOR UPDATE on the Project row, until the transaction ends.    *)
LockProject(c) == lock = NoClient /\ lock' = c

(* deleteMany of the pipeline rows, then one row per stage of the new run.  *)
FreshRows == [j \in JobId |-> IF j[1] = run + 1 THEN "PENDING" ELSE "NONE"]

-----------------------------------------------------------------------------
(* POST .../start: PipelineLifecycleService.startPipeline.                  *)

(* The transaction locks the Project row and reads the job rows.            *)
StartRead(c) ==
  /\ pc[c] = "idle"
  /\ LockProject(c)
  /\ Spend("start")
  /\ \/ /\ ~SomeActive
        /\ Goto(c, "create")
        /\ UNCHANGED target
     \/ /\ SomeActive
        /\ Goto(c, "reuse")
        /\ \/ /\ ~SomeProcessing
              /\ \E j \in JobId : FirstPending(j) /\ target' = [target EXCEPT ![c] = j]
           \/ /\ SomeProcessing
              /\ target' = [target EXCEPT ![c] = NoJob]
  /\ UNCHANGED <<dbVars, queueVars, work, batch, dead, ran>>

(* Mode 'created': delete the old rows, create the new run, commit; the     *)
(* first job is dispatched after the commit.                                *)
StartCreate(c) ==
  /\ pc[c] = "create"
  /\ run < Limit["start"]
  /\ run' = run + 1
  /\ row' = FreshRows
  /\ stale' = {}
  /\ project' = "PROCESSING"
  /\ lock' = NoClient
  /\ Goto(c, "dispatching")
  /\ target' = [target EXCEPT ![c] = <<run + 1, 1>>]
  /\ UNCHANGED <<queueVars, work, batch, dead, ran, spent>>

(* Mode 'reused': the project is PROCESSING again; the first pending job is *)
(* dispatched after the commit unless a job was PROCESSING.                 *)
StartReuse(c) ==
  /\ pc[c] = "reuse"
  /\ project' = "PROCESSING"
  /\ lock' = NoClient
  /\ Goto(c, IF target[c] = NoJob THEN "idle" ELSE "dispatching")
  /\ UNCHANGED <<run, row, stale, queueVars, work, target, batch, dead, ran, spent>>

(* POST .../cancel: one transaction over the jobs and the project. Nothing  *)
(* is removed from the queues and no worker is told.                        *)
CancelPipeline ==
  /\ lock = NoClient
  /\ Spend("cancel")
  /\ row' = FailOneCancelRest(NoJob)
  /\ stale' = {j \in stale : ~IsActive(j)}
  /\ project' = "CANCELLED"
  /\ UNCHANGED <<run, queueVars, threadVars, lock, batch, dead, ran>>

(* POST dead-letter/:id/replay. The row is read ...                         *)
ReplayRead(c, j) ==
  /\ pc[c] = "idle"
  /\ j \in dead
  /\ row[j] \in {"COMPLETED", "FAILED", "CANCELLED"}
  /\ Spend("replay")
  /\ Goto(c, "replay")
  /\ target' = [target EXCEPT ![c] = j]
  /\ UNCHANGED <<dbVars, queueVars, work, lock, batch, dead, ran>>

(* ... and then set to PENDING, whatever it has become; it is dispatched    *)
(* next. A row deleted meanwhile makes the update throw.                    *)
ReplayMark(c) ==
  /\ pc[c] = "replay"
  /\ \/ /\ row[target[c]] # "NONE"
        /\ row' = [row EXCEPT ![target[c]] = "PENDING"]
        /\ stale' = stale \ {target[c]}
        /\ Goto(c, "dispatching")
        /\ UNCHANGED target
     \/ /\ row[target[c]] = "NONE"
        /\ Goto(c, "idle")
        /\ target' = [target EXCEPT ![c] = NoJob]
        /\ UNCHANGED <<row, stale>>
  /\ UNCHANGED <<project, run, queueVars, work, lock, batch, dead, ran, spent>>

-----------------------------------------------------------------------------
(* advancePipeline and dispatch, executed by a worker or by a handler.      *)

AdvanceRead(t) ==
  /\ pc[t] = "advance"
  /\ \/ \E j \in JobId :
           /\ FirstPending(j)
           /\ target' = [target EXCEPT ![t] = j]
           /\ Goto(t, "dispatching")
     \/ /\ ~SomePending
        /\ Goto(t, IF AllCompleted THEN "completing" ELSE Returned(t))
        /\ UNCHANGED target
  /\ UNCHANGED <<dbVars, queueVars, work, lock, batch, dead, ran, spent>>

AdvanceComplete(t) ==
  /\ pc[t] = "completing"
  /\ lock = NoClient
  /\ project' = "COMPLETED"
  /\ Goto(t, Returned(t))
  /\ UNCHANGED <<run, row, stale, queueVars, work, target, lock, batch, dead, ran, spent>>

DispatchQueued(t) ==
  /\ pc[t] = "dispatching"
  /\ target[t][2] # Finalize
  /\ Enqueue(target[t])
  /\ Goto(t, Returned(t))
  /\ target' = [target EXCEPT ![t] = NoJob]
  /\ UNCHANGED <<dbVars, made, stalls, work, lock, batch, dead, ran, spent>>

(* FINALIZE: markAsCompleted and advancePipeline again. A missing row is a  *)
(* NotFoundException, permanent for a worker's catch block.                 *)
DispatchFinalize(t) ==
  /\ pc[t] = "dispatching"
  /\ target[t][2] = Finalize
  /\ \/ /\ row[target[t]] # "NONE"
        /\ row' = [row EXCEPT ![target[t]] = "COMPLETED"]
        /\ stale' = stale \ {target[t]}
        /\ Goto(t, "advance")
     \/ /\ row[target[t]] = "NONE"
        /\ Goto(t, IF t \in Workers THEN "failing" ELSE "idle")
        /\ UNCHANGED <<row, stale>>
  /\ target' = [target EXCEPT ![t] = NoJob]
  /\ UNCHANGED <<project, run, queueVars, work, lock, batch, dead, ran, spent>>

-----------------------------------------------------------------------------
(* A stage worker: process() of the five pipeline processors.               *)

Fetch(w) ==
  /\ pc[w] = "idle"
  /\ \E j \in JobId :
        /\ j[2] = w
        /\ entry[j] = "waiting"
        /\ entry' = [entry EXCEPT ![j] = "active"]
        /\ work' = [work EXCEPT ![w] = j]
  /\ Goto(w, "fetched")
  /\ UNCHANGED <<dbVars, made, stalls, target, lock, batch, dead, ran, spent>>

(* Mutation: a stage that is already COMPLETED is skipped.                  *)
MarkProcessing_skipDone(w) ==
  /\ pc[w] = "fetched"
  /\ IF row[work[w]] \in {"NONE", "COMPLETED"}
     THEN /\ Goto(w, IF row[work[w]] = "NONE" THEN "failing" ELSE "finish")
          /\ UNCHANGED <<row, stale>>
     ELSE /\ row' = [row EXCEPT ![work[w]] = "PROCESSING"]
          /\ stale' = stale \ {work[w]}
          /\ Goto(w, "running")
  /\ UNCHANGED <<project, run, queueVars, work, target, lock, batch, dead, ran, spent>>

(* markAsProcessing: find the row, then update it whatever its status.      *)
MarkProcessing(w) ==
  /\ pc[w] = "fetched"
  /\ \/ /\ row[work[w]] # "NONE"
        /\ row' = [row EXCEPT ![work[w]] = "PROCESSING"]
        /\ stale' = stale \ {work[w]}
        /\ Goto(w, "running")
     \/ /\ row[work[w]] = "NONE"
        /\ Goto(w, "failing")
        /\ UNCHANGED <<row, stale>>
  /\ UNCHANGED <<project, run, queueVars, work, target, lock, batch, dead, ran, spent>>

(* updateProgress while the script runs: the row's heartbeat.               *)
Heartbeat(w) ==
  /\ pc[w] = "running"
  /\ work[w] \in stale
  /\ stale' = stale \ {work[w]}
  /\ UNCHANGED <<project, run, row, queueVars, threadVars, lock, batch, dead, ran, spent>>

ScriptSucceeds(w) ==
  /\ pc[w] = "running"
  /\ ran' = ran \cup {work[w]}
  /\ Goto(w, "ran")
  /\ UNCHANGED <<dbVars, queueVars, work, target, lock, batch, dead, spent>>

(* The circuit breaker refuses, the script fails or times out, or the row   *)
(* has been deleted under an updateProgress.                                *)
ScriptFails(w) ==
  /\ pc[w] = "running"
  /\ \E retryable \in BOOLEAN : Goto(w, Caught(w, retryable))
  /\ UNCHANGED <<dbVars, queueVars, work, target, lock, batch, dead, ran, spent>>

(* updateProgress(100) and markAsCompleted.                                 *)
MarkCompleted(w) ==
  /\ pc[w] = "ran"
  /\ \/ /\ row[work[w]] # "NONE"
        /\ row' = [row EXCEPT ![work[w]] = "COMPLETED"]
        /\ stale' = stale \ {work[w]}
        /\ Goto(w, "advance")
     \/ /\ row[work[w]] = "NONE"
        /\ Goto(w, "failing")
        /\ UNCHANGED <<row, stale>>
  /\ UNCHANGED <<project, run, queueVars, work, target, lock, batch, dead, ran, spent>>

(* process() returned: BullMQ moves the entry to completed.                 *)
Finish(w) ==
  /\ pc[w] = "finish"
  /\ entry' = [entry EXCEPT ![work[w]] = "completed"]
  /\ made' = [made EXCEPT ![work[w]] = @ + 1]
  /\ work' = [work EXCEPT ![w] = NoJob]
  /\ Goto(w, "idle")
  /\ UNCHANGED <<dbVars, stalls, target, lock, batch, dead, ran, spent>>

(* The catch block, retry branch: updateProgress(0) and rethrow.            *)
CatchRetry(w) ==
  /\ pc[w] = "retry"
  /\ stale' = stale \ {work[w]}
  /\ Goto(w, "throw")
  /\ UNCHANGED <<project, run, row, queueVars, work, target, lock, batch, dead, ran, spent>>

(* The catch block, final branch: markAsFailed's transaction. It throws     *)
(* when the row is gone, and then nothing is dead-lettered.                 *)
CatchFail(w) ==
  /\ pc[w] = "failing"
  /\ \/ /\ row[work[w]] # "NONE"
        /\ lock = NoClient
        /\ row' = FailOneCancelRest(work[w])
        /\ stale' = {j \in stale : j # work[w] /\ ~IsActive(j)}
        /\ project' = "FAILED"
        /\ Goto(w, "deadletter")
     \/ /\ row[work[w]] = "NONE"
        /\ Goto(w, "throw")
        /\ UNCHANGED <<row, stale, project>>
  /\ UNCHANGED <<run, queueVars, work, target, lock, batch, dead, ran, spent>>

CatchDeadLetter(w) ==
  /\ pc[w] = "deadletter"
  /\ dead' = dead \cup {work[w]}
  /\ Goto(w, "throw")
  /\ UNCHANGED <<dbVars, queueVars, work, target, lock, batch, ran, spent>>

(* process() threw: BullMQ retries, with a delay, as long as attempts are   *)
(* left, also when the catch block has recorded a final failure.            *)
Throw(w) ==
  /\ pc[w] = "throw"
  /\ entry' = [entry EXCEPT ![work[w]] =
                 IF made[work[w]] + 1 < Attempts THEN "delayed" ELSE "failed"]
  /\ made' = [made EXCEPT ![work[w]] = @ + 1]
  /\ work' = [work EXCEPT ![w] = NoJob]
  /\ Goto(w, "idle")
  /\ UNCHANGED <<dbVars, stalls, target, lock, batch, dead, ran, spent>>

-----------------------------------------------------------------------------
(* BullMQ.                                                                  *)

Promote(j) ==
  /\ entry[j] = "delayed"
  /\ entry' = [entry EXCEPT ![j] = "waiting"]
  /\ UNCHANGED <<dbVars, made, stalls, threadVars, lock, batch, dead, ran, spent>>

(* The stalled checker finds an active entry whose worker is gone; the      *)
(* entry is given a second chance once (maxStalledCount = 1).               *)
RecoverStalled(j) ==
  /\ entry[j] = "active"
  /\ \A w \in Workers : work[w] # j
  /\ entry' = [entry EXCEPT ![j] = IF stalls[j] < 1 THEN "waiting" ELSE "failed"]
  /\ stalls' = [stalls EXCEPT ![j] = @ + 1]
  /\ UNCHANGED <<dbVars, made, threadVars, lock, batch, dead, ran, spent>>

(* removeOnComplete 200 / removeOnFail 500: a finished entry is forgotten   *)
(* once enough entries of other projects have finished after it. That takes *)
(* far longer than the call of add() a thread is about to make.             *)
Evict(j) ==
  /\ entry[j] \in {"completed", "failed"}
  /\ \A t \in Thread : target[t] # j
  /\ Spend("evict")
  /\ entry' = [entry EXCEPT ![j] = "none"]
  /\ made' = [made EXCEPT ![j] = 0]
  /\ stalls' = [stalls EXCEPT ![j] = 0]
  /\ UNCHANGED <<dbVars, threadVars, lock, batch, dead, ran>>

-----------------------------------------------------------------------------
(* The stale-job watchdog.                                                  *)

(* JOB_STALE_TIMEOUT_MS pass without an update of the row.                  *)
Age(j) ==
  /\ row[j] = "PROCESSING"
  /\ j \notin stale
  /\ stale' = stale \cup {j}
  /\ UNCHANGED <<project, run, row, queueVars, threadVars, lock, batch, dead, ran, spent>>

WatchdogScan ==
  /\ batch = {}
  /\ batch' = {j \in stale : row[j] = "PROCESSING"}
  /\ batch' # {}
  /\ UNCHANGED <<dbVars, queueVars, threadVars, lock, dead, ran, spent>>

(* One transaction per job of the batch, which checks the status again but  *)
(* not the age.                                                             *)
WatchdogFail(j) ==
  /\ j \in batch
  /\ batch' = batch \ {j}
  /\ \/ /\ row[j] = "PROCESSING"
        /\ row' = FailOneCancelRest(j)
        /\ stale' = {k \in stale : k # j /\ ~IsActive(k)}
        /\ \/ /\ project \in {"DRAFT", "PROCESSING"}
              /\ lock = NoClient
              /\ project' = "FAILED"
           \/ /\ project \notin {"DRAFT", "PROCESSING"}
              /\ UNCHANGED project
     \/ /\ row[j] # "PROCESSING"
        /\ UNCHANGED <<row, stale, project>>
  /\ UNCHANGED <<run, queueVars, threadVars, lock, dead, ran, spent>>

-----------------------------------------------------------------------------
(* Failures.                                                                *)

(* The backend process dies and is restarted: every thread, lock and        *)
(* watchdog cycle is lost; rows and queue entries stay.                     *)
Crash ==
  /\ Spend("crash")
  /\ pc' = [t \in Thread |-> "idle"]
  /\ work' = [t \in Thread |-> NoJob]
  /\ target' = [t \in Thread |-> NoJob]
  /\ lock' = NoClient
  /\ batch' = {}
  /\ UNCHANGED <<dbVars, queueVars, dead, ran>>

(* An await of a worker throws (Postgres or Redis unreachable). Queue.add   *)
(* may have taken effect before its reply was lost; a lost reply of any     *)
(* other call but AdvanceComplete's is that call followed by a fault.       *)
WorkerFault(w) ==
  /\ Spend("fault")
  /\ \/ /\ pc[w] \in {"fetched", "ran", "advance", "dispatching", "completing"}
        /\ Goto(w, Caught(w, TRUE))
        /\ \/ UNCHANGED entry
           \/ /\ pc[w] = "dispatching" /\ target[w][2] # Finalize
              /\ Enqueue(target[w])
     \/ /\ pc[w] \in {"retry", "failing", "deadletter"}
        /\ Goto(w, "throw")
        /\ UNCHANGED entry
  /\ target' = [target EXCEPT ![w] = NoJob]
  /\ UNCHANGED <<dbVars, made, stalls, work, lock, batch, dead, ran>>

(* An await of a request throws: the transaction is rolled back, the        *)
(* request is answered with an error.                                       *)
ClientFault(c) ==
  /\ Spend("fault")
  /\ pc[c] # "idle"
  /\ Goto(c, "idle")
  /\ lock' = IF lock = c THEN NoClient ELSE lock
  /\ target' = [target EXCEPT ![c] = NoJob]
  /\ UNCHANGED <<dbVars, queueVars, work, batch, dead, ran>>

(* A transaction of the watchdog throws: the rest of the cycle is dropped.  *)
WatchdogFault ==
  /\ batch # {}
  /\ Spend("fault")
  /\ batch' = {}
  /\ UNCHANGED <<dbVars, queueVars, threadVars, lock, dead, ran>>

-----------------------------------------------------------------------------
(* The next-state relation and its fairness.                                *)

AdvanceStep(t) ==
  AdvanceRead(t) \/ AdvanceComplete(t) \/ DispatchQueued(t) \/ DispatchFinalize(t)

WorkerStep(w) ==
  \/ Fetch(w) \/ MarkProcessing(w) \/ ScriptSucceeds(w) \/ ScriptFails(w)
  \/ MarkCompleted(w) \/ Finish(w)
  \/ CatchRetry(w) \/ CatchFail(w) \/ CatchDeadLetter(w) \/ Throw(w)
  \/ AdvanceStep(w)

ClientStep(c) ==
  StartCreate(c) \/ StartReuse(c) \/ ReplayMark(c) \/ AdvanceStep(c)

Environment ==
  \/ \E c \in Clients : StartRead(c)
  \/ \E c \in Clients, j \in JobId : ReplayRead(c, j)
  \/ CancelPipeline
  \/ \E w \in Workers : Heartbeat(w)
  \/ \E w \in Workers : WorkerFault(w)
  \/ \E c \in Clients : ClientFault(c)
  \/ WatchdogFault
  \/ \E j \in JobId : Evict(j)
  \/ Crash

Housekeeping ==
  \/ \E j \in JobId : Promote(j)
  \/ \E j \in JobId : RecoverStalled(j)
  \/ \E j \in JobId : Age(j)
  \/ WatchdogScan
  \/ \E j \in JobId : WatchdogFail(j)

Next ==
  \/ \E w \in Workers : WorkerStep(w)
  \/ \E c \in Clients : ClientStep(c)
  \/ Housekeeping
  \/ Environment

(* Node runs every ready continuation, a script ends (PythonRunnerService   *)
(* kills it at its timeout), delayed entries become due, the stalled        *)
(* checker and the watchdog run on timers, and time passes. Nothing obliges *)
(* a user to call, a script to report progress or a component to fail.      *)
Fairness ==
  /\ \A w \in Workers : WF_vars(WorkerStep(w))
  /\ \A c \in Clients : WF_vars(ClientStep(c))
  /\ \A j \in JobId : /\ WF_vars(Promote(j))
                      /\ WF_vars(RecoverStalled(j))
                      /\ WF_vars(Age(j))
                      /\ WF_vars(WatchdogFail(j))
  /\ WF_vars(WatchdogScan)

Spec     == Init /\ [][Next]_vars
FairSpec == Spec /\ Fairness

-----------------------------------------------------------------------------
(* Safety.                                                                  *)

(* The job table never holds rows of two runs, and holds all the stages of  *)
(* the latest: a start deletes and re-creates the whole pipeline.           *)
RowsOfOneRun == \A j \in JobId : row[j] # "NONE" <=> j[1] = run

AllRan(r) == \A s \in Workers : <<r, s>> \in ran

(* A project is COMPLETED only if, in one of its runs, the script of every  *)
(* stage has really ended in success (advancePipeline's 'complete').        *)
CompletedMeansAllRan ==
  project = "COMPLETED" => \E r \in 1 .. Limit["start"] : AllRan(r)

(* Concurrent starts never throw away a run whose FINALIZE is still to come *)
(* (the FOR UPDATE lock of startPipeline and the reuse of active rows).     *)
NoUnfinishedRunReplaced ==
  [][\A r \in 1 .. Limit["start"] :
        run = r /\ run' # r => row[<<r, Finalize>>] # "PENDING"]_vars

(* A FAILED or CANCELLED project has no stage left waiting to be run, save  *)
(* one that a dead-letter replay has asked for: whoever stops the project   *)
(* stops all of its stages in the same transaction.                         *)
StoppedHasNothingPending ==
  project \in {"FAILED", "CANCELLED"} => \A j \in JobId : row[j] = "PENDING" => j \in dead

(* Duplicate dispatches (a start that resumes, an advance) never send a     *)
(* completed stage back to work. Crashes, faults and replays may.           *)
CompletedStagesStayCompleted ==
  [][\A j \in JobId : row[j] = "COMPLETED" => row'[j] \in {"COMPLETED", "NONE"}]_vars

Targeted(j) == \E t \in Thread : target[t] = j

(* After a cancel, a failure or the watchdog's intervention, a stage that   *)
(* was not yet queued, and that nobody was about to dispatch, is dropped    *)
(* for good: no advancePipeline picks it up and it never reaches its queue. *)
CancelledStageStaysDropped ==
  [][\A j \in JobId :
        row[j] = "CANCELLED" /\ entry[j] = "none" /\ ~Targeted(j)
        => entry'[j] = "none" /\ (Targeted(j)' => j \in dead)]_vars

(* The latest run is still to be finalized.                                 *)
Unfinished == \E j \in JobId : j[1] = run /\ j[2] = Finalize /\ row[j] = "PENDING"

(* The jobs, queues and workers keep the promise of PipelinePromise: runs   *)
(* begin one at a time, and it takes the work of a whole run to complete.   *)
Promise == INSTANCE PipelinePromise
             WITH Work <- Workers, status <- project, open <- Unfinished, done <- ran
PromiseKept == Promise!PSpec

(* Within one run, a stage reaches its queue only after the scripts of all  *)
(* the stages before it have ended in success.                              *)
StagesInOrder ==
  \A j \in JobId : entry[j] # "none" => \A s \in 1 .. j[2] - 1 : <<j[1], s>> \in ran

(* Two stages of the project are never executed at the same time.           *)
OneStageAtATime ==
  \A v, w \in Workers : pc[v] = "running" /\ pc[w] = "running" => v = w

(* A PROCESSING project whose run has reached a queue is eventually         *)
(* COMPLETED, FAILED or CANCELLED.                                          *)
QueuedRunSettles ==
  (project = "PROCESSING" /\ \E j \in JobId : entry[j] # "none")
     ~> project \in {"COMPLETED", "FAILED", "CANCELLED"}

(* The run of a PROCESSING project that has reached a queue always has      *)
(* somebody to move it on: an entry that waits, is due later or is being    *)
(* worked on, or a row that the watchdog will find. The one way out is an   *)
(* entry that has failed for good: no order of duplicate dispatches,        *)
(* retries, crashes and recoveries strands the run otherwise.               *)
QueuedRunIsAttended ==
  project = "PROCESSING" /\ (\E j \in JobId : entry[j] # "none") =>
    \/ \E j \in JobId : entry[j] \in {"waiting", "delayed", "active", "failed"}
    \/ SomeProcessing

(* A started project does not stay PROCESSING for ever.                     *)
RunSettles == (project = "PROCESSING") ~> (project \in {"COMPLETED", "FAILED", "CANCELLED"})

(* README "Project Status Flow": a cancelled project does not complete,     *)
(* unless it is started again.                                              *)
CancelledNeverCompletes == [][project = "CANCELLED" => project' # "COMPLETED"]_vars

(* A replayed job is executed again.                                        *)
ReplayRuns ==
  \A j \in JobId : (row[j] = "PENDING" /\ j \in dead) ~> row[j] # "PENDING"

=============================================================================
