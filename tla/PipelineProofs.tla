--------------------------- MODULE PipelineProofs ---------------------------
(***************************************************************************)
(* Proofs about Pipeline for any number of stages, attempts and requests    *)
(* and for any bounds: type correctness, the safety of completion, of       *)
(* concurrent starts and of stopping a project, the refinement of           *)
(* PipelinePromise, and what becomes of single stages.                      *)
(***************************************************************************)
EXTENDS Pipeline, TLAPS

(* A busy worker has a job, and it is a job of the worker's own stage.      *)
WorkerHasJob ==
  \A w \in Workers : pc[w] # "idle" => work[w] \in JobId /\ work[w][2] = w

TypeInv == TypeOK /\ WorkerHasJob

(* Workers and requests are different threads, the workers serve every      *)
(* stage but FINALIZE, and NoJob is not a job.                              *)
LEMMA ThreadsDistinct ==
  /\ Workers \subseteq Thread /\ Clients \subseteq Thread
  /\ \A c \in Clients : c \notin Workers /\ c # NoClient
  /\ \A w \in Workers : w \in Stage /\ w # Finalize
  /\ NoJob \notin JobId
  /\ \A j \in JobId : j[1] \in 1 .. Limit["start"] /\ j[2] \in Stage /\ j = <<j[1], j[2]>>
  /\ \A r \in 1 .. Limit["start"], s \in Stage : <<r, s>> \in JobId
  /\ Limit["start"] \in Nat
BY PipelineAssumption DEF Workers, Thread, Stage, Finalize, NoJob, NoClient, JobId, Kind

(* The initial state is well typed.                                        *)
LEMMA TypeInit == Init => TypeInv
BY ThreadsDistinct DEF Init, TypeInv, TypeOK, WorkerHasJob, ProjectStatus, JobStatus,
   EntryState, PC, Thread, Kind

(* Counting an event keeps the counters natural numbers.                    *)
LEMMA SpendType ==
  ASSUME NEW k \in Kind, spent \in [Kind -> Nat], Spend(k)
  PROVE  spent' \in [Kind -> Nat]
BY DEF Spend

(* The kinds of events that are counted.                                    *)
LEMMA KindMembers ==
  /\ "start" \in Kind /\ "cancel" \in Kind /\ "replay" \in Kind
  /\ "crash" \in Kind /\ "fault" \in Kind /\ "evict" \in Kind
BY DEF Kind

(* No action of the workers, the requests, BullMQ, the watchdog or the      *)
(* environment breaks the types.                                            *)
LEMMA TypeStep == TypeInv /\ [Next]_vars => TypeInv'
<1> SUFFICES ASSUME TypeInv, [Next]_vars PROVE TypeInv'
  OBVIOUS
<1> USE ThreadsDistinct, KindMembers, SpendType DEF TypeInv, TypeOK, WorkerHasJob, JobStatus, Goto,
        dbVars, queueVars, threadVars
<1>1. ASSUME NEW w \in Workers, Fetch(w) PROVE TypeInv'
  BY <1>1 DEF Fetch, EntryState, PC
<1>2. ASSUME NEW w \in Workers, MarkProcessing(w) PROVE TypeInv'
  BY <1>2 DEF MarkProcessing, PC
<1>3. ASSUME NEW w \in Workers, ScriptSucceeds(w) PROVE TypeInv'
  BY <1>3 DEF ScriptSucceeds, PC
<1>4. ASSUME NEW w \in Workers, ScriptFails(w) PROVE TypeInv'
  BY <1>4 DEF ScriptFails, Caught, PC
<1>5. ASSUME NEW w \in Workers, MarkCompleted(w) PROVE TypeInv'
  BY <1>5 DEF MarkCompleted, PC
<1>6. ASSUME NEW w \in Workers, Finish(w) PROVE TypeInv'
  BY <1>6 DEF Finish, PC, EntryState
<1>7. ASSUME NEW w \in Workers, CatchRetry(w) PROVE TypeInv'
  BY <1>7 DEF CatchRetry, PC
<1>8. ASSUME NEW w \in Workers, CatchFail(w) PROVE TypeInv'
  BY <1>8 DEF CatchFail, FailOneCancelRest, ProjectStatus, PC
<1>9. ASSUME NEW w \in Workers, CatchDeadLetter(w) PROVE TypeInv'
  BY <1>9 DEF CatchDeadLetter, PC
<1>10. ASSUME NEW w \in Workers, Throw(w) PROVE TypeInv'
  BY <1>10 DEF Throw, EntryState, PC
<1>11. ASSUME NEW t \in Thread, AdvanceRead(t) PROVE TypeInv'
  BY <1>11 DEF AdvanceRead, Returned, PC
<1>12. ASSUME NEW t \in Thread, AdvanceComplete(t) PROVE TypeInv'
  BY <1>12 DEF AdvanceComplete, Returned, ProjectStatus, PC
<1>13. ASSUME NEW t \in Thread, DispatchQueued(t) PROVE TypeInv'
  BY <1>13 DEF DispatchQueued, Enqueue, Returned, EntryState, PC
<1>14. ASSUME NEW t \in Thread, DispatchFinalize(t) PROVE TypeInv'
  <2>1. CASE row[target[t]] # "NONE"
    <3>1. row' \in [JobId -> JobStatus \cup {"NONE"}] /\ stale' \in SUBSET JobId
      BY <1>14, <2>1 DEF DispatchFinalize
    <3>2. /\ pc' = [pc EXCEPT ![t] = "advance"] /\ pc[t] = "dispatching"
          /\ target' = [target EXCEPT ![t] = NoJob]
      BY <1>14, <2>1 DEF DispatchFinalize
    <3> QED
      BY <1>14, <3>1, <3>2 DEF DispatchFinalize, PC
  <2>2. CASE row[target[t]] = "NONE"
    BY <1>14, <2>2 DEF DispatchFinalize, PC
  <2> QED
    BY <2>1, <2>2
<1>15. ASSUME NEW c \in Clients, StartRead(c) PROVE TypeInv'
  <2>1. spent' \in [Kind -> Nat]
    BY <1>15 DEF StartRead
  <2>2. pc' \in [Thread -> PC] /\ \A w \in Workers : pc'[w] = pc[w]
    BY <1>15 DEF StartRead, PC
  <2>3. target' \in [Thread -> JobId \cup {NoJob}]
    BY <1>15 DEF StartRead
  <2> QED
    BY <1>15, <2>1, <2>2, <2>3 DEF StartRead, LockProject
<1>16. ASSUME NEW c \in Clients, StartCreate(c) PROVE TypeInv'
  BY <1>16, PipelineAssumption DEF StartCreate, FreshRows, ProjectStatus, PC, JobId, Stage
<1>17. ASSUME NEW c \in Clients, StartReuse(c) PROVE TypeInv'
  BY <1>17 DEF StartReuse, ProjectStatus, PC
<1>18. ASSUME NEW c \in Clients, ReplayMark(c) PROVE TypeInv'
  <2>1. CASE row[target[c]] # "NONE"
    BY <1>18, <2>1 DEF ReplayMark, PC
  <2>2. CASE row[target[c]] = "NONE"
    BY <1>18, <2>2 DEF ReplayMark, PC
  <2> QED
    BY <2>1, <2>2
<1>19. ASSUME NEW c \in Clients, NEW j \in JobId, ReplayRead(c, j) PROVE TypeInv'
  BY <1>19 DEF ReplayRead, PC
<1>20. ASSUME CancelPipeline PROVE TypeInv'
  BY <1>20 DEF CancelPipeline, FailOneCancelRest, ProjectStatus
<1>21. ASSUME NEW w \in Workers, Heartbeat(w) PROVE TypeInv'
  BY <1>21 DEF Heartbeat
<1>22. ASSUME NEW w \in Workers, WorkerFault(w) PROVE TypeInv'
  <2>1. spent' \in [Kind -> Nat]
    BY <1>22 DEF WorkerFault
  <2>2. pc' \in [Thread -> PC] /\ pc[w] # "idle" /\ \A v \in Workers \ {w} : pc'[v] = pc[v]
    BY <1>22 DEF WorkerFault, Caught, PC
  <2>3. entry' \in [JobId -> EntryState]
    <3>1. CASE entry' = entry
      BY <3>1
    <3>2. CASE Enqueue(target[w])
      BY <3>2 DEF Enqueue, EntryState
    <3> QED
      BY <1>22, <3>1, <3>2 DEF WorkerFault
  <2> QED
    BY <1>22, <2>1, <2>2, <2>3 DEF WorkerFault
<1>23. ASSUME NEW c \in Clients, ClientFault(c) PROVE TypeInv'
  BY <1>23 DEF ClientFault, PC
<1>24. ASSUME NEW j \in JobId, Evict(j) PROVE TypeInv'
  BY <1>24 DEF Evict, EntryState
<1>25. ASSUME Crash PROVE TypeInv'
  BY <1>25 DEF Crash, PC
<1>26. ASSUME NEW j \in JobId, Promote(j) PROVE TypeInv'
  BY <1>26 DEF Promote, EntryState
<1>27. ASSUME NEW j \in JobId, RecoverStalled(j) PROVE TypeInv'
  BY <1>27 DEF RecoverStalled, EntryState
<1>28. ASSUME NEW j \in JobId, Age(j) PROVE TypeInv'
  BY <1>28 DEF Age
<1>29. ASSUME WatchdogScan \/ WatchdogFault PROVE TypeInv'
  BY <1>29 DEF WatchdogScan, WatchdogFault
<1>30. ASSUME NEW j \in JobId, WatchdogFail(j) PROVE TypeInv'
  BY <1>30 DEF WatchdogFail, FailOneCancelRest, ProjectStatus
<1>31. ASSUME UNCHANGED vars PROVE TypeInv'
  BY <1>31 DEF vars
<1> QED
  BY <1>1, <1>2, <1>3, <1>4, <1>5, <1>6, <1>7, <1>8, <1>9, <1>10, <1>11, <1>12, <1>13,
     <1>14, <1>15, <1>16, <1>17, <1>18, <1>19, <1>20, <1>21, <1>22, <1>23, <1>24, <1>25,
     <1>26, <1>27, <1>28, <1>29, <1>30, <1>31
     DEF Next, WorkerStep, ClientStep, AdvanceStep, Environment, Housekeeping

(* Types, together with what a busy worker has at hand.                     *)
LEMMA TypesCorrect == Spec => []TypeInv
BY TypeInit, TypeStep, PTL DEF Spec

(* Every variable keeps its type: Pipeline!TypeOK.                          *)
THEOREM TypeCorrect == Spec => []TypeOK
<1>1. TypeInv => TypeOK
  BY DEF TypeInv
<1> QED
  BY <1>1, TypesCorrect, PTL

-----------------------------------------------------------------------------
(* Who writes what. These lemmas reduce the actions to the few that can     *)
(* disturb an invariant.                                                    *)

(* The ways in which a step can write the Job table.                        *)
RowsKept == row' = row /\ run' = run

RowSet(j, status) ==
  /\ row[j] # "NONE"
  /\ row' = [row EXCEPT ![j] = status]
  /\ run' = run
  /\ project' = project

RowsStopped(j) ==
  /\ \/ j = NoJob
     \/ row[j] = "PROCESSING"
     \/ row[j] # "NONE" /\ \E w \in Workers : pc[w] = "failing" /\ work[w] = j
  /\ row' = FailOneCancelRest(j)
  /\ run' = run

RowStep ==
  \/ RowsKept
  \/ \E c \in Clients : StartCreate(c)
  \/ \E c \in Clients : pc[c] = "replay" /\ RowSet(target[c], "PENDING")
  \/ \E w \in Workers : pc[w] = "fetched" /\ RowSet(work[w], "PROCESSING")
  \/ \E w \in Workers : MarkCompleted(w) /\ RowSet(work[w], "COMPLETED")
  \/ \E t \in Thread : target[t][2] = Finalize /\ RowSet(target[t], "COMPLETED")
  \/ \E j \in JobId \cup {NoJob} : RowsStopped(j)

(* Every step of the system writes the Job table in one of these ways.      *)
LEMMA RowWriters == TypeInv /\ [Next]_vars => RowStep
<1> SUFFICES ASSUME TypeInv, [Next]_vars PROVE RowStep
  OBVIOUS
<1> USE ThreadsDistinct DEF RowStep, RowsKept, RowSet, dbVars
<1>1. ASSUME NEW w \in Workers, Fetch(w) \/ ScriptSucceeds(w) \/ ScriptFails(w) \/ Finish(w)
             \/ CatchRetry(w) \/ CatchDeadLetter(w) \/ Throw(w) \/ Heartbeat(w) \/ WorkerFault(w)
      PROVE  RowsKept
  BY <1>1 DEF Fetch, ScriptSucceeds, ScriptFails, Finish, CatchRetry, CatchDeadLetter, Throw,
              Heartbeat, WorkerFault
<1>2. ASSUME NEW t \in Thread, AdvanceRead(t) \/ AdvanceComplete(t) \/ DispatchQueued(t)
      PROVE  RowsKept
  BY <1>2 DEF AdvanceRead, AdvanceComplete, DispatchQueued
<1>3. ASSUME NEW c \in Clients, StartRead(c) \/ StartReuse(c) \/ ClientFault(c)
      PROVE  RowsKept
  BY <1>3 DEF StartRead, StartReuse, ClientFault
<1>4. ASSUME NEW j \in JobId, \/ Promote(j) \/ RecoverStalled(j) \/ Evict(j) \/ Age(j)
                              \/ \E c \in Clients : ReplayRead(c, j)
      PROVE  RowsKept
  BY <1>4 DEF Promote, RecoverStalled, Evict, Age, ReplayRead
<1>5. ASSUME WatchdogScan \/ WatchdogFault \/ Crash \/ UNCHANGED vars PROVE RowsKept
  BY <1>5 DEF WatchdogScan, WatchdogFault, Crash, vars
<1>6. ASSUME NEW w \in Workers, MarkProcessing(w) PROVE RowStep
  BY <1>6 DEF MarkProcessing
<1>7. ASSUME NEW w \in Workers, MarkCompleted(w) PROVE RowStep
  BY <1>7 DEF MarkCompleted
<1>8. ASSUME NEW w \in Workers, CatchFail(w) PROVE RowStep
  <2>1. CASE row[work[w]] # "NONE"
    <3>1. work[w] \in JobId
      BY <1>8 DEF CatchFail, TypeInv, WorkerHasJob
    <3>2. RowsStopped(work[w])
      BY <1>8, <2>1 DEF CatchFail, RowsStopped
    <3> QED
      BY <3>1, <3>2
  <2>2. CASE row[work[w]] = "NONE"
    BY <1>8, <2>2 DEF CatchFail
  <2> QED
    BY <2>1, <2>2
<1>9. ASSUME NEW t \in Thread, DispatchFinalize(t) PROVE RowStep
  BY <1>9 DEF DispatchFinalize
<1>10. ASSUME NEW c \in Clients, ReplayMark(c) PROVE RowStep
  BY <1>10 DEF ReplayMark
<1>11. ASSUME CancelPipeline PROVE RowsStopped(NoJob)
  BY <1>11 DEF CancelPipeline, RowsStopped
<1>12. ASSUME NEW j \in JobId, WatchdogFail(j) PROVE RowStep
  <2>1. CASE row[j] = "PROCESSING"
    BY <1>12, <2>1 DEF WatchdogFail, RowsStopped
  <2>2. CASE row[j] # "PROCESSING"
    BY <1>12, <2>2 DEF WatchdogFail
  <2> QED
    BY <2>1, <2>2
<1> QED
  BY <1>1, <1>2, <1>3, <1>4, <1>5, <1>6, <1>7, <1>8, <1>9, <1>10, <1>11, <1>12
     DEF Next, WorkerStep, ClientStep, AdvanceStep, Environment, Housekeeping

-----------------------------------------------------------------------------
(* The rows of one run.                                                     *)

(* Only startPipeline's transaction adds or removes rows.                   *)
LEMMA RowsOfOneRunStep == TypeInv /\ RowsOfOneRun /\ [Next]_vars => RowsOfOneRun'
<1> SUFFICES ASSUME TypeInv, RowsOfOneRun, RowStep PROVE RowsOfOneRun'
  BY RowWriters
<1> USE ThreadsDistinct DEF RowsOfOneRun, TypeInv, TypeOK
<1>1. ASSUME NEW c \in Clients, StartCreate(c) PROVE RowsOfOneRun'
  BY <1>1 DEF StartCreate, FreshRows
<1>2. ASSUME NEW j, NEW status \in JobStatus, RowSet(j, status) PROVE RowsOfOneRun'
  BY <1>2 DEF RowSet, JobStatus
<1>3. ASSUME NEW j \in JobId \cup {NoJob}, RowsStopped(j) PROVE RowsOfOneRun'
  BY <1>3 DEF RowsStopped, FailOneCancelRest, IsActive
<1>4. CASE RowsKept
  BY <1>4 DEF RowsKept
<1> QED
  BY <1>1, <1>2, <1>3, <1>4 DEF RowStep, JobStatus

(* The job table never holds rows of two runs: Pipeline!RowsOfOneRun.       *)
THEOREM OneRun == Spec => []RowsOfOneRun
<1>1. Init => RowsOfOneRun
  BY ThreadsDistinct DEF Init, RowsOfOneRun
<1> QED
  BY <1>1, RowsOfOneRunStep, TypesCorrect, PTL DEF Spec

-----------------------------------------------------------------------------
(* Completion.                                                              *)

CompletedRowsRan == \A j \in JobId : row[j] = "COMPLETED" /\ j[2] # Finalize => j \in ran
EndedScriptsRan  == \A w \in Workers : pc[w] = "ran" => work[w] \in ran
SomeRunComplete  == \E r \in 1 .. Limit["start"] : AllRan(r)
CompletingIsDue  == \A t \in Thread : pc[t] = "completing" => SomeRunComplete

(* CompletedMeansAllRan says nothing of the rows and of a thread that has   *)
(* read them and is about to write the project: the inductive invariant     *)
(* ties both to the scripts that have ended.                                *)
CompletionInv ==
  /\ RowsOfOneRun
  /\ CompletedRowsRan
  /\ EndedScriptsRan
  /\ CompletingIsDue
  /\ CompletedMeansAllRan

(* The scripts that have ended in success stay ended: only ScriptSucceeds   *)
(* touches the history, and only a worker that is in its script does that.  *)
LEMMA RanGrows ==
  TypeInv /\ [Next]_vars => \/ ran' = ran
                            \/ \E w \in Workers : ScriptSucceeds(w)
<1> SUFFICES ASSUME TypeInv, [Next]_vars, \A w \in Workers : ~ScriptSucceeds(w)
             PROVE  ran' = ran
  OBVIOUS
<1>1. ASSUME NEW w \in Workers,
             \/ Fetch(w) \/ MarkProcessing(w) \/ MarkCompleted(w) \/ ScriptFails(w) \/ Finish(w)
             \/ CatchRetry(w) \/ CatchFail(w) \/ CatchDeadLetter(w) \/ Throw(w)
             \/ Heartbeat(w) \/ WorkerFault(w)
      PROVE  ran' = ran
  BY <1>1 DEF Fetch, MarkProcessing, MarkCompleted, ScriptFails, Finish, CatchRetry, CatchFail,
              CatchDeadLetter, Throw, Heartbeat, WorkerFault
<1>2. ASSUME NEW t, \/ AdvanceRead(t) \/ AdvanceComplete(t)
                    \/ DispatchQueued(t) \/ DispatchFinalize(t)
      PROVE  ran' = ran
  BY <1>2 DEF AdvanceRead, AdvanceComplete, DispatchQueued, DispatchFinalize
<1>3. ASSUME NEW c \in Clients,
             \/ StartRead(c) \/ StartCreate(c) \/ StartReuse(c) \/ ReplayMark(c) \/ ClientFault(c)
      PROVE  ran' = ran
  BY <1>3 DEF StartRead, StartCreate, StartReuse, ReplayMark, ClientFault
<1>4. ASSUME NEW j \in JobId, \/ Promote(j) \/ RecoverStalled(j) \/ Evict(j) \/ Age(j)
                              \/ WatchdogFail(j) \/ \E c \in Clients : ReplayRead(c, j)
      PROVE  ran' = ran
  BY <1>4 DEF Promote, RecoverStalled, Evict, Age, WatchdogFail, ReplayRead
<1>5. ASSUME WatchdogScan \/ WatchdogFault \/ Crash \/ CancelPipeline \/ UNCHANGED vars PROVE ran' = ran
  BY <1>5 DEF WatchdogScan, WatchdogFault, Crash, CancelPipeline, vars
<1> QED
  BY <1>1, <1>2, <1>3, <1>4, <1>5
     DEF Next, WorkerStep, ClientStep, AdvanceStep, Environment, Housekeeping

(* A worker leaves its script in success only by ScriptSucceeds, keeps its  *)
(* job until it is done, and a thread is about to complete the project only *)
(* after it has read that all rows are COMPLETED.                           *)
ControlStep ==
  /\ \A w \in Workers : pc'[w] = "ran" => \/ pc[w] = "ran" /\ work'[w] = work[w]
                                          \/ ScriptSucceeds(w)
  /\ \A t \in Thread : pc'[t] = "completing" => \/ pc[t] = "completing"
                                                \/ AdvanceRead(t) /\ ~SomePending /\ AllCompleted
  /\ project' = "COMPLETED" => \/ project = "COMPLETED"
                               \/ \E t \in Thread : pc[t] = "completing"
  /\ project' \in {"FAILED", "CANCELLED"} => \/ project' = project
                                            \/ \E j \in JobId \cup {NoJob} : RowsStopped(j)

LEMMA ControlSteps == TypeInv /\ [Next]_vars => ControlStep
<1> SUFFICES ASSUME TypeInv, [Next]_vars PROVE ControlStep
  OBVIOUS
<1> USE ThreadsDistinct DEF ControlStep, TypeInv, TypeOK, Goto, dbVars, threadVars
<1>1. ASSUME NEW w \in Workers, Fetch(w) \/ MarkProcessing(w) PROVE ControlStep
  BY <1>1 DEF Fetch, MarkProcessing
<1>2. ASSUME NEW w \in Workers, ScriptSucceeds(w) PROVE ControlStep
  BY <1>2 DEF ScriptSucceeds
<1>3. ASSUME NEW w \in Workers, ScriptFails(w) PROVE ControlStep
  BY <1>3 DEF ScriptFails, Caught
<1>4. ASSUME NEW w \in Workers, MarkCompleted(w) \/ CatchRetry(w) \/ CatchDeadLetter(w)
      PROVE  ControlStep
  BY <1>4 DEF MarkCompleted, CatchRetry, CatchDeadLetter
<1>5. ASSUME NEW w \in Workers, Finish(w) \/ Throw(w) PROVE ControlStep
  BY <1>5 DEF Finish, Throw
<1>6. ASSUME NEW w \in Workers, CatchFail(w) PROVE ControlStep
  <2>1. CASE row[work[w]] # "NONE"
    <3>1. work[w] \in JobId /\ RowsStopped(work[w])
      BY <1>6, <2>1 DEF CatchFail, RowsStopped, WorkerHasJob
    <3> QED
      BY <1>6, <2>1, <3>1 DEF CatchFail
  <2>2. CASE row[work[w]] = "NONE"
    BY <1>6, <2>2 DEF CatchFail
  <2> QED
    BY <2>1, <2>2
<1>7. ASSUME NEW w \in Workers, Heartbeat(w) PROVE ControlStep
  BY <1>7 DEF Heartbeat
<1>8. ASSUME NEW w \in Workers, WorkerFault(w) PROVE ControlStep
  BY <1>8 DEF WorkerFault, Caught
<1>9. ASSUME NEW t \in Thread, AdvanceRead(t) PROVE ControlStep
  <2>1. CASE SomePending
    BY <1>9, <2>1 DEF AdvanceRead
  <2>2. CASE ~SomePending
    BY <1>9, <2>2 DEF AdvanceRead, Returned, FirstPending, SomePending
  <2> QED
    BY <2>1, <2>2
<1>10. ASSUME NEW t \in Thread, AdvanceComplete(t) PROVE ControlStep
  BY <1>10 DEF AdvanceComplete, Returned
<1>11. ASSUME NEW t \in Thread, DispatchQueued(t) PROVE ControlStep
  BY <1>11 DEF DispatchQueued, Returned
<1>12. ASSUME NEW t \in Thread, DispatchFinalize(t) PROVE ControlStep
  BY <1>12 DEF DispatchFinalize
<1>13. ASSUME NEW c \in Clients, StartRead(c) PROVE ControlStep
  BY <1>13 DEF StartRead
<1>14. ASSUME NEW c \in Clients, StartCreate(c) \/ StartReuse(c) PROVE ControlStep
  BY <1>14 DEF StartCreate, StartReuse
<1>15. ASSUME NEW c \in Clients, ReplayMark(c) \/ ClientFault(c) PROVE ControlStep
  BY <1>15 DEF ReplayMark, ClientFault
<1>16. ASSUME NEW c \in Clients, NEW j \in JobId, ReplayRead(c, j) PROVE ControlStep
  BY <1>16 DEF ReplayRead
<1>17. ASSUME NEW j \in JobId, Promote(j) \/ RecoverStalled(j) \/ Evict(j) \/ Age(j)
      PROVE  ControlStep
  BY <1>17 DEF Promote, RecoverStalled, Evict, Age
<1>18. ASSUME NEW j \in JobId, WatchdogFail(j) PROVE ControlStep
  BY <1>18 DEF WatchdogFail, RowsStopped
<1>19. ASSUME WatchdogScan \/ WatchdogFault \/ CancelPipeline PROVE ControlStep
  BY <1>19 DEF WatchdogScan, WatchdogFault, CancelPipeline, RowsStopped
<1>20. ASSUME Crash PROVE ControlStep
  BY <1>20 DEF Crash
<1>21. ASSUME UNCHANGED vars PROVE ControlStep
  BY <1>21 DEF vars
<1> QED
  BY <1>1, <1>2, <1>3, <1>4, <1>5, <1>6, <1>7, <1>8, <1>9, <1>10, <1>11, <1>12, <1>13, <1>14,
     <1>15, <1>16, <1>17, <1>18, <1>19, <1>20, <1>21
     DEF Next, WorkerStep, ClientStep, AdvanceStep, Environment, Housekeeping

(* Rows that are all COMPLETED are the stages of a run that has all run.    *)
LEMMA AllCompletedRan ==
  TypeInv /\ RowsOfOneRun /\ CompletedRowsRan /\ AllCompleted => SomeRunComplete
<1> SUFFICES ASSUME TypeInv, RowsOfOneRun, CompletedRowsRan, AllCompleted
             PROVE  SomeRunComplete
  OBVIOUS
<1>1. PICK j \in JobId : row[j] # "NONE"
  BY DEF AllCompleted
<1>2. j[1] = run /\ run \in 1 .. Limit["start"]
  BY <1>1, ThreadsDistinct DEF RowsOfOneRun
<1>3. ASSUME NEW s \in Workers PROVE <<run, s>> \in ran
  <2>1. <<run, s>> \in JobId /\ s # Finalize
    BY <1>2, ThreadsDistinct
  <2>2. row[<<run, s>>] = "COMPLETED"
    BY <2>1 DEF RowsOfOneRun, AllCompleted
  <2> QED
    BY <2>1, <2>2 DEF CompletedRowsRan
<1> QED
  BY <1>2, <1>3 DEF SomeRunComplete, AllRan

(* Every step keeps the completion invariant.                               *)
LEMMA CompletionStep == TypeInv /\ CompletionInv /\ [Next]_vars => CompletionInv'
<1> SUFFICES ASSUME TypeInv, CompletionInv, [Next]_vars PROVE CompletionInv'
  OBVIOUS
<1> USE ThreadsDistinct DEF CompletionInv
<1>1. ran \subseteq ran'
  BY RanGrows DEF ScriptSucceeds
<1>2. SomeRunComplete => SomeRunComplete'
  BY <1>1 DEF SomeRunComplete, AllRan
<1>3. RowsOfOneRun'
  BY RowsOfOneRunStep
<1>4. CompletedRowsRan'
  <2> SUFFICES ASSUME NEW j \in JobId, row'[j] = "COMPLETED", j[2] # Finalize
               PROVE  j \in ran'
    BY DEF CompletedRowsRan
  <2> USE DEF CompletedRowsRan, TypeInv, TypeOK
  <2>1. CASE row[j] = "COMPLETED"
    BY <1>1, <2>1
  <2>2. CASE row[j] # "COMPLETED"
    <3>1. ~RowsKept
      BY <2>2 DEF RowsKept
    <3>2. ASSUME NEW c \in Clients, StartCreate(c) PROVE FALSE
      BY <3>2 DEF StartCreate, FreshRows
    <3>3. ASSUME NEW k, NEW status, RowSet(k, status)
          PROVE  k = j /\ status = "COMPLETED"
      BY <2>2, <3>3 DEF RowSet
    <3>4. ASSUME NEW k \in JobId \cup {NoJob}, RowsStopped(k) PROVE FALSE
      BY <2>2, <3>4 DEF RowsStopped, FailOneCancelRest
    <3>5. \E w \in Workers : pc[w] = "ran" /\ work[w] = j
      BY <3>1, <3>2, <3>3, <3>4, RowWriters DEF RowStep, MarkCompleted
    <3> QED
      BY <1>1, <3>5 DEF EndedScriptsRan
  <2> QED
    BY <2>1, <2>2
<1>5. EndedScriptsRan'
  BY <1>1, ControlSteps DEF EndedScriptsRan, ControlStep, ScriptSucceeds
<1>6. CompletingIsDue'
  BY <1>2, ControlSteps, AllCompletedRan DEF CompletingIsDue, ControlStep
<1>7. CompletedMeansAllRan'
  BY <1>2, ControlSteps DEF CompletedMeansAllRan, CompletingIsDue, ControlStep, SomeRunComplete
<1> QED
  BY <1>3, <1>4, <1>5, <1>6, <1>7

(* The rows, the threads and the project never run ahead of the scripts.    *)
LEMMA CompletionCorrect == Spec => []CompletionInv
<1>1. Init => CompletionInv
  BY ThreadsDistinct DEF Init, CompletionInv, RowsOfOneRun, CompletedRowsRan, EndedScriptsRan,
     CompletingIsDue, CompletedMeansAllRan
<1> QED
  BY <1>1, CompletionStep, TypesCorrect, PTL DEF Spec

(* A project is COMPLETED only if the script of every stage of one of its   *)
(* runs has ended in success: Pipeline!CompletedMeansAllRan.                *)
THEOREM CompletionSound == Spec => []CompletedMeansAllRan
<1>1. CompletionInv => CompletedMeansAllRan
  BY DEF CompletionInv
<1> QED
  BY <1>1, CompletionCorrect, PTL

-----------------------------------------------------------------------------
(* Stopping a project, and concurrent starts.                               *)

ReplayTargetsDead  == \A c \in Clients : pc[c] = "replay" => target[c] \in dead
NoFinalizeDead     == \A j \in dead : j[2] # Finalize
StartHoldsLock     == \A c \in Clients : pc[c] \in {"create", "reuse"} => lock = c
StartSawRunEnded   == \A c \in Clients :
                        pc[c] = "create" /\ run > 0 => row[<<run, Finalize>>] # "PENDING"

(* What an HTTP handler has read in its last await still holds when it      *)
(* writes: the lock keeps a start's reading true, and dead letters are      *)
(* never taken out of their queue.                                          *)
RequestInv ==
  /\ ReplayTargetsDead
  /\ NoFinalizeDead
  /\ StartHoldsLock
  /\ StartSawRunEnded

(* How a step moves the requests, the lock and the dead letters.            *)
RequestStep ==
  /\ dead' = dead \/ \E w \in Workers : work[w] \in JobId /\ work[w][2] = w /\ dead' = dead \cup {work[w]}
  /\ \A c \in Clients :
        /\ pc'[c] = "replay" => \/ pc[c] = "replay" /\ target'[c] = target[c]
                                \/ \E j \in JobId : ReplayRead(c, j)
        /\ pc'[c] \in {"create", "reuse"} => \/ pc[c] = pc'[c] /\ (lock = c => lock' = c)
                                             \/ StartRead(c)
        /\ pc'[c] = "create" => pc[c] = "create" \/ (StartRead(c) /\ ~SomeActive)

(* Every step moves the requests, the lock and the dead letters in one of   *)
(* the ways of RequestStep.                                                 *)
LEMMA RequestSteps == TypeInv /\ StartHoldsLock /\ [Next]_vars => RequestStep
<1> SUFFICES ASSUME TypeInv, StartHoldsLock, [Next]_vars PROVE RequestStep
  OBVIOUS
<1> USE ThreadsDistinct DEF RequestStep, TypeInv, TypeOK, Goto, dbVars, threadVars
<1>1. ASSUME NEW w \in Workers, \/ Fetch(w) \/ MarkProcessing(w) \/ ScriptSucceeds(w) \/ MarkCompleted(w)
             \/ CatchRetry(w) \/ CatchFail(w) \/ Heartbeat(w)
      PROVE  RequestStep
  BY <1>1 DEF Fetch, MarkProcessing, ScriptSucceeds, MarkCompleted, CatchRetry, CatchFail, Heartbeat
<1>2. ASSUME NEW w \in Workers, ScriptFails(w) PROVE RequestStep
  BY <1>2 DEF ScriptFails
<1>3. ASSUME NEW w \in Workers, Finish(w) \/ Throw(w) PROVE RequestStep
  BY <1>3 DEF Finish, Throw
<1>4. ASSUME NEW w \in Workers, CatchDeadLetter(w) PROVE RequestStep
  BY <1>4 DEF CatchDeadLetter, WorkerHasJob
<1>5. ASSUME NEW w \in Workers, WorkerFault(w) PROVE RequestStep
  BY <1>5 DEF WorkerFault
<1>6. ASSUME NEW t \in Thread, AdvanceRead(t) PROVE RequestStep
  <2>1. CASE SomePending
    BY <1>6, <2>1 DEF AdvanceRead, Returned
  <2>2. CASE ~SomePending
    BY <1>6, <2>2 DEF AdvanceRead, Returned, FirstPending, SomePending
  <2> QED
    BY <2>1, <2>2
<1>7. ASSUME NEW t \in Thread, AdvanceComplete(t) PROVE RequestStep
  BY <1>7 DEF AdvanceComplete, Returned
<1>8. ASSUME NEW t \in Thread, DispatchQueued(t) PROVE RequestStep
  BY <1>8 DEF DispatchQueued, Returned
<1>9. ASSUME NEW t \in Thread, DispatchFinalize(t) PROVE RequestStep
  BY <1>9 DEF DispatchFinalize
<1>10. ASSUME NEW c \in Clients, StartRead(c) PROVE RequestStep
  BY <1>10 DEF StartRead, LockProject, StartHoldsLock
<1>11. ASSUME NEW c \in Clients, StartCreate(c) PROVE RequestStep
  BY <1>11 DEF StartCreate, StartHoldsLock
<1>12. ASSUME NEW c \in Clients, StartReuse(c) PROVE RequestStep
  BY <1>12 DEF StartReuse, StartHoldsLock
<1>13. ASSUME NEW c \in Clients, ReplayMark(c) PROVE RequestStep
  BY <1>13 DEF ReplayMark
<1>14. ASSUME NEW c \in Clients, ClientFault(c) PROVE RequestStep
  BY <1>14 DEF ClientFault
<1>15. ASSUME NEW c \in Clients, NEW j \in JobId, ReplayRead(c, j) PROVE RequestStep
  BY <1>15 DEF ReplayRead
<1>16. ASSUME NEW j \in JobId, \/ Promote(j) \/ RecoverStalled(j) \/ Evict(j) \/ Age(j)
                               \/ WatchdogFail(j)
      PROVE  RequestStep
  BY <1>16 DEF Promote, RecoverStalled, Evict, Age, WatchdogFail
<1>17. ASSUME WatchdogScan \/ WatchdogFault \/ CancelPipeline \/ UNCHANGED vars PROVE RequestStep
  BY <1>17 DEF WatchdogScan, WatchdogFault, CancelPipeline, vars
<1>18. ASSUME Crash PROVE RequestStep
  BY <1>18 DEF Crash
<1> QED
  BY <1>1, <1>2, <1>3, <1>4, <1>5, <1>6, <1>7, <1>8, <1>9, <1>10, <1>11, <1>12, <1>13, <1>14,
     <1>15, <1>16, <1>17, <1>18
     DEF Next, WorkerStep, ClientStep, AdvanceStep, Environment, Housekeeping

(* Every step keeps what the requests have read true.                       *)
LEMMA RequestInvStep == TypeInv /\ RequestInv /\ [Next]_vars => RequestInv'
<1> SUFFICES ASSUME TypeInv, RequestInv, [Next]_vars PROVE RequestInv'
  OBVIOUS
<1> USE ThreadsDistinct DEF RequestInv
<1>1. RequestStep
  BY RequestSteps
<1>2. ReplayTargetsDead'
  <2> SUFFICES ASSUME NEW c \in Clients, pc'[c] = "replay" PROVE target'[c] \in dead'
    BY DEF ReplayTargetsDead
  <2>1. dead \subseteq dead'
    BY <1>1 DEF RequestStep
  <2>2. CASE pc[c] = "replay" /\ target'[c] = target[c]
    BY <2>1, <2>2 DEF ReplayTargetsDead
  <2>3. ASSUME NEW j \in JobId, ReplayRead(c, j) PROVE target'[c] \in dead'
    BY <2>3 DEF ReplayRead, TypeInv, TypeOK
  <2> QED
    BY <1>1, <2>2, <2>3 DEF RequestStep
<1>3. NoFinalizeDead'
  BY <1>1 DEF NoFinalizeDead, RequestStep
<1>4. StartHoldsLock'
  BY <1>1 DEF StartHoldsLock, RequestStep, StartRead, LockProject
<1>5. StartSawRunEnded'
  <2> SUFFICES ASSUME NEW c \in Clients, pc'[c] = "create", run' > 0
               PROVE  row'[<<run', Finalize>>] # "PENDING"
    BY DEF StartSawRunEnded
  <2> USE DEF TypeInv, TypeOK
  <2>1. CASE StartRead(c) /\ ~SomeActive
    <3>1. <<run, Finalize>> \in JobId
      BY <2>1, PipelineAssumption DEF StartRead, dbVars, Stage, Finalize
    <3> QED
      BY <2>1, <3>1 DEF StartRead, SomeActive, IsActive, dbVars
  <2>2. CASE pc[c] = "create"
    <3>1. lock = c
      BY <2>2 DEF StartHoldsLock
    <3>2. ASSUME NEW d \in Clients, StartCreate(d) PROVE FALSE
      BY <2>2, <3>1, <3>2 DEF StartCreate, StartHoldsLock, Goto
    <3>3. ASSUME run' = run PROVE <<run, Finalize>> \in JobId
      BY <3>3, PipelineAssumption DEF Stage, Finalize
    <3>4. ASSUME NEW j, RowSet(j, "PENDING"), j[2] # Finalize
          PROVE  row'[<<run', Finalize>>] # "PENDING"
      BY <2>2, <3>4 DEF RowSet, StartSawRunEnded
    <3>5. ASSUME NEW j, NEW status \in {"PROCESSING", "COMPLETED"}, RowSet(j, status)
          PROVE  row'[<<run', Finalize>>] # "PENDING"
      BY <2>2, <3>3, <3>5 DEF RowSet, StartSawRunEnded
    <3>6. ASSUME NEW j \in JobId \cup {NoJob}, RowsStopped(j)
          PROVE  row'[<<run', Finalize>>] # "PENDING"
      BY <2>2, <3>3, <3>6
         DEF RowsStopped, FailOneCancelRest, IsActive, StartSawRunEnded
    <3>7. CASE RowsKept
      BY <2>2, <3>7 DEF RowsKept, StartSawRunEnded
    <3>8. ASSUME NEW d \in Clients, pc[d] = "replay" PROVE target[d][2] # Finalize
      BY <3>8 DEF ReplayTargetsDead, NoFinalizeDead
    <3> QED
      BY <3>2, <3>4, <3>5, <3>6, <3>7, <3>8, RowWriters DEF RowStep
  <2> QED
    BY <1>1, <2>1, <2>2 DEF RequestStep
<1> QED
  BY <1>2, <1>3, <1>4, <1>5

(* What a request has read holds until it writes.                           *)
LEMMA RequestsCorrect == Spec => []RequestInv
<1>1. Init => RequestInv
  BY ThreadsDistinct DEF Init, RequestInv, ReplayTargetsDead, NoFinalizeDead, StartHoldsLock,
     StartSawRunEnded
<1> QED
  BY <1>1, RequestInvStep, TypesCorrect, PTL DEF Spec

(* However many starts race, and whatever else happens meanwhile, a start   *)
(* never deletes a run whose FINALIZE is still PENDING:                     *)
(* Pipeline!NoUnfinishedRunReplaced.                                        *)
THEOREM StartsSafe == Spec => NoUnfinishedRunReplaced
<1> DEFINE Kept == \A r \in 1 .. Limit["start"] :
                      run = r /\ run' # r => row[<<r, Finalize>>] # "PENDING"
<1>1. TypeInv /\ RequestInv /\ [Next]_vars => Kept
  <2> SUFFICES ASSUME TypeInv, RequestInv, [Next]_vars,
                      NEW r \in 1 .. Limit["start"], run = r, run' # r
               PROVE  row[<<r, Finalize>>] # "PENDING"
    OBVIOUS
  <2>1. PICK c \in Clients : StartCreate(c)
    BY RowWriters DEF RowStep, RowsKept, RowSet, RowsStopped
  <2> QED
    BY <2>1, ThreadsDistinct DEF StartCreate, RequestInv, StartSawRunEnded
<1>2. TypeInv /\ RequestInv /\ [Next]_vars => [Kept]_vars
  BY <1>1
<1>3. NoUnfinishedRunReplaced <=> [][Kept]_vars
  BY DEF NoUnfinishedRunReplaced
<1> HIDE DEF Kept
<1> QED
  BY <1>2, <1>3, TypesCorrect, RequestsCorrect, PTL DEF Spec

(* No step leaves a stopped project with a stage to run, replays apart.     *)
LEMMA StoppedStep ==
  TypeInv /\ RequestInv /\ StoppedHasNothingPending /\ [Next]_vars => StoppedHasNothingPending'
<1> SUFFICES ASSUME TypeInv, RequestInv, StoppedHasNothingPending, [Next]_vars,
                    project' \in {"FAILED", "CANCELLED"},
                    NEW j \in JobId, row'[j] = "PENDING"
             PROVE  j \in dead'
  BY DEF StoppedHasNothingPending
<1> USE ThreadsDistinct
<1>1. dead \subseteq dead'
  BY RequestSteps DEF RequestInv, RequestStep
<1>2. ASSUME NEW k \in JobId \cup {NoJob}, RowsStopped(k) PROVE FALSE
  BY <1>2 DEF RowsStopped, FailOneCancelRest, IsActive
<1>3. project' = project
  BY <1>2, ControlSteps DEF ControlStep
<1>4. CASE row[j] = "PENDING"
  BY <1>1, <1>3, <1>4 DEF StoppedHasNothingPending
<1>5. CASE row[j] # "PENDING"
  <2>1. ASSUME NEW c \in Clients, StartCreate(c) PROVE FALSE
    BY <2>1 DEF StartCreate
  <2>2. ASSUME NEW k, NEW status, RowSet(k, status) PROVE k = j /\ status = "PENDING"
    BY <1>5, <2>2 DEF RowSet, TypeInv, TypeOK
  <2>3. ~RowsKept
    BY <1>5 DEF RowsKept
  <2>4. \E c \in Clients : pc[c] = "replay" /\ target[c] = j
    BY <1>2, <2>1, <2>2, <2>3, RowWriters DEF RowStep
  <2> QED
    BY <1>1, <2>4 DEF RequestInv, ReplayTargetsDead
<1> QED
  BY <1>4, <1>5

(* Whoever fails or cancels a project stops all its stages in the same      *)
(* transaction, and nothing but a replay makes one pending again:           *)
(* Pipeline!StoppedHasNothingPending.                                       *)
THEOREM StopsAreTotal == Spec => []StoppedHasNothingPending
<1>1. Init => StoppedHasNothingPending
  BY DEF Init, StoppedHasNothingPending
<1> QED
  BY <1>1, StoppedStep, RequestsCorrect, TypesCorrect, PTL DEF Spec

-----------------------------------------------------------------------------
(*****************************************************************************)
(* Pipeline implements PipelinePromise. Every step of the jobs, the queues   *)
(* and the workers is one step of the promise or leaves it as it is.         *)
(*****************************************************************************)

(* Every job that is in a queue, at a worker, about to be dispatched or     *)
(* among the dead letters belongs to a run that has been created.           *)
EntriesOfRuns == \A j \in JobId : entry[j] # "none" => j[1] <= run
DeadOfRuns    == \A j \in dead : j[1] <= run
RanOfRuns     == \A j \in ran : j[1] <= run
WorkOfRuns    == \A w \in Workers : work[w][1] <= run
TargetsOfRuns == \A t \in Thread : target[t][1] <= run
ReuseHasRun   == \A c \in Clients : pc[c] = "reuse" => run > 0

RunsInv ==
  /\ EntriesOfRuns
  /\ DeadOfRuns
  /\ RanOfRuns
  /\ WorkOfRuns
  /\ TargetsOfRuns
  /\ ReuseHasRun

(* The rows of the table are those of the latest run.                       *)
LEMMA RowsAreOfRun ==
  ASSUME TypeInv, RowsOfOneRun, NEW j \in JobId, row[j] # "NONE"
  PROVE  j[1] = run /\ run > 0
BY ThreadsDistinct DEF RowsOfOneRun

(* A job enters a queue only from where it was about to be dispatched, and  *)
(* every other place a job can be in only from the queue, the table or the  *)
(* dead letters.                                                            *)
LEMMA RunsInvStep == TypeInv /\ RowsOfOneRun /\ RunsInv /\ [Next]_vars => RunsInv'
<1> SUFFICES ASSUME TypeInv, RowsOfOneRun, RunsInv, [Next]_vars PROVE RunsInv'
  OBVIOUS
<1> USE ThreadsDistinct, RowsAreOfRun
    DEF RunsInv, EntriesOfRuns, DeadOfRuns, RanOfRuns, WorkOfRuns, TargetsOfRuns, ReuseHasRun,
        TypeInv, TypeOK, Goto, dbVars, queueVars, threadVars, NoJob
<1>1. ASSUME NEW w \in Workers, Fetch(w) PROVE RunsInv'
  BY <1>1 DEF Fetch
<1>2. ASSUME NEW w \in Workers, MarkProcessing(w) \/ ScriptSucceeds(w) \/ MarkCompleted(w)
             \/ CatchRetry(w) \/ CatchFail(w) \/ Heartbeat(w)
      PROVE  RunsInv'
  BY <1>2 DEF MarkProcessing, ScriptSucceeds, MarkCompleted, CatchRetry, CatchFail, Heartbeat
<1>3. ASSUME NEW w \in Workers, ScriptFails(w) PROVE RunsInv'
  BY <1>3 DEF ScriptFails
<1>4. ASSUME NEW w \in Workers, Finish(w) \/ Throw(w) PROVE RunsInv'
  <2>1. work[w] \in JobId /\ work' = [work EXCEPT ![w] = NoJob] /\ run' = run /\ run >= 0
    BY <1>4 DEF Finish, Throw, WorkerHasJob
  <2>2. \A j \in JobId : j # work[w] => entry'[j] = entry[j]
    BY <1>4 DEF Finish, Throw
  <2>3. EntriesOfRuns'
    BY <2>1, <2>2
  <2>4. WorkOfRuns'
    BY <2>1
  <2> QED
    BY <1>4, <2>3, <2>4 DEF Finish, Throw
<1>5. ASSUME NEW w \in Workers, CatchDeadLetter(w) PROVE RunsInv'
  BY <1>5 DEF CatchDeadLetter
<1>6. ASSUME NEW t \in Thread, AdvanceRead(t) PROVE RunsInv'
  <2>1. ASSUME NEW j \in JobId, FirstPending(j), target' = [target EXCEPT ![t] = j],
               Goto(t, "dispatching")
        PROVE  RunsInv'
    BY <1>6, <2>1 DEF AdvanceRead, FirstPending
  <2>2. CASE ~SomePending /\ target' = target
    BY <1>6, <2>2 DEF AdvanceRead, Returned, FirstPending, SomePending
  <2> QED
    BY <1>6, <2>1, <2>2 DEF AdvanceRead
<1>7. ASSUME NEW t \in Thread, AdvanceComplete(t) PROVE RunsInv'
  BY <1>7 DEF AdvanceComplete, Returned
<1>8. ASSUME NEW t \in Thread, DispatchQueued(t) PROVE RunsInv'
  BY <1>8 DEF DispatchQueued, Enqueue, Returned
<1>9. ASSUME NEW t \in Thread, DispatchFinalize(t) PROVE RunsInv'
  BY <1>9 DEF DispatchFinalize
<1>10. ASSUME NEW c \in Clients, StartRead(c) PROVE RunsInv'
  <2>1. pc'[c] = "reuse" => run > 0
    BY <1>10 DEF StartRead, SomeActive, IsActive
  <2>2. target'[c][1] <= run
    BY <1>10 DEF StartRead, FirstPending
  <2>3. \A t \in Thread : t # c => pc'[t] = pc[t] /\ target'[t] = target[t]
    BY <1>10 DEF StartRead
  <2> QED
    BY <1>10, <2>1, <2>2, <2>3 DEF StartRead
<1>11. ASSUME NEW c \in Clients, StartCreate(c) PROVE RunsInv'
  <2>1. run' = run + 1 /\ target' = [target EXCEPT ![c] = <<run + 1, 1>>]
    BY <1>11 DEF StartCreate
  <2>2. TargetsOfRuns'
    BY <2>1
  <2>3. EntriesOfRuns' /\ DeadOfRuns' /\ RanOfRuns'
    BY <1>11, <2>1 DEF StartCreate
  <2>4. WorkOfRuns'
    BY <1>11, <2>1 DEF StartCreate
  <2>5. ReuseHasRun'
    BY <2>1
  <2> QED
    BY <2>2, <2>3, <2>4, <2>5
<1>12. ASSUME NEW c \in Clients, StartReuse(c) PROVE RunsInv'
  <2>1. UNCHANGED <<run, entry, dead, ran, work, target>>
    BY <1>12 DEF StartReuse
  <2>2. \A b \in Clients : pc'[b] = "reuse" => pc[b] = "reuse"
    BY <1>12 DEF StartReuse
  <2> QED
    BY ONLY RunsInv, <2>1, <2>2
       DEF RunsInv, EntriesOfRuns, DeadOfRuns, RanOfRuns, WorkOfRuns, TargetsOfRuns, ReuseHasRun
<1>13. ASSUME NEW c \in Clients, ReplayMark(c) \/ ClientFault(c) PROVE RunsInv'
  <2>1. UNCHANGED <<run, entry, dead, ran, work>>
    BY <1>13 DEF ReplayMark, ClientFault
  <2>2. \A t \in Thread : target'[t] \in {target[t], NoJob}
    BY <1>13 DEF ReplayMark, ClientFault
  <2>3. \A b \in Clients : pc'[b] = "reuse" => pc[b] = "reuse"
    BY <1>13 DEF ReplayMark, ClientFault
  <2>4. TargetsOfRuns'
    BY <2>1, <2>2
  <2> QED
    BY ONLY RunsInv, <2>1, <2>3, <2>4
       DEF RunsInv, EntriesOfRuns, DeadOfRuns, RanOfRuns, WorkOfRuns, ReuseHasRun
<1>14. ASSUME NEW c \in Clients, NEW j \in JobId, ReplayRead(c, j) PROVE RunsInv'
  BY <1>14 DEF ReplayRead
<1>15. ASSUME NEW w \in Workers, WorkerFault(w) PROVE RunsInv'
  <2>1. EntriesOfRuns'
    <3>1. CASE entry' = entry
      BY <1>15, <3>1 DEF WorkerFault
    <3>2. CASE Enqueue(target[w])
      BY <1>15, <3>2 DEF WorkerFault, Enqueue
    <3> QED
      BY <1>15, <3>1, <3>2 DEF WorkerFault
  <2>2. \A c \in Clients : pc'[c] = pc[c]
    BY <1>15 DEF WorkerFault
  <2>3. TargetsOfRuns' /\ run' = run
    BY <1>15 DEF WorkerFault
  <2> QED
    BY <1>15, <2>1, <2>2, <2>3 DEF WorkerFault
<1>16. ASSUME NEW j \in JobId, Promote(j) \/ RecoverStalled(j) \/ Evict(j) \/ Age(j)
             \/ WatchdogFail(j)
      PROVE  RunsInv'
  BY <1>16 DEF Promote, RecoverStalled, Evict, Age, WatchdogFail
<1>17. ASSUME WatchdogScan \/ WatchdogFault \/ CancelPipeline \/ UNCHANGED vars PROVE RunsInv'
  BY <1>17 DEF WatchdogScan, WatchdogFault, CancelPipeline, vars
<1>18. ASSUME Crash PROVE RunsInv'
  BY <1>18 DEF Crash
<1> QED
  BY <1>1, <1>2, <1>3, <1>4, <1>5, <1>6, <1>7, <1>8, <1>9, <1>10, <1>11, <1>12, <1>13, <1>14,
     <1>15, <1>16, <1>17, <1>18
     DEF Next, WorkerStep, ClientStep, AdvanceStep, Environment, Housekeeping

(* Nothing is ever done for a run that has not been created.                *)
LEMMA RunsCorrect == Spec => []RunsInv
<1>1. Init => RunsInv
  BY ThreadsDistinct DEF Init, RunsInv, EntriesOfRuns, DeadOfRuns, RanOfRuns, WorkOfRuns, TargetsOfRuns,
     ReuseHasRun, NoJob
<1> QED
  BY <1>1, RunsInvStep, TypesCorrect, OneRun, PTL DEF Spec
-----------------------------------------------------------------------------
(* The refinement.                                                          *)

(* Unfinished looks at one row only.                                        *)
LEMMA UnfinishedRow ==
  ASSUME TypeInv
  PROVE  Unfinished <=> run > 0 /\ row[<<run, Finalize>>] = "PENDING"
<1>1. run > 0 => <<run, Finalize>> \in JobId
  BY ThreadsDistinct, PipelineAssumption DEF TypeInv, TypeOK, Finalize, Stage
<1>2. \A j \in JobId : j[1] = run /\ j[2] = Finalize => j = <<run, Finalize>> /\ run > 0
  BY ThreadsDistinct
<1> QED
  BY <1>1, <1>2 DEF Unfinished

(* A step that leaves the project, the runs, the history and the row of     *)
(* FINALIZE alone is none the promise knows of.                             *)
LEMMA Stutters ==
  ASSUME project' = project, run' = run, ran' = ran,
         \A j \in JobId : j[2] = Finalize => (row'[j] = "PENDING" <=> row[j] = "PENDING")
  PROVE  UNCHANGED Promise!pvars
BY DEF Promise!pvars, Unfinished

(* Stopping the jobs leaves nothing open.                                   *)
LEMMA StoppedIsClosed ==
  ASSUME NEW j, row' = FailOneCancelRest(j)
  PROVE  ~Unfinished'
BY DEF Unfinished, FailOneCancelRest, IsActive

(* Every step of the pipeline is a step of the promise or a stutter.        *)
LEMMA PromiseStep ==
  TypeInv /\ RowsOfOneRun /\ CompletionInv /\ RequestInv /\ RunsInv /\ [Next]_vars
  => [Promise!PNext]_(Promise!pvars)
<1> SUFFICES ASSUME TypeInv, RowsOfOneRun, CompletionInv, RequestInv, RunsInv, [Next]_vars
             PROVE  Promise!PNext \/ UNCHANGED Promise!pvars
  OBVIOUS
<1> USE ThreadsDistinct DEF dbVars
<1>1. ASSUME NEW w \in Workers,
             \/ Fetch(w) \/ ScriptFails(w) \/ Finish(w) \/ CatchRetry(w) \/ CatchDeadLetter(w)
             \/ Throw(w) \/ Heartbeat(w) \/ WorkerFault(w)
      PROVE  UNCHANGED Promise!pvars
  BY <1>1, Stutters DEF Fetch, ScriptFails, Finish, CatchRetry, CatchDeadLetter, Throw, Heartbeat,
     WorkerFault
<1>2. ASSUME NEW t \in Thread, AdvanceRead(t) \/ DispatchQueued(t) PROVE UNCHANGED Promise!pvars
  BY <1>2, Stutters DEF AdvanceRead, DispatchQueued
<1>3. ASSUME NEW c \in Clients, StartRead(c) \/ ClientFault(c) PROVE UNCHANGED Promise!pvars
  BY <1>3, Stutters DEF StartRead, ClientFault
<1>4. ASSUME NEW j \in JobId, \/ Promote(j) \/ RecoverStalled(j) \/ Evict(j) \/ Age(j)
                              \/ \E c \in Clients : ReplayRead(c, j)
      PROVE  UNCHANGED Promise!pvars
  BY <1>4, Stutters DEF Promote, RecoverStalled, Evict, Age, ReplayRead
<1>5. ASSUME WatchdogScan \/ WatchdogFault \/ Crash \/ UNCHANGED vars
      PROVE  UNCHANGED Promise!pvars
  BY <1>5, Stutters DEF WatchdogScan, WatchdogFault, Crash, vars
<1>6. ASSUME NEW w \in Workers, MarkProcessing(w) \/ MarkCompleted(w)
      PROVE  UNCHANGED Promise!pvars
  <2>1. pc[w] # "idle"
    BY <1>6 DEF MarkProcessing, MarkCompleted
  <2>2. work[w][2] # Finalize
    BY <2>1 DEF TypeInv, WorkerHasJob
  <2>3. \A j \in JobId : j[2] = Finalize => row'[j] = row[j]
    BY <1>6, <2>2 DEF MarkProcessing, MarkCompleted, TypeInv, TypeOK
  <2> QED
    BY <1>6, <2>3, Stutters DEF MarkProcessing, MarkCompleted
<1>7. ASSUME NEW w \in Workers, ScriptSucceeds(w) PROVE Promise!DoWork
  <2>1. work[w] \in JobId /\ work[w][2] = w
    BY <1>7 DEF ScriptSucceeds, TypeInv, WorkerHasJob
  <2>2. work[w][1] \in 1 .. run /\ work[w] = <<work[w][1], w>>
    BY <2>1 DEF RunsInv, WorkOfRuns, TypeInv, TypeOK
  <2>3. UNCHANGED <<project, run, row>>
    BY <1>7 DEF ScriptSucceeds
  <2>4. Unfinished' = Unfinished
    BY <2>3 DEF Unfinished
  <2> QED
    BY <1>7, <2>2, <2>3, <2>4 DEF ScriptSucceeds, Promise!DoWork
<1>8. ASSUME NEW w \in Workers, CatchFail(w) PROVE Promise!PNext \/ UNCHANGED Promise!pvars
  <2>1. CASE row[work[w]] # "NONE"
    BY <1>8, <2>1, StoppedIsClosed DEF CatchFail, Promise!PNext, Promise!Stop
  <2>2. CASE row[work[w]] = "NONE"
    BY <1>8, <2>2, Stutters DEF CatchFail
  <2> QED
    BY <2>1, <2>2
<1>9. ASSUME NEW t \in Thread, AdvanceComplete(t) PROVE Promise!Complete
  <2>1. PICK r \in 1 .. Limit["start"] : AllRan(r)
    BY <1>9 DEF AdvanceComplete, CompletionInv, CompletingIsDue, SomeRunComplete
  <2>2. r <= run
    <3>1. <<r, 1>> \in ran
      BY <2>1, PipelineAssumption DEF AllRan, Workers
    <3> QED
      BY <3>1 DEF RunsInv, RanOfRuns
  <2> QED
    <3>1. r \in 1 .. run /\ Promise!AllDone(r)
      BY <2>1, <2>2 DEF AllRan, Promise!AllDone, TypeInv, TypeOK
    <3>2. UNCHANGED <<run, row, ran>> /\ project' = "COMPLETED"
      BY <1>9 DEF AdvanceComplete
    <3>3. Unfinished' = Unfinished
      BY <3>2 DEF Unfinished
    <3> QED
      BY <3>1, <3>2, <3>3 DEF Promise!Complete
<1>10. ASSUME NEW t \in Thread, DispatchFinalize(t)
       PROVE  Promise!PNext \/ UNCHANGED Promise!pvars
  <2>1. UNCHANGED <<project, run, ran>>
    BY <1>10 DEF DispatchFinalize
  <2>2. CASE Unfinished' <=> Unfinished
    BY <2>1, <2>2 DEF Promise!pvars
  <2>3. CASE ~(Unfinished' <=> Unfinished)
    <3>1. \A j \in JobId : row'[j] = "PENDING" => row[j] = "PENDING"
      BY <1>10 DEF DispatchFinalize, TypeInv, TypeOK
    <3>2. Unfinished /\ ~Unfinished'
      BY <2>1, <2>3, <3>1 DEF Unfinished
    <3> QED
      BY <2>1, <3>2 DEF Promise!PNext, Promise!Close
  <2> QED
    BY <2>2, <2>3
<1>11. ASSUME NEW c \in Clients, StartCreate(c) PROVE Promise!Begin
  <2>1. ~Unfinished
    BY <1>11, UnfinishedRow DEF StartCreate, RequestInv, StartSawRunEnded
  <2>2. run' = run + 1 /\ run + 1 \in 1 .. Limit["start"] /\ row' = FreshRows
    BY <1>11 DEF StartCreate, TypeInv, TypeOK
  <2>3. <<run + 1, Finalize>> \in JobId
    BY <2>2, PipelineAssumption DEF Stage, Finalize
  <2>4. Unfinished'
    BY <2>2, <2>3 DEF Unfinished, FreshRows
  <2> QED
    BY <1>11, <2>1, <2>4 DEF StartCreate, Promise!Begin
<1>12. ASSUME NEW c \in Clients, StartReuse(c) PROVE Promise!Resume
  <2>1. run > 0
    BY <1>12 DEF StartReuse, RunsInv, ReuseHasRun
  <2>2. Unfinished' = Unfinished
    BY <1>12 DEF StartReuse, Unfinished
  <2> QED
    BY <1>12, <2>1, <2>2 DEF StartReuse, Promise!Resume
<1>13. ASSUME NEW c \in Clients, ReplayMark(c) PROVE UNCHANGED Promise!pvars
  <2>1. target[c][2] # Finalize
    BY <1>13 DEF ReplayMark, RequestInv, ReplayTargetsDead, NoFinalizeDead
  <2>2. \A j \in JobId : j[2] = Finalize => row'[j] = row[j]
    BY <1>13, <2>1 DEF ReplayMark, TypeInv, TypeOK
  <2> QED
    BY <1>13, <2>2, Stutters DEF ReplayMark
<1>14. ASSUME CancelPipeline PROVE Promise!Stop
  BY <1>14, StoppedIsClosed DEF CancelPipeline, Promise!Stop
<1>15. ASSUME NEW j \in JobId, WatchdogFail(j)
       PROVE  Promise!PNext \/ UNCHANGED Promise!pvars
  <2>1. CASE row[j] # "PROCESSING"
    BY <1>15, <2>1, Stutters DEF WatchdogFail
  <2>2. CASE row[j] = "PROCESSING"
    <3>1. ~Unfinished' /\ run' = run /\ ran' = ran
      BY <1>15, <2>2, StoppedIsClosed DEF WatchdogFail
    <3>2. CASE project' = "FAILED"
      BY <3>1, <3>2 DEF Promise!PNext, Promise!Stop
    <3>3. CASE project' = project
      <4>1. CASE Unfinished
        BY <3>1, <3>3, <4>1 DEF Promise!PNext, Promise!Close
      <4>2. CASE ~Unfinished
        <5>1. Unfinished' = Unfinished
          BY <3>1, <4>2 DEF Unfinished
        <5> QED
          BY <3>1, <3>3, <5>1 DEF Promise!pvars
      <4> QED
        BY <4>1, <4>2
    <3> QED
      BY <1>15, <2>2, <3>2, <3>3 DEF WatchdogFail
  <2> QED
    BY <2>1, <2>2
<1> QED
  BY <1>1, <1>2, <1>3, <1>4, <1>5, <1>6, <1>7, <1>8, <1>9, <1>10, <1>11, <1>12, <1>13, <1>14,
     <1>15
     DEF Next, WorkerStep, ClientStep, AdvanceStep, Environment, Housekeeping, Promise!PNext

(* The pipeline keeps what PipelinePromise promises: Pipeline!PromiseKept.  *)
THEOREM PipelineImplementsPromise == Spec => PromiseKept
<1>1. Init => Promise!PInit
  BY DEF Init, Promise!PInit, Unfinished
<1> QED
  BY <1>1, PromiseStep, TypesCorrect, OneRun, CompletionCorrect, RequestsCorrect, RunsCorrect, PTL
     DEF Spec, PromiseKept, Promise!PSpec

-----------------------------------------------------------------------------
(*****************************************************************************)
(* What becomes of a single stage: a cancelled one is dropped, a completed   *)
(* one is not run again, and the stages of a run follow each other. The      *)
(* first holds whatever happens; the others as long as nothing fails, which  *)
(* is what the hypotheses on Limit say. Without them TLC has                 *)
(* counterexamples: a stage that is skipped after a crash, and a stage run   *)
(* again by a replay.                                                        *)
(*****************************************************************************)

NoFailures  == Limit["crash"] = 0 /\ Limit["fault"] = 0
NoReplay    == Limit["replay"] = 0
SingleStart == Limit["start"] = 1

(* A worker is busy exactly as long as it has a job, and the entry of that  *)
(* job is active all the while: nobody else takes or moves it.              *)
WorkIsActive ==
  \A w \in Workers : /\ pc[w] = "idle" <=> work[w] = NoJob
                     /\ pc[w] # "idle" => entry[work[w]] = "active"

(* An event that may happen no more often than never does not happen.       *)
LEMMA NeverSpent ==
  ASSUME NEW k \in Kind, spent \in [Kind -> Nat], Limit[k] = 0, Spend(k)
  PROVE  FALSE
BY DEF Spend

(* Two busy workers are busy with different jobs.                           *)
LEMMA OwnJobs ==
  TypeInv => \A v, w \in Workers : pc[v] # "idle" /\ pc[w] # "idle" /\ work[v] = work[w] => v = w
BY DEF TypeInv, WorkerHasJob

-----------------------------------------------------------------------------
(* How a step changes the queues and the workers' jobs: an entry is added   *)
(* by a thread that has the job for its target, fetched by the worker of    *)
(* its stage, ended by the worker that has it, and otherwise moved by       *)
(* BullMQ.                                                                  *)
EntryStep ==
  \/ entry' = entry /\ (work' = work \/ Crash)
  \/ \E t \in Thread : /\ pc[t] = "dispatching" /\ target[t][2] # Finalize
                       /\ Enqueue(target[t]) /\ work' = work
  \/ \E w \in Workers : Fetch(w) \/ Finish(w) \/ Throw(w)
  \/ \E j \in JobId : Promote(j) \/ RecoverStalled(j) \/ Evict(j)

(* Every step changes the queues in one of these ways.                      *)
LEMMA EntryWriters == [Next]_vars => EntryStep
<1> SUFFICES ASSUME [Next]_vars PROVE EntryStep
  OBVIOUS
<1> USE ThreadsDistinct DEF EntryStep, queueVars, threadVars
<1>1. ASSUME NEW w \in Workers,
             \/ MarkProcessing(w) \/ ScriptSucceeds(w) \/ ScriptFails(w) \/ MarkCompleted(w)
             \/ CatchRetry(w) \/ CatchFail(w) \/ CatchDeadLetter(w) \/ Heartbeat(w)
      PROVE  EntryStep
  BY <1>1 DEF MarkProcessing, ScriptSucceeds, ScriptFails, MarkCompleted, CatchRetry, CatchFail,
              CatchDeadLetter, Heartbeat
<1>2. ASSUME NEW w \in Workers, Fetch(w) \/ Finish(w) \/ Throw(w) PROVE EntryStep
  BY <1>2
<1>3. ASSUME NEW t \in Thread, AdvanceRead(t) \/ AdvanceComplete(t) \/ DispatchFinalize(t)
      PROVE  EntryStep
  BY <1>3 DEF AdvanceRead, AdvanceComplete, DispatchFinalize
<1>4. ASSUME NEW t \in Thread, DispatchQueued(t) PROVE EntryStep
  BY <1>4 DEF DispatchQueued
<1>5. ASSUME NEW w \in Workers, WorkerFault(w) PROVE EntryStep
  BY <1>5 DEF WorkerFault
<1>6. ASSUME NEW c \in Clients,
             \/ StartRead(c) \/ StartCreate(c) \/ StartReuse(c) \/ ReplayMark(c) \/ ClientFault(c)
             \/ \E j \in JobId : ReplayRead(c, j)
      PROVE  EntryStep
  BY <1>6 DEF StartRead, StartCreate, StartReuse, ReplayMark, ClientFault, ReplayRead
<1>7. ASSUME NEW j \in JobId, Promote(j) \/ RecoverStalled(j) \/ Evict(j) PROVE EntryStep
  BY <1>7
<1>8. ASSUME NEW j \in JobId, Age(j) \/ WatchdogFail(j) PROVE EntryStep
  BY <1>8 DEF Age, WatchdogFail
<1>9. ASSUME CancelPipeline \/ WatchdogScan \/ WatchdogFault \/ Crash \/ UNCHANGED vars
      PROVE  EntryStep
  BY <1>9 DEF CancelPipeline, WatchdogScan, WatchdogFault, Crash, vars
<1> QED
  BY <1>1, <1>2, <1>3, <1>4, <1>5, <1>6, <1>7, <1>8, <1>9
     DEF Next, WorkerStep, ClientStep, AdvanceStep, Environment, Housekeeping

(* How a step changes who is about to dispatch what.                        *)
TargetStep ==
  \A t \in Thread : \/ target'[t] \in {target[t], NoJob}
                    \/ \E j \in JobId : FirstPending(j) /\ target'[t] = j /\ row' = row
                    \/ StartCreate(t) /\ t \in Clients
                    \/ \E j \in JobId : ReplayRead(t, j) /\ t \in Clients

(* A thread takes a new target from the table, from a run it has created or *)
(* from the dead letters.                                                   *)
LEMMA TargetWriters == TypeInv /\ [Next]_vars => TargetStep
<1> SUFFICES ASSUME TypeInv, [Next]_vars PROVE TargetStep
  OBVIOUS
<1> USE ThreadsDistinct DEF TargetStep, TypeInv, TypeOK, threadVars, dbVars
<1>1. ASSUME NEW w \in Workers,
             \/ Fetch(w) \/ MarkProcessing(w) \/ ScriptSucceeds(w) \/ ScriptFails(w)
             \/ MarkCompleted(w) \/ Finish(w) \/ Throw(w)
             \/ CatchRetry(w) \/ CatchFail(w) \/ CatchDeadLetter(w) \/ Heartbeat(w)
      PROVE  TargetStep
  BY <1>1 DEF Fetch, MarkProcessing, ScriptSucceeds, ScriptFails, MarkCompleted, Finish, Throw,
              CatchRetry, CatchFail, CatchDeadLetter, Heartbeat
<1>2. ASSUME NEW t \in Thread, AdvanceRead(t) \/ AdvanceComplete(t) PROVE TargetStep
  BY <1>2 DEF AdvanceRead, AdvanceComplete
<1>3. ASSUME NEW t \in Thread, DispatchQueued(t) \/ DispatchFinalize(t) PROVE TargetStep
  BY <1>3 DEF DispatchQueued, DispatchFinalize
<1>4. ASSUME NEW w \in Workers, WorkerFault(w) PROVE TargetStep
  BY <1>4 DEF WorkerFault
<1>5. ASSUME NEW c \in Clients, StartRead(c) PROVE TargetStep
  BY <1>5 DEF StartRead
<1>6. ASSUME NEW c \in Clients, StartCreate(c) PROVE TargetStep
  BY <1>6 DEF StartCreate
<1>7. ASSUME NEW c \in Clients, NEW j \in JobId, ReplayRead(c, j) PROVE TargetStep
  BY <1>7 DEF ReplayRead
<1>8. ASSUME NEW c \in Clients, StartReuse(c) \/ ReplayMark(c) \/ ClientFault(c) PROVE TargetStep
  BY <1>8 DEF StartReuse, ReplayMark, ClientFault
<1>9. ASSUME NEW j \in JobId, Promote(j) \/ RecoverStalled(j) \/ Evict(j) \/ Age(j) \/ WatchdogFail(j)
      PROVE  TargetStep
  BY <1>9 DEF Promote, RecoverStalled, Evict, Age, WatchdogFail
<1>10. ASSUME CancelPipeline \/ WatchdogScan \/ WatchdogFault \/ UNCHANGED vars PROVE TargetStep
  BY <1>10 DEF CancelPipeline, WatchdogScan, WatchdogFault, vars
<1>11. ASSUME Crash PROVE TargetStep
  BY <1>11 DEF Crash
<1> QED
  BY <1>1, <1>2, <1>3, <1>4, <1>5, <1>6, <1>7, <1>8, <1>9, <1>10, <1>11
     DEF Next, WorkerStep, ClientStep, AdvanceStep, Environment, Housekeeping

-----------------------------------------------------------------------------
(* A worker's entry stays active until the worker has finished or failed.   *)
LEMMA WorkIsActiveStep == TypeInv /\ WorkIsActive /\ [Next]_vars => WorkIsActive'
<1> SUFFICES ASSUME TypeInv, WorkIsActive, [Next]_vars PROVE WorkIsActive'
  OBVIOUS
<1> USE ThreadsDistinct DEF WorkIsActive, TypeInv, TypeOK, WorkerHasJob, Goto, queueVars, threadVars
<1>1. ASSUME NEW w \in Workers, Fetch(w) PROVE WorkIsActive'
  BY <1>1 DEF Fetch
<1>2. ASSUME NEW w \in Workers, Finish(w) \/ Throw(w) PROVE WorkIsActive'
  <2>1. /\ pc[w] # "idle" /\ work[w] \in JobId
        /\ pc' = [pc EXCEPT ![w] = "idle"] /\ work' = [work EXCEPT ![w] = NoJob]
    BY <1>2 DEF Finish, Throw
  <2>2. \A j \in JobId : j # work[w] => entry'[j] = entry[j]
    BY <1>2 DEF Finish, Throw
  <2>3. \A v \in Workers \ {w} : pc[v] # "idle" => work[v] \in JobId /\ work[v] # work[w]
    BY <2>1, OwnJobs
  <2> QED
    BY <2>1, <2>2, <2>3
<1>3. ASSUME NEW w \in Workers,
             \/ MarkProcessing(w) \/ ScriptSucceeds(w) \/ MarkCompleted(w)
             \/ CatchRetry(w) \/ CatchFail(w) \/ CatchDeadLetter(w) \/ Heartbeat(w)
      PROVE  WorkIsActive'
  BY <1>3 DEF MarkProcessing, ScriptSucceeds, MarkCompleted, CatchRetry, CatchFail,
              CatchDeadLetter, Heartbeat
<1>4. ASSUME NEW w \in Workers, ScriptFails(w) PROVE WorkIsActive'
  BY <1>4 DEF ScriptFails, Caught
<1>5. ASSUME NEW t \in Thread, AdvanceRead(t) \/ AdvanceComplete(t) \/ DispatchFinalize(t)
      PROVE  WorkIsActive'
  <2>1. \A w \in Workers : pc'[w] = "idle" <=> pc[w] = "idle"
    BY <1>5 DEF AdvanceRead, AdvanceComplete, DispatchFinalize, Returned
  <2> QED
    BY <1>5, <2>1 DEF AdvanceRead, AdvanceComplete, DispatchFinalize
<1>6. ASSUME NEW t \in Thread, DispatchQueued(t) PROVE WorkIsActive'
  <2>1. \A w \in Workers : pc'[w] = "idle" <=> pc[w] = "idle"
    BY <1>6 DEF DispatchQueued, Returned
  <2>2. \A j \in JobId : entry[j] = "active" => entry'[j] = "active"
    BY <1>6 DEF DispatchQueued, Enqueue
  <2> QED
    BY <1>6, <2>1, <2>2 DEF DispatchQueued
<1>7. ASSUME NEW w \in Workers, WorkerFault(w) PROVE WorkIsActive'
  <2>1. \A v \in Workers : pc'[v] = "idle" <=> pc[v] = "idle"
    BY <1>7 DEF WorkerFault, Caught
  <2>2. \A j \in JobId : entry[j] = "active" => entry'[j] = "active"
    <3>1. CASE Enqueue(target[w])
      BY <3>1 DEF Enqueue
    <3> QED
      BY <1>7, <3>1 DEF WorkerFault
  <2> QED
    BY <1>7, <2>1, <2>2 DEF WorkerFault
<1>8. ASSUME NEW c \in Clients,
             \/ StartRead(c) \/ StartCreate(c) \/ StartReuse(c) \/ ReplayMark(c) \/ ClientFault(c)
             \/ \E j \in JobId : ReplayRead(c, j)
      PROVE  WorkIsActive'
  <2>1. \A w \in Workers : pc'[w] = pc[w]
    BY <1>8 DEF StartRead, StartCreate, StartReuse, ReplayMark, ClientFault, ReplayRead
  <2> QED
    BY <1>8, <2>1 DEF StartRead, StartCreate, StartReuse, ReplayMark, ClientFault, ReplayRead
<1>9. ASSUME NEW j \in JobId, Promote(j) \/ RecoverStalled(j) \/ Evict(j) PROVE WorkIsActive'
  BY <1>9 DEF Promote, RecoverStalled, Evict
<1>10. ASSUME NEW j \in JobId, Age(j) \/ WatchdogFail(j) PROVE WorkIsActive'
  BY <1>10 DEF Age, WatchdogFail
<1>11. ASSUME CancelPipeline \/ WatchdogScan \/ WatchdogFault \/ UNCHANGED vars
       PROVE  WorkIsActive'
  BY <1>11 DEF CancelPipeline, WatchdogScan, WatchdogFault, vars
<1>12. ASSUME Crash PROVE WorkIsActive'
  BY <1>12 DEF Crash
<1> QED
  BY <1>1, <1>2, <1>3, <1>4, <1>5, <1>6, <1>7, <1>8, <1>9, <1>10, <1>11, <1>12
     DEF Next, WorkerStep, ClientStep, AdvanceStep, Environment, Housekeeping

(* A worker that is busy has an active entry, whatever fails.               *)
LEMMA WorkAlwaysActive == Spec => []WorkIsActive
<1>1. Init => WorkIsActive
  BY ThreadsDistinct DEF Init, WorkIsActive
<1> QED
  BY <1>1, WorkIsActiveStep, TypesCorrect, PTL DEF Spec

(* A job that is in no queue and that nobody is about to dispatch does not  *)
(* get into a queue by the next step.                                       *)
LEMMA StaysOut ==
  ASSUME TypeInv, WorkIsActive, [Next]_vars, NEW j \in JobId, entry[j] = "none", ~Targeted(j)
  PROVE  entry'[j] = "none"
<1> USE ThreadsDistinct DEF TypeInv, TypeOK
<1>1. ASSUME NEW t \in Thread, Enqueue(target[t]) PROVE entry'[j] = "none"
  BY <1>1 DEF Enqueue, Targeted
<1>2. ASSUME NEW w \in Workers, Fetch(w) \/ Finish(w) \/ Throw(w) PROVE entry'[j] = "none"
  BY <1>2 DEF Fetch, Finish, Throw, WorkIsActive
<1>3. ASSUME NEW k \in JobId, Promote(k) \/ RecoverStalled(k) \/ Evict(k) PROVE entry'[j] = "none"
  BY <1>3 DEF Promote, RecoverStalled, Evict
<1> QED
  BY <1>1, <1>2, <1>3, EntryWriters DEF EntryStep

(* A stage that was dropped before it was queued is not picked up again:    *)
(* Pipeline!CancelledStageStaysDropped, whatever fails or is replayed.      *)
THEOREM DroppedStaysDropped == Spec => CancelledStageStaysDropped
<1> DEFINE Kept == \A j \in JobId :
                      row[j] = "CANCELLED" /\ entry[j] = "none" /\ ~Targeted(j)
                      => entry'[j] = "none" /\ (Targeted(j)' => j \in dead)
<1>1. TypeInv /\ RowsOfOneRun /\ WorkIsActive /\ [Next]_vars => Kept
  <2> SUFFICES ASSUME TypeInv, RowsOfOneRun, WorkIsActive, [Next]_vars,
                      NEW j \in JobId, row[j] = "CANCELLED", entry[j] = "none", ~Targeted(j)
               PROVE  entry'[j] = "none" /\ (Targeted(j)' => j \in dead)
    OBVIOUS
  <2> USE ThreadsDistinct DEF TypeInv, TypeOK
  <2>1. entry'[j] = "none"
    BY StaysOut
  <2>2. ASSUME NEW t \in Thread, target'[t] = j PROVE j \in dead
    <3>1. target'[t] \notin {target[t], NoJob} /\ ~FirstPending(j)
      BY <2>2 DEF Targeted, FirstPending
    <3>2. ASSUME StartCreate(t), t \in Clients PROVE FALSE
      BY <2>2, <3>2 DEF StartCreate, RowsOfOneRun
    <3>3. ASSUME NEW k \in JobId, ReplayRead(t, k), t \in Clients PROVE j \in dead
      BY <2>2, <3>3 DEF ReplayRead
    <3> QED
      BY <2>2, <3>1, <3>2, <3>3, TargetWriters DEF TargetStep
  <2> QED
    BY <2>1, <2>2 DEF Targeted
<1>2. TypeInv /\ RowsOfOneRun /\ WorkIsActive /\ [Next]_vars => [Kept]_vars
  BY <1>1
<1>3. CancelledStageStaysDropped <=> [][Kept]_vars
  BY DEF CancelledStageStaysDropped
<1> HIDE DEF Kept
<1> QED
  BY <1>2, <1>3, TypesCorrect, OneRun, WorkAlwaysActive, PTL DEF Spec

-----------------------------------------------------------------------------
(* Completed stages.                                                        *)

(* Where a worker stands once its stage is COMPLETED.                       *)
PastMark == {"advance", "dispatching", "completing", "finish"}

(* No queue will hand the job to a worker again.                            *)
IsPast(j) == \/ entry[j] = "completed"
             \/ entry[j] = "none" /\ ~Targeted(j)
             \/ \E w \in Workers : work[w] = j /\ pc[w] \in PastMark

DoneIsPast  == \A j \in JobId : row[j] = "COMPLETED" /\ j[2] # Finalize => IsPast(j)
AheadOfWork == \A w \in Workers : pc[w] = "dispatching" => work[w][1] <= target[w][1]
NoReplaying == \A c \in Clients : pc[c] # "replay"

(* CompletedStagesStayCompleted says nothing of the queues: the inductive   *)
(* invariant says why no worker will ever mark such a row again. AheadOfWork *)
(* is for the worker whose FINALIZE has been deleted by a new start: its     *)
(* own row is then deleted as well.                                         *)
PastInv == DoneIsPast /\ AheadOfWork /\ NoReplaying

(* While nothing fails a worker that has marked its stage COMPLETED goes on *)
(* to finish, unless the FINALIZE it dispatches has no row any more.        *)
LEMMA WorkerGoesOn ==
  ASSUME NoFailures, TypeInv, [Next]_vars, NEW w \in Workers, pc[w] \in PastMark
  PROVE  \/ pc'[w] \in PastMark /\ work'[w] = work[w]
         \/ Finish(w)
         \/ DispatchFinalize(w) /\ row[target[w]] = "NONE"
<1> DEFINE Goal == \/ pc'[w] \in PastMark /\ work'[w] = work[w]
                   \/ Finish(w)
                   \/ DispatchFinalize(w) /\ row[target[w]] = "NONE"
<1> USE ThreadsDistinct, KindMembers, NeverSpent
        DEF NoFailures, TypeInv, TypeOK, PastMark, Goto, threadVars
<1>1. ASSUME NEW v \in Workers,
             \/ Fetch(v) \/ MarkProcessing(v) \/ ScriptSucceeds(v) \/ ScriptFails(v)
             \/ MarkCompleted(v) \/ Throw(v) \/ CatchRetry(v) \/ CatchFail(v) \/ CatchDeadLetter(v)
             \/ Heartbeat(v)
      PROVE  Goal
  BY <1>1 DEF Fetch, MarkProcessing, ScriptSucceeds, ScriptFails, MarkCompleted, Throw, CatchRetry,
              CatchFail, CatchDeadLetter, Heartbeat
<1>2. ASSUME NEW v \in Workers, Finish(v) PROVE Goal
  BY <1>2 DEF Finish
<1>3. ASSUME NEW t \in Thread, AdvanceRead(t) \/ AdvanceComplete(t) \/ DispatchQueued(t) PROVE Goal
  BY <1>3 DEF AdvanceRead, AdvanceComplete, DispatchQueued, Returned
<1>4. ASSUME NEW t \in Thread, DispatchFinalize(t) PROVE Goal
  BY <1>4 DEF DispatchFinalize
<1>5. ASSUME NEW c \in Clients,
             \/ StartRead(c) \/ StartCreate(c) \/ StartReuse(c) \/ ReplayMark(c) \/ ClientFault(c)
             \/ \E j \in JobId : ReplayRead(c, j)
      PROVE  Goal
  BY <1>5 DEF StartRead, StartCreate, StartReuse, ReplayMark, ClientFault, ReplayRead
<1>6. ASSUME NEW j \in JobId, \/ Promote(j) \/ RecoverStalled(j) \/ Evict(j) \/ Age(j)
                              \/ WatchdogFail(j)
      PROVE  Goal
  BY <1>6 DEF Promote, RecoverStalled, Evict, Age, WatchdogFail
<1>7. ASSUME CancelPipeline \/ WatchdogScan \/ WatchdogFault \/ UNCHANGED vars PROVE Goal
  BY <1>7 DEF CancelPipeline, WatchdogScan, WatchdogFault, vars
<1>8. ~Crash /\ \A v \in Workers : ~WorkerFault(v)
  BY DEF Crash, WorkerFault
<1> QED
  BY <1>1, <1>2, <1>3, <1>4, <1>5, <1>6, <1>7, <1>8
     DEF Next, WorkerStep, ClientStep, AdvanceStep, Environment, Housekeeping

(* A worker dispatches what it has just read in the table.                  *)
LEMMA WorkerDispatches ==
  ASSUME TypeInv, [Next]_vars, NEW w \in Workers, pc'[w] = "dispatching"
  PROVE  \/ pc[w] = "dispatching" /\ work'[w] = work[w] /\ target'[w] = target[w]
         \/ work'[w] = work[w] /\ \E j \in JobId : FirstPending(j) /\ target'[w] = j
<1> DEFINE Goal ==
      \/ pc[w] = "dispatching" /\ work'[w] = work[w] /\ target'[w] = target[w]
      \/ work'[w] = work[w] /\ \E j \in JobId : FirstPending(j) /\ target'[w] = j
<1> USE ThreadsDistinct DEF TypeInv, TypeOK, Goto, threadVars
<1>1. ASSUME NEW v \in Workers,
             \/ Fetch(v) \/ MarkProcessing(v) \/ ScriptSucceeds(v)
             \/ MarkCompleted(v) \/ Finish(v) \/ Throw(v) \/ CatchRetry(v) \/ CatchFail(v)
             \/ CatchDeadLetter(v) \/ Heartbeat(v)
      PROVE  Goal
  BY <1>1 DEF Fetch, MarkProcessing, ScriptSucceeds, MarkCompleted, Finish, Throw,
              CatchRetry, CatchFail, CatchDeadLetter, Heartbeat
<1>2. ASSUME NEW v \in Workers, ScriptFails(v) \/ WorkerFault(v) PROVE Goal
  BY <1>2 DEF ScriptFails, WorkerFault, Caught
<1>3. ASSUME NEW t \in Thread, AdvanceRead(t) PROVE Goal
  BY <1>3 DEF AdvanceRead, Returned
<1>4. ASSUME NEW t \in Thread, AdvanceComplete(t) \/ DispatchQueued(t) \/ DispatchFinalize(t)
      PROVE  Goal
  BY <1>4 DEF AdvanceComplete, DispatchQueued, DispatchFinalize, Returned
<1>5. ASSUME NEW c \in Clients,
             \/ StartRead(c) \/ StartCreate(c) \/ StartReuse(c) \/ ReplayMark(c) \/ ClientFault(c)
             \/ \E j \in JobId : ReplayRead(c, j)
      PROVE  Goal
  BY <1>5 DEF StartRead, StartCreate, StartReuse, ReplayMark, ClientFault, ReplayRead
<1>6. ASSUME NEW j \in JobId, \/ Promote(j) \/ RecoverStalled(j) \/ Evict(j) \/ Age(j)
                              \/ WatchdogFail(j)
      PROVE  Goal
  BY <1>6 DEF Promote, RecoverStalled, Evict, Age, WatchdogFail
<1>7. ASSUME CancelPipeline \/ WatchdogScan \/ WatchdogFault \/ Crash \/ UNCHANGED vars PROVE Goal
  BY <1>7 DEF CancelPipeline, WatchdogScan, WatchdogFault, Crash, vars
<1> QED
  BY <1>1, <1>2, <1>3, <1>4, <1>5, <1>6, <1>7
     DEF Next, WorkerStep, ClientStep, AdvanceStep, Environment, Housekeeping

(* A completed stage stays out of every worker's hands while nothing fails  *)
(* and nothing is replayed.                                                 *)
LEMMA PastStep ==
  ASSUME NoFailures, NoReplay
  PROVE  TypeInv /\ RowsOfOneRun /\ RunsInv /\ StartHoldsLock /\ WorkIsActive /\ PastInv /\ [Next]_vars
         => PastInv'
<1> SUFFICES ASSUME TypeInv, RowsOfOneRun, RunsInv, StartHoldsLock, WorkIsActive, PastInv, [Next]_vars
             PROVE  PastInv'
  OBVIOUS
<1> USE ThreadsDistinct DEF TypeInv, TypeOK
<1>1. NoReplaying'
  BY RequestSteps, KindMembers, NeverSpent DEF RequestStep, ReplayRead, NoReplay, PastInv, NoReplaying
<1>2. AheadOfWork'
  <2> SUFFICES ASSUME NEW w \in Workers, pc'[w] = "dispatching" PROVE work'[w][1] <= target'[w][1]
    BY DEF AheadOfWork
  <2>1. CASE pc[w] = "dispatching" /\ work'[w] = work[w] /\ target'[w] = target[w]
    BY <2>1 DEF PastInv, AheadOfWork
  <2>2. ASSUME NEW j \in JobId, FirstPending(j), work'[w] = work[w], target'[w] = j
        PROVE  work'[w][1] <= target'[w][1]
    BY <2>2 DEF FirstPending, RowsOfOneRun, RunsInv, WorkOfRuns
  <2> QED
    BY <2>1, <2>2, WorkerDispatches
<1>3. DoneIsPast'
  <2> SUFFICES ASSUME NEW j \in JobId, row'[j] = "COMPLETED", j[2] # Finalize PROVE IsPast(j)'
    BY DEF DoneIsPast
  <2>1. CASE row[j] # "COMPLETED"
    <3>1. ASSUME NEW c \in Clients, StartCreate(c) PROVE FALSE
      BY <2>1, <3>1 DEF StartCreate, FreshRows
    <3>2. ASSUME NEW k, NEW status, RowSet(k, status) PROVE k = j /\ status = "COMPLETED"
      BY <2>1, <3>2 DEF RowSet
    <3>3. ASSUME NEW k, RowsStopped(k) PROVE FALSE
      BY <2>1, <3>3 DEF RowsStopped, FailOneCancelRest
    <3>4. PICK w \in Workers : MarkCompleted(w) /\ work[w] = j
      BY <2>1, <3>1, <3>2, <3>3, RowWriters DEF RowStep, RowsKept
    <3> QED
      BY <2>1, <3>4 DEF MarkCompleted, Goto, IsPast, PastMark
  <2>2. CASE row[j] = "COMPLETED"
    <3>1. CASE entry[j] = "completed"
      <4>1. ASSUME NEW t \in Thread, Enqueue(target[t]) PROVE entry'[j] = "completed"
        BY <3>1, <4>1 DEF Enqueue
      <4>2. ASSUME NEW w \in Workers, Fetch(w) \/ Finish(w) \/ Throw(w) PROVE entry'[j] = "completed"
        BY <3>1, <4>2 DEF Fetch, Finish, Throw, WorkIsActive
      <4>3. ASSUME NEW k \in JobId, Promote(k) \/ RecoverStalled(k) PROVE entry'[j] = "completed"
        BY <3>1, <4>3 DEF Promote, RecoverStalled
      <4>4. ASSUME NEW k \in JobId, Evict(k) PROVE IsPast(j)'
        BY <3>1, <4>4 DEF Evict, IsPast, Targeted, threadVars
      <4> QED
        BY <3>1, <4>1, <4>2, <4>3, <4>4, EntryWriters DEF EntryStep, IsPast
    <3>2. CASE entry[j] = "none" /\ ~Targeted(j)
      <4>1. entry'[j] = "none"
        BY <3>2, StaysOut
      <4>2. ASSUME NEW t \in Thread, target'[t] = j PROVE FALSE
        <5>1. target'[t] \notin {target[t], NoJob} /\ ~FirstPending(j)
          BY <2>2, <3>2, <4>2 DEF Targeted, FirstPending
        <5>2. ASSUME StartCreate(t) PROVE FALSE
          BY <4>2, <5>2 DEF StartCreate, FreshRows
        <5>3. ASSUME NEW k \in JobId, ReplayRead(t, k) PROVE FALSE
          BY <5>3, KindMembers, NeverSpent DEF ReplayRead, NoReplay
        <5> QED
          BY <4>2, <5>1, <5>2, <5>3, TargetWriters DEF TargetStep
      <4> QED
        BY <4>1, <4>2 DEF IsPast, Targeted
    <3>3. ASSUME NEW w \in Workers, work[w] = j, pc[w] \in PastMark PROVE IsPast(j)'
      <4>1. CASE pc'[w] \in PastMark /\ work'[w] = work[w]
        BY <3>3, <4>1 DEF IsPast
      <4>2. CASE Finish(w)
        BY <3>3, <4>2 DEF Finish, IsPast
      <4>3. CASE DispatchFinalize(w) /\ row[target[w]] = "NONE"
        <5>1. work[w][1] <= target[w][1] /\ target[w] \in JobId
          BY <3>3, <4>3 DEF DispatchFinalize, PastInv, AheadOfWork, NoJob
        <5>2. work[w][1] = run
          BY <2>2, <3>3 DEF RowsOfOneRun
        <5>3. target[w][1] # run
          BY <4>3, <5>1 DEF RowsOfOneRun
        <5>4. target[w][1] <= run /\ target[w][1] \in Nat /\ run \in Nat
          BY <5>1 DEF RunsInv, TargetsOfRuns
        <5>5. FALSE
          BY ONLY <5>1, <5>2, <5>3, <5>4
        <5> QED
          BY <5>5
      <4> QED
        BY <3>3, <4>1, <4>2, <4>3, WorkerGoesOn
    <3> QED
      BY <2>2, <3>1, <3>2, <3>3 DEF PastInv, DoneIsPast, IsPast
  <2> QED
    BY <2>1, <2>2
<1> QED
  BY <1>1, <1>2, <1>3 DEF PastInv

(* While nothing fails and nothing is replayed, no duplicate dispatch, by   *)
(* however many starts and advances, sends a completed stage back to work   *)
(* or fails it: Pipeline!CompletedStagesStayCompleted.                      *)
THEOREM CompletedStaysCompleted ==
  ASSUME NoFailures, NoReplay
  PROVE  Spec => CompletedStagesStayCompleted
<1> DEFINE Kept == \A j \in JobId : row[j] = "COMPLETED" => row'[j] \in {"COMPLETED", "NONE"}
<1>1. TypeInv /\ RowsOfOneRun /\ WorkIsActive /\ PastInv /\ [Next]_vars => Kept
  <2> SUFFICES ASSUME TypeInv, RowsOfOneRun, WorkIsActive, PastInv, [Next]_vars,
                      NEW j \in JobId, row[j] = "COMPLETED"
               PROVE  row'[j] \in {"COMPLETED", "NONE"}
    OBVIOUS
  <2> USE ThreadsDistinct DEF TypeInv, TypeOK
  <2>1. ASSUME NEW w \in Workers, work[w] = j, pc[w] \in {"fetched", "failing"} PROVE FALSE
    <3>1. j[2] # Finalize /\ entry[j] = "active"
      BY <2>1 DEF WorkerHasJob, WorkIsActive
    <3>2. PICK v \in Workers : work[v] = j /\ pc[v] \in PastMark
      BY <3>1 DEF PastInv, DoneIsPast, IsPast
    <3> QED
      BY <2>1, <3>2, OwnJobs DEF PastMark
  <2>2. ASSUME NEW c \in Clients, StartCreate(c) PROVE row'[j] = "NONE"
    BY <2>2 DEF StartCreate, FreshRows, RowsOfOneRun
  <2>3. ASSUME NEW k, NEW status, RowSet(k, status), k # j \/ status = "COMPLETED"
        PROVE  row'[j] = "COMPLETED"
    BY <2>3 DEF RowSet
  <2>4. ASSUME NEW k \in JobId \cup {NoJob}, RowsStopped(k) PROVE row'[j] = "COMPLETED"
    BY <2>1, <2>4 DEF RowsStopped, FailOneCancelRest, IsActive
  <2> QED
    BY <2>1, <2>2, <2>3, <2>4, RowWriters DEF RowStep, RowsKept, PastInv, NoReplaying
<1>2. TypeInv /\ RowsOfOneRun /\ WorkIsActive /\ PastInv /\ [Next]_vars => [Kept]_vars
  BY <1>1
<1>3. CompletedStagesStayCompleted <=> [][Kept]_vars
  BY DEF CompletedStagesStayCompleted
<1>4. Init => PastInv
  BY ThreadsDistinct DEF Init, PastInv, DoneIsPast, AheadOfWork, NoReplaying
<1>5. RequestInv => StartHoldsLock
  BY DEF RequestInv
<1> HIDE DEF Kept
<1> QED
  BY <1>2, <1>3, <1>4, <1>5, PastStep, TypesCorrect, OneRun, RunsCorrect, RequestsCorrect,
     WorkAlwaysActive, PTL DEF Spec

-----------------------------------------------------------------------------
(* The order of the stages of a run.                                        *)

PastScript      == \A w \in Workers :
                     pc[w] \in {"ran", "advance", "dispatching", "completing"} => work[w] \in ran
ActiveHasWorker == \A j \in JobId : entry[j] = "active" => \E w \in Workers : work[w] = j

(* The run has come to stage f: nothing has been done for the stages after  *)
(* it, everything for those before it.                                      *)
PendingAfter(f) == \E j \in JobId : j[2] > f /\ row[j] = "PENDING"

AheadUntouched(f) ==
  /\ \A j \in JobId : j[2] > f => /\ entry[j] = "none" /\ j \notin dead /\ ~Targeted(j)
                                  /\ row[j] \in {"NONE", "PENDING", "CANCELLED"}
  /\ \A j, k \in JobId : j[2] > f /\ k[2] > f => row[j] = row[k]

BehindDone(f) ==
  \A j \in JobId : j[2] < f => /\ j \in ran /\ row[j] = "COMPLETED" /\ j \notin dead
                               /\ ~Targeted(j) /\ entry[j] \in {"none", "active", "completed"}

(* Only the worker of stage f is at work. The one before it may still be    *)
(* dispatching f, or, when f is FINALIZE, have executed it.                  *)
OthersRest(f) ==
  \A w \in Workers :
    w # f => \/ pc[w] \in {"idle", "finish"}
             \/ w = f - 1 /\ pc[w] = "dispatching" /\ target[w] \in JobId /\ target[w][2] = f
             \/ w = f - 1 /\ f = Finalize /\ pc[w] \in {"advance", "completing"}

ClientsAtFront(f) ==
  \A c \in Clients :
    /\ pc[c] \in {"idle", "create", "replay", "dispatching"}
    /\ pc[c] = "create" => f = 0
    /\ pc[c] \in {"replay", "dispatching"} => /\ target[c] \in JobId
                                              /\ target[c][2] = f /\ f # Finalize

(* As long as later stages are pending, stage f has neither failed nor been *)
(* queued twice: when its worker advances, the run moves on.                *)
FrontMoves(f) ==
  PendingAfter(f) =>
    /\ \A j \in JobId : j[2] = f =>
         /\ j \notin dead
         /\ Targeted(j) => entry[j] = "none"
         /\ \A t, u \in Thread : target[t] = j /\ target[u] = j => t = u
         /\ f \in Workers /\ pc[f] \in {"advance", "completing"} => row[j] = "COMPLETED"
    /\ f \in Workers => pc[f] # "deadletter"

Started(f) ==
  /\ f = 0 <=> run = 0
  /\ f = 0 => \A w \in Workers : pc[w] = "idle"
  /\ f # 0 \/ (\E c \in Clients : pc[c] = "create") => spent["start"] = 1
  /\ f \in Workers /\ pc[f] = "dispatching" => target[f] \in JobId /\ target[f][2] = f

Front(f) ==
  /\ Started(f)
  /\ AheadUntouched(f)
  /\ BehindDone(f)
  /\ OthersRest(f)
  /\ ClientsAtFront(f)
  /\ FrontMoves(f)

FrontInv == PastScript /\ ActiveHasWorker /\ \E f \in 0 .. Stages : Front(f)

(* With a single start there is one job per stage.                          *)
LEMMA OneJobPerStage ==
  ASSUME SingleStart
  PROVE  /\ \A j, k \in JobId : j[2] = k[2] => j = k
         /\ \A j \in JobId : j[1] = 1
         /\ \A s \in Stage : <<1, s>> \in JobId
BY DEF SingleStart, JobId

(* A worker's script has ended before it marks its row and advances.        *)
LEMMA PastScriptStep == TypeInv /\ PastScript /\ [Next]_vars => PastScript'
<1> SUFFICES ASSUME TypeInv, PastScript, [Next]_vars PROVE PastScript'
  OBVIOUS
<1> USE ThreadsDistinct DEF PastScript, TypeInv, TypeOK, Goto, threadVars
<1>1. ASSUME NEW w \in Workers,
             \/ Fetch(w) \/ MarkProcessing(w) \/ ScriptSucceeds(w) \/ MarkCompleted(w) \/ Finish(w)
             \/ CatchRetry(w) \/ CatchFail(w) \/ CatchDeadLetter(w) \/ Throw(w) \/ Heartbeat(w)
      PROVE  PastScript'
  BY <1>1 DEF Fetch, MarkProcessing, ScriptSucceeds, MarkCompleted, Finish, CatchRetry, CatchFail,
              CatchDeadLetter, Throw, Heartbeat
<1>2. ASSUME NEW w \in Workers, ScriptFails(w) \/ WorkerFault(w) PROVE PastScript'
  BY <1>2 DEF ScriptFails, WorkerFault, Caught
<1>3. ASSUME NEW t \in Thread, \/ AdvanceRead(t) \/ AdvanceComplete(t)
                               \/ DispatchQueued(t) \/ DispatchFinalize(t)
      PROVE  PastScript'
  <2>1. /\ \A u \in Thread : u # t => pc'[u] = pc[u]
        /\ pc[t] \in {"advance", "dispatching", "completing"} /\ work' = work /\ ran' = ran
    BY <1>3 DEF AdvanceRead, AdvanceComplete, DispatchQueued, DispatchFinalize
  <2> QED
    BY <2>1
<1>4. ASSUME NEW c \in Clients,
             \/ StartRead(c) \/ StartCreate(c) \/ StartReuse(c) \/ ReplayMark(c) \/ ClientFault(c)
             \/ \E j \in JobId : ReplayRead(c, j)
      PROVE  PastScript'
  <2>1. (\A w \in Workers : pc'[w] = pc[w]) /\ work' = work /\ ran' = ran
    BY <1>4 DEF StartRead, StartCreate, StartReuse, ReplayMark, ClientFault, ReplayRead
  <2> QED
    BY <2>1
<1>5. ASSUME NEW j \in JobId, \/ Promote(j) \/ RecoverStalled(j) \/ Evict(j) \/ Age(j)
                              \/ WatchdogFail(j)
      PROVE  PastScript'
  BY <1>5 DEF Promote, RecoverStalled, Evict, Age, WatchdogFail
<1>6. ASSUME CancelPipeline \/ WatchdogScan \/ WatchdogFault \/ Crash \/ UNCHANGED vars
      PROVE  PastScript'
  BY <1>6 DEF CancelPipeline, WatchdogScan, WatchdogFault, Crash, vars
<1> QED
  BY <1>1, <1>2, <1>3, <1>4, <1>5, <1>6
     DEF Next, WorkerStep, ClientStep, AdvanceStep, Environment, Housekeeping

(* While nothing crashes an active entry has a worker, so BullMQ's stalled  *)
(* checker finds nothing to recover.                                        *)
LEMMA ActiveHasWorkerStep ==
  ASSUME NoFailures
  PROVE  TypeInv /\ WorkIsActive /\ ActiveHasWorker /\ [Next]_vars => ActiveHasWorker'
<1> SUFFICES ASSUME TypeInv, WorkIsActive, ActiveHasWorker, [Next]_vars,
                    NEW j \in JobId, entry'[j] = "active"
             PROVE  \E w \in Workers : work'[w] = j
  BY DEF ActiveHasWorker
<1> USE ThreadsDistinct DEF TypeInv, TypeOK
<1>1. ASSUME NEW w \in Workers, Fetch(w) PROVE \E v \in Workers : work'[v] = j
  <2>1. CASE entry[j] = "active"
    <3>1. PICK v \in Workers : work[v] = j
      BY <2>1 DEF ActiveHasWorker
    <3>2. v # w
      BY <1>1, <3>1 DEF Fetch, WorkIsActive
    <3> QED
      BY <1>1, <3>1, <3>2 DEF Fetch
  <2>2. CASE entry[j] # "active"
    BY <1>1, <2>2 DEF Fetch
  <2> QED
    BY <2>1, <2>2
<1>2. ASSUME NEW w \in Workers, Finish(w) \/ Throw(w) PROVE \E v \in Workers : work'[v] = j
  <2>1. work[w] # j /\ entry[j] = "active"
    BY <1>2 DEF Finish, Throw
  <2>2. PICK v \in Workers : work[v] = j
    BY <2>1 DEF ActiveHasWorker
  <2> QED
    BY <1>2, <2>1, <2>2 DEF Finish, Throw
<1>3. ASSUME NEW t \in Thread, Enqueue(target[t]) PROVE entry[j] = "active"
  BY <1>3 DEF Enqueue
<1>4. ASSUME NEW k \in JobId, Promote(k) \/ RecoverStalled(k) \/ Evict(k)
      PROVE  entry[j] = "active" /\ work' = work
  BY <1>4 DEF Promote, RecoverStalled, Evict, threadVars
<1>5. ~Crash
  BY KindMembers, NeverSpent DEF Crash, NoFailures
<1> QED
  BY <1>1, <1>2, <1>3, <1>4, <1>5, EntryWriters DEF EntryStep, ActiveHasWorker

(* The front stays or moves to the next stage.                              *)
LEMMA FrontStep ==
  ASSUME NoFailures, SingleStart
  PROVE  TypeInv /\ RowsOfOneRun /\ RequestInv /\ WorkIsActive /\ FrontInv /\ [Next]_vars
         => \E g \in 0 .. Stages : Front(g)'
<1> SUFFICES ASSUME TypeInv, RowsOfOneRun, RequestInv, WorkIsActive, PastScript, ActiveHasWorker,
                    [Next]_vars, NEW f \in 0 .. Stages, Front(f)
             PROVE  \E g \in 0 .. Stages : Front(g)'
  BY DEF FrontInv
<1> USE ThreadsDistinct DEF TypeInv, TypeOK, Goto, dbVars, queueVars, threadVars
<1>0. /\ f \in Nat /\ Finalize \in Nat \ {0}
      /\ \A j \in JobId : j[2] \in Nat \ {0}
      /\ \A w \in Workers : w \in Nat \ {0} /\ w # Finalize
  BY PipelineAssumption DEF Stage, Finalize, Workers
<1> USE <1>0
<1>1. ASSUME NEW w \in Workers, pc[w] \notin {"idle", "finish", "dispatching", "advance", "completing"}
      PROVE  w = f /\ work[w] \in JobId /\ work[w][2] = f
  BY <1>1 DEF Front, OthersRest, WorkerHasJob
<1>2. ASSUME NEW j \in JobId, \/ entry[j] \in {"waiting", "delayed", "failed"}
                             \/ row[j] \in {"PROCESSING", "FAILED"} \/ j \in dead
      PROVE  j[2] = f
  <2>1. ~(j[2] > f)
    BY <1>2 DEF Front, AheadUntouched
  <2>2. ~(j[2] < f)
    BY <1>2 DEF Front, BehindDone
  <2>3. j[2] \in Nat /\ f \in Nat
    OBVIOUS
  <2> QED
    BY ONLY <2>1, <2>2, <2>3
<1>3. ASSUME NEW w \in Workers, Fetch(w) PROVE Front(f)'
  <2>1. PICK j \in JobId : j[2] = w /\ entry[j] = "waiting" /\ entry' = [entry EXCEPT ![j] = "active"]
    BY <1>3 DEF Fetch
  <2>2. w = f
    BY <1>2, <2>1
  <2>3. Started(f)'
    BY <1>3, <2>2 DEF Fetch, Front, Started
  <2>4. AheadUntouched(f)' /\ BehindDone(f)'
    BY <1>3, <2>1, <2>2 DEF Fetch, Front, AheadUntouched, BehindDone, Targeted
  <2>5. OthersRest(f)' /\ ClientsAtFront(f)'
    BY <1>3, <2>2 DEF Fetch, Front, OthersRest, ClientsAtFront
  <2>6. FrontMoves(f)'
    BY <1>3, <2>1, <2>2 DEF Fetch, Front, FrontMoves, Targeted, PendingAfter
  <2> QED
    BY <2>3, <2>4, <2>5, <2>6 DEF Front
<1>4. ASSUME NEW w \in Workers, MarkProcessing(w) \/ MarkCompleted(w) PROVE Front(f)'
  <2>1. w = f /\ work[w] \in JobId /\ work[w][2] = f
    BY <1>1, <1>4 DEF MarkProcessing, MarkCompleted
  <2>2. \A j \in JobId : j[2] # f => row'[j] = row[j]
    BY <1>4, <2>1 DEF MarkProcessing, MarkCompleted
  <2>3. Started(f)'
    BY <1>4, <2>1 DEF MarkProcessing, MarkCompleted, Front, Started
  <2>4. (AheadUntouched(f) /\ BehindDone(f))'
    BY <1>4, <2>2 DEF MarkProcessing, MarkCompleted, Front, AheadUntouched, BehindDone, Targeted
  <2>5. OthersRest(f)' /\ ClientsAtFront(f)'
    BY <1>4, <2>1 DEF MarkProcessing, MarkCompleted, Front, OthersRest, ClientsAtFront
  <2>6. FrontMoves(f)'
    <3> SUFFICES ASSUME PendingAfter(f)' PROVE FrontMoves(f)'
      BY DEF FrontMoves
    <3>1. PendingAfter(f)
      BY <2>2 DEF PendingAfter
    <3>2. pc'[f] = "advance" => \A j \in JobId : j[2] = f => row'[j] = "COMPLETED"
      BY <1>4, <2>1, OneJobPerStage DEF MarkProcessing, MarkCompleted
    <3> QED
      BY <1>4, <2>1, <3>1, <3>2 DEF MarkProcessing, MarkCompleted, Front, FrontMoves, Targeted
  <2> QED
    BY <2>3, <2>4, <2>5, <2>6 DEF Front
<1>5. ASSUME NEW w \in Workers, ScriptSucceeds(w) \/ CatchRetry(w) \/ Heartbeat(w) PROVE Front(f)'
  <2>1. w = f
    BY <1>1, <1>5 DEF ScriptSucceeds, CatchRetry, Heartbeat
  <2> QED
    BY <1>5, <2>1 DEF ScriptSucceeds, CatchRetry, Heartbeat, Front, Started, AheadUntouched,
       BehindDone, Targeted,
       OthersRest, ClientsAtFront, FrontMoves, PendingAfter
<1>6. ASSUME NEW w \in Workers, ScriptFails(w) PROVE Front(f)'
  <2>1. w = f
    BY <1>1, <1>6 DEF ScriptFails
  <2> QED
    BY <1>6, <2>1 DEF ScriptFails, Caught, Front, Started, AheadUntouched, BehindDone, Targeted,
       OthersRest, ClientsAtFront, FrontMoves, PendingAfter
<1>7. ASSUME NEW w \in Workers, Finish(w) \/ Throw(w) PROVE Front(f)'
  <2>1. /\ work[w] \in JobId /\ work[w][2] = w /\ entry[work[w]] = "active"
        /\ \A j \in JobId : j # work[w] => entry'[j] = entry[j]
        /\ UNCHANGED <<project, run, row, target, dead, ran, spent>>
        /\ pc[w] \in {"finish", "throw"} /\ pc' = [pc EXCEPT ![w] = "idle"]
        /\ w # f => entry'[work[w]] = "completed"
    BY <1>1, <1>7 DEF Finish, Throw, WorkerHasJob, WorkIsActive
  <2>2. w <= f
    BY <2>1 DEF Front, AheadUntouched
  <2>3. Started(f)'
    BY <2>1 DEF Front, Started
  <2>4. AheadUntouched(f)' 
    BY <2>1, <2>2 DEF Front, AheadUntouched, Targeted
  <2>5. BehindDone(f)'
    BY <2>1, <2>2 DEF Front, BehindDone, Targeted
  <2>6. OthersRest(f)' /\ ClientsAtFront(f)'
    BY <2>1 DEF Front, OthersRest, ClientsAtFront
  <2>7. FrontMoves(f)'
    BY <2>1 DEF Front, FrontMoves, Targeted, PendingAfter
  <2> QED
    BY <2>3, <2>4, <2>5, <2>6, <2>7 DEF Front
<1>8. ASSUME NEW w \in Workers, CatchDeadLetter(w) PROVE Front(f)'
  <2>1. w = f /\ work[w] \in JobId /\ work[w][2] = f
    BY <1>1, <1>8 DEF CatchDeadLetter
  <2>2. ~PendingAfter(f)'
    BY <1>8, <2>1 DEF CatchDeadLetter, Front, FrontMoves, PendingAfter
  <2> QED
    BY <1>8, <2>1, <2>2 DEF CatchDeadLetter, Front, Started, AheadUntouched, BehindDone, Targeted,
       OthersRest, ClientsAtFront, FrontMoves
<1>9. ASSUME NEW j \in JobId \cup {NoJob}, row' = FailOneCancelRest(j), j \in JobId => j[2] = f
      PROVE  ~PendingAfter(f)' /\ \A k \in JobId : /\ k[2] < f /\ row[k] = "COMPLETED" => row'[k] = "COMPLETED"
                                                   /\ k[2] > f => row'[k] = IF IsActive(k) THEN "CANCELLED" ELSE row[k]
  BY <1>9 DEF FailOneCancelRest, IsActive, PendingAfter
<1>10. ASSUME NEW w \in Workers, CatchFail(w) PROVE Front(f)'
  <2>1. w = f /\ work[w] \in JobId /\ work[w][2] = f
    BY <1>1, <1>10 DEF CatchFail
  <2>2. Started(f)' /\ OthersRest(f)' /\ ClientsAtFront(f)'
    BY <1>10, <2>1 DEF CatchFail, Front, Started, OthersRest, ClientsAtFront
  <2>3. CASE row[work[w]] = "NONE"
    BY <1>10, <2>1, <2>2, <2>3 DEF CatchFail, Front, AheadUntouched, BehindDone, Targeted,
       FrontMoves, PendingAfter
  <2>4. CASE row[work[w]] # "NONE"
    BY <1>9, <1>10, <2>1, <2>2, <2>4 DEF CatchFail, Front, AheadUntouched, BehindDone,
       Targeted, FrontMoves, IsActive
  <2> QED
    BY <2>3, <2>4
<1>11. ASSUME NEW j \in JobId, WatchdogFail(j) PROVE Front(f)'
  <2>1. CASE row[j] # "PROCESSING"
    BY <1>11, <2>1 DEF WatchdogFail, Front, Started, AheadUntouched, BehindDone, Targeted,
       OthersRest, ClientsAtFront, FrontMoves, PendingAfter
  <2>2. CASE row[j] = "PROCESSING"
    <3>1. j[2] = f /\ row' = FailOneCancelRest(j)
      BY <1>2, <1>11, <2>2 DEF WatchdogFail
    <3>2. /\ ~PendingAfter(f)'
          /\ \A k \in JobId : /\ k[2] < f /\ row[k] = "COMPLETED" => row'[k] = "COMPLETED"
                              /\ k[2] > f => row'[k] = IF IsActive(k) THEN "CANCELLED" ELSE row[k]
      BY <1>9, <3>1
    <3>3. Started(f)' /\ OthersRest(f)' /\ ClientsAtFront(f)'
      BY <1>11, <3>1 DEF WatchdogFail, Front, Started, OthersRest, ClientsAtFront
    <3>0. UNCHANGED <<entry, dead, ran, target>>
      BY <1>11 DEF WatchdogFail
    <3>4. AheadUntouched(f)'
      <4>1. AheadUntouched(f)
        BY DEF Front
      <4>2. \A k \in JobId : k[2] > f => row'[k] = IF IsActive(k) THEN "CANCELLED" ELSE row[k]
        BY <3>2
      <4>3. \A j1, k \in JobId : j1[2] > f /\ k[2] > f => row'[j1] = row'[k]
        BY ONLY <4>1, <4>2 DEF AheadUntouched, IsActive
      <4>4. \A k \in JobId : k[2] > f => row'[k] \in {"NONE", "PENDING", "CANCELLED"}
        BY ONLY <4>1, <4>2 DEF AheadUntouched
      <4> QED
        BY ONLY <3>0, <4>1, <4>3, <4>4 DEF AheadUntouched, Targeted
    <3>5. BehindDone(f)'
      <4>1. BehindDone(f)
        BY DEF Front
      <4> QED
        BY ONLY <3>0, <3>2, <4>1 DEF BehindDone, Targeted
    <3>6. FrontMoves(f)'
      BY <3>2 DEF FrontMoves
    <3> QED
      BY <3>3, <3>4, <3>5, <3>6 DEF Front
  <2> QED
    BY <2>1, <2>2
<1>12. ASSUME CancelPipeline PROVE Front(f)'
  <2>1. spent'["start"] = spent["start"] /\ row' = FailOneCancelRest(NoJob)
    BY <1>12, KindMembers DEF CancelPipeline, Spend
  <2> QED
    BY <1>9, <1>12, <2>1 DEF CancelPipeline, Front, Started, AheadUntouched, BehindDone,
       Targeted, OthersRest, ClientsAtFront, FrontMoves, IsActive
<1>13. ASSUME NEW j \in JobId, Promote(j) \/ RecoverStalled(j) \/ Evict(j) \/ Age(j) PROVE Front(f)'
  <2>1. CASE Age(j)
    BY <2>1 DEF Age, Front, Started, AheadUntouched, BehindDone, Targeted, OthersRest, ClientsAtFront,
       FrontMoves, PendingAfter
  <2>2. CASE RecoverStalled(j)
    BY <2>2 DEF RecoverStalled, ActiveHasWorker
  <2>3. CASE Promote(j) \/ Evict(j)
    <3>1. /\ j[2] <= f /\ entry[j] # "none"
          /\ j[2] = f \/ entry'[j] = "none"
          /\ \A k \in JobId : k # j => entry'[k] = entry[k]
          /\ UNCHANGED <<run, row, pc, target, dead, ran>> /\ spent'["start"] = spent["start"]
          /\ entry[j] = "delayed" \/ ~Targeted(j)
      BY <1>2, <2>3, KindMembers DEF Promote, Evict, Spend, Front, AheadUntouched, Targeted
    <3>2. Started(f)' /\ OthersRest(f)' /\ ClientsAtFront(f)'
      BY <3>1 DEF Front, Started, OthersRest, ClientsAtFront
    <3>3. AheadUntouched(f)' /\ BehindDone(f)'
      BY <3>1 DEF Front, AheadUntouched, BehindDone, Targeted
    <3>4. FrontMoves(f)'
      BY <3>1 DEF Front, FrontMoves, Targeted, PendingAfter
    <3> QED
      BY <3>2, <3>3, <3>4 DEF Front
  <2> QED
    BY <1>13, <2>1, <2>2, <2>3
<1>14. ASSUME WatchdogScan \/ UNCHANGED vars PROVE Front(f)'
  BY <1>14 DEF WatchdogScan, vars, Front, Started, AheadUntouched, BehindDone, Targeted, OthersRest,
     ClientsAtFront, FrontMoves, PendingAfter
<1>15. /\ ~Crash /\ ~WatchdogFault
       /\ \A w \in Workers : ~WorkerFault(w)
       /\ \A c \in Clients : ~ClientFault(c) /\ ~StartReuse(c)
  BY KindMembers, NeverSpent DEF Crash, WatchdogFault, WorkerFault, ClientFault, StartReuse,
     NoFailures, Front, ClientsAtFront
<1>16. ASSUME NEW c \in Clients, StartRead(c) PROVE Front(f)'
  <2>1. f = 0 /\ run = 0 /\ spent'["start"] = 1
    BY <1>16, KindMembers DEF StartRead, Spend, SingleStart, Front, Started
  <2>2. ~SomeActive
    BY <2>1 DEF SomeActive, IsActive, RowsOfOneRun
  <2>3. /\ pc' = [pc EXCEPT ![c] = "create"]
        /\ UNCHANGED <<run, row, entry, target, dead, ran>>
    BY <1>16, <2>2 DEF StartRead
  <2> QED
    BY <2>1, <2>3 DEF Front, Started, AheadUntouched, BehindDone, Targeted, OthersRest,
       ClientsAtFront, FrontMoves, PendingAfter
<1>17. ASSUME NEW c \in Clients, StartCreate(c) PROVE Front(1)'
  <2>1. f = 0 /\ run' = 1 /\ (\A j \in JobId : row'[j] = "PENDING") /\ spent'["start"] = 1
    BY <1>17, OneJobPerStage DEF StartCreate, FreshRows, Front, Started, ClientsAtFront
  <2>2. \A t \in Thread : target[t] \notin JobId
    BY <2>1 DEF Front, AheadUntouched, Targeted
  <2>3. \A d \in Clients : d # c => pc[d] = "idle"
    BY <1>17, <2>1, <2>2 DEF StartCreate, RequestInv, StartHoldsLock, Front, ClientsAtFront
  <2>4. /\ target' = [target EXCEPT ![c] = <<1, 1>>] /\ pc' = [pc EXCEPT ![c] = "dispatching"]
        /\ UNCHANGED <<entry, dead, ran>> /\ <<1, 1>> \in JobId
    BY <1>17, <2>1, OneJobPerStage, PipelineAssumption DEF StartCreate, Stage, Front, Started
  <2>5. \A j \in JobId : entry[j] = "none" /\ j \notin dead
    BY <2>1 DEF Front, AheadUntouched
  <2>6. Started(1)' /\ OthersRest(1)'
    BY <2>1, <2>4 DEF Front, Started, OthersRest
  <2>7. AheadUntouched(1)' /\ BehindDone(1)'
    BY <2>1, <2>2, <2>4, <2>5 DEF AheadUntouched, BehindDone, Targeted
  <2>8. ClientsAtFront(1)'
    BY <2>1, <2>3, <2>4, PipelineAssumption DEF ClientsAtFront, Finalize
  <2>9. FrontMoves(1)'
    BY <2>1, <2>2, <2>4, <2>5 DEF FrontMoves, Targeted, Front, Started
  <2> QED
    BY <2>6, <2>7, <2>8, <2>9 DEF Front
<1>18. ASSUME NEW c \in Clients, NEW j \in JobId, ReplayRead(c, j) PROVE Front(f)'
  <2>1. j[2] = f /\ f # Finalize /\ spent'["start"] = spent["start"]
    BY <1>2, <1>18, KindMembers DEF ReplayRead, Spend, RequestInv, NoFinalizeDead
  <2>2. ~PendingAfter(f) /\ UNCHANGED <<run, row, entry, dead, ran>>
    BY <1>18, <2>1 DEF ReplayRead, Front, FrontMoves
  <2> QED
    BY <1>18, <2>1, <2>2 DEF ReplayRead, Front, Started, AheadUntouched, BehindDone, Targeted, OthersRest,
       ClientsAtFront, FrontMoves, PendingAfter
<1>19. ASSUME NEW c \in Clients, ReplayMark(c) PROVE Front(f)'
  <2>1. target[c] \in JobId /\ target[c][2] = f /\ target[c] \in dead
    BY <1>19 DEF ReplayMark, Front, ClientsAtFront, RequestInv, ReplayTargetsDead
  <2>2. ~PendingAfter(f) /\ UNCHANGED <<run, entry, dead, ran, spent>>
    BY <1>19, <2>1 DEF ReplayMark, Front, FrontMoves
  <2>3. \A k \in JobId : k[2] # f => row'[k] = row[k]
    BY <1>19, <2>1 DEF ReplayMark
  <2>4. ~PendingAfter(f)'
    BY <2>2, <2>3 DEF PendingAfter
  <2>5. AheadUntouched(f)' /\ BehindDone(f)'
    BY <1>19, <2>1, <2>2, <2>3 DEF ReplayMark, Front, AheadUntouched, BehindDone, Targeted
  <2>6. \/ pc' = [pc EXCEPT ![c] = "dispatching"] /\ target' = target
        \/ pc' = [pc EXCEPT ![c] = "idle"] /\ target' = [target EXCEPT ![c] = NoJob]
    BY <1>19 DEF ReplayMark
  <2>7. Started(f)' /\ OthersRest(f)'
    BY <2>2, <2>6 DEF Front, Started, OthersRest
  <2>8. ClientsAtFront(f)'
    BY <1>19, <2>6 DEF ReplayMark, Front, ClientsAtFront
  <2> QED
    BY <2>4, <2>5, <2>7, <2>8 DEF Front, FrontMoves
<1>20. ASSUME NEW t \in Thread, pc[t] \in {"advance", "dispatching", "completing"}
       PROVE  \/ t \in Workers /\ t = f
              \/ t \in Workers /\ t = f - 1 /\ pc[t] = "dispatching"
              \/ t \in Workers /\ t = f - 1 /\ f = Finalize
              \/ t \in Clients /\ pc[t] = "dispatching" /\ f # Finalize
  BY <1>20 DEF Thread, Front, OthersRest, ClientsAtFront
<1>21. ASSUME NEW t \in Thread, AdvanceComplete(t) PROVE Front(f)'
  BY <1>20, <1>21 DEF AdvanceComplete, Returned, Front, Started, AheadUntouched, BehindDone,
     Targeted, OthersRest,
     ClientsAtFront, FrontMoves, PendingAfter
<1>22. ASSUME NEW t \in Thread, pc[t] = "dispatching"
       PROVE  target[t] \in JobId /\ target[t][2] = f
  BY <1>20, <1>22 DEF Front, Started, OthersRest, ClientsAtFront
<1>23. ASSUME NEW t \in Thread, DispatchQueued(t) PROVE Front(f)'
  <2>1. /\ target[t] \in JobId /\ target[t][2] = f
        /\ \A j \in JobId : j # target[t] => entry'[j] = entry[j]
        /\ pc' = [pc EXCEPT ![t] = Returned(t)] /\ target' = [target EXCEPT ![t] = NoJob]
        /\ UNCHANGED <<run, row, dead, ran, spent>>
    BY <1>22, <1>23 DEF DispatchQueued, Enqueue
  <2>2. Started(f)' /\ OthersRest(f)' /\ ClientsAtFront(f)'
    BY <2>1, <1>23 DEF DispatchQueued, Returned, Front, Started, OthersRest, ClientsAtFront
  <2>3. AheadUntouched(f)' /\ BehindDone(f)'
    BY <2>1 DEF Front, AheadUntouched, BehindDone, Targeted
  <2>4. FrontMoves(f)'
    <3> SUFFICES ASSUME PendingAfter(f)' PROVE FrontMoves(f)'
      BY DEF FrontMoves
    <3>1. PendingAfter(f)
      BY <2>1 DEF PendingAfter
    <3>2. \A u \in Thread : target'[u] # target[t]
      BY <2>1, <3>1 DEF Front, FrontMoves
    <3>3. f \in Workers => pc'[f] \in {pc[f], "finish"}
      BY <2>1 DEF Returned
    <3> QED
      BY <2>1, <3>1, <3>2, <3>3, OneJobPerStage DEF Front, FrontMoves, Targeted
  <2> QED
    BY <2>2, <2>3, <2>4 DEF Front
<1>24. ASSUME NEW t \in Thread, DispatchFinalize(t) PROVE Front(f)'
  <2>1. t \in Workers /\ t = f - 1 /\ f = Finalize /\ target[t] \in JobId /\ target[t][2] = f
    BY <1>20, <1>22, <1>24 DEF DispatchFinalize
  <2>2. row[target[t]] # "NONE"
    BY <2>1, OneJobPerStage DEF RowsOfOneRun, Front, Started, SingleStart
  <2>3. /\ \A j \in JobId : j[2] # f => row'[j] = row[j]
        /\ pc' = [pc EXCEPT ![t] = "advance"] /\ target' = [target EXCEPT ![t] = NoJob]
        /\ UNCHANGED <<run, entry, dead, ran, spent>>
    BY <1>24, <2>1, <2>2 DEF DispatchFinalize
  <2>4. \A j \in JobId : ~(j[2] > f)
    BY <2>1 DEF Finalize, Stage
  <2>5. Started(f)' /\ OthersRest(f)' /\ ClientsAtFront(f)'
    BY <2>1, <2>3 DEF Front, Started, OthersRest, ClientsAtFront
  <2>6. AheadUntouched(f)' /\ BehindDone(f)'
    BY <2>3, <2>4 DEF Front, AheadUntouched, BehindDone, Targeted
  <2> QED
    BY <2>4, <2>5, <2>6 DEF Front, FrontMoves, PendingAfter
<1>25. ASSUME NEW t \in Thread, AdvanceRead(t) PROVE Front(f)' \/ (f \in Workers /\ Front(f + 1)')
  <2>0. pc[t] = "advance"
    BY <1>25 DEF AdvanceRead
  <2>1. t \in Workers /\ (t = f \/ (t = f - 1 /\ f = Finalize))
    BY ONLY <1>20, <2>0, t \in Thread
  <2>2. UNCHANGED <<run, row, entry, dead, ran, spent>>
    BY <1>25 DEF AdvanceRead
  <2>3. CASE ~SomePending
    <3>1. /\ pc' = [pc EXCEPT ![t] = IF AllCompleted THEN "completing" ELSE "finish"]
          /\ target' = target
      BY <1>25, <2>1, <2>3 DEF AdvanceRead, Returned, SomePending, FirstPending
    <3>2. ~PendingAfter(f)'
      BY <2>2, <2>3 DEF SomePending, PendingAfter
    <3> QED
      BY <2>1, <2>2, <3>1, <3>2 DEF Front, Started, AheadUntouched, BehindDone, Targeted, OthersRest,
         ClientsAtFront, FrontMoves
  <2>4. ASSUME NEW j \in JobId, FirstPending(j), target' = [target EXCEPT ![t] = j],
               pc' = [pc EXCEPT ![t] = "dispatching"]
        PROVE  Front(f)' \/ (f \in Workers /\ Front(f + 1)')
    <3>1. j[2] >= f
      BY <2>4 DEF FirstPending, Front, BehindDone
    <3>2. CASE j[2] = f
      <4>1. PendingAfter(f) => f = Finalize
        BY <2>1, <1>25, <2>4, <3>2 DEF AdvanceRead, FirstPending, Front, FrontMoves
      <4>2. ~PendingAfter(f)'
        BY <2>2, <4>1 DEF PendingAfter, Finalize, Stage
      <4>3. Started(f)' /\ OthersRest(f)' /\ ClientsAtFront(f)'
        BY <2>1, <2>2, <2>4, <3>2 DEF Front, Started, OthersRest, ClientsAtFront
      <4>4. AheadUntouched(f)' /\ BehindDone(f)'
        BY <2>2, <2>4, <3>2 DEF Front, AheadUntouched, BehindDone, Targeted
      <4> QED
        BY <4>2, <4>3, <4>4 DEF Front, FrontMoves
    <3>3. CASE j[2] > f
      <4>1. PendingAfter(f) /\ t = f /\ f \in Workers
        BY <2>1, <2>4, <3>3 DEF FirstPending, PendingAfter, Finalize, Stage
      <4>2. PICK k \in JobId : k[2] = f + 1 /\ \A i \in JobId : i[2] = f + 1 => i = k
        <5>1. f + 1 \in Stage
          <6>1. j[2] \in 1 .. Stages /\ Stages \in Nat
            BY PipelineAssumption DEF Stage
          <6> QED
            BY ONLY <1>0, <3>3, <6>1 DEF Stage
        <5>2. <<1, f + 1>> \in JobId
          BY <5>1, OneJobPerStage
        <5> QED
          BY <5>2, OneJobPerStage
      <4>3. j[2] = f + 1
        <5>1. row[k] = "PENDING"
          BY <2>4, <3>3, <4>2 DEF FirstPending, Front, AheadUntouched
        <5>2. j[2] <= k[2]
          BY <2>4, <5>1 DEF FirstPending
        <5>3. j[2] \in Nat
          OBVIOUS
        <5> QED
          BY ONLY <3>3, <4>2, <5>2, <5>3, <1>0
      <4>4. PICK i \in JobId : i[2] = f /\ i = work[f] /\ entry[i] = "active" /\ i \in ran
        BY <1>25, <4>1 DEF AdvanceRead, WorkerHasJob, WorkIsActive, PastScript
      <4>5. row[i] = "COMPLETED" /\ i \notin dead /\ ~Targeted(i)
        BY <1>25, <4>1, <4>4 DEF AdvanceRead, Front, FrontMoves
      <4>6. /\ \A l \in JobId : l[2] < f + 1 => l[2] < f \/ l = i
            /\ \A l \in JobId : l[2] > f + 1 => l[2] > f /\ l # j
        BY ONLY <1>0, <4>3, <4>4, OneJobPerStage, SingleStart
      <4>7. Started(f + 1)' /\ OthersRest(f + 1)'
        <5>1. \A w \in Workers : w # f => pc[w] \in {"idle", "finish"}
          BY <4>1, <4>4, <4>5, OneJobPerStage DEF Front, OthersRest, Targeted
        <5>2. run' # 0 /\ spent'["start"] = 1
          BY <2>2, <4>1 DEF Front, Started
        <5> QED
          BY <2>4, <4>1, <4>3, <5>1, <5>2 DEF Started, OthersRest
      <4>8. AheadUntouched(f + 1)' /\ BehindDone(f + 1)'
        BY <2>2, <2>4, <4>3, <4>4, <4>5, <4>6 DEF Front, AheadUntouched, BehindDone, Targeted
      <4>9. \A c \in Clients : pc[c] = "idle"
        BY <4>1, <4>4, <4>5, OneJobPerStage DEF Front, ClientsAtFront, Targeted
      <4>10. ClientsAtFront(f + 1)'
        BY <2>4, <4>1, <4>9 DEF ClientsAtFront
      <4>11. entry[j] = "none" /\ j \notin dead /\ ~Targeted(j)
        BY <3>3 DEF Front, AheadUntouched
      <4>12. f + 1 \in Workers => pc'[f + 1] \in {"idle", "finish"}
        BY <2>4, <4>1, <4>7 DEF OthersRest, Front
      <4>13. FrontMoves(f + 1)'
        BY <2>2, <2>4, <4>1, <4>3, <4>11, <4>12, OneJobPerStage DEF FrontMoves, Targeted
      <4> QED
        BY <4>1, <4>7, <4>8, <4>10, <4>13 DEF Front
    <3> QED
      BY ONLY <1>0, <3>1, <3>2, <3>3, j \in JobId
  <2> QED
    BY <1>25, <2>3, <2>4 DEF AdvanceRead
<1>26. 1 \in 0 .. Stages /\ (f \in Workers => f + 1 \in 0 .. Stages)
  BY PipelineAssumption DEF Workers
<1> HIDE DEF TypeInv, TypeOK
<1> QED
  BY <1>3, <1>4, <1>5, <1>6, <1>7, <1>8, <1>10, <1>11, <1>12, <1>13, <1>14, <1>15, <1>16, <1>17,
     <1>18, <1>19, <1>21, <1>23, <1>24, <1>25, <1>26
     DEF Next, WorkerStep, ClientStep, AdvanceStep, Environment, Housekeeping

(* The front of the run moves forward only.                                 *)
LEMMA FrontCorrect ==
  ASSUME NoFailures, SingleStart
  PROVE  Spec => []FrontInv
<1>1. Init => FrontInv
  <2> SUFFICES ASSUME Init PROVE FrontInv
    OBVIOUS
  <2>1. 0 \in 0 .. Stages /\ \A j \in JobId : j[2] > 0
    BY ThreadsDistinct, PipelineAssumption DEF Stage
  <2>2. (\A t \in Thread : pc[t] = "idle" /\ target[t] \notin JobId) /\ 0 \notin Workers
    BY ThreadsDistinct, PipelineAssumption DEF Init, Workers
  <2>3. \A j \in JobId : row[j] = "NONE" /\ entry[j] = "none" /\ j \notin dead
    BY DEF Init
  <2>4. Started(0) /\ OthersRest(0) /\ ClientsAtFront(0)
    BY <2>2, ThreadsDistinct DEF Init, Started, OthersRest, ClientsAtFront
  <2>5. AheadUntouched(0) /\ FrontMoves(0)
    BY <2>2, <2>3 DEF AheadUntouched, FrontMoves, Targeted, PendingAfter
  <2>6. BehindDone(0)
    BY <2>1, ThreadsDistinct DEF BehindDone, Stage
  <2> QED
    BY <2>1, <2>2, <2>3, <2>4, <2>5, <2>6, ThreadsDistinct
       DEF FrontInv, PastScript, ActiveHasWorker, Front
<1>2. TypeInv /\ RowsOfOneRun /\ RequestInv /\ WorkIsActive /\ FrontInv /\ [Next]_vars => FrontInv'
  BY FrontStep, PastScriptStep, ActiveHasWorkerStep DEF FrontInv
<1> QED
  BY <1>1, <1>2, TypesCorrect, OneRun, RequestsCorrect, WorkAlwaysActive, PTL DEF Spec

(* While nothing fails a stage of the run reaches its queue only after the  *)
(* scripts of all the stages before it have ended in success, whoever       *)
(* cancels or replays: Pipeline!StagesInOrder.                              *)
THEOREM StagesFollow ==
  ASSUME NoFailures, SingleStart
  PROVE  Spec => []StagesInOrder
<1>1. TypeInv /\ FrontInv => StagesInOrder
  <2> SUFFICES ASSUME TypeInv, NEW f \in 0 .. Stages, Front(f),
                      NEW j \in JobId, entry[j] # "none", NEW s \in 1 .. j[2] - 1
               PROVE  <<j[1], s>> \in ran
    BY DEF FrontInv, StagesInOrder
  <2>1. j[2] \in Stage /\ s \in Stage /\ s < j[2]
    BY ThreadsDistinct, PipelineAssumption DEF Stage
  <2>2. <<j[1], s>> \in JobId
    BY <2>1, OneJobPerStage
  <2>3. ~(j[2] > f)
    BY DEF Front, AheadUntouched
  <2>4. s < f
    BY <2>1, <2>3 DEF Stage
  <2> QED
    BY <2>2, <2>4 DEF Front, BehindDone
<1> QED
  BY <1>1, FrontCorrect, TypesCorrect, PTL

(* While nothing fails two stages of the project never run at the same      *)
(* time: Pipeline!OneStageAtATime.                                          *)
THEOREM OneStageRuns ==
  ASSUME NoFailures, SingleStart
  PROVE  Spec => []OneStageAtATime
<1>1. FrontInv => OneStageAtATime
  BY DEF FrontInv, Front, OthersRest, OneStageAtATime
<1> QED
  BY <1>1, FrontCorrect, PTL

-----------------------------------------------------------------------------
(* A queued run is attended.                                                *)

(* The one start of the project: it creates the run, and finds no rows.     *)
StartOnce ==
  /\ run # 0 \/ (\E c \in Clients : pc[c] \in {"create", "reuse"}) => spent["start"] = 1
  /\ \A c \in Clients : /\ pc[c] # "reuse"
                        /\ pc[c] = "create" => run = 0
                        /\ run = 0 => pc[c] \in {"idle", "create"}

(* While the project is PROCESSING nothing has failed, been cancelled or    *)
(* been replayed, a stage whose worker is past its mark is COMPLETED, and   *)
(* the only request still busy is the start that dispatches stage 1.        *)
NothingStopped ==
  /\ run # 0 /\ dead = {}
  /\ \A j \in JobId : row[j] \notin {"FAILED", "CANCELLED"}
  /\ \A w \in Workers : pc[w] # "deadletter"

DoneIsMarked ==
  /\ \A w \in Workers : pc[w] \in PastMark => row[work[w]] = "COMPLETED"
  /\ \A j \in JobId : entry[j] = "completed" => row[j] = "COMPLETED"

OnlyFirstDispatched ==
  \A c \in Clients : /\ pc[c] \in {"idle", "dispatching"}
                     /\ pc[c] = "dispatching" => target[c] = <<1, 1>>

Calm == project = "PROCESSING" => NothingStopped /\ DoneIsMarked /\ OnlyFirstDispatched

(* Who will move the run on. An active entry whose worker is gone is the    *)
(* stalled checker's. A worker that dispatches counts only if its target is *)
(* still PENDING, since BullMQ drops the id of a job it has completed.      *)
EntryCalls == \E j \in JobId : \/ entry[j] \in {"waiting", "delayed", "failed"}
                               \/ entry[j] = "active" /\ \A w \in Workers : work[w] # j

Attends(w) == /\ pc[w] \notin {"idle", "finish"}
              /\ pc[w] = "dispatching" => target[w] \in JobId /\ row[target[w]] = "PENDING"

Queued == \E j \in JobId : entry[j] # "none"

Handled ==
  project = "PROCESSING" /\ Queued =>
    EntryCalls \/ (\E w \in Workers : Attends(w)) \/ SomeProcessing

(* Only the first start makes the project PROCESSING.                       *)
LEMMA BecomesProcessing ==
  ASSUME TypeInv, StartOnce, [Next]_vars, project' = "PROCESSING"
  PROVE  project = "PROCESSING" \/ \E c \in Clients : StartCreate(c)
<1> DEFINE Goal == project = "PROCESSING" \/ \E c \in Clients : StartCreate(c)
<1> USE DEF dbVars
<1>1. ASSUME NEW w \in Workers,
             \/ Fetch(w) \/ MarkProcessing(w) \/ ScriptSucceeds(w) \/ ScriptFails(w) \/ MarkCompleted(w)
             \/ Finish(w) \/ CatchRetry(w) \/ CatchFail(w) \/ CatchDeadLetter(w) \/ Throw(w)
             \/ Heartbeat(w) \/ WorkerFault(w)
      PROVE  Goal
  BY <1>1 DEF Fetch, MarkProcessing, ScriptSucceeds, ScriptFails, MarkCompleted, Finish, CatchRetry,
              CatchFail, CatchDeadLetter, Throw, Heartbeat, WorkerFault
<1>2. ASSUME NEW t \in Thread, AdvanceStep(t) PROVE Goal
  BY <1>2 DEF AdvanceStep, AdvanceRead, AdvanceComplete, DispatchQueued, DispatchFinalize
<1>3. ASSUME NEW c \in Clients,
             \/ StartRead(c) \/ StartCreate(c) \/ StartReuse(c) \/ ReplayMark(c) \/ ClientFault(c)
             \/ \E j \in JobId : ReplayRead(c, j)
      PROVE  Goal
  BY <1>3 DEF StartRead, StartReuse, ReplayMark, ClientFault, ReplayRead, StartOnce
<1>4. ASSUME NEW j \in JobId, \/ Promote(j) \/ RecoverStalled(j) \/ Evict(j) \/ Age(j) \/ WatchdogFail(j)
      PROVE  Goal
  BY <1>4 DEF Promote, RecoverStalled, Evict, Age, WatchdogFail
<1>5. ASSUME CancelPipeline \/ WatchdogScan \/ WatchdogFault \/ Crash \/ UNCHANGED vars PROVE Goal
  BY <1>5 DEF CancelPipeline, WatchdogScan, WatchdogFault, Crash, vars
<1> QED
  BY <1>1, <1>2, <1>3, <1>4, <1>5, ThreadsDistinct
     DEF Next, WorkerStep, ClientStep, Environment, Housekeeping

(* With a limit of one start no second run is ever created or resumed.      *)
LEMMA StartOnceStep ==
  ASSUME SingleStart
  PROVE  TypeInv /\ RowsOfOneRun /\ RequestInv /\ RunsInv /\ StartOnce /\ [Next]_vars => StartOnce'
<1> SUFFICES ASSUME TypeInv, RowsOfOneRun, RequestInv, RunsInv, StartOnce, [Next]_vars
             PROVE  StartOnce'
  OBVIOUS
<1> USE ThreadsDistinct, KindMembers
        DEF SingleStart, StartOnce, TypeInv, TypeOK, Goto, dbVars, queueVars, threadVars
<1>1. ASSUME NEW w \in Workers,
             \/ Fetch(w) \/ MarkProcessing(w) \/ ScriptSucceeds(w) \/ MarkCompleted(w)
             \/ Finish(w) \/ CatchRetry(w) \/ CatchFail(w) \/ CatchDeadLetter(w) \/ Throw(w)
             \/ Heartbeat(w)
      PROVE  StartOnce'
  BY <1>1 DEF Fetch, MarkProcessing, ScriptSucceeds, MarkCompleted, Finish, CatchRetry,
              CatchFail, CatchDeadLetter, Throw, Heartbeat
<1>2. ASSUME NEW w \in Workers, ScriptFails(w) \/ WorkerFault(w) PROVE StartOnce'
  <2>1. run' = run /\ spent'["start"] = spent["start"]
    BY <1>2 DEF ScriptFails, WorkerFault, Spend, Kind
  <2>2. \A c \in Clients : pc'[c] = pc[c]
    BY <1>2 DEF ScriptFails, WorkerFault
  <2> QED
    BY <2>1, <2>2
<1>3. ASSUME NEW t \in Thread, AdvanceStep(t) PROVE StartOnce'
  <2>1. run' = run /\ spent' = spent
    BY <1>3 DEF AdvanceStep, AdvanceRead, AdvanceComplete, DispatchQueued, DispatchFinalize
  <2>2. \A c \in Clients : \/ pc'[c] = pc[c]
                           \/ pc[c] \notin {"idle", "create"} /\ pc'[c] \notin {"create", "reuse"}
    BY <1>3 DEF AdvanceStep, AdvanceRead, AdvanceComplete, DispatchQueued, DispatchFinalize, Returned
  <2> QED
    BY <2>1, <2>2
<1>4. ASSUME NEW c \in Clients, StartRead(c) PROVE StartOnce'
  <2>1. spent["start"] = 0 /\ spent'["start"] = 1
    BY <1>4 DEF StartRead, Spend
  <2>2. run = 0 /\ \A d \in Clients : pc[d] \notin {"create", "reuse"}
    BY <2>1
  <2>3. ~SomeActive
    BY <2>2 DEF SomeActive, IsActive, RowsOfOneRun
  <2>4. pc' = [pc EXCEPT ![c] = "create"] /\ run' = run
    BY <1>4, <2>3 DEF StartRead
  <2> QED
    BY <2>1, <2>2, <2>4
<1>5. ASSUME NEW c \in Clients, StartCreate(c) PROVE StartOnce'
  <2>1. \A d \in Clients : pc[d] = "create" => d = c
    BY <1>5 DEF StartCreate, RequestInv, StartHoldsLock
  <2>2. spent' = spent /\ spent["start"] = 1 /\ run' = run + 1 /\ pc' = [pc EXCEPT ![c] = "dispatching"]
    BY <1>5 DEF StartCreate
  <2> QED
    BY <2>1, <2>2
<1>6. ASSUME NEW c \in Clients, StartReuse(c) PROVE StartOnce'
  BY <1>6 DEF StartReuse
<1>7. ASSUME NEW c \in Clients, NEW j \in JobId, ReplayRead(c, j) PROVE StartOnce'
  <2>1. run # 0
    BY <1>7 DEF ReplayRead, RowsOfOneRun
  <2>2. run' = run /\ spent'["start"] = spent["start"] /\ pc' = [pc EXCEPT ![c] = "replay"]
    BY <1>7 DEF ReplayRead, Spend, Kind
  <2> QED
    BY <2>1, <2>2
<1>8. ASSUME NEW c \in Clients, ReplayMark(c) PROVE StartOnce'
  BY <1>8 DEF ReplayMark
<1>9. ASSUME NEW c \in Clients, ClientFault(c) PROVE StartOnce'
  <2>1. run' = run /\ spent'["start"] = spent["start"] /\ pc' = [pc EXCEPT ![c] = "idle"]
    BY <1>9 DEF ClientFault, Spend, Kind
  <2> QED
    BY <2>1
<1>10. ASSUME NEW j \in JobId, \/ Promote(j) \/ RecoverStalled(j) \/ Age(j) \/ WatchdogFail(j)
       PROVE  StartOnce'
  BY <1>10 DEF Promote, RecoverStalled, Age, WatchdogFail
<1>11. ASSUME CancelPipeline \/ WatchdogFault \/ \E j \in JobId : Evict(j) PROVE StartOnce'
  <2>1. run' = run /\ spent'["start"] = spent["start"] /\ pc' = pc
    BY <1>11 DEF CancelPipeline, WatchdogFault, Evict, Spend, Kind
  <2> QED
    BY <2>1
<1>12. ASSUME Crash PROVE StartOnce'
  <2>1. run' = run /\ spent'["start"] = spent["start"] /\ pc' = [t \in Thread |-> "idle"]
    BY <1>12 DEF Crash, Spend, Kind
  <2> QED
    BY <2>1
<1>13. ASSUME WatchdogScan \/ UNCHANGED vars PROVE StartOnce'
  BY <1>13 DEF WatchdogScan, vars
<1> QED
  BY <1>1, <1>2, <1>3, <1>4, <1>5, <1>6, <1>7, <1>8, <1>9, <1>10, <1>11, <1>12, <1>13
     DEF Next, WorkerStep, ClientStep, Environment, Housekeeping

(* A worker that is not idle has a job that the table may have a row of.    *)
LEMMA BusyHasJob ==
  TypeInv => \A w \in Workers : pc[w] # "idle" => work[w] \in JobId /\ DOMAIN row = JobId
BY DEF TypeInv, TypeOK, WorkerHasJob

(* Until the project is stopped or completed nothing disturbs the calm.     *)
LEMMA CalmStep ==
  ASSUME SingleStart
  PROVE  TypeInv /\ RowsOfOneRun /\ RequestInv /\ RunsInv /\ WorkIsActive /\ StartOnce /\ Calm /\ [Next]_vars
         => Calm'
<1> SUFFICES ASSUME TypeInv, RowsOfOneRun, RequestInv, RunsInv, WorkIsActive, StartOnce, Calm, [Next]_vars,
                    project' = "PROCESSING"
             PROVE  (NothingStopped /\ DoneIsMarked /\ OnlyFirstDispatched)'
  BY DEF Calm
<1> DEFINE Goal == (NothingStopped /\ DoneIsMarked /\ OnlyFirstDispatched)'
<1> USE ThreadsDistinct, KindMembers
<1>1. ASSUME NEW c \in Clients, StartCreate(c) PROVE Goal
  <2> USE DEF TypeInv, TypeOK
  <2>1. run = 0 /\ pc[c] = "create"
    BY <1>1 DEF StartCreate, StartOnce
  <2>2. dead = {} /\ \A j \in JobId : entry[j] = "none"
    BY <2>1 DEF RunsInv, DeadOfRuns, EntriesOfRuns
  <2>3. \A w \in Workers : pc[w] = "idle"
    BY <2>1 DEF RunsInv, WorkOfRuns, WorkerHasJob
  <2>4. /\ run' = 1 /\ row' = FreshRows /\ dead' = dead /\ entry' = entry
        /\ pc' = [pc EXCEPT ![c] = "dispatching"] /\ target' = [target EXCEPT ![c] = <<1, 1>>]
    BY <1>1, <2>1 DEF StartCreate, Goto, queueVars
  <2>5. \A d \in Clients : d # c => pc[d] = "idle"
    BY <2>1 DEF StartOnce, RequestInv, StartHoldsLock
  <2>6. NothingStopped'
    BY <2>2, <2>3, <2>4 DEF NothingStopped, FreshRows
  <2>7. DoneIsMarked'
    BY <2>2, <2>3, <2>4 DEF DoneIsMarked, PastMark
  <2>8. OnlyFirstDispatched'
    BY <2>4, <2>5 DEF OnlyFirstDispatched
  <2> QED
    BY <2>6, <2>7, <2>8
<1> SUFFICES ASSUME project = "PROCESSING", NothingStopped, DoneIsMarked, OnlyFirstDispatched,
                      \A c \in Clients : ~StartCreate(c)
               PROVE  Goal
  BY <1>1, BecomesProcessing DEF Calm
<1> USE DEF NothingStopped, DoneIsMarked, OnlyFirstDispatched, TypeInv, TypeOK, Goto,
            dbVars, queueVars, threadVars, PastMark
<1>3. ASSUME NEW w \in Workers,
             \/ Fetch(w) \/ ScriptSucceeds(w) \/ CatchRetry(w) \/ CatchDeadLetter(w) \/ Heartbeat(w)
      PROVE  Goal
  BY <1>3 DEF Fetch, ScriptSucceeds, CatchRetry, CatchDeadLetter, Heartbeat
<1>4. ASSUME NEW w \in Workers, MarkProcessing(w) PROVE Goal
  <2>1. \A v \in Workers : v # w /\ pc[v] \in PastMark => work[v] # work[w]
    BY <1>4, OwnJobs DEF MarkProcessing
  <2>2. entry[work[w]] = "active" /\ work[w] \in JobId
    BY <1>4 DEF MarkProcessing, WorkIsActive, WorkerHasJob
  <2>3. /\ run' = run /\ dead' = dead /\ work' = work /\ target' = target /\ entry' = entry
        /\ \A u \in Thread : u # w => pc'[u] = pc[u]
        /\ pc'[w] \in {"running", "failing"}
        /\ row' = row \/ row' = [row EXCEPT ![work[w]] = "PROCESSING"]
    BY <1>4 DEF MarkProcessing
  <2>4. DoneIsMarked'
    BY <2>1, <2>2, <2>3, BusyHasJob
  <2> QED
    BY <2>3, <2>4
<1>5. ASSUME NEW w \in Workers, ScriptFails(w) PROVE Goal
  BY <1>5 DEF ScriptFails, Caught
<1>6. ASSUME NEW w \in Workers, MarkCompleted(w) PROVE Goal
  <2>1. /\ run' = run /\ dead' = dead /\ work' = work /\ target' = target /\ entry' = entry
        /\ \A u \in Thread : u # w => pc'[u] = pc[u]
        /\ \/ row' = row /\ pc'[w] = "failing"
           \/ row' = [row EXCEPT ![work[w]] = "COMPLETED"] /\ pc'[w] = "advance"
    BY <1>6 DEF MarkCompleted
  <2>2. work[w] \in JobId
    BY <1>6 DEF MarkCompleted, WorkerHasJob
  <2>3. DoneIsMarked'
    BY <2>1, <2>2, BusyHasJob
  <2> QED
    BY <2>1, <2>3
<1>7. ASSUME NEW w \in Workers, Finish(w) \/ Throw(w) PROVE Goal
  <2>1. /\ row' = row /\ run' = run /\ dead' = dead /\ target' = target
        /\ pc' = [pc EXCEPT ![w] = "idle"] /\ work' = [work EXCEPT ![w] = NoJob]
    BY <1>7 DEF Finish, Throw
  <2>2. \A j \in JobId : entry'[j] = "completed" => row[j] = "COMPLETED"
    BY <1>7 DEF Finish, Throw
  <2> QED
    BY <2>1, <2>2
<1>8. ASSUME NEW w \in Workers, CatchFail(w) PROVE Goal
  BY <1>8 DEF CatchFail
<1>9. ASSUME NEW t \in Thread, AdvanceRead(t) \/ AdvanceComplete(t) \/ DispatchQueued(t) PROVE Goal
  <2>1. /\ row' = row /\ run' = run /\ dead' = dead /\ work' = work
        /\ \A u \in Thread : u # t => pc'[u] = pc[u] /\ target'[u] = target[u]
    BY <1>9 DEF AdvanceRead, AdvanceComplete, DispatchQueued
  <2>2. \A j \in JobId : entry'[j] = "completed" => entry[j] = "completed"
    BY <1>9 DEF AdvanceRead, AdvanceComplete, DispatchQueued, Enqueue
  <2>3. CASE t \in Workers
    <3>1. pc[t] \in PastMark /\ pc'[t] # "deadletter"
      BY <1>9, <2>3 DEF AdvanceRead, AdvanceComplete, DispatchQueued, Returned
    <3> QED
      BY <2>1, <2>2, <2>3, <3>1
  <2>4. CASE t \in Clients
    <3>1. pc'[t] = "idle"
      BY <1>9, <2>4 DEF AdvanceRead, AdvanceComplete, DispatchQueued, Returned
    <3> QED
      BY <2>1, <2>2, <2>4, <3>1
  <2> QED
    BY <2>3, <2>4 DEF Thread
<1>10. ASSUME NEW t \in Thread, DispatchFinalize(t) PROVE Goal
  <2>1. t \in Workers
    BY <1>10, PipelineAssumption DEF DispatchFinalize, Thread, Finalize
  <2>2. /\ run' = run /\ dead' = dead /\ work' = work /\ entry' = entry
        /\ \A u \in Thread : u # t => pc'[u] = pc[u] /\ target'[u] = target[u]
        /\ \/ row' = row /\ pc'[t] = "failing"
           \/ row' = [row EXCEPT ![target[t]] = "COMPLETED"] /\ pc'[t] = "advance"
    BY <1>10, <2>1 DEF DispatchFinalize
  <2>3. pc[t] \in PastMark
    BY <1>10 DEF DispatchFinalize
  <2>4. DoneIsMarked'
    BY <2>1, <2>2, <2>3, BusyHasJob
  <2> QED
    BY <2>1, <2>2, <2>4
<1>11. ASSUME NEW w \in Workers, WorkerFault(w) PROVE Goal
  <2>1. /\ row' = row /\ run' = run /\ dead' = dead /\ work' = work
        /\ \A u \in Thread : u # w => pc'[u] = pc[u] /\ target'[u] = target[u]
    BY <1>11 DEF WorkerFault
  <2>2. pc'[w] \in {"retry", "failing", "throw"}
    BY <1>11 DEF WorkerFault, Caught
  <2>3. \A j \in JobId : entry'[j] = "completed" => entry[j] = "completed"
    BY <1>11 DEF WorkerFault, Enqueue
  <2> QED
    BY <2>1, <2>2, <2>3
<1>12. ASSUME NEW c \in Clients, StartRead(c) PROVE FALSE
  BY <1>12 DEF StartRead, Spend, StartOnce, SingleStart
<1>13. ASSUME NEW c \in Clients, \/ StartReuse(c) \/ ReplayMark(c) \/ ClientFault(c)
                                 \/ \E j \in JobId : ReplayRead(c, j)
       PROVE  Goal
  BY <1>13 DEF StartReuse, ReplayMark, ClientFault, ReplayRead
<1>14. ASSUME NEW j \in JobId, Promote(j) \/ RecoverStalled(j) \/ Evict(j) \/ Age(j) PROVE Goal
  BY <1>14 DEF Promote, RecoverStalled, Evict, Age
<1>15. ASSUME NEW j \in JobId, WatchdogFail(j) PROVE Goal
  BY <1>15 DEF WatchdogFail
<1>16. ASSUME Crash PROVE Goal
  BY <1>16 DEF Crash
<1>17. ASSUME CancelPipeline \/ WatchdogScan \/ WatchdogFault \/ UNCHANGED vars PROVE Goal
  BY <1>17 DEF CancelPipeline, WatchdogScan, WatchdogFault, vars
<1> QED
  BY <1>3, <1>4, <1>5, <1>6, <1>7, <1>8, <1>9, <1>10, <1>11, <1>12, <1>13, <1>14, <1>15,
     <1>16, <1>17
     DEF Next, WorkerStep, ClientStep, AdvanceStep, Environment, Housekeeping

(* BullMQ's removeOnFail never forgets an entry of this project that has    *)
(* failed (it keeps 500 per queue).                                         *)
FailedStay        == \A j \in JobId : entry[j] = "failed" => entry'[j] = "failed"
FailedEntriesKept == [][FailedStay]_vars

(* A busy worker has an active entry: the queue is not empty.               *)
LEMMA BusyQueued ==
  ASSUME TypeInv, WorkIsActive, NEW w \in Workers, pc[w] # "idle"
  PROVE  Queued
BY DEF TypeInv, WorkerHasJob, WorkIsActive, Queued

(* A PENDING job that is in its queue is waiting, due later, failed, or     *)
(* active: lost by its worker or held by one that has yet to advance.       *)
LEMMA PendingInQueue ==
  ASSUME TypeInv, WorkIsActive, DoneIsMarked, NEW j \in JobId, row[j] = "PENDING", entry[j] # "none"
  PROVE  EntryCalls \/ \E w \in Workers : pc[w] # "dispatching" /\ Attends(w)
<1>1. entry[j] \in {"waiting", "delayed", "failed", "active"}
  BY DEF TypeInv, TypeOK, EntryState, DoneIsMarked
<1>2. ASSUME NEW w \in Workers, work[w] = j
      PROVE  pc[w] # "dispatching" /\ Attends(w)
  BY <1>2, ThreadsDistinct DEF WorkIsActive, DoneIsMarked, PastMark, Attends
<1> QED
  BY <1>1, <1>2 DEF EntryCalls

(* Every step leaves the queued run with somebody to move it on: who stops  *)
(* being that hands it over in the same step.                               *)
LEMMA HandledStep ==
  ASSUME SingleStart
  PROVE  TypeInv /\ RowsOfOneRun /\ RequestInv /\ RunsInv /\ WorkIsActive /\ StartOnce /\ Calm
         /\ Handled /\ [Next]_vars /\ FailedStay => Handled'
<1> SUFFICES ASSUME TypeInv, RowsOfOneRun, RequestInv, RunsInv, WorkIsActive, StartOnce, Calm, Handled,
                    [Next]_vars, FailedStay, project' = "PROCESSING", Queued'
             PROVE  EntryCalls' \/ (\E w \in Workers : Attends(w)') \/ SomeProcessing'
  BY DEF Handled
<1> DEFINE Goal == EntryCalls' \/ (\E w \in Workers : Attends(w)') \/ SomeProcessing'
           Held == EntryCalls \/ (\E w \in Workers : Attends(w)) \/ SomeProcessing
<1> USE ThreadsDistinct, KindMembers
<1>1. ASSUME NEW c \in Clients, StartCreate(c) PROVE FALSE
  <2>1. run = 0
    BY <1>1 DEF StartCreate, StartOnce
  <2>2. \A j \in JobId : entry'[j] = "none"
    BY <1>1, <2>1 DEF StartCreate, RunsInv, EntriesOfRuns, TypeInv, TypeOK, queueVars
  <2> QED
    BY <2>2 DEF Queued
<1> SUFFICES ASSUME project = "PROCESSING", NothingStopped, DoneIsMarked, OnlyFirstDispatched,
                    Queued => Held,
                    \A c \in Clients : ~StartCreate(c)
             PROVE  Goal
  BY <1>1, BecomesProcessing DEF Calm, Handled
<1>2. ASSUME NEW w \in Workers, pc'[w] \notin {"idle", "finish", "dispatching"} PROVE Goal
  BY <1>2 DEF Attends
<1>3. ASSUME SomeProcessing, row' = row PROVE Goal
  BY <1>3 DEF SomeProcessing
<1>4. ASSUME entry' = entry, work' = work, EntryCalls PROVE Goal
  BY <1>4 DEF EntryCalls
<1>5. ASSUME row' = row, target' = target, \E w \in Workers : Attends(w) /\ pc'[w] = pc[w] PROVE Goal
  BY <1>5 DEF Attends
<1> USE DEF TypeInv, TypeOK, Goto, dbVars, queueVars, threadVars
<1>6. ASSUME NEW w \in Workers, \/ Fetch(w) \/ MarkProcessing(w) \/ ScriptSucceeds(w) \/ ScriptFails(w)
             \/ MarkCompleted(w) \/ CatchRetry(w) \/ CatchFail(w) \/ CatchDeadLetter(w)
             \/ Heartbeat(w) \/ WorkerFault(w)
      PROVE  Goal
  <2>1. pc'[w] \notin {"idle", "finish", "dispatching"}
    BY <1>6 DEF Fetch, MarkProcessing, ScriptSucceeds, ScriptFails, MarkCompleted, CatchRetry, CatchFail,
                CatchDeadLetter, Heartbeat, WorkerFault, Caught
  <2> QED
    BY <1>2, <2>1
<1>7. ASSUME NEW w \in Workers, Finish(w) PROVE Goal
  <2>1. /\ pc[w] = "finish" /\ row' = row /\ target' = target
        /\ pc' = [pc EXCEPT ![w] = "idle"] /\ work' = [work EXCEPT ![w] = NoJob]
        /\ entry' = [entry EXCEPT ![work[w]] = "completed"]
    BY <1>7 DEF Finish
  <2>2. Held /\ entry[work[w]] = "active" /\ work[w] \in JobId
    BY <2>1, BusyQueued DEF WorkIsActive, WorkerHasJob
  <2>3. EntryCalls => EntryCalls'
    BY <2>1, <2>2 DEF EntryCalls
  <2>4. \A v \in Workers : Attends(v) => Attends(v)'
    BY <2>1 DEF Attends
  <2> QED
    BY <1>3, <2>1, <2>2, <2>3, <2>4
<1>8. ASSUME NEW w \in Workers, Throw(w) PROVE Goal
  BY <1>8 DEF Throw, WorkerHasJob, EntryCalls
<1>9. ASSUME NEW t \in Thread, AdvanceRead(t) PROVE Goal
  <2>1. t \in Workers /\ row' = row
    BY <1>9 DEF AdvanceRead, OnlyFirstDispatched, Thread
  <2>2. CASE SomePending
    BY <1>9, <2>1, <2>2 DEF AdvanceRead, SomePending, FirstPending, Attends
  <2>3. CASE ~SomePending /\ AllCompleted
    BY <1>2, <1>9, <2>1, <2>3 DEF AdvanceRead, SomePending, FirstPending
  <2>4. CASE ~SomePending /\ ~AllCompleted
    <3>1. run \in 1 .. Limit["start"] /\ 1 \in Stage
      BY PipelineAssumption DEF NothingStopped, Stage
    <3>2. <<run, 1>> \in JobId /\ row[<<run, 1>>] # "NONE"
      BY <3>1 DEF RowsOfOneRun
    <3>3. PICK j \in JobId : row[j] \notin {"NONE", "COMPLETED"}
      BY <2>4, <3>2 DEF AllCompleted
    <3>4. row[j] = "PROCESSING"
      BY <2>4, <3>3 DEF SomePending, NothingStopped, JobStatus
    <3> QED
      BY <1>3, <2>1, <3>4 DEF SomeProcessing
  <2> QED
    BY <2>2, <2>3, <2>4
<1>10. ASSUME NEW t \in Thread, AdvanceComplete(t) PROVE Goal
  BY <1>10 DEF AdvanceComplete
<1>11. ASSUME NEW t \in Thread, DispatchQueued(t) PROVE Goal
  <2>1. /\ pc[t] = "dispatching" /\ row' = row /\ work' = work
        /\ \A u \in Thread : u # t => pc'[u] = pc[u] /\ target'[u] = target[u]
        /\ \A j \in JobId : entry'[j] = IF j = target[t] /\ entry[j] = "none" THEN "waiting" ELSE entry[j]
    BY <1>11 DEF DispatchQueued, Enqueue
  <2>2. EntryCalls => EntryCalls'
    BY <2>1 DEF EntryCalls
  <2>3. \A v \in Workers : v # t /\ Attends(v) => Attends(v)'
    BY <2>1 DEF Attends
  <2>4. CASE \E j \in JobId : j = target[t] /\ entry[j] = "none"
    BY <2>1, <2>4 DEF EntryCalls
  <2>5. CASE t \in Workers /\ Attends(t) /\ \A j \in JobId : j = target[t] => entry[j] # "none"
    <3>1. target[t] \in JobId /\ row[target[t]] = "PENDING"
      BY <2>1, <2>5 DEF Attends
    <3>2. EntryCalls \/ \E w \in Workers : w # t /\ Attends(w)
      BY <2>1, <2>5, <3>1, PendingInQueue
    <3> QED
      BY <2>2, <2>3, <3>2
  <2>6. CASE (\A w \in Workers : Attends(w) => w # t) /\ \A j \in JobId : j = target[t] => entry[j] # "none"
    <3>1. Queued
      BY <2>1, <2>6 DEF Queued
    <3> QED
      BY <1>3, <2>1, <2>2, <2>3, <2>6, <3>1
  <2> QED
    BY <2>4, <2>5, <2>6
<1>12. ASSUME NEW t \in Thread, DispatchFinalize(t) PROVE Goal
  <2>1. t \in Workers
    BY <1>12, PipelineAssumption DEF DispatchFinalize, Thread, Finalize, OnlyFirstDispatched
  <2>2. pc'[t] \in {"advance", "failing"}
    BY <1>12, <2>1 DEF DispatchFinalize
  <2> QED
    BY <1>2, <2>1, <2>2
<1>13. ASSUME NEW c \in Clients, \/ StartRead(c) \/ StartReuse(c) \/ ReplayMark(c)
                                 \/ \E j \in JobId : ReplayRead(c, j)
       PROVE  FALSE
  BY <1>13 DEF StartRead, Spend, StartOnce, SingleStart, StartReuse, ReplayMark, ReplayRead,
               OnlyFirstDispatched, NothingStopped
<1>14. ASSUME NEW c \in Clients, ClientFault(c) PROVE Goal
  <2>1. /\ row' = row /\ work' = work /\ entry' = entry
        /\ \A w \in Workers : pc'[w] = pc[w] /\ target'[w] = target[w]
    BY <1>14 DEF ClientFault
  <2> QED
    BY <1>3, <1>4, <2>1 DEF Attends, Queued
<1>15. ASSUME NEW j \in JobId, Promote(j) \/ RecoverStalled(j) PROVE Goal
  BY <1>15 DEF Promote, RecoverStalled, EntryCalls
<1>16. ASSUME NEW j \in JobId, Evict(j) PROVE Goal
  <2>1. entry[j] = "completed"
    BY <1>16 DEF Evict, FailedStay
  <2>2. /\ entry' = [entry EXCEPT ![j] = "none"] /\ row' = row /\ target' = target /\ pc' = pc
        /\ work' = work
    BY <1>16 DEF Evict
  <2>3. Held
    BY <2>1 DEF Queued
  <2>4. EntryCalls => EntryCalls'
    BY <2>1, <2>2 DEF EntryCalls
  <2> QED
    BY <1>3, <1>5, <2>2, <2>3, <2>4
<1>17. ASSUME NEW j \in JobId, WatchdogFail(j) PROVE Goal
  <2>1. row' = row /\ entry' = entry /\ pc' = pc /\ target' = target /\ work' = work
    BY <1>17 DEF WatchdogFail
  <2> QED
    BY <1>3, <1>4, <1>5, <2>1 DEF Queued
<1>18. ASSUME Crash PROVE Goal
  <2>1. entry' = entry /\ row' = row /\ \A w \in Workers : work'[w] = NoJob
    BY <1>18 DEF Crash
  <2>2. EntryCalls => EntryCalls'
    BY <2>1 DEF EntryCalls
  <2>3. ASSUME NEW w \in Workers, Attends(w) PROVE EntryCalls'
    BY <2>1, <2>3 DEF EntryCalls, Attends, WorkIsActive, WorkerHasJob
  <2> QED
    BY <1>3, <2>1, <2>2, <2>3 DEF Queued
<1>19. ASSUME NEW j \in JobId, Age(j) PROVE Goal
  BY <1>3, <1>19 DEF Age, SomeProcessing
<1>20. ASSUME CancelPipeline \/ WatchdogScan \/ WatchdogFault \/ UNCHANGED vars PROVE Goal
  <2>1. row' = row /\ entry' = entry /\ pc' = pc /\ target' = target /\ work' = work
    BY <1>20 DEF CancelPipeline, WatchdogScan, WatchdogFault, vars
  <2> QED
    BY <1>3, <1>4, <1>5, <2>1 DEF Queued
<1> QED
  BY <1>6, <1>7, <1>8, <1>9, <1>10, <1>11, <1>12, <1>13, <1>14, <1>15, <1>16, <1>17, <1>18, <1>19,
     <1>20
     DEF Next, WorkerStep, ClientStep, AdvanceStep, Environment, Housekeeping

(* The run of a PROCESSING project that has reached a queue always has      *)
(* somebody to move it on, whatever crashes, faults, cancels and evicts     *)
(* come between: Pipeline!QueuedRunIsAttended. The way out it leaves, an    *)
(* entry that has failed for good, is the hypothesis that such an entry is  *)
(* not forgotten.                                                           *)
THEOREM QueuedRunAttended ==
  ASSUME SingleStart
  PROVE  Spec /\ FailedEntriesKept => []QueuedRunIsAttended
<1>1. Init => StartOnce /\ Calm /\ Handled
  BY ThreadsDistinct DEF Init, StartOnce, Calm, Handled
<1>2. TypeInv /\ WorkIsActive /\ Handled => QueuedRunIsAttended
  <2> SUFFICES ASSUME TypeInv, WorkIsActive, NEW w \in Workers, Attends(w)
               PROVE  \E j \in JobId : entry[j] = "active"
    BY DEF Handled, QueuedRunIsAttended, EntryCalls, Queued
  <2> QED
    BY DEF TypeInv, WorkerHasJob, WorkIsActive, Attends
<1>3. TypeInv /\ RowsOfOneRun /\ RequestInv /\ RunsInv /\ WorkIsActive /\ StartOnce /\ Calm
      /\ Handled /\ [Next]_vars /\ [FailedStay]_vars => (StartOnce /\ Calm /\ Handled)'
  <2> SUFFICES ASSUME TypeInv, RowsOfOneRun, RequestInv, RunsInv, WorkIsActive, StartOnce, Calm, Handled,
                      [Next]_vars, [FailedStay]_vars
               PROVE  (StartOnce /\ Calm /\ Handled)'
    OBVIOUS
  <2>1. FailedStay
    BY DEF FailedStay, vars
  <2> QED
    BY <2>1, StartOnceStep, CalmStep, HandledStep
<1> QED
  BY <1>1, <1>2, <1>3, TypesCorrect, OneRun, RequestsCorrect, RunsCorrect, WorkAlwaysActive, PTL
     DEF Spec, FailedEntriesKept
=============================================================================
