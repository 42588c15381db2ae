---------------------------- MODULE ProjectPage ----------------------------
(***************************************************************************)
(* What a user watching a running project sees. The page keeps a copy of    *)
(* the project that two sources update: the answers of GET /projects/:id,   *)
(* polled while the copy says PROCESSING, and the job:update events of the  *)
(* socket, which reach it from the processors and, through Redis, from the  *)
(* Python scripts. Answers overtake each other, events are lost while the   *)
(* socket is not in the project's room and come late, and both stop once    *)
(* the copy is no longer PROCESSING.                                        *)
(*                                                                          *)
(* The pipeline behind the page is reduced to the writes and emits it shows *)
(* to others; its own behaviour is in Pipeline.                             *)
(***************************************************************************)
EXTENDS Naturals, Sequences, FiniteSets

CONSTANTS
  Stages,          \* the number of the project's stages, FINALIZE included
  Polls,           \* answers of the API that may be under way together
  MaxWire,         \* bound: events on their way to the page
  MaxStops,        \* bound: cancels, failures by the watchdog and restarts
  TrainingFailed   \* the project also has a FAILED TRAIN_LORA row

Stage == 1..Stages

ASSUME PageAssumption ==
  /\ Stages \in Nat /\ Stages >= 2
  /\ MaxWire \in Nat \ {0}
  /\ MaxStops \in Nat
  /\ TrainingFailed \in BOOLEAN

VARIABLES
  project,  \* Project.status, in the database
  rows,     \* Job.status of every stage's row, in the database
  worker,   \* the stage in a processor and how far it has come
  script,   \* the stage whose script still publishes to Redis, 0 for none
  channel,  \* messages of the Redis channel not yet handled by EventsService
  socket,   \* the page's connection, and whether the gateway has it in the room
  wire,     \* job:update events between the gateway and the page
  polls,    \* the requests of loadProject and their answers
  page,     \* the page's copy: the project's status and its jobs'
  had,      \* history: the final statuses that project and rows have had
  stops     \* history, for the bound MaxStops

backend  == <<project, rows, worker, had, stops>>
transit  == <<script, channel, wire>>
pageVars == <<project, rows, worker, script, channel, socket, wire, polls, page, had, stops>>

Final     == {"COMPLETED", "FAILED", "CANCELLED"}
Status    == Final \cup {"PROCESSING"}
RowStatus == Final \cup {"PENDING", "PROCESSING"}
Copy      == [status : Status, jobs : [Stage -> RowStatus]]
Slot(at)  == [status |-> at, jobs |-> [s \in Stage |-> "PENDING"]]
Event     == [stage : Stage, status : {"PROCESSING", "COMPLETED", "FAILED"}]

PageTypeOK ==
  /\ project \in Status
  /\ rows \in [Stage -> RowStatus]
  /\ worker \in [stage : Stage, at : {"idle", "begun", "running", "completed", "advance", "failed"}]
  /\ script \in 0..Stages
  /\ channel \in Seq(Stage) /\ Len(channel) <= 1
  /\ socket \in {"off", "joined"}
  /\ wire \in Seq(Event) /\ Len(wire) <= MaxWire
  /\ \A p \in Polls : polls[p] \in Copy \cup {Slot("free"), Slot("asked")}
  /\ page \in Copy
  /\ had \subseteq (Final \X (0..Stages))
  /\ stops \in 0..MaxStops

(* The page has loaded a project whose first stage waits for its worker.    *)
PageInit ==
  /\ project = "PROCESSING"
  /\ rows = [s \in Stage |-> "PENDING"]
  /\ worker = [stage |-> 1, at |-> "idle"]
  /\ script = 0
  /\ channel = <<>>
  /\ socket = "off"
  /\ wire = <<>>
  /\ polls = [p \in Polls |-> Slot("free")]
  /\ page = [status |-> project, jobs |-> rows]
  /\ had = {}
  /\ stops = 0

(* server.to(room).emit: nobody gets it when the room is empty.             *)
Emit(s, status) ==
  /\ Len(wire) < MaxWire
  /\ wire' = IF socket = "joined" THEN Append(wire, [stage |-> s, status |-> status]) ELSE wire

Stop == stops < MaxStops /\ stops' = stops + 1

(* markAsFailed, the watchdog, cancelPipeline: the stages not yet ended.    *)
CancelRest == [s \in Stage |-> IF rows[s] \in Final THEN rows[s] ELSE "CANCELLED"]

-----------------------------------------------------------------------------
(* The stage processors, from the first write to the last emit.             *)

Begin ==
  /\ worker.at = "idle"
  /\ project = "PROCESSING"
  /\ \E s \in 1..(Stages - 1) :
        /\ rows[s] = "PENDING"
        /\ \A r \in 1..(s - 1) : rows[r] = "COMPLETED"
        /\ rows' = [rows EXCEPT ![s] = "PROCESSING"]
        /\ worker' = [stage |-> s, at |-> "begun"]
  /\ UNCHANGED <<project, transit, socket, polls, page, had, stops>>

EmitProcessing ==
  /\ worker.at = "begun"
  /\ Emit(worker.stage, "PROCESSING")
  /\ worker' = [worker EXCEPT !.at = "running"]
  /\ script' = worker.stage
  /\ UNCHANGED <<project, rows, channel, socket, polls, page, had, stops>>

(* A PROGRESS line of the script: updateProgress, then the emit; and the    *)
(* retry branch of the catch block.                                         *)
EmitProgress ==
  /\ worker.at = "running"
  /\ rows[worker.stage] # "PENDING"
  /\ Emit(worker.stage, "PROCESSING")
  /\ UNCHANGED <<backend, script, channel, socket, polls, page>>

(* The same message on the Redis channel: it knows nothing of the row.      *)
PublishProgress ==
  /\ script # 0
  /\ channel = <<>>
  /\ channel' = <<script>>
  /\ UNCHANGED <<backend, script, wire, socket, polls, page>>

HandleProgress ==
  /\ channel # <<>>
  /\ Emit(Head(channel), "PROCESSING")
  /\ channel' = Tail(channel)
  /\ UNCHANGED <<backend, script, socket, polls, page>>

(* Mutation: the row is not written, but the event will leave.              *)
Completed_notWritten == UNCHANGED <<rows, had>>

(* markAsCompleted.                                                         *)
Completed ==
  /\ rows' = [rows EXCEPT ![worker.stage] = "COMPLETED"]
  /\ had' = had \cup {<<"COMPLETED", worker.stage>>}

(* The script ends well. A row deleted by a restart makes the write throw,  *)
(* markAsFailed throws as well, and nothing is emitted.                     *)
Complete ==
  /\ worker.at = "running"
  /\ script' = 0
  /\ \/ /\ rows[worker.stage] # "PENDING"
        /\ Completed
        /\ worker' = [worker EXCEPT !.at = "completed"]
     \/ /\ rows[worker.stage] = "PENDING"
        /\ worker' = [worker EXCEPT !.at = "idle"]
        /\ UNCHANGED <<rows, had>>
  /\ UNCHANGED <<project, channel, wire, socket, polls, page, stops>>

EmitCompleted ==
  /\ worker.at = "completed"
  /\ Emit(worker.stage, "COMPLETED")
  /\ worker' = [worker EXCEPT !.at = "advance"]
  /\ UNCHANGED <<project, rows, script, channel, socket, polls, page, had, stops>>

(* advancePipeline: the next stage's queue, or FINALIZE, which has no       *)
(* processor and emits nothing, and then the project.                       *)
Advance ==
  /\ worker.at = "advance"
  /\ \/ /\ project = "PROCESSING"
        /\ \A s \in 1..(Stages - 1) : rows[s] = "COMPLETED"
        /\ rows[Stages] = "PENDING"
        /\ rows' = [rows EXCEPT ![Stages] = "COMPLETED"]
        /\ had' = had \cup {<<"COMPLETED", Stages>>}
        /\ UNCHANGED <<project, worker>>
     \/ /\ project = "PROCESSING"
        /\ \A s \in Stage : rows[s] = "COMPLETED"
        /\ project' = "COMPLETED"
        /\ had' = had \cup {<<"COMPLETED", 0>>}
        /\ worker' = [worker EXCEPT !.at = "idle"]
        /\ UNCHANGED rows
     \/ /\ \/ project # "PROCESSING"
           \/ \E s \in 1..(Stages - 1) : rows[s] # "COMPLETED"
        /\ worker' = [worker EXCEPT !.at = "idle"]
        /\ UNCHANGED <<project, rows, had>>
  /\ UNCHANGED <<transit, socket, polls, page, stops>>

(* The last attempt fails: markAsFailed's transaction.                      *)
Fail ==
  /\ worker.at = "running"
  /\ script' = 0
  /\ \/ /\ rows[worker.stage] # "PENDING"
        /\ rows' = [CancelRest EXCEPT ![worker.stage] = "FAILED"]
        /\ project' = "FAILED"
        /\ had' = had \cup {<<"FAILED", worker.stage>>, <<"FAILED", 0>>}
        /\ worker' = [worker EXCEPT !.at = "failed"]
     \/ /\ rows[worker.stage] = "PENDING"
        /\ worker' = [worker EXCEPT !.at = "idle"]
        /\ UNCHANGED <<project, rows, had>>
  /\ UNCHANGED <<channel, wire, socket, polls, page, stops>>

EmitFailed ==
  /\ worker.at = "failed"
  /\ Emit(worker.stage, "FAILED")
  /\ worker' = [worker EXCEPT !.at = "idle"]
  /\ UNCHANGED <<project, rows, script, channel, socket, polls, page, had, stops>>

-----------------------------------------------------------------------------
(* The others that end or restart a run; none of them emits.                *)

Cancel ==
  /\ Stop
  /\ project = "PROCESSING"
  /\ project' = "CANCELLED"
  /\ rows' = CancelRest
  /\ had' = had \cup {<<"CANCELLED", 0>>}
  /\ UNCHANGED <<worker, transit, socket, polls, page>>

WatchdogFails ==
  /\ Stop
  /\ worker.at = "running"
  /\ rows[worker.stage] = "PROCESSING"
  /\ project' = "FAILED"
  /\ rows' = [CancelRest EXCEPT ![worker.stage] = "FAILED"]
  /\ had' = had \cup {<<"FAILED", worker.stage>>, <<"FAILED", 0>>}
  /\ UNCHANGED <<worker, transit, socket, polls, page>>

(* startPipeline from another tab: fresh rows replace the old ones. What a  *)
(* processor of the old run still has to do ends at its next write.         *)
Restart ==
  /\ Stop
  /\ project \in Final
  /\ project' = "PROCESSING"
  /\ rows' = [s \in Stage |-> "PENDING"]
  /\ worker' = [worker EXCEPT !.at = IF @ \in {"begun", "completed", "failed"} THEN @ ELSE "idle"]
  /\ UNCHANGED <<transit, socket, polls, page, had>>

(* The script of a processor that is no longer there comes to its end.      *)
ScriptEnds ==
  /\ script # 0
  /\ worker.at # "running"
  /\ script' = 0
  /\ UNCHANGED <<backend, channel, wire, socket, polls, page>>

-----------------------------------------------------------------------------
(* The socket: useProjectSocket and the gateway.                            *)

Watching == page.status = "PROCESSING"

(* A connection whose join:project is answered with success; a refused or   *)
(* unanswered join is as good as no connection.                             *)
Join ==
  /\ Watching
  /\ socket = "off"
  /\ socket' = "joined"
  /\ UNCHANGED <<backend, transit, polls, page>>

Disconnect ==
  /\ socket = "joined"
  /\ socket' = "off"
  /\ wire' = <<>>
  /\ UNCHANGED <<backend, script, channel, polls, page>>

(* The effect's cleanup once the copy is not PROCESSING.                    *)
Leave == ~Watching /\ Disconnect

-----------------------------------------------------------------------------
(* The page.                                                                *)

Ignored(e) == page.status \in {"COMPLETED", "FAILED"} /\ e.status # "FAILED"

(* Mutation: what the stages before have done does not count.               *)
Derived_lastOnly(jobs) ==
  IF \E s \in Stage : jobs[s] = "FAILED" THEN "FAILED"
  ELSE IF \E s \in Stage : s >= Stages - 1 /\ jobs[s] = "COMPLETED" THEN "COMPLETED"
  ELSE IF \E s \in Stage : jobs[s] = "PROCESSING" THEN "PROCESSING"
  ELSE page.status

(* The status of the project as the page infers it from its jobs, among     *)
(* which are those that are not stages.                                     *)
Derived(jobs) ==
  IF TrainingFailed \/ \E s \in Stage : jobs[s] = "FAILED" THEN "FAILED"
  ELSE IF \A s \in Stage : jobs[s] = "COMPLETED" THEN "COMPLETED"
  ELSE IF \E s \in Stage : jobs[s] = "PROCESSING" THEN "PROCESSING"
  ELSE page.status

Merged(e) ==
  LET jobs == [page.jobs EXCEPT ![e.stage] = e.status]
  IN IF Ignored(e) THEN page ELSE [status |-> Derived(jobs), jobs |-> jobs]

(* Events that arrive in one task are batched by React: jobUpdate is a      *)
(* state, and the effect sees the last of them.                             *)
Deliver ==
  \E n \in 1..Len(wire) :
    /\ page' = Merged(wire[n])
    /\ wire' = SubSeq(wire, n + 1, Len(wire))
    /\ UNCHANGED <<backend, script, channel, socket, polls>>

(* Mutation: polling only while the socket is not connected.                *)
Polling_offline == Watching /\ socket = "off"

Polling == Watching

(* The interval of three seconds, and the resync after a join.              *)
Ask(p) ==
  /\ Polling
  /\ polls[p].status = "free"
  /\ polls' = [polls EXCEPT ![p] = Slot("asked")]
  /\ UNCHANGED <<backend, transit, socket, page>>

ServerReads(p) ==
  /\ polls[p].status = "asked"
  /\ polls' = [polls EXCEPT ![p] = [status |-> project, jobs |-> rows]]
  /\ UNCHANGED <<backend, transit, socket, page>>

Answered(p) == polls[p].status \notin {"free", "asked"}

(* setProject: whatever the page knew is replaced.                          *)
Answer(p) ==
  /\ Answered(p)
  /\ page' = polls[p]
  /\ polls' = [polls EXCEPT ![p] = Slot("free")]
  /\ UNCHANGED <<backend, transit, socket>>

RequestFails(p) ==
  /\ polls[p].status # "free"
  /\ polls' = [polls EXCEPT ![p] = Slot("free")]
  /\ UNCHANGED <<backend, transit, socket, page>>

-----------------------------------------------------------------------------
PipelineMoves ==
  \/ Begin \/ EmitProcessing \/ EmitProgress \/ PublishProgress \/ HandleProgress
  \/ Complete \/ EmitCompleted \/ Advance \/ Fail \/ EmitFailed
  \/ Cancel \/ WatchdogFails \/ Restart \/ ScriptEnds

PageMoves ==
  \/ Join \/ Disconnect \/ Deliver
  \/ \E p \in Polls : Ask(p) \/ ServerReads(p) \/ Answer(p) \/ RequestFails(p)

PageNext == PipelineMoves \/ PageMoves

(* The browser's timers fire, a poll that keeps being made is answered, and *)
(* what has been sent arrives or its connection is lost. All the backend    *)
(* owes the page is that a script ends, at its timeout at the latest: until *)
(* then its events turn a copy that says CANCELLED back to PROCESSING.      *)
PageFairness ==
  /\ WF_pageVars(Complete \/ Fail) /\ WF_pageVars(ScriptEnds)
  /\ WF_pageVars(Deliver) /\ WF_pageVars(Leave) /\ WF_pageVars(HandleProgress)
  /\ \A p \in Polls : WF_pageVars(Ask(p)) /\ SF_pageVars(ServerReads(p)) /\ SF_pageVars(Answer(p))

PageSpec     == PageInit /\ [][PageNext]_pageVars
PageFairSpec == PageSpec /\ PageFairness

-----------------------------------------------------------------------------
(* A final status the page shows is one the project has really had, or it   *)
(* is COMPLETED and every stage has completed: no event of an old run, no   *)
(* lost or late event and no slow answer makes the page announce a result   *)
(* that never was.                                                          *)
FinalStatusWasReal ==
  page.status \in Final =>
    \/ <<page.status, 0>> \in had
    \/ page.status = "COMPLETED" /\ \A s \in Stage : <<"COMPLETED", s>> \in had

(* A stage shown as completed or failed has been so in the database: the    *)
(* processors emit only what they have written.                             *)
ShownResultsAreReal ==
  \A s \in Stage : page.jobs[s] \in {"COMPLETED", "FAILED"} => <<page.jobs[s], s>> \in had

(* Once the run has ended for good the page ends its watch, whatever it has *)
(* missed and however late its answers are.                                 *)
WatchEnds == <>[](project \in Final) => <>[](page.status \in Final)

(* The page of a project that completes ends up showing it as completed:    *)
(* polling goes on beside the socket to "prevent UI drift if websocket      *)
(* events are dropped".                                                     *)
NoDrift == <>[](project = "COMPLETED") => <>[](page.status = "COMPLETED")

=============================================================================
