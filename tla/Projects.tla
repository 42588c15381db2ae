------------------------------ MODULE Projects ------------------------------
(***************************************************************************)
(* One project as its two APIs see it: /projects/:id and /jobs.  Calls run *)
(* between the awaits of each other and of the workers.  A read that only  *)
(* asks whether the row is there is one step with the write it guards,     *)
(* since that write fails on its own when the row has gone.  A worker is   *)
(* coarse here: it takes an entry once and its script ends well or badly;  *)
(* retries, crashes and the races between workers are Pipeline's.          *)
(***************************************************************************)
EXTENDS Integers, Sequences, FiniteSets

CONSTANTS
    MaxCalls,     \* bound: calls after the one that created the project
    CreateDtos,   \* what POST /projects may say of the sources
    LyricsSent,   \* lyrics in a PATCH: "unset", null, blank or words
    PostedTypes,  \* types of POST /jobs
    Edits         \* bodies of PATCH /jobs/:id

Lyrics == {"null", "blank", "words"}

JobStatuses == {"PENDING", "PROCESSING", "COMPLETED", "FAILED", "CANCELLED"}

CreateDtoType == [youtube : BOOLEAN, lyrics : Lyrics]

EditType == [status : JobStatuses, progress : Int]

(* FULL_PIPELINE_ORDER *)
FullOrder ==
    <<"YOUTUBE_DOWNLOAD", "TRANSCRIPTION", "ANALYZE_LYRICS", "GENERATE_IMAGES", "RENDER_VIDEO", "FINALIZE">>

CoreTypes == {FullOrder[i] : i \in DOMAIN FullOrder}

ASSUME ProjectsAssumption ==
    /\ MaxCalls \in Nat
    /\ CreateDtos \subseteq CreateDtoType /\ Edits \subseteq EditType
    /\ LyricsSent \subseteq Lyrics \cup {"unset"}
    /\ PostedTypes \subseteq CoreTypes \cup {"TRAIN_LORA"}

StageWorkers == 1 .. Len(FullOrder) - 1      \* FINALIZE has no queue
Calls        == Len(FullOrder) .. Len(FullOrder) + MaxCalls - 1

VARIABLES
    projectRow, \* the Project row; there is FALSE once it is deleted
    jobRows,  \* its Job rows, by id; a row made later has a greater id
    handed,   \* ids of jobs that ever had an entry in a queue
    queued,   \* jobs whose entry no worker has taken yet
    doing,    \* what each call and each worker is in the middle of
    lastId,   \* ghost: job rows ever made
    runs,     \* ghost: runs ever created
    doneRun,  \* ghost: the run whose rows the last write of COMPLETED had read
    edited,   \* ghost: stages of this run were made, changed or removed by hand
    drift     \* ghost: the last write of sourceMode came from a bad copy

projectVars == <<projectRow, jobRows, handed, queued, doing, lastId, runs, doneRun, edited, drift>>

handVars == <<handed, queued>>
ghostVars == <<runs, doneRun, edited, drift>>

Unused == [pc |-> "idle"]
Over == [pc |-> "done"]

-----------------------------------------------------------------------------
(* resolveProjectSourceMode of the projects service *)
Resolve(p) ==
    IF p.youtube THEN "youtube"
    ELSE IF p.audio /\ p.lyrics # "words" THEN "audio"
    ELSE IF p.audio \/ p.lyrics = "words" THEN "lyrics"
    ELSE "unknown"

(* The function of the same name in the pipeline definition.                *)
ResolvedSource(p) == Resolve(p)

(* buildPipelineDefinition *)
Order(p) ==
    CASE ResolvedSource(p) = "youtube" -> FullOrder
      [] ResolvedSource(p) = "audio"   -> SubSeq(FullOrder, 2, 6)
      [] OTHER                         -> SubSeq(FullOrder, 3, 6)

(* ensureProjectPreflight; the providers are taken to be configured.        *)
HasSource(p) == p.youtube \/ p.audio \/ p.lyrics = "words"

IsCore(r) == r.type \in CoreTypes
Active(r) == r.status \in {"PENDING", "PROCESSING"}
Core(rows) == {k \in DOMAIN rows : IsCore(rows[k])}

Having(rows, status) == {k \in Core(rows) : rows[k].status = status}

First(ids) == CHOOSE k \in ids : \A i \in ids : k <= i

NoRows == [k \in {} |-> {}]
NewRow(type) == [type |-> type, status |-> "PENDING", progress |-> 0]
Job(rows, k) == [id |-> k, type |-> rows[k].type]

-----------------------------------------------------------------------------
(* The answers of the two status endpoints. *)

Share(r) ==
    CASE r.status = "COMPLETED"  -> 100
      [] r.status = "PROCESSING" -> IF r.progress < 0 THEN 0 ELSE IF r.progress > 100 THEN 100 ELSE r.progress
      [] OTHER                   -> 0

(* Math.round of the mean of their shares *)
Mean(rows, ids) ==
    LET sum[k \in 0 .. lastId] ==
            IF k = 0 THEN 0 ELSE IF k \in ids THEN sum[k - 1] + Share(rows[k]) ELSE sum[k - 1]
        count == Cardinality(ids)
    IN IF ids = {} THEN 0 ELSE (2 * sum[lastId] + count) \div (2 * count)

(* Mutation: every job of the project counts. *)
JobApiProgress_allTypes(rows) == Mean(rows, DOMAIN rows)

(* calculateOverallProgress of GET /jobs/pipeline/:id *)
JobApiProgress(rows) == Mean(rows, Core(rows))

(* getStatus of GET /projects/:id/status: with no stage, every job counts.  *)
ProjectApiProgress(rows) == Mean(rows, IF Core(rows) = {} THEN DOMAIN rows ELSE Core(rows))

-----------------------------------------------------------------------------
(* POST /projects *)
Created(dto) ==
    LET inputs == [youtube |-> dto.youtube, audio |-> FALSE, lyrics |-> dto.lyrics]
    IN [there |-> TRUE, youtube |-> dto.youtube, audio |-> FALSE, lyrics |-> dto.lyrics,
        mode |-> Resolve(inputs), status |-> "DRAFT"]

ProjectsInit ==
    /\ \E dto \in CreateDtos : projectRow = Created(dto)
    /\ jobRows = NoRows /\ handed = {} /\ queued = {}
    /\ doing = [t \in StageWorkers \cup Calls |-> Unused]
    /\ lastId = 0 /\ runs = 0 /\ doneRun = 0 /\ edited = FALSE /\ drift = FALSE

Sources(p) == [youtube |-> p.youtube, audio |-> p.audio, lyrics |-> p.lyrics]

Goes(t, state) == doing' = [doing EXCEPT ![t] = state]

(* Calls are alike, so they come in the order of their names.               *)
Arrives(c) == doing[c] = Unused /\ \A b \in Calls : b < c => doing[b] # Unused

(* Another call writes sourceMode between this one's read and its write.    *)
Overtake(c, state) ==
    doing' = [t \in DOMAIN doing |->
                 IF t = c THEN state
                 ELSE IF doing[t].pc = "update" THEN [doing[t] EXCEPT !.overtaken = TRUE]
                 ELSE doing[t]]

(* PATCH /projects/:id: the sources are read,                               *)
UpdateRead(c) ==
    /\ Arrives(c) /\ projectRow.there
    /\ \E lyrics \in LyricsSent :
          Goes(c, [pc |-> "update", copy |-> Sources(projectRow), lyrics |-> lyrics, overtaken |-> FALSE])
    /\ UNCHANGED <<projectRow, jobRows, handVars, lastId, ghostVars>>

(* Mutation: the mode is that of the lyrics sent, whatever else is stored. *)
UpdatedMode_sentOnly(copy, lyrics) ==
    Resolve([youtube |-> FALSE, audio |-> FALSE, lyrics |-> lyrics])

(* updateProjectDto.lyrics ?? project.lyrics *)
UpdatedMode(copy, lyrics) ==
    Resolve([copy EXCEPT !.lyrics = IF lyrics \in {"unset", "null"} THEN @ ELSE lyrics])

(* and the lyrics are written together with the mode that the copy gives.   *)
UpdateWrite(c) ==
    /\ doing[c].pc = "update"
    /\ Overtake(c, Over)
    /\ IF projectRow.there
       THEN /\ projectRow' = [projectRow EXCEPT !.lyrics = IF doing[c].lyrics = "unset" THEN @ ELSE doing[c].lyrics,
                                          !.mode = UpdatedMode(doing[c].copy, doing[c].lyrics)]
            /\ drift' = (doing[c].overtaken \/ doing[c].lyrics = "null")
       ELSE UNCHANGED <<projectRow, drift>>
    /\ UNCHANGED <<jobRows, handVars, lastId, runs, doneRun, edited>>

(* DELETE /projects/:id; the jobs go with it, the queue entries stay.       *)
Remove(c) ==
    /\ Arrives(c) /\ projectRow.there
    /\ projectRow' = [projectRow EXCEPT !.there = FALSE] /\ jobRows' = NoRows
    /\ Goes(c, Over)
    /\ UNCHANGED <<handVars, lastId, ghostVars>>

(* POST /projects/:id/generate with a URL writes it before the start.       *)
GenerateUrl(c) ==
    /\ Arrives(c) /\ projectRow.there
    /\ projectRow' = [projectRow EXCEPT !.youtube = TRUE, !.mode = Resolve([projectRow EXCEPT !.youtube = TRUE])]
    /\ drift' = FALSE
    /\ Overtake(c, [pc |-> "start"])
    /\ UNCHANGED <<jobRows, handVars, lastId, runs, doneRun, edited>>

(* Without a URL, as by POST /jobs/pipeline/:id/start, it starts at once.   *)
Starts(c) == doing[c].pc = "start" \/ Arrives(c)

After(t) == IF t \in Calls THEN Over ELSE Unused

(* dispatch: the entry of a job, unless its id has one already; FINALIZE    *)
(* has no queue and is completed in a step of its own.                      *)
Dispatch(t, job) ==
    IF job.type = "FINALIZE"
    THEN Goes(t, [pc |-> "finalize", id |-> job.id]) /\ UNCHANGED handVars
    ELSE /\ handed' = handed \cup {job.id}
         /\ queued' = IF job.id \in handed THEN queued ELSE queued \cup {job}
         /\ Goes(t, After(t))

(* cancelDuplicateActiveStages: of the active rows of a type one stays.     *)
Deduped ==
    [k \in DOMAIN jobRows |->
        IF /\ IsCore(jobRows[k]) /\ Active(jobRows[k])
           /\ \E i \in DOMAIN jobRows : i < k /\ Active(jobRows[i]) /\ jobRows[i].type = jobRows[k].type
        THEN [jobRows[k] EXCEPT !.status = "CANCELLED"] ELSE jobRows[k]]

(* createFreshPipeline *)
Fresh == [k \in lastId + 1 .. lastId + Len(Order(projectRow)) |-> NewRow(Order(projectRow)[k - lastId])]

(* startPipeline refuses: no project any more (404), or no source (400).    *)
StartRefused(c) ==
    /\ Starts(c) /\ ~(projectRow.there /\ HasSource(projectRow))
    /\ Goes(c, Over)
    /\ UNCHANGED <<projectRow, jobRows, handVars, lastId, ghostVars>>

(* Its transaction repairs the mode; an active run is resumed when nothing  *)
(* of it is being worked on, and with no active run a new one is created.   *)
ResumesRun(c) ==
    /\ Starts(c) /\ projectRow.there /\ HasSource(projectRow)
    /\ \E k \in Core(jobRows) : Active(jobRows[k])
    /\ projectRow' = [projectRow EXCEPT !.mode = ResolvedSource(projectRow), !.status = "PROCESSING"]
    /\ jobRows' = Deduped
    /\ IF Having(Deduped, "PROCESSING") = {} THEN Dispatch(c, Job(Deduped, First(Having(Deduped, "PENDING"))))
       ELSE Goes(c, Over) /\ UNCHANGED handVars
    /\ drift' = FALSE
    /\ UNCHANGED <<lastId, runs, doneRun, edited>>

CreatesRun(c) ==
    /\ Starts(c) /\ projectRow.there /\ HasSource(projectRow)
    /\ \A k \in Core(jobRows) : ~Active(jobRows[k])
    /\ projectRow' = [projectRow EXCEPT !.mode = ResolvedSource(projectRow), !.status = "PROCESSING"]
    /\ jobRows' = [k \in (DOMAIN jobRows \ Core(jobRows)) \cup DOMAIN Fresh |->
                      IF k \in DOMAIN Fresh THEN Fresh[k] ELSE jobRows[k]]
    /\ lastId' = lastId + Len(Order(projectRow)) /\ runs' = runs + 1
    /\ Dispatch(c, Job(Fresh, lastId + 1))
    /\ edited' = FALSE /\ drift' = FALSE
    /\ UNCHANGED doneRun

(* cancelPipeline, of either API: every active job of the project stops.    *)
Cancel(c) ==
    /\ Arrives(c) /\ projectRow.there
    /\ jobRows' = [k \in DOMAIN jobRows |->
                      IF Active(jobRows[k]) THEN [jobRows[k] EXCEPT !.status = "CANCELLED"] ELSE jobRows[k]]
    /\ projectRow' = [projectRow EXCEPT !.status = "CANCELLED"]
    /\ Goes(c, Over)
    /\ UNCHANGED <<handVars, lastId, ghostVars>>

(* Both status endpoints read the project and then its jobs; the answers    *)
(* that say COMPLETED are remembered.                                       *)
StatusRead(c) ==
    /\ Arrives(c) /\ projectRow.there /\ projectRow.status = "COMPLETED"
    /\ Goes(c, [pc |-> "status"])
    /\ UNCHANGED <<projectRow, jobRows, handVars, lastId, ghostVars>>

Answer(progress) ==
    [pc |-> "told", progress |-> progress, current |-> doneRun = runs /\ ~edited /\ projectRow.there]

StatusJobs(c) ==
    /\ doing[c].pc = "status"
    /\ \E progress \in {JobApiProgress(jobRows), ProjectApiProgress(jobRows)} :
          Goes(c, Answer(progress))
    /\ UNCHANGED <<projectRow, jobRows, handVars, lastId, ghostVars>>

(* POST /jobs makes a row that nobody dispatches,                           *)
PostJob(c) ==
    /\ Arrives(c) /\ projectRow.there
    /\ \E type \in PostedTypes :
          /\ jobRows' = [k \in DOMAIN jobRows \cup {lastId + 1} |->
                            IF k = lastId + 1 THEN NewRow(type) ELSE jobRows[k]]
          /\ edited' = (edited \/ type \in CoreTypes)
    /\ lastId' = lastId + 1
    /\ Goes(c, Over)
    /\ UNCHANGED <<projectRow, handVars, runs, doneRun, drift>>

(* PATCH /jobs/:id writes what it is sent, the status included,             *)
PatchJob(c) ==
    /\ Arrives(c)
    /\ \E k \in DOMAIN jobRows, edit \in Edits :
          /\ jobRows' = [jobRows EXCEPT ![k].status = edit.status, ![k].progress = edit.progress]
          /\ edited' = (edited \/ IsCore(jobRows[k]))
    /\ Goes(c, Over)
    /\ UNCHANGED <<projectRow, handVars, lastId, runs, doneRun, drift>>

(* and DELETE /jobs/:id removes the row, whoever works on it.               *)
DeleteJob(c) ==
    /\ Arrives(c)
    /\ \E k \in DOMAIN jobRows :
          /\ jobRows' = [i \in DOMAIN jobRows \ {k} |-> jobRows[i]]
          /\ edited' = (edited \/ IsCore(jobRows[k]))
    /\ Goes(c, Over)
    /\ UNCHANGED <<projectRow, handVars, lastId, runs, doneRun, drift>>

-----------------------------------------------------------------------------
(* FINALIZE is completed by whoever dispatches it, who then advances.       *)
FinalizesInline(t) ==
    /\ doing[t].pc = "finalize"
    /\ IF doing[t].id \notin DOMAIN jobRows THEN Goes(t, After(t)) /\ UNCHANGED jobRows
       ELSE /\ jobRows' = [jobRows EXCEPT ![doing[t].id].status = "COMPLETED", ![doing[t].id].progress = 100]
            /\ Goes(t, [pc |-> "advance"])
    /\ UNCHANGED <<projectRow, handVars, lastId, ghostVars>>

(* advancePipeline decides on the rows read; with no stage it throws.        *)
Advance(t) ==
    LET pending == Having(jobRows, "PENDING")
    IN /\ doing[t].pc = "advance"
       /\ IF pending # {} THEN Dispatch(t, Job(jobRows, First(pending)))
          ELSE /\ Goes(t, IF Core(jobRows) # {} /\ Having(jobRows, "COMPLETED") = Core(jobRows)
                          THEN [pc |-> "complete", run |-> runs] ELSE After(t))
               /\ UNCHANGED handVars
       /\ UNCHANGED <<projectRow, jobRows, lastId, ghostVars>>

(* The project is marked COMPLETED by a write of its own.                   *)
Complete(t) ==
    /\ doing[t].pc = "complete"
    /\ IF projectRow.there THEN projectRow' = [projectRow EXCEPT !.status = "COMPLETED"] /\ doneRun' = doing[t].run
       ELSE UNCHANGED <<projectRow, doneRun>>
    /\ Goes(t, After(t))
    /\ UNCHANGED <<jobRows, handVars, lastId, runs, edited, drift>>

(* markAsProcessing; the update of a row that has gone throws.              *)
Take(w) ==
    /\ doing[w] = Unused
    /\ \E job \in queued :
          /\ job.type = FullOrder[w] /\ \A q \in queued : q.type = job.type => job.id <= q.id
          /\ queued' = queued \ {job}
          /\ IF job.id \notin DOMAIN jobRows THEN UNCHANGED <<jobRows, doing>>
             ELSE /\ jobRows' = [jobRows EXCEPT ![job.id].status = "PROCESSING"]
                  /\ Goes(w, [pc |-> "work", id |-> job.id])
    /\ UNCHANGED <<projectRow, handed, lastId, ghostVars>>

(* What the scripts write to the project; the download needs the URL, the   *)
(* transcription lyrics or a sound to transcribe.                           *)
CanRun(type) ==
    /\ type = "YOUTUBE_DOWNLOAD" => projectRow.youtube
    /\ type = "TRANSCRIPTION"    => HasSource(projectRow)

Written(type) ==
    [projectRow EXCEPT !.audio  = @ \/ type = "YOUTUBE_DOWNLOAD",
                    !.lyrics = IF type = "TRANSCRIPTION" THEN "words" ELSE @]

StageCompletes(w) ==
    /\ doing[w].pc = "work" /\ projectRow.there /\ CanRun(FullOrder[w])
    /\ projectRow' = Written(FullOrder[w])
    /\ IF doing[w].id \notin DOMAIN jobRows THEN Goes(w, Unused) /\ UNCHANGED jobRows
       ELSE /\ jobRows' = [jobRows EXCEPT ![doing[w].id].status = "COMPLETED", ![doing[w].id].progress = 100]
            /\ Goes(w, [pc |-> "advance"])
    /\ UNCHANGED <<handVars, lastId, ghostVars>>

(* markAsFailed drops the other active stages in the same transaction.      *)
StageFails(w) ==
    /\ doing[w].pc = "work"
    /\ IF doing[w].id \notin DOMAIN jobRows THEN UNCHANGED <<projectRow, jobRows>>
       ELSE /\ jobRows' = [k \in DOMAIN jobRows |->
                              IF k = doing[w].id THEN [jobRows[k] EXCEPT !.status = "FAILED"]
                              ELSE IF IsCore(jobRows[k]) /\ Active(jobRows[k])
                                   THEN [jobRows[k] EXCEPT !.status = "CANCELLED"]
                              ELSE jobRows[k]]
            /\ projectRow' = [projectRow EXCEPT !.status = "FAILED"]
    /\ Goes(w, Unused)
    /\ UNCHANGED <<handVars, lastId, ghostVars>>

-----------------------------------------------------------------------------
CallStep(c) ==
    \/ UpdateRead(c)
    \/ UpdateWrite(c)
    \/ Remove(c)
    \/ GenerateUrl(c)
    \/ StartRefused(c)
    \/ ResumesRun(c)
    \/ CreatesRun(c)
    \/ Cancel(c)
    \/ StatusRead(c)
    \/ StatusJobs(c)

JobCallStep(c) ==
    \/ PostJob(c)
    \/ PatchJob(c)
    \/ DeleteJob(c)

HandStep(t) ==
    \/ FinalizesInline(t)
    \/ Advance(t)
    \/ Complete(t)

StageStep(w) ==
    \/ Take(w)
    \/ StageCompletes(w)
    \/ StageFails(w)

ProjectsNext ==
    \/ \E c \in Calls : CallStep(c) \/ JobCallStep(c)
    \/ \E t \in DOMAIN doing : HandStep(t)
    \/ \E w \in StageWorkers : StageStep(w)

ProjectsSpec == ProjectsInit /\ [][ProjectsNext]_projectVars

ProjectType ==
    [there : BOOLEAN, youtube : BOOLEAN, audio : BOOLEAN, lyrics : Lyrics,
     mode : {"youtube", "audio", "lyrics", "unknown"},
     status : {"DRAFT", "PROCESSING", "COMPLETED", "FAILED", "CANCELLED"}]

JobRowType == [type : CoreTypes \cup {"TRAIN_LORA"}, status : JobStatuses, progress : Int]

AnswerType == [pc : {"told"}, progress : 0 .. 100, current : BOOLEAN]

(* The type of every variable.                                              *)
ProjectsTypeOK ==
    /\ projectRow \in ProjectType
    /\ DOMAIN jobRows \subseteq 1 .. lastId /\ jobRows \in [DOMAIN jobRows -> JobRowType]
    /\ lastId \in Nat /\ handed \subseteq 1 .. lastId
    /\ queued \subseteq [id : handed, type : CoreTypes]
    /\ \A t \in DOMAIN doing :
          \/ doing[t].pc \in {"idle", "done", "update", "start", "status",
                             "finalize", "advance", "complete", "work"}
          \/ doing[t] \in AnswerType
    /\ doneRun \in 0 .. runs /\ edited \in BOOLEAN /\ drift \in BOOLEAN

(* The stored sourceMode is the one its sources give, whatever the scripts  *)
(* wrote since, unless the last call that wrote it had been overtaken by    *)
(* another call, or erased the lyrics with null (update, startGeneration).  *)
SourceModeFits == projectRow.there /\ ~drift => projectRow.mode = Resolve(projectRow)

(* A caller told COMPLETED is told 100 as well, by either endpoint and with *)
(* a style training under way, unless a new run was created since or its    *)
(* stages were edited by hand (getStatus, calculateOverallProgress).        *)
DoneShowsAll ==
    \A c \in Calls :
        doing[c].pc = "told" /\ doing[c].current => doing[c].progress = 100
=============================================================================
