---------------------------- MODULE StageAttempt ----------------------------
(***************************************************************************)
(* process() of the five queued processors, await by await: one queued job *)
(* through all its attempts.  The progress messages of a script are        *)
(* written to its row by updates nobody waits for, so that they land in    *)
(* any order and as late as they like.  Pipeline has the stages of a run   *)
(* and the races between jobs; this module has what one job says of itself *)
(* in its row, in its events, to the circuit breaker and in dead letters.  *)
(***************************************************************************)
EXTENDS Integers, Sequences, FiniteSets, Functions

CONSTANTS
    Stages,      \* the types of the jobs looked at
    StageAttempts, \* BullMQ attempts of the entry
    Segments,    \* counts in "Transcribed n segments"
    Percents,    \* progress the image script reports
    Results,     \* what the last RESULT_JSON line of a script says
    MaxMessages  \* bound: progress messages of all attempts

ASSUME StageAssumption ==
    /\ Stages \subseteq {"YOUTUBE_DOWNLOAD", "TRANSCRIPTION", "ANALYZE_LYRICS", "GENERATE_IMAGES", "RENDER_VIDEO"}
    /\ StageAttempts \in Nat \ {0} /\ MaxMessages \in Nat
    /\ Segments \subseteq Nat /\ Percents \subseteq 0..100

(* The text of a message is what the patterns of the code find in it.      *)
Texts == SUBSET {"permanent", "transient", "quota"}

Flags == {"true", "false", "none"}

ResultType ==
    [status : {"success", "degraded", "failed", "other"}, success : Flags, degraded : Flags,
     reasons : BOOLEAN, errorCode : BOOLEAN, text : Texts]

ASSUME ResultAssumption == Results \subseteq ResultType

-----------------------------------------------------------------------------
(* retry.utils.ts *)

Classify(text) ==
    IF "permanent" \in text THEN "permanent"
    ELSE IF "transient" \in text THEN "transient" ELSE "unknown"

Retryable(text) == Classify(text) # "permanent"

(* validateScriptResultContract; a result that is no object has no fields. *)
ContractHolds(r) ==
    /\ r.status \in {"success", "degraded", "failed"}
    /\ r.success # "none" /\ r.degraded # "none" /\ r.reasons
    /\ r.status = "failed" \/ r.success = "false" => r.errorCode

(* assessScriptResult; the message of a broken contract is a permanent one. *)
Assessment(r) ==
    IF ~ContractHolds(r) THEN [status |-> "failed", text |-> {"permanent"}]
    ELSE [status |-> IF r.success = "false" THEN "failed" ELSE r.status, text |-> r.text]

(* isQuotaDegradedResult *)
QuotaDegraded(r) == "quota" \in r.text

-----------------------------------------------------------------------------
VARIABLES
    stage,    \* JobType
    jobRow,   \* status and progress of the Job row
    last,     \* the last job event sent
    entry,    \* BullMQ state of the entry
    made,     \* its attemptsMade
    at,       \* the await process() is in, "idle" outside of it
    error,    \* text of the error caught
    script,   \* "none", "running", or "orphan": it outlives the answer of its run
    reported, \* reportedProgress of the transcription
    messages, \* progress messages of all attempts
    writes,   \* updates of the progress under way
    breaker,  \* what this attempt has recorded in the circuit breaker
    letters,  \* dead letters
    racing,   \* history: an update was under way when the job was marked as completed
    unsaved   \* history: a call of the catch block of the last attempt has failed

stageVars == <<stage, jobRow, last, entry, made, at, error, script, reported,
               messages, writes, breaker, letters, racing, unsaved>>

Work == <<"saving", "completing", "quality", "advancing">>

(* process() of each processor as the steps it takes in turn.  The download *)
(* takes its permit first and keeps it until the next stage is queued; the *)
(* others ask the circuit breaker before they wait for a permit.           *)
YoutubeDownload == <<"marking", "permit", "preparing", "gate", "script">> \o Work
Transcription   == <<"marking", "preparing", "gate", "permit", "script">> \o Work
Analysis        == <<"marking", "preparing", "gate", "permit", "script">> \o Work
ImageGeneration == <<"marking", "optimizing", "gate", "permit", "script">> \o Work
VideoRender     == <<"marking", "preparing", "gate", "permit", "script">> \o Work

Steps ==
    CASE stage = "YOUTUBE_DOWNLOAD" -> YoutubeDownload
      [] stage = "TRANSCRIPTION"    -> Transcription
      [] stage = "ANALYZE_LYRICS"   -> Analysis
      [] stage = "GENERATE_IMAGES"  -> ImageGeneration
      [] stage = "RENDER_VIDEO"     -> VideoRender

StepAfter(step) == Steps[1 + CHOOSE i \in 1..Len(Steps) - 1 : Steps[i] = step]

Awaits == Range(YoutubeDownload) \cup {"optimizing"}
CatchAwaits == {"retrying", "failing", "burying"}

Write == [n : 1..MaxMessages, progress : 0..100]

StageTypeOK ==
    /\ stage \in Stages
    /\ jobRow \in [status : {"PENDING", "PROCESSING", "COMPLETED", "FAILED"}, progress : 0..100]
    /\ last \in [status : {"none", "processing", "completed", "failed"}, progress : 0..100]
    /\ entry \in {"waiting", "active", "delayed", "completed", "failed"}
    /\ made \in 0..StageAttempts
    /\ at \in Awaits \cup CatchAwaits \cup {"idle"}
    /\ error \in Texts
    /\ script \in {"none", "running", "orphan"}
    /\ reported \in 0..95 /\ messages \in 0..MaxMessages
    /\ writes \subseteq Write
    /\ breaker \subseteq {"success", "failure"}
    /\ letters \subseteq [attempts : 1..StageAttempts, category : {"permanent", "transient", "unknown"}]
    /\ {racing, unsaved} \subseteq BOOLEAN

StageInit ==
    /\ stage \in Stages
    /\ jobRow = [status |-> "PENDING", progress |-> 0]
    /\ last = [status |-> "none", progress |-> 0]
    /\ entry = "waiting" /\ made = 0 /\ at = "idle"
    /\ error = {} /\ script = "none"
    /\ reported = 0 /\ messages = 0 /\ writes = {}
    /\ breaker = {} /\ letters = {}
    /\ racing = FALSE /\ unsaved = FALSE

Emit(status, progress) == last' = [status |-> status, progress |-> progress]

SaveProgress(progress) == jobRow' = [jobRow EXCEPT !.progress = progress]

AttemptNumber == made + 1

HasRemainingAttempts == AttemptNumber < StageAttempts

(* The catch block up to its first await. *)
Throw(text) ==
    /\ error' = text
    /\ breaker' = IF Retryable(text) THEN breaker \cup {"failure"} ELSE breaker
    /\ at' = IF Retryable(text) /\ HasRemainingAttempts THEN "retrying" ELSE "failing"

-----------------------------------------------------------------------------
(* A worker takes the entry; the script of an attempt before is gone by now *)
(* (the backoff is longer than the time a script has to end).              *)
TakeEntry ==
    /\ entry = "waiting" /\ script = "none"
    /\ entry' = "active" /\ at' = "marking"
    /\ reported' = 10 /\ breaker' = {} /\ unsaved' = FALSE
    /\ UNCHANGED <<stage, jobRow, last, made, error, script, messages, writes, letters, racing>>

MarkProcessing ==
    /\ at = "marking"
    /\ jobRow' = [jobRow EXCEPT !.status = "PROCESSING"]
    /\ Emit("processing", 0)
    /\ at' = StepAfter("marking")
    /\ UNCHANGED <<stage, entry, made, error, script, reported, messages, writes, breaker, letters, racing, unsaved>>

Begun == IF stage = "ANALYZE_LYRICS" THEN 20 ELSE 10

Prepare ==
    /\ at = "preparing"
    /\ SaveProgress(Begun) /\ Emit("processing", Begun)
    /\ at' = StepAfter("preparing")
    /\ UNCHANGED <<stage, entry, made, error, script, reported, messages, writes, breaker, letters, racing, unsaved>>

(* getPromptOptimization reads; a permit comes when JobConcurrency gives it. *)
Continue ==
    /\ at \in {"optimizing", "permit"}
    /\ at' = StepAfter(at)
    /\ script' = IF at' = "script" THEN "running" ELSE script
    /\ UNCHANGED <<stage, jobRow, last, entry, made, error, reported, messages, writes, breaker, letters, racing, unsaved>>

(* canExecute, whose answer is the circuit breaker's.                      *)
Gate ==
    /\ at = "gate"
    /\ \/ Throw({"transient"}) /\ UNCHANGED script
       \/ /\ at' = StepAfter("gate")
          /\ script' = IF at' = "script" THEN "running" ELSE script
          /\ UNCHANGED <<error, breaker>>
    /\ UNCHANGED <<stage, jobRow, last, entry, made, reported, messages, writes, letters, racing, unsaved>>

AtMost(a, b) == IF a < b THEN a ELSE b
AtLeast(a, b) == IF a > b THEN a ELSE b

(* A progress message of the script; only these two stages listen.  What   *)
(* the transcription shows never goes back within an attempt.              *)
ProgressMessage ==
    /\ script # "none" /\ messages < MaxMessages
    /\ \E progress \in
          CASE stage = "TRANSCRIPTION"   -> {AtMost(95, AtLeast(15, 10 + 2 * s)) : s \in Segments}
                                            \cup {AtMost(95, reported + 1)}
            [] stage = "GENERATE_IMAGES" -> Percents
            [] OTHER                     -> {} :
          /\ stage = "TRANSCRIPTION" => progress > reported
          /\ reported' = IF stage = "TRANSCRIPTION" THEN progress ELSE reported
          /\ writes' = writes \cup {[n |-> messages + 1, progress |-> progress]}
    /\ messages' = messages + 1
    /\ UNCHANGED <<stage, jobRow, last, entry, made, at, error, script, breaker, letters, racing, unsaved>>

(* An update nobody waits for has been written and is announced, or fails. *)
WriteLands(w) ==
    /\ writes' = writes \ {w}
    /\ \/ SaveProgress(w.progress) /\ Emit("processing", w.progress)
       \/ UNCHANGED <<jobRow, last>>
    /\ UNCHANGED <<stage, entry, made, at, error, script, reported, messages, breaker, letters, racing, unsaved>>

(* The script ends, cannot be run or is out of time; only in the last case *)
(* it may still write.                                                     *)
ScriptFails ==
    /\ at = "script"
    /\ \/ \E text \in {{}, {"permanent"}} : Throw(text) /\ script' = "none"
       \/ Throw({"transient"}) /\ script' = "orphan"
    /\ UNCHANGED <<stage, jobRow, last, entry, made, reported, messages, writes, letters, racing, unsaved>>

OrphanEnds ==
    /\ script = "orphan" /\ script' = "none"
    /\ UNCHANGED <<stage, jobRow, last, entry, made, at, error, reported, messages, writes, breaker, letters, racing, unsaved>>

(* The lyrics are not analysed by a fallback when a quota is the reason.   *)
ScriptEnds ==
    /\ at = "script" /\ script' = "none"
    /\ \E r \in Results :
        LET found == Assessment(r) IN
        IF found.status = "failed" THEN Throw(found.text)
        ELSE IF stage = "ANALYZE_LYRICS" /\ found.status = "degraded" /\ QuotaDegraded(r) THEN Throw({})
        ELSE at' = "saving" /\ UNCHANGED <<error, breaker>>
    /\ UNCHANGED <<stage, jobRow, last, entry, made, reported, messages, writes, letters, racing, unsaved>>

SaveAll ==
    /\ at = "saving"
    /\ SaveProgress(100)
    /\ at' = "completing"
    /\ UNCHANGED <<stage, last, entry, made, error, script, reported, messages, writes, breaker, letters, racing, unsaved>>

(* Mutation: the status alone, the progress having been saved before. *)
CompletedRow_statusOnly == [jobRow EXCEPT !.status = "COMPLETED"]

CompletedRow == [jobRow EXCEPT !.status = "COMPLETED", !.progress = 100]

(* markAsCompleted writes the row, and then the quality of the project.    *)
MarkCompleted ==
    /\ at = "completing"
    /\ jobRow' = CompletedRow
    /\ racing' = (writes # {})
    /\ at' = "quality"
    /\ UNCHANGED <<stage, last, entry, made, error, script, reported, messages, writes, breaker, letters, unsaved>>

Announce ==
    /\ at = "quality"
    /\ breaker' = breaker \cup {"success"}
    /\ Emit("completed", 100)
    /\ at' = "advancing"
    /\ UNCHANGED <<stage, jobRow, entry, made, error, script, reported, messages, writes, letters, racing, unsaved>>

(* advancePipeline has dispatched the next stage; BullMQ ends the entry.   *)
Advance ==
    /\ at = "advancing"
    /\ at' = "idle" /\ entry' = "completed"
    /\ UNCHANGED <<stage, jobRow, last, made, error, script, reported, messages, writes, breaker, letters, racing, unsaved>>

(* A call that process() waits for in its try block fails.                 *)
CallFails ==
    /\ at \in Awaits \ {"gate", "permit", "script"}
    /\ \E text \in {{}, {"permanent"}, {"transient"}} : Throw(text)
    /\ UNCHANGED <<stage, jobRow, last, entry, made, script, reported, messages, writes, letters, racing, unsaved>>

-----------------------------------------------------------------------------
(* process() rejects: BullMQ counts the attempt, whatever the error is.    *)
Reject ==
    /\ at' = "idle" /\ made' = made + 1
    /\ entry' = IF made + 1 < StageAttempts THEN "delayed" ELSE "failed"

AnnounceRetry ==
    /\ at = "retrying"
    /\ SaveProgress(0) /\ Emit("processing", 0)
    /\ Reject
    /\ UNCHANGED <<stage, error, script, reported, messages, writes, breaker, letters, racing, unsaved>>

MarkFailed ==
    /\ at = "failing"
    /\ jobRow' = [jobRow EXCEPT !.status = "FAILED"]
    /\ at' = "burying"
    /\ UNCHANGED <<stage, last, entry, made, error, script, reported, messages, writes, breaker, letters, racing, unsaved>>

Bury ==
    /\ at = "burying"
    /\ letters' = letters \cup {[attempts |-> AttemptNumber, category |-> Classify(error)]}
    /\ Emit("failed", 0)
    /\ Reject
    /\ UNCHANGED <<stage, jobRow, error, script, reported, messages, writes, breaker, racing, unsaved>>

(* A call of the catch block fails, and process() rejects with its error.  *)
CatchFails ==
    /\ at \in CatchAwaits
    /\ unsaved' = TRUE
    /\ Reject
    /\ UNCHANGED <<stage, jobRow, last, error, script, reported, messages, writes, breaker, letters, racing>>

Backoff ==
    /\ entry = "delayed" /\ entry' = "waiting"
    /\ UNCHANGED <<stage, jobRow, last, made, at, error, script, reported, messages, writes, breaker, letters, racing, unsaved>>

StageNext ==
    \/ TakeEntry \/ MarkProcessing \/ Prepare \/ Continue \/ Gate
    \/ ProgressMessage \/ \E w \in writes : WriteLands(w)
    \/ ScriptFails \/ OrphanEnds \/ ScriptEnds
    \/ SaveAll \/ MarkCompleted \/ Announce \/ Advance \/ CallFails
    \/ AnnounceRetry \/ MarkFailed \/ Bury \/ CatchFails \/ Backoff

StageSpec == StageInit /\ [][StageNext]_stageVars

-----------------------------------------------------------------------------
(* The row tells how the entry ended.  A stage that is done shows all of   *)
(* its progress, unless an update of its progress was still under way when *)
(* it was marked as completed: nobody waits for those.  A stage that has   *)
(* failed for good is FAILED with a dead letter of its last attempt, unless *)
(* saving that failed: BullMQ and the processor count the attempts apart   *)
(* from each other.                                                        *)
RowTellsOutcome ==
    /\ entry = "completed" /\ ~racing => jobRow = [status |-> "COMPLETED", progress |-> 100]
    /\ entry = "failed" /\ ~unsaved =>
          jobRow.status = "FAILED" /\ \E d \in letters : d.attempts = StageAttempts
=============================================================================
