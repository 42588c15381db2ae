------------------------------ MODULE OpsMetrics ------------------------------
(***************************************************************************)
(* The reports of health-ops-metrics.service.ts over the job table and the *)
(* queues.  The table grows as the pipeline makes it grow: a start creates *)
(* the rows of a run at once, each stage waits in its queue for its turn   *)
(* and is tried again after a failure, FINALIZE completes with the last.   *)
(* Every report is an operator on the table; only the count of the retrying *)
(* entries of a queue, made of six reads, is a state machine of its own.   *)
(***************************************************************************)
EXTENDS HealthRates
LOCAL INSTANCE FiniteSetsExt

CONSTANTS
    MaxRuns,     \* bound: runs, each of a project of its own, numbered as they start
    StageOrder,  \* types of the stages of a run, ending with FINALIZE
    Origins,     \* where a run may come from
    Outputs,     \* what a stage may store: status, degraded flag, reasons
    MaxAttempts, \* attempts of a queue entry
    Day,         \* the window of the aggregate snapshot, 24 hours in the code
    TopN,        \* runs the breakdown shows
    InspectMax,  \* entries of a queue one read asks for
    MinForSlo,   \* no SLO alert about fewer runs
    SloWarn, SloCritical, LatencyCritical, MinForLatency,
    MaxClock     \* bound: the clock

ASSUME OpsAssumption ==
    /\ Origins \subseteq Origin
    /\ \A n \in {MaxRuns, MaxAttempts, Day, TopN, InspectMax, MinForSlo, MinForLatency} : n \in Nat \ {0}
    /\ \A n \in {SloWarn, SloCritical, LatencyCritical, MaxClock} : n \in Nat

(* Every type is a stage of a run once, and FINALIZE is not the only one.   *)
ASSUME OrderAssumption ==
    /\ Len(StageOrder) \in Nat \ {0, 1} /\ DOMAIN StageOrder = 1..Len(StageOrder)
    /\ \A i, j \in DOMAIN StageOrder : StageOrder[i] = StageOrder[j] => i = j

Runs   == 1..MaxRuns
StageTypes  == {StageOrder[i] : i \in DOMAIN StageOrder}
Final  == StageOrder[Len(StageOrder)]
Key    == Runs \X StageTypes
NoOutput == [status |-> "none", degraded |-> FALSE, reasons |-> <<>>]

VARIABLES
    clock,
    origin,  \* of each run that has started
    row,     \* the job table, with the queue entry of each row
    dead,    \* the dead letters
    scan     \* getRetryingCount on the queue of the first stage

opsVars == <<clock, origin, row, dead, scan>>

Absent == [status |-> "NONE", createdAt |-> 0, updatedAt |-> 0, output |-> NoOutput,
           entry |-> "none", attempts |-> 0, queuedAt |-> 0, processedOn |-> 0]

(* steady is history: the entries that have been retrying since the count  *)
(* began and have not fallen back to delayed; short, that a read asked for *)
(* fewer entries than there were by then.                                  *)
NoScan == [at |-> 0, asked |-> 0, seen |-> {}, sampled |-> FALSE,
           steady |-> {}, short |-> FALSE]

OpsTypeOK ==
    /\ clock \in 0..MaxClock
    /\ Len(origin) <= MaxRuns /\ \A r \in DOMAIN origin : origin[r] \in Origins
    /\ row \in [Key -> [status : {"NONE", "PENDING", "PROCESSING", "COMPLETED", "FAILED", "CANCELLED"},
                        createdAt : 0..MaxClock, updatedAt : 0..MaxClock,
                        output : Outputs \cup {NoOutput},
                        entry : {"none", "waiting", "active", "delayed", "completed", "failed"},
                        attempts : 0..MaxAttempts, queuedAt : 0..MaxClock, processedOn : 0..MaxClock]]
    /\ dead \subseteq [key : Key, category : {"transient", "permanent"}, attempts : 1..MaxAttempts]
    /\ scan \in [at : 0..4, asked : 0..InspectMax, seen : SUBSET Runs, sampled : BOOLEAN,
                 steady : SUBSET Runs, short : BOOLEAN]

OpsInit ==
    /\ clock = 0
    /\ origin = <<>>
    /\ row = [k \in Key |-> Absent]
    /\ dead = {}
    /\ scan = NoScan

-----------------------------------------------------------------------------
(* The table and the queues. *)

Handed(new, k) == [new EXCEPT ![k].entry = "waiting", ![k].queuedAt = clock]

Unsteady(k) == scan' = [scan EXCEPT !.steady = @ \ (IF k[2] = StageOrder[1] THEN {k[1]} ELSE {})]

StartRun(r) ==
    /\ r = Len(origin) + 1
    /\ \E o \in Origins : origin' = Append(origin, o)
    /\ row' = Handed([k \in Key |->
                 IF k[1] = r THEN [Absent EXCEPT !.status = "PENDING", !.createdAt = clock,
                                                 !.updatedAt = clock]
                 ELSE row[k]], <<r, StageOrder[1]>>)
    /\ UNCHANGED <<clock, dead, scan>>

(* One worker per queue. *)
Begin(k) ==
    /\ row[k].entry = "waiting"
    /\ \A r \in Runs : row[<<r, k[2]>>].entry # "active"
    /\ row' = [row EXCEPT ![k].status = "PROCESSING", ![k].updatedAt = clock,
                          ![k].entry = "active", ![k].processedOn = clock]
    /\ UNCHANGED <<clock, origin, dead, scan>>

Complete(new, k, output) ==
    [new EXCEPT ![k].status = "COMPLETED", ![k].updatedAt = clock, ![k].output = output]

(* The next stage is handed to its queue; FINALIZE is completed on the spot. *)
Succeed(k) ==
    /\ row[k].entry = "active"
    /\ \E output \in Outputs, i \in DOMAIN StageOrder :
        /\ StageOrder[i] = k[2]
        /\ LET done == [Complete(row, k, output) EXCEPT ![k].entry = "completed"]
               next == <<k[1], StageOrder[i + 1]>>
           IN  row' = IF StageOrder[i + 1] = Final
                      THEN Complete(done, next, NoOutput) ELSE Handed(done, next)
    /\ Unsteady(k)
    /\ UNCHANGED <<clock, origin, dead>>

(* A failure that may pass leaves the row PROCESSING as long as attempts   *)
(* are left; any other fails it, cancels the rest and files a dead letter. *)
FailAttempt(k) ==
    /\ row[k].entry = "active"
    /\ \E category \in {"transient", "permanent"} :
        IF category = "transient" /\ row[k].attempts + 1 < MaxAttempts
        THEN /\ row' = [row EXCEPT ![k].entry = "delayed", ![k].attempts = @ + 1, ![k].updatedAt = clock]
             /\ UNCHANGED dead
        ELSE /\ row' = [j \in Key |->
                    IF j = k THEN [row[j] EXCEPT !.status = "FAILED", !.updatedAt = clock,
                                                 !.entry = "failed", !.attempts = @ + 1]
                    ELSE IF j[1] = k[1] /\ row[j].status \in {"PENDING", "PROCESSING"}
                    THEN [row[j] EXCEPT !.status = "CANCELLED", !.updatedAt = clock]
                    ELSE row[j]]
             /\ dead' = dead \cup {[key |-> k, category |-> category, attempts |-> row[k].attempts + 1]}
    /\ Unsteady(k)
    /\ UNCHANGED <<clock, origin>>

BackoffEnds(k) ==
    /\ row[k].entry = "delayed"
    /\ row' = [row EXCEPT ![k].entry = "waiting"]
    /\ UNCHANGED <<clock, origin, dead, scan>>

ClockTick == clock < MaxClock /\ clock' = clock + 1 /\ UNCHANGED <<origin, row, dead, scan>>

-----------------------------------------------------------------------------
(* getRetryingCount: for each status the number of entries is asked for,   *)
(* then as many entries, and those tried before are noted by their id.     *)

(* Mutation: from the last status to the first. *)
ScanOrder_backwards == <<"active", "waiting", "delayed">>

ScanOrder == <<"delayed", "waiting", "active">>

EntriesIn(status) == {r \in Runs : row[<<r, StageOrder[1]>>].entry = status}

Retrying == {r \in Runs : /\ row[<<r, StageOrder[1]>>].entry \in {"delayed", "waiting", "active"}
                          /\ row[<<r, StageOrder[1]>>].attempts > 0}

ScanBegins ==
    /\ scan.at \in {0, 4}
    /\ scan' = [NoScan EXCEPT !.at = 1, !.steady = Retrying]
    /\ UNCHANGED <<clock, origin, row, dead>>

ScanCounts ==
    /\ scan.at \in 1..3 /\ scan.asked = 0
    /\ LET count == Cardinality(EntriesIn(ScanOrder[scan.at])) IN
       scan' = [scan EXCEPT !.asked = Min({count, InspectMax}),
                            !.sampled = @ \/ count > InspectMax,
                            !.at = IF count = 0 THEN @ + 1 ELSE @]
    /\ UNCHANGED <<clock, origin, row, dead>>

ScanLists ==
    /\ scan.at \in 1..3 /\ scan.asked > 0
    /\ LET there == EntriesIn(ScanOrder[scan.at]) IN
       \E listed \in kSubset(Min({scan.asked, Cardinality(there)}), there) :
          scan' = [scan EXCEPT !.seen = @ \cup (listed \cap Retrying),
                               !.short = @ \/ Cardinality(there) > scan.asked,
                               !.asked = 0, !.at = @ + 1]
    /\ UNCHANGED <<clock, origin, row, dead>>

TableStep ==
    \/ \E r \in Runs : StartRun(r)
    \/ \E k \in Key : Begin(k) \/ Succeed(k) \/ FailAttempt(k) \/ BackoffEnds(k)

ScanStep == ScanBegins \/ ScanCounts \/ ScanLists

OpsNext == ClockTick \/ TableStep \/ ScanStep

OpsSpec == OpsInit /\ [][OpsNext]_opsVars

-----------------------------------------------------------------------------
(* Reports.  A window is a number of hours that ends now.                  *)

Within(time, hours) == time + hours >= clock

Rows(synthetic) ==
    {k \in Key : row[k].status # "NONE" /\ (synthetic \/ ~SqlSynthetic(origin[k[1]]))}

Completed(K, hours) ==
    {k \in K : row[k].status = "COMPLETED" /\ Within(row[k].updatedAt, hours)}

SqlDegraded(k) == row[k].output.status = "degraded" \/ row[k].output.degraded

Duration(k) == row[k].updatedAt - row[k].createdAt

Tally(K, hours) ==
    LET done == {k \in K : row[k].status = "COMPLETED"}
        last == Completed(K, hours)
    IN  [completedTotal  |-> Cardinality(done),
         degradedTotal   |-> Cardinality({k \in done : SqlDegraded(k)}),
         completedWindow |-> Cardinality(last),
         degradedWindow  |-> Cardinality({k \in last : SqlDegraded(k)})]

(* getJobTypeStats: rows of synthetic runs count. *)
JobTypeStats ==
    LET K(t) == {k \in Rows(TRUE) : k[2] = t} IN
    [t \in {k[2] : k \in Rows(TRUE)} |->
        [failedTotal |-> Cardinality({k \in K(t) : row[k].status = "FAILED"}),
         failed24h   |-> Cardinality({k \in K(t) : /\ row[k].status = "FAILED"
                                                   /\ Within(row[k].createdAt, Day)}),
         duration    |-> Summary(SortedValues([k \in Completed(K(t), Day) |-> Duration(k)]))]]

(* getDurationByStage. *)
DurationByStage(h, synthetic) ==
    LET hours == NormalizeWindow(h) IN
    [t \in {k[2] : k \in Rows(synthetic)} |->
        Summary(SortedValues([k \in Completed({k \in Rows(synthetic) : k[2] = t}, hours) |-> Duration(k)]))]

(* getDegradedStageSnapshot; the mode "all" filters nothing. *)
ByTypeAndSource(h, mode, synthetic) ==
    LET hours  == NormalizeWindow(h)
        group(k) == <<k[2], SqlSource(origin[k[1]])>>
        K      == {k \in Rows(synthetic) : mode \in {"all", group(k)[2]}}
    IN  [g \in {group(k) : k \in K} |-> Tally({k \in K : group(k) = g}, hours)]

ByType(tallies)       == GroupBy(tallies, [g \in DOMAIN tallies |-> g[1]])
BySourceMode(tallies) == GroupBy(tallies, [g \in DOMAIN tallies |-> g[2]])

(* getDegradedRateByLanguage: the language its transcription detected.     *)
LanguageOf(r) ==
    IF /\ <<r, "TRANSCRIPTION">> \in Key
       /\ row[<<r, "TRANSCRIPTION">>].status = "COMPLETED"
    THEN "detected" ELSE "unknown"

ByLanguage(h, synthetic) ==
    [l \in {LanguageOf(k[1]) : k \in Rows(synthetic)} |->
        Tally({k \in Rows(synthetic) : LanguageOf(k[1]) = l}, NormalizeWindow(h))]

(* getPipelineSlo: the runs that have reached FINALIZE, from the creation  *)
(* of their first row to the last update.                                  *)
CompletedOf(r) == {k \in Rows(TRUE) : k[1] = r /\ row[k].status = "COMPLETED"}

StartedAt(r)  == Min({row[k].createdAt : k \in CompletedOf(r)})
FinishedAt(r) == Max({row[k].updatedAt : k \in CompletedOf(r)})
RunDuration(r) == FinishedAt(r) - StartedAt(r)

FinishedRuns(hours, synthetic) ==
    {r \in {k[1] : k \in Rows(synthetic)} :
        <<r, Final>> \in CompletedOf(r) /\ Within(FinishedAt(r), hours)}

PipelineSlo(h, synthetic) ==
    LET runs == FinishedRuns(NormalizeWindow(h), synthetic)
        stats == Summary(SortedValues([r \in runs |-> RunDuration(r)]))
    IN  [metrics |-> stats,
         status |-> IF stats.count < MinForSlo \/ stats.p95 < Min({SloWarn, SloCritical}) THEN "met"
                    ELSE IF stats.p95 < Max({SloWarn, SloCritical}) THEN "warning" ELSE "critical"]

(* getQueueWaitByStage, for one queue. *)
QueueWait(type, h) ==
    LET K       == {k \in Key : k[2] = type}
        waited  == {k \in K : /\ row[k].entry = "completed"
                              /\ Within(row[k].processedOn, NormalizeWindow(h))}
        pending == {k \in K : row[k].entry \in {"waiting", "delayed"}}
    IN  [completed |-> Summary(SortedValues([k \in waited |-> row[k].processedOn - row[k].queuedAt])),
         pending   |-> Summary(SortedValues([k \in pending |-> clock - row[k].queuedAt]))]

(* getPipelineSloBreakdown: the slowest runs.  The query leaves the order of *)
(* equally slow ones open: here it is theirs.  A run has one row of each    *)
(* type.                                                                    *)
BreakdownRuns(h, synthetic) ==
    LET runs == FinishedRuns(NormalizeWindow(h), synthetic)
        before(r) == {s \in runs : \/ RunDuration(s) > RunDuration(r)
                                   \/ RunDuration(s) = RunDuration(r) /\ s < r}
    IN  [i \in 1..Min({TopN, Cardinality(runs)}) |->
            CHOOSE r \in runs : Cardinality(before(r)) = i - 1]

HandoffWait(r, i) ==
    LET gap == row[<<r, StageOrder[i]>>].createdAt - row[<<r, StageOrder[i - 1]>>].updatedAt
    IN  IF i = 1 THEN 0 ELSE Max({0, gap})

Attempts(r, i) == Cardinality({k \in Rows(TRUE) : k = <<r, StageOrder[i]>>})

Breakdown(r) ==
    [i \in DOMAIN StageOrder |->
        [duration |-> Duration(<<r, StageOrder[i]>>),
         retries  |-> Max({0, Attempts(r, i) - 1}),
         degraded |-> SqlDegraded(<<r, StageOrder[i]>>),
         handoffWait |-> HandoffWait(r, i)]]

(* getPipelineQualitySummary, from the rows themselves. *)
ReasonCodes(k) ==
    LET output == row[k].output IN
    IF ~output.degraded /\ output.status # "degraded" THEN <<>>
    ELSE IF output.reasons # <<>> THEN output.reasons ELSE <<"unspecified">>

Quality(h, mode, synthetic) ==
    LET K == {k \in Completed(Key, NormalizeWindow(h)) :
                /\ synthetic \/ ~IsSyntheticJob(origin[k[1]])
                /\ mode \in {"all", ResolveSourceMode(origin[k[1]])}}
        group(k) == <<k[2], ResolveSourceMode(origin[k[1]])>>
    IN  [g \in {group(k) : k \in K} |->
            [completedWindow |-> Cardinality({k \in K : group(k) = g}),
             degradedWindow  |-> Cardinality({k \in K : group(k) = g /\ ReasonCodes(k) # <<>>})]]

(* deriveProjectPipelineStatus: what the owner of a run is shown.          *)
ShownStatus(r) ==
    LET K == {k \in Rows(TRUE) : k[1] = r} IN
    IF K = {} THEN "draft"
    ELSE IF \E k \in K : row[k].status = "FAILED" THEN "failed"
    ELSE IF \E k \in K : row[k].status # "COMPLETED" THEN "processing"
    ELSE IF \E k \in K : ReasonCodes(k) # <<>> THEN "degraded" ELSE "success"

(* getDeadLetterByJobType, all entries inspected. *)
DeadLetterByType(t) ==
    LET D == {d \in dead : d.key[2] = t} IN
    [total     |-> Cardinality(D),
     retryable |-> Cardinality({d \in D : d.category = "transient"}),
     attemptsExhausted |-> Cardinality({d \in D : d.attempts >= MaxAttempts})]

(* getOpsSnapshot: a section that throws is left out and makes the whole   *)
(* degraded.                                                               *)
OpsStatus(failedSections, synthetic) ==
    LET critical(section, condition) == section \notin failedSections /\ condition IN
    IF \/ failedSections # {}
       \/ critical("degradedByStage",
                   CriticalKeys(ByType(ByTypeAndSource(Day, "all", synthetic))) # {})
       \/ critical("jobsByType",
                   \E t \in DOMAIN JobTypeStats :
                       /\ JobTypeStats[t].duration.count >= MinForLatency
                       /\ JobTypeStats[t].duration.p95 >= LatencyCritical)
       \/ critical("pipelineSlo", PipelineSlo(Day, synthetic).status = "critical")
    THEN "degraded" ELSE "ok"

-----------------------------------------------------------------------------
(* Properties. *)

(* The reports that count completed and degraded jobs do not contradict    *)
(* each other, whatever the window, the filter and the flag: the SQL of the *)
(* degraded snapshot, of the languages and of the durations, and the loop   *)
(* of the quality summary, which classifies every job again in TypeScript.  *)
CountsAgree ==
    \A h \in {1, MaxHours}, synthetic \in BOOLEAN :
        LET all == ByTypeAndSource(h, "all", synthetic)
            types == ByType(all)
            durations == DurationByStage(h, synthetic)
        IN  /\ Totals(types) = Totals(BySourceMode(all))
            /\ Totals(types) = Totals(ByLanguage(h, synthetic))
            /\ \A t \in DOMAIN durations : durations[t].count = types[t].completedWindow
            /\ \A mode \in {"all", "audio", "lyrics"} :
                   LET quality == Quality(h, mode, synthetic)
                       sql == ByTypeAndSource(h, mode, synthetic)
                       counted == {g \in DOMAIN sql : sql[g].completedWindow > 0}
                   IN  /\ DOMAIN quality = counted
                       /\ \A g \in counted :
                             /\ quality[g].completedWindow = sql[g].completedWindow
                             /\ quality[g].degradedWindow = sql[g].degradedWindow

(* The reports about runs do not contradict each other or what the owner is *)
(* shown: the SLO measures exactly the runs that are shown as a success or  *)
(* as degraded, the breakdown lists the slowest of them first, each job     *)
(* type has as many failed rows as dead letters, and no entry has waited    *)
(* longer in its queue than its row has existed.                           *)
RunsAgree ==
    /\ FinishedRuns(MaxHours + MaxClock, TRUE)
          = {r \in Runs : ShownStatus(r) \in {"success", "degraded"}}
    /\ \A h \in {1, MaxHours}, synthetic \in BOOLEAN :
          LET slo == PipelineSlo(h, synthetic).metrics
              top == BreakdownRuns(h, synthetic)
          IN  /\ Len(top) = Min({TopN, slo.count})
              /\ top # <<>> => RunDuration(top[1]) = slo.max
              /\ slo.min <= slo.p50 /\ slo.p50 <= slo.p95 /\ slo.p95 <= slo.max
    /\ \A t \in DOMAIN JobTypeStats \ {Final} :
          LET stats == JobTypeStats[t]
              waits == QueueWait(t, MaxHours).completed
          IN  /\ stats.failedTotal = DeadLetterByType(t).total
              /\ MaxHours >= MaxClock /\ Day >= MaxClock =>
                    waits.count = stats.duration.count /\ waits.max <= stats.duration.max

(* A section of the aggregate snapshot that throws does not turn the answer *)
(* from degraded to ok, although the alerts it would have raised are lost.  *)
FailureHidesNothing ==
    \A section \in {"queues", "jobsByType", "degradedByStage", "deadLetterByType", "pipelineSlo"},
       synthetic \in BOOLEAN :
        OpsStatus({}, synthetic) = "degraded" => OpsStatus({section}, synthetic) = "degraded"

(* The reports, put side by side.                                          *)
ReportsAgree == CountsAgree /\ RunsAgree /\ FailureHidesNothing

(* An entry that has been on its way to another attempt throughout the six *)
(* reads of getRetryingCount is counted, whatever it did in between, unless *)
(* the answer says that it is a sample or a queue grew between its two      *)
(* reads: the statuses are read in the order an entry goes through them.    *)
RetryingAreCounted ==
    scan.at = 4 /\ ~scan.sampled /\ ~scan.short => scan.steady \subseteq scan.seen

(* A slow run in which a stage waited for its turn, or was tried again,     *)
(* shows where the time went: between stages or on retries                  *)
(* (docs/health-ops-metrics-runbook.md, Pipeline SLO Breakdown).            *)
BreakdownTellsWaits ==
    \A r \in FinishedRuns(MaxHours, TRUE) :
        (\E i \in 2..(Len(StageOrder) - 1) :
            row[<<r, StageOrder[i]>>].processedOn > row[<<r, StageOrder[i - 1]>>].updatedAt)
        => \E i \in DOMAIN StageOrder :
              Breakdown(r)[i].handoffWait > 0 \/ Breakdown(r)[i].retries > 0
=============================================================================
