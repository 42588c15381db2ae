--------------------------- MODULE AnalysisColumn ---------------------------
(***************************************************************************)
(* Project.analysisResult, the one JSON column that the scripts and the    *)
(* backend both rewrite, each by reading it and writing it back whole:     *)
(* analyze_lyrics.py puts a fresh analysis there, generate_images.py adds  *)
(* its images, and ProjectPipelineQualityService keeps the degraded        *)
(* reasons and the stage metrics of the run in _pipelineQuality and clears *)
(* them when a run is created.  A run that is cancelled goes on to the end *)
(* of its stage, next to the run that replaces it.                         *)
(***************************************************************************)
EXTENDS Naturals

CONSTANTS
    Runs,      \* bound: runs of the project, 1..Runs
    Degradable \* stages that may end degraded

ASSUME RunsAssumption == Runs \in Nat \ {0}

Run == 1..Runs

(* The stages that matter to the column: transcription, analysis, images and
   render.  0 is the start of the run, 5 its end. *)
Analyze == 2
Images == 3
Render == 4
WithMetrics == {Images, Render}
ASSUME DegradableAssumption == Degradable \subseteq 1..Render

Reported == Run \X (1..Render)

Blank == [analysis |-> 0, images |-> 0, reasons |-> {}, metrics |-> {}]

VARIABLES
    column,  \* analysisResult: the run of each part, and the pairs of run and stage
    stage,   \* the stage each run is in
    at,      \* the run's place in that stage
    copy,    \* what the run's reader holds between its read and its write
    current, \* the run started last
    degraded,\* history: the degraded outputs
    shared   \* history: runs that were at work together with another

columnVars == <<column, stage, at, copy, current, degraded, shared>>

Columns == [analysis : 0..Runs, images : 0..Runs, reasons : SUBSET Reported, metrics : SUBSET Reported]

ColumnTypeOK ==
    /\ column \in Columns
    /\ stage \in [Run -> 0..(Render + 1)]
    /\ at \in [Run -> {"idle", "readToClear", "clear", "script", "save", "reasons", "addReasons", "metrics", "addMetrics", "done", "over"}]
    /\ copy \in [Run -> Columns]
    /\ current \in 0..Runs
    /\ degraded \subseteq Reported
    /\ shared \subseteq Run

ColumnInit ==
    /\ column = Blank
    /\ stage = [n \in Run |-> 0]
    /\ at = [n \in Run |-> "idle"]
    /\ copy = [n \in Run |-> Blank]
    /\ current = 0
    /\ degraded = {}
    /\ shared = {}

AtWork == {n \in Run : at[n] \notin {"idle", "over"}}

MoveTo(n, place) == at' = [at EXCEPT ![n] = place]

(* A read of the column, and the write of what the reader made of it. *)
ReadColumn(n, place) ==
    /\ copy' = [copy EXCEPT ![n] = column]
    /\ MoveTo(n, place)
    /\ UNCHANGED <<column, stage, current, degraded, shared>>

WriteColumn(n, value, place) ==
    /\ column' = value
    /\ copy' = [copy EXCEPT ![n] = Blank]
    /\ MoveTo(n, place)
    /\ UNCHANGED <<stage, current, degraded, shared>>

-----------------------------------------------------------------------------
(* startPipeline creates a run: the one before is over or cancelled. *)
StartRun ==
    /\ current < Runs
    /\ current' = current + 1
    /\ MoveTo(current', "readToClear")
    /\ shared' = IF AtWork = {} THEN shared ELSE shared \cup AtWork \cup {current'}
    /\ UNCHANGED <<column, stage, copy, degraded>>

ReadToClear(n) ==
    /\ at[n] = "readToClear"
    /\ ReadColumn(n, "clear")

HasMeta(value) == value.reasons # {} \/ value.metrics # {}

(* clearMeta writes only when there is something to clear; then the first
   stage is dispatched. *)
ClearMeta(n) ==
    /\ at[n] = "clear"
    /\ stage' = [stage EXCEPT ![n] = 1]
    /\ column' = IF HasMeta(copy[n])
                 THEN [copy[n] EXCEPT !.reasons = {}, !.metrics = {}] ELSE column
    /\ copy' = [copy EXCEPT ![n] = Blank]
    /\ MoveTo(n, "script")
    /\ UNCHANGED <<current, degraded, shared>>

(* save_analysis_result writes over whatever the column holds. *)
SaveAnalysis(n) ==
    /\ at[n] = "script" /\ stage[n] = Analyze
    /\ WriteColumn(n, [Blank EXCEPT !.analysis = n], "reasons")

(* save_generated_images. *)
ReadForImages(n) ==
    /\ at[n] = "script" /\ stage[n] = Images
    /\ ReadColumn(n, "save")

SaveImages(n) ==
    /\ at[n] = "save"
    /\ WriteColumn(n, [copy[n] EXCEPT !.images = n], "reasons")

(* The other scripts do not write here. *)
OtherScript(n) ==
    /\ at[n] = "script" /\ stage[n] \notin {Analyze, Images}
    /\ MoveTo(n, "reasons")
    /\ UNCHANGED <<column, stage, copy, current, degraded, shared>>

(* The last attempt fails, and the run with it. *)
RunFails(n) ==
    /\ at[n] \in {"script", "save"}
    /\ copy' = [copy EXCEPT ![n] = Blank]
    /\ MoveTo(n, "over")
    /\ UNCHANGED <<column, stage, current, degraded, shared>>

(* markAsCompleted: appendDegradedMeta when the output is degraded, and then
   appendStageMetrics for the two stages that have any. *)
ReadForReasons(n) ==
    /\ at[n] = "reasons" /\ stage[n] \in Degradable
    /\ copy' = [copy EXCEPT ![n] = column]
    /\ MoveTo(n, "addReasons")
    /\ degraded' = degraded \cup {<<n, stage[n]>>}
    /\ UNCHANGED <<column, stage, current, shared>>

AddReasons(n) ==
    /\ at[n] = "addReasons"
    /\ WriteColumn(n, [copy[n] EXCEPT !.reasons = @ \cup {<<n, stage[n]>>}], "metrics")

NotDegraded(n) ==
    /\ at[n] = "reasons"
    /\ MoveTo(n, "metrics")
    /\ UNCHANGED <<column, stage, copy, current, degraded, shared>>

ReadForMetrics(n) ==
    /\ at[n] = "metrics" /\ stage[n] \in WithMetrics
    /\ ReadColumn(n, "addMetrics")

(* Mutation: The two appends of markAsCompleted made from one read. *)
AddMetrics_metaReplaced(n) ==
    /\ at[n] = "addMetrics"
    /\ WriteColumn(n, [copy[n] EXCEPT !.reasons = {}, !.metrics =
            {m \in @ : m[2] # stage[n]} \cup {<<n, stage[n]>>}], "done")

(* The metrics are kept by stage, the last run's over any other's. *)
AddMetrics(n) ==
    /\ at[n] = "addMetrics"
    /\ WriteColumn(n, [copy[n] EXCEPT !.metrics =
            {m \in @ : m[2] # stage[n]} \cup {<<n, stage[n]>>}], "done")

(* advancePipeline; a cancelled run goes no further than its stage. *)
NextStage(n) ==
    /\ \/ at[n] = "done"
       \/ at[n] = "metrics" /\ stage[n] \notin WithMetrics
    /\ IF n = current /\ stage[n] < Render
       THEN stage' = [stage EXCEPT ![n] = @ + 1] /\ MoveTo(n, "script")
       ELSE stage' = [stage EXCEPT ![n] = IF n = current THEN @ + 1 ELSE @] /\ MoveTo(n, "over")
    /\ UNCHANGED <<column, copy, current, degraded, shared>>

ColumnNext ==
    \/ StartRun
    \/ \E n \in Run :
          \/ ReadToClear(n)
          \/ ClearMeta(n)
          \/ SaveAnalysis(n)
          \/ ReadForImages(n)
          \/ SaveImages(n)
          \/ OtherScript(n)
          \/ RunFails(n)
          \/ ReadForReasons(n)
          \/ AddReasons(n)
          \/ NotDegraded(n)
          \/ ReadForMetrics(n)
          \/ AddMetrics(n)
          \/ NextStage(n)

ColumnSpec == ColumnInit /\ [][ColumnNext]_columnVars

-----------------------------------------------------------------------------
(* A run that never shared the project with another leaves a column that is
   all its own: its analysis, its images, the metrics of both stages and the
   reasons of every stage that was degraded, except for the reasons of the
   stages before the analysis, which the analysis erases.  Runs that overlap
   write over each other, because every writer writes the whole column. *)
RunLeavesItsOwnColumn ==
    \A n \in Run : n = current /\ stage[n] = Render + 1 /\ n \notin shared =>
        column = [analysis |-> n, images |-> n,
                  reasons |-> {r \in degraded : r[1] = n /\ r[2] >= Analyze},
                  metrics |-> {n} \X WithMetrics]
=============================================================================
