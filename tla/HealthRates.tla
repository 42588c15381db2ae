----------------------------- MODULE HealthRates -----------------------------
(***************************************************************************)
(* What the health services compute without touching the job table         *)
(* (health-ops-metrics.service.ts, health-alerting.service.ts,             *)
(* health-pipeline-classification.service.ts): rates, percentiles,         *)
(* thresholds, and the source and the origin of a run.                     *)
(***************************************************************************)
EXTENDS Integers, Sequences, FiniteSets
LOCAL INSTANCE FiniteSetsExt
LOCAL INSTANCE SequencesExt

CONSTANTS
    WarnPct, CriticalPct,  \* HEALTH_DEGRADED_WARN_PCT, HEALTH_DEGRADED_CRITICAL_PCT
    MinCompletedWindow,    \* no alert about fewer completed jobs
    MaxHours               \* longest window of a report, 720 hours in the code

ASSUME RatesAssumption ==
    /\ WarnPct \in 0..100 /\ CriticalPct \in 0..100
    /\ MinCompletedWindow \in Nat \ {0}
    /\ MaxHours \in Nat \ {0}

NormalizeWindow(hours) == Max({1, Min({MaxHours, hours})})

(* Hundredths of a percent, as toFixed(2) keeps them. *)
Rate(part, whole) == IF whole = 0 THEN 0 ELSE (10000 * part + whole \div 2) \div whole

Warning  == 100 * Min({WarnPct, CriticalPct})
Critical == 100 * Max({WarnPct, CriticalPct})

(* A tally counts completed and degraded jobs; tallies is a function to them. *)
TallyFields == {"completedTotal", "degradedTotal", "completedWindow", "degradedWindow"}

WindowRate(tally) == Rate(tally.degradedWindow, tally.completedWindow)

Judged(tallies, key) == tallies[key].completedWindow >= MinCompletedWindow

CriticalKeys(tallies) ==
    {k \in DOMAIN tallies : Judged(tallies, k) /\ WindowRate(tallies[k]) >= Critical}

WarningKeys(tallies) ==
    {k \in DOMAIN tallies : /\ Judged(tallies, k)
                            /\ WindowRate(tallies[k]) \in Warning .. Critical - 1}

(* The tallies of some keys, added up.                                      *)
Added(tallies, keys) ==
    [f \in TallyFields |-> MapThenSumSet(LAMBDA k : tallies[k][f], keys)]

(* Those of the keys that have group[key] = g, for every g.                 *)
GroupBy(tallies, group) ==
    [g \in {group[k] : k \in DOMAIN tallies} |->
        Added(tallies, {k \in DOMAIN tallies : group[k] = g})]

Totals(tallies) == Added(tallies, DOMAIN tallies)

-----------------------------------------------------------------------------
(* The values of a function in ascending order: fewer than i of them are    *)
(* less than the i-th, and at least i are not greater.                      *)
SortedValues(values) ==
    LET under(v) == Cardinality({k \in DOMAIN values : values[k] < v})
        upTo(v)  == Cardinality({k \in DOMAIN values : values[k] <= v})
    IN  [i \in 1..Cardinality(DOMAIN values) |->
            CHOOSE v \in {values[k] : k \in DOMAIN values} : under(v) < i /\ i <= upTo(v)]

Percentile(sorted, pct) ==
    LET at   == (Len(sorted) - 1) * pct
        low  == at \div 100 + 1
        rest == at % 100
    IN  IF sorted = <<>> THEN 0
        ELSE IF rest = 0 THEN sorted[low]
        ELSE (sorted[low] * (100 - rest) + sorted[low + 1] * rest + 50) \div 100

Summary(sorted) ==
    LET n == Len(sorted) IN
    [count |-> n,
     avg   |-> IF n = 0 THEN 0 ELSE (2 * FoldLeft(+, 0, sorted) + n) \div (2 * n),
     p50   |-> Percentile(sorted, 50),
     p95   |-> Percentile(sorted, 95),
     min   |-> Percentile(sorted, 0),
     max   |-> Percentile(sorted, 100)]

-----------------------------------------------------------------------------
(* Where a run came from.  An origin is what the project and the rows of a *)
(* run say about it: the mode stored on the project and the one in the     *)
(* payload ("none" when there is none), what the project holds, its title  *)
(* and the marks of a synthetic run in the payload.                        *)

Modes == {"youtube", "audio", "lyrics"}
Origin == [project : Modes \cup {"none"}, payload : Modes \cup {"none"},
           has : SUBSET Modes, title : {"plain", "synthetic"},
           isSynthetic : BOOLEAN, runType : {"none", "smoke", "chaos"}]

(* The three queries. *)
SqlSource(o) ==
    CASE o.project \in Modes -> o.project
      [] o.project \notin Modes /\ o.payload \in Modes -> o.payload
      [] o.project \notin Modes /\ o.payload \notin Modes ->
            IF "youtube" \in o.has THEN "youtube"
            ELSE IF o.has = {"audio"} THEN "audio"
            ELSE IF o.has # {} THEN "lyrics" ELSE "unknown"

SqlSynthetic(o) == o.isSynthetic \/ o.runType # "none" \/ o.title = "synthetic"

(* The service in TypeScript. *)
InferSourceMode(o) ==
    IF o.project \in Modes THEN o.project
    ELSE IF "youtube" \in o.has THEN "youtube"
    ELSE IF "audio" \in o.has /\ "lyrics" \notin o.has THEN "audio"
    ELSE IF o.has \cap {"lyrics", "audio"} # {} THEN "lyrics" ELSE "unknown"

(* Mutation: the payload is asked before the project. *)
ResolveSourceMode_payloadFirst(o) ==
    IF o.payload \in Modes THEN o.payload ELSE InferSourceMode(o)

ResolveSourceMode(o) ==
    IF o.project \in Modes THEN o.project
    ELSE IF o.payload \in Modes THEN o.payload
    ELSE InferSourceMode(o)

IsSyntheticInputData(o) == o.isSynthetic \/ o.runType \in {"smoke", "chaos"}

IsSyntheticJob(o) == IsSyntheticInputData(o) \/ o.title = "synthetic"
=============================================================================
