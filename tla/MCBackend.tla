------------------------------ MODULE MCBackend ------------------------------
(***************************************************************************)
(* Parts of the backend that share no state: the permits for its jobs, the *)
(* reports over the job table, the count of retrying entries, and the      *)
(* attempts of one stage.  focus names the one whose steps are taken and   *)
(* never changes; the others stay as they began.                           *)
(***************************************************************************)
EXTENDS JobConcurrency, MCOpsMetrics, StageAttempt, TLC

(* Three heavy types and a light one; more calls than permits of each pool. *)
CONSTANTS images1, images2, images3, render, lyrics1, lyrics2

AllCallers == {images1, images2, images3, render, lyrics1, lyrics2}

TypeOf ==
  [c \in AllCallers |-> CASE c \in {images1, images2, images3} -> "GENERATE_IMAGES"
                          [] c = render -> "RENDER_VIDEO"
                          [] OTHER -> "ANALYZE_LYRICS"]

JobTypes   == {"GENERATE_IMAGES", "RENDER_VIDEO", "ANALYZE_LYRICS"}
HeavyTypes == {"GENERATE_IMAGES", "RENDER_VIDEO"}

(* The heavy pool is neither the tighter nor the looser limit.              *)
Limits == "HEAVY_GLOBAL" :> 2 @@ "GENERATE_IMAGES" :> 1 @@ "RENDER_VIDEO" :> 2
          @@ "ANALYZE_LYRICS" :> 1

(* What the last line of a script may say: success, an analysis cut short   *)
(* by a quota, a broken contract, and a failure that names its reason.      *)
Success ==
  [status |-> "success", success |-> "true", degraded |-> "false", reasons |-> TRUE,
   errorCode |-> FALSE, text |-> {}]

SomeResults ==
  {Success,
   [Success EXCEPT !.status = "degraded", !.text = {"quota", "transient"}],
   [Success EXCEPT !.success = "false"],
   [Success EXCEPT !.status = "failed", !.errorCode = TRUE, !.text = {"transient"}]}

-----------------------------------------------------------------------------
VARIABLE focus

BackendInit ==
  /\ focus \in {"permits", "reports", "retries", "attempts"}
  /\ Init /\ OpsInit
  /\ StageInit /\ (focus # "attempts" => stage = "TRANSCRIPTION")

allVars == <<focus, vars, opsVars, stageVars>>

NextPermits == focus = "permits" /\ Next /\ UNCHANGED <<focus, opsVars, stageVars>>

(* The reports do not look at the attempts of an entry: none falls back.    *)
NextReports ==
  /\ focus = "reports"
  /\ ClockTick \/ TableStep
  /\ \A k \in Key : row'[k].entry # "delayed"
  /\ UNCHANGED <<focus, vars, stageVars>>

(* The count looks at nothing but the entries: one origin, output and time. *)
NextRetries ==
  /\ focus = "retries"
  /\ TableStep \/ ScanStep
  /\ \A r \in DOMAIN origin' : origin'[r] = PlainOrigin
  /\ \A k \in Key : row'[k].output.status \in {"none", "success"} /\ ~row'[k].output.degraded
  /\ UNCHANGED <<focus, vars, stageVars>>

NextAttempts == focus = "attempts" /\ StageNext /\ UNCHANGED <<focus, vars, opsVars>>

BackendNext == NextPermits \/ NextReports \/ NextRetries \/ NextAttempts

(* Fairness of JobConcurrency, asked of it alone.                           *)
PermitsAreFair ==
    /\ WF_vars(focus = "permits" /\ Microtask)
    /\ \A c \in Callers : SF_vars(focus = "permits" /\ WorkEnds(c))

BackendSpec == BackendInit /\ [][BackendNext]_allVars /\ PermitsAreFair
=============================================================================
