---------------------------- MODULE MCOpsMetrics ----------------------------
(***************************************************************************)
(* Two runs of two queued stages and FINALIZE.  The origins differ in every *)
(* way the classification looks at: a run of today, one of a project from  *)
(* before the source mode was stored, one whose project has another source *)
(* by now, and a synthetic one that only its payload still tells.          *)
(***************************************************************************)
EXTENDS OpsMetrics

TwoStages == <<"TRANSCRIPTION", "RENDER_VIDEO", "FINALIZE">>

OneStage == <<"TRANSCRIPTION", "FINALIZE">>

PlainOrigin == [project |-> "audio", payload |-> "audio", has |-> {"audio"},
                title |-> "plain", isSynthetic |-> FALSE, runType |-> "none"]

SomeOrigins ==
    {PlainOrigin,
     [PlainOrigin EXCEPT !.project = "none", !.payload = "none", !.has = {"audio", "lyrics"}],
     [PlainOrigin EXCEPT !.project = "lyrics", !.has = {"lyrics"}],
     [PlainOrigin EXCEPT !.isSynthetic = TRUE, !.runType = "smoke"]}

SomeOutputs == {[status |-> "success", degraded |-> FALSE, reasons |-> <<>>],
                [status |-> "none", degraded |-> TRUE, reasons |-> <<>>]}
=============================================================================
