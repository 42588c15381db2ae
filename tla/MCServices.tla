------------------------------ MODULE MCServices ------------------------------
(***************************************************************************)
(* The services around the pipeline share no state with each other, so one *)
(* run checks them side by side: focus names the one whose steps are taken *)
(* and never changes, and the others stay as they began.                   *)
(***************************************************************************)
EXTENDS CircuitBreaker, SloMitigation, LiveSteering, RequestThrottler,
        StyleLora, AnalysisColumn, PythonRunner, GeminiCooldown, HealthAlerting, TLC

(* No alert, an alert by type and source, and one by source alone: the type *)
(* is at half the critical rate when the jobs of another source are added.  *)
Counts(bad, completed) ==
  [completedTotal |-> completed, degradedTotal |-> bad,
   completedWindow |-> completed, degradedWindow |-> bad]

ThreeWorlds ==
  LET video(c) == "RENDER_VIDEO" :> c
      seen(bad) == [byType |-> video(Counts(bad, 5)), bySource |-> "audio" :> Counts(bad, 5)]
  IN  {seen(0), seen(1),
       [byType |-> video(Counts(1, 10)),
        bySource |-> "audio" :> Counts(1, 5) @@ "lyrics" :> Counts(0, 5)]}

-----------------------------------------------------------------------------
VARIABLE focus

services == <<breakerVars, sloVars, steeringVars, throttleVars, loraVars,
              columnVars, runnerVars, geminiVars, alertVars>>

Names == {"breaker", "slo", "steering", "throttle", "lora", "column", "runner", "gemini", "alerts"}

Init ==
    /\ focus \in Names
    /\ BreakerInit /\ SloInit /\ SteeringInit /\ ThrottleInit
    /\ LoraInit /\ ColumnInit /\ RunnerInit /\ GeminiInit
    /\ AlertInit /\ (focus # "alerts" => Signature(world) = None)

NextBreaker ==
    /\ focus = "breaker" /\ BreakerNext
    /\ UNCHANGED <<focus, sloVars, steeringVars, throttleVars, loraVars, columnVars, runnerVars, geminiVars, alertVars>>

NextSlo ==
    /\ focus = "slo" /\ SloNext
    /\ UNCHANGED <<focus, breakerVars, steeringVars, throttleVars, loraVars, columnVars, runnerVars, geminiVars, alertVars>>

NextSteering ==
    /\ focus = "steering" /\ SteeringNext
    /\ UNCHANGED <<focus, breakerVars, sloVars, throttleVars, loraVars, columnVars, runnerVars, geminiVars, alertVars>>

NextThrottle ==
    /\ focus = "throttle" /\ ThrottleNext
    /\ UNCHANGED <<focus, breakerVars, sloVars, steeringVars, loraVars, columnVars, runnerVars, geminiVars, alertVars>>

NextLora ==
    /\ focus = "lora" /\ LoraNext
    /\ UNCHANGED <<focus, breakerVars, sloVars, steeringVars, throttleVars, columnVars, runnerVars, geminiVars, alertVars>>

NextColumn ==
    /\ focus = "column" /\ ColumnNext
    /\ UNCHANGED <<focus, breakerVars, sloVars, steeringVars, throttleVars, loraVars, runnerVars, geminiVars, alertVars>>

NextRunner ==
    /\ focus = "runner" /\ RunnerNext
    /\ UNCHANGED <<focus, breakerVars, sloVars, steeringVars, throttleVars, loraVars, columnVars, geminiVars, alertVars>>

NextGemini ==
    /\ focus = "gemini" /\ GeminiNext
    /\ UNCHANGED <<focus, breakerVars, sloVars, steeringVars, throttleVars, loraVars, columnVars, runnerVars, alertVars>>

NextAlerts ==
    /\ focus = "alerts" /\ AlertNext
    /\ UNCHANGED <<focus, breakerVars, sloVars, steeringVars, throttleVars, loraVars, columnVars, runnerVars,
                   geminiVars>>

Next ==
    \/ NextBreaker
    \/ NextSlo
    \/ NextSteering
    \/ NextThrottle
    \/ NextLora
    \/ NextColumn
    \/ NextRunner
    \/ NextGemini
    \/ NextAlerts

(* The fairness of each service, asked of the one in focus. *)
SloIsFair ==
    /\ \A c \in Callers \ {Startup} : WF_sloVars(focus = "slo" /\ SloStep(c))
    /\ SF_sloVars(focus = "slo" /\ SloStep(Startup))
    /\ WF_sloVars(focus = "slo" /\ Cool)
    /\ WF_sloVars(focus = "slo" /\ \E t \in timers : AutoResume(t))
    /\ WF_sloVars(focus = "slo" /\ phase = "closing" /\ Dies)
    /\ WF_sloVars(focus = "slo" /\ Restart)

SteeringIsFair ==
    /\ WF_steeringVars(focus = "steering" /\ (ReadFile \/ MarkRedis \/ MarkFile))
    /\ SF_steeringVars(focus = "steering" /\ ReadRedis)

ThrottleIsFair ==
    /\ WF_throttleVars(focus = "throttle" /\ WindowExpires)
    /\ WF_throttleVars(focus = "throttle" /\ BlockExpires)
    /\ \A h \in Hits :
          /\ WF_throttleVars(focus = "throttle" /\ (Count(h) \/ Judge(h)))
          /\ SF_throttleVars(focus = "throttle" /\ SetWindow(h))

RunnerIsFair ==
    /\ WF_runnerVars(focus = "runner" /\ TimeoutEvent)
    /\ WF_runnerVars(focus = "runner" /\ CloseEvent)

AlertsAreFair == \A p \in Probes : WF_alertVars(focus = "alerts" /\ ProbeStep(p))

Spec ==
    /\ Init /\ [][Next]_<<focus, services>>
    /\ SloIsFair /\ SteeringIsFair /\ ThrottleIsFair /\ RunnerIsFair /\ AlertsAreFair
=============================================================================
