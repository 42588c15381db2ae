-------------------------- MODULE MCRequestsProofs --------------------------
(***************************************************************************)
(* What MCRequests runs is each of its parts, for any values of their       *)
(* constants: a step of the composition is a step of the part in focus and  *)
(* no step of another.  Whatever PipelineProofs and RequestsProofs show of  *)
(* a part therefore holds of the composition.                               *)
(***************************************************************************)
EXTENDS MCRequests, PipelineProofs, RequestsProofs

(* A step of the composition is a step of each part, or none.               *)
PartsStep ==
  /\ [Next]_vars /\ [QuotaNext]_quotaVars /\ [AuthNext]_authVars
  /\ [ProjectsNext]_projectVars /\ [FeedbackNext]_feedbackVars /\ [EventsNext]_eventVars

LEMMA RequestsStepIs ==
  [RequestsNext]_<<focus, vars, quotaVars, authVars, projectVars, feedbackVars, eventVars>> => PartsStep
<1>1. NextPipeline => PartsStep
  BY Zenon DEF NextPipeline, PartsStep
<1>2. NextQuota => PartsStep
  BY Zenon DEF NextQuota, PartsStep
<1>3. NextAuth => PartsStep
  BY Zenon DEF NextAuth, PartsStep
<1>4. NextProjects => PartsStep
  BY Zenon DEF NextProjects, PartsStep
<1>5. NextFeedback => PartsStep
  BY Zenon DEF NextFeedback, PartsStep
<1>6. NextEvents => PartsStep
  BY Zenon DEF NextEvents, PartsStep
<1>7. UNCHANGED <<focus, vars, quotaVars, authVars, projectVars, feedbackVars, eventVars>> => PartsStep
  BY Zenon DEF PartsStep
<1> QED
  BY <1>1, <1>2, <1>3, <1>4, <1>5, <1>6, <1>7, Zenon DEF RequestsNext

(* The composition implements the specification of each of its parts: the   *)
(* pipeline, the quotas, the sessions, the projects, the votes, the events. *)
THEOREM PartsAreImplemented ==
  RequestsSpec => Spec /\ QuotaSpec /\ AuthSpec /\ ProjectsSpec /\ FeedbackSpec /\ EventsSpec
<1>1. RequestsInit => Init /\ QuotaInit /\ AuthInit /\ ProjectsInit /\ FeedbackInit /\ EventsInit
  BY Zenon DEF RequestsInit
<1>2. ASSUME PartsStep
      PROVE  /\ [Next]_vars /\ [QuotaNext]_quotaVars /\ [AuthNext]_authVars
             /\ [ProjectsNext]_projectVars /\ [FeedbackNext]_feedbackVars /\ [EventsNext]_eventVars
  BY <1>2, Zenon DEF PartsStep
<1> QED
  BY <1>1, <1>2, RequestsStepIs, PTL
  DEF RequestsSpec, Spec, QuotaSpec, AuthSpec, ProjectsSpec, FeedbackSpec, EventsSpec

(* The state of every part has its type, in focus or not; of the projects   *)
(* this says that whoever asks for the progress is told a percentage.       *)
THEOREM RequestsTyped == RequestsSpec => []RequestsTypeOK
<1> DEFINE InFocus == focus \in {"pipeline", "quota", "auth", "projects", "feedback", "events"}
<1>1. ASSUME TypeOK, QuotaTypeOK, AuthTypeOK, ProjectsTypeOK, FeedbackTypeOK, EventsTypeOK, InFocus
      PROVE  RequestsTypeOK
  BY <1>1, Zenon DEF RequestsTypeOK
<1>2. RequestsInit => InFocus
  BY Zenon DEF RequestsInit
<1>3. InFocus /\ [RequestsNext]_<<focus, vars, quotaVars, authVars, projectVars, feedbackVars, eventVars>> => InFocus'
  <2>1. [RequestsNext]_<<focus, vars, quotaVars, authVars, projectVars, feedbackVars, eventVars>> => focus' = focus
    BY Zenon DEF RequestsNext, NextPipeline, NextQuota, NextAuth, NextProjects, NextFeedback, NextEvents
  <2> QED
    BY <2>1
<1>4. QuotaSpec => []QuotaTypeOK
  BY QuotaTypeStarts, QuotaTypeStep, PTL DEF QuotaSpec
<1>5. AuthInv => AuthTypeOK
  BY DEF AuthInv
<1> HIDE DEF InFocus
<1> QED
  BY <1>1, <1>2, <1>3, <1>4, <1>5, PartsAreImplemented, TypeCorrect, AuthInvHolds, ProjectsAlwaysTyped,
     FeedbackTyped, EventsTyped, PTL DEF RequestsSpec
=============================================================================
