------------------------------ MODULE MCRequests ------------------------------
(***************************************************************************)
(* What users ask for, the connections that tell them of it, and one run   *)
(* of the pipeline at the size of four stages.  As in MCServices the parts *)
(* share no state: focus names the one whose steps are taken, and the      *)
(* others stay as they began.                                              *)
(***************************************************************************)
EXTENDS MCPipeline, UserQuota, AuthSession, Projects, Feedback, Events

(* Projects of a page: two of its user, and an address mistyped.            *)
CONSTANTS film, clip, typo

TwoFilms == {film, clip}
Addresses == {film, clip, typo}
Mistyped == {typo}

TabSymmetry == Permutations(Tabs)

VARIABLE focus

RequestsInit ==
    /\ focus \in {"pipeline", "quota", "auth", "projects", "feedback", "events"}
    /\ Init /\ QuotaInit /\ AuthInit /\ ProjectsInit /\ FeedbackInit
    /\ EventsInit /\ (focus # "events" => screen.project = film /\ redis = "off")

NextPipeline ==
    /\ focus = "pipeline" /\ Next
    /\ UNCHANGED <<focus, quotaVars, authVars, projectVars, feedbackVars, eventVars>>

NextQuota ==
    /\ focus = "quota" /\ QuotaNext
    /\ UNCHANGED <<focus, vars, authVars, projectVars, feedbackVars, eventVars>>

NextAuth ==
    /\ focus = "auth" /\ AuthNext
    /\ UNCHANGED <<focus, vars, quotaVars, projectVars, feedbackVars, eventVars>>

NextProjects ==
    /\ focus = "projects" /\ ProjectsNext
    /\ UNCHANGED <<focus, vars, quotaVars, authVars, feedbackVars, eventVars>>

NextFeedback ==
    /\ focus = "feedback" /\ FeedbackNext
    /\ UNCHANGED <<focus, vars, quotaVars, authVars, projectVars, eventVars>>

NextEvents ==
    /\ focus = "events" /\ EventsNext
    /\ UNCHANGED <<focus, vars, quotaVars, authVars, projectVars, feedbackVars>>

RequestsNext ==
    \/ NextPipeline
    \/ NextQuota
    \/ NextAuth
    \/ NextProjects
    \/ NextFeedback
    \/ NextEvents

RequestsSpec ==
    /\ RequestsInit
    /\ [][RequestsNext]_<<focus, vars, quotaVars, authVars, projectVars, feedbackVars, eventVars>>

(* The state of every part has its type; a part not in focus does not move.  *)
RequestsTypeOK ==
    CASE focus = "pipeline" -> TypeOK
      [] focus = "quota" -> QuotaTypeOK
      [] focus = "auth" -> AuthTypeOK
      [] focus = "projects" -> ProjectsTypeOK
      [] focus = "feedback" -> FeedbackTypeOK
      [] focus = "events" -> EventsTypeOK

-----------------------------------------------------------------------------
(* Values of the constants that are records.                                *)
SomeProjects ==
    {[youtube |-> FALSE, lyrics |-> "words"], [youtube |-> TRUE, lyrics |-> "null"]}

FalseProgress == {[status |-> "PROCESSING", progress |-> 150]}

SomeBallots ==
    {[score |-> 1, prompt |-> "wide", style |-> "noir", frame |-> NoFrame],
     [score |-> 1, prompt |-> "wide", style |-> "noir", frame |-> 2],
     [score |-> -1, prompt |-> "", style |-> "anime", frame |-> 3]}
=============================================================================
