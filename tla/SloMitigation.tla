---------------------------- MODULE SloMitigation ----------------------------
(***************************************************************************)
(* SloMitigationService: the queue of the image stage is paused while the  *)
(* pipeline breaks its service level, and resumed afterwards.  Every poll  *)
(* of the operations endpoint is a call of evaluateAndMitigate; calls run  *)
(* concurrently, each giving way at its awaits on Redis.  The safety timer *)
(* and the shutdown hook call deactivate themselves.  The pause is kept in *)
(* Redis and outlives the process.                                         *)
(***************************************************************************)
EXTENDS Naturals, FiniteSets

CONSTANTS
    Polls,         \* polls of the operations endpoint in flight at one time
    Required,      \* SLO_MITIGATION_CONSECUTIVE_CHECKS
    MaxActivations \* bound: activations in a behaviour

ASSUME RequiredAssumption == Required \in Nat \ {0}
ASSUME PollsAssumption == Polls \cap {"timer", "shutdown", "startup"} = {}

Timer == "timer"
Shutdown == "shutdown"
Startup == "startup"
Callers == Polls \cup {Timer, Shutdown, Startup}

VARIABLES
    paused,     \* the image queue is paused, in Redis
    earlyFailover, \* the Redis flag the image script reads
    active,     \* state.active
    activation, \* state.activatedAt, as the number of the activation
    cooled,     \* cooldownMs have passed since lastTransitionAtMs
    criticals,  \* consecutiveCriticalChecks, counted up to Required
    call,       \* where each caller's activate or deactivate stands
    timers,     \* activations whose auto-resume timer is set
    phase,      \* of the process
    resumeFailed \* history: the last attempt to resume the queue failed

sloVars == <<paused, earlyFailover, active, activation, cooled, criticals,
             call, timers, phase, resumeFailed>>

SloTypeOK ==
    /\ {paused, earlyFailover, active, cooled, resumeFailed} \subseteq BOOLEAN
    /\ activation \in 0..(MaxActivations + Cardinality(Polls))
    /\ criticals \in 0..Required
    /\ call \in [Callers -> {"none", "pause", "setFlag", "resume", "clearFlag"}]
    /\ timers \subseteq 1..(MaxActivations + Cardinality(Polls))
    /\ phase \in {"starting", "up", "closing", "down"}

SloInit ==
    /\ paused = FALSE
    /\ earlyFailover = FALSE
    /\ active = FALSE
    /\ activation = 0
    /\ cooled = TRUE
    /\ criticals = 0
    /\ call = [c \in Callers |-> "none"]
    /\ timers = {}
    /\ phase = "up"
    /\ resumeFailed = FALSE

Goto(c, place) == call' = [call EXCEPT ![c] = place]

(* onModuleInit ends before the server listens, onModuleDestroy begins before
   it stops listening. *)
Serves == phase \in {"up", "closing"}

CallsInFlight == {c \in Callers : call[c] # "none"}

-----------------------------------------------------------------------------
(* evaluateAndMitigate on a critical snapshot. *)
EvaluateCritical(c) ==
    /\ Serves /\ call[c] = "none"
    /\ criticals' = IF criticals < Required THEN criticals + 1 ELSE Required
    /\ IF ~active /\ criticals' >= Required /\ cooled
       THEN activation < MaxActivations /\ Goto(c, "pause")
       ELSE UNCHANGED call
    /\ UNCHANGED <<paused, earlyFailover, active, activation, cooled, timers, phase, resumeFailed>>

(* evaluateAndMitigate on any other snapshot. *)
EvaluateMet(c) ==
    /\ Serves /\ call[c] = "none"
    /\ criticals' = 0
    /\ IF active /\ cooled THEN Goto(c, "resume") ELSE UNCHANGED call
    /\ UNCHANGED <<paused, earlyFailover, active, activation, cooled, timers, phase, resumeFailed>>

(* activate: an error of the pause or of the flag is noted and passed over. *)
ActivatePause(c) ==
    /\ call[c] = "pause"
    /\ \/ paused' = TRUE /\ resumeFailed' = FALSE
       \/ UNCHANGED <<paused, resumeFailed>>
    /\ Goto(c, "setFlag")
    /\ UNCHANGED <<earlyFailover, active, activation, cooled, criticals, timers, phase>>

(* Mutation: The timer that any later activation disarms is never set again. *)
ActivateDone_firstTimerOnly(c) ==
    /\ call[c] = "setFlag"
    /\ earlyFailover' \in {earlyFailover, TRUE}
    /\ active' = TRUE
    /\ activation' = activation + 1
    /\ cooled' = FALSE
    /\ timers' = IF timers = {} THEN {activation'} ELSE timers
    /\ Goto(c, "none")
    /\ UNCHANGED <<paused, criticals, phase, resumeFailed>>

ActivateDone(c) ==
    /\ call[c] = "setFlag"
    /\ earlyFailover' \in {earlyFailover, TRUE}
    /\ active' = TRUE
    /\ activation' = activation + 1
    /\ cooled' = FALSE
    /\ timers' = timers \cup {activation'}
    /\ Goto(c, "none")
    /\ UNCHANGED <<paused, criticals, phase, resumeFailed>>

(* deactivate and onModuleInit: a failed resume is noted and passed over. *)
Resume(c) ==
    /\ call[c] = "resume"
    /\ \/ paused' = FALSE /\ resumeFailed' = FALSE
       \/ resumeFailed' = TRUE /\ UNCHANGED paused
    /\ Goto(c, "clearFlag")
    /\ UNCHANGED <<earlyFailover, active, activation, cooled, criticals, timers, phase>>

DeactivateDone(c) ==
    /\ call[c] = "clearFlag" /\ c # Startup
    /\ earlyFailover' \in {earlyFailover, FALSE}
    /\ active' = FALSE
    /\ cooled' = FALSE
    /\ criticals' = 0
    /\ Goto(c, "none")
    /\ UNCHANGED <<paused, activation, timers, phase, resumeFailed>>

StartupDone ==
    /\ call[Startup] = "clearFlag"
    /\ earlyFailover' \in {earlyFailover, FALSE}
    /\ Goto(Startup, "none")
    /\ phase' = "up"
    /\ UNCHANGED <<paused, active, activation, cooled, criticals, timers, resumeFailed>>

-----------------------------------------------------------------------------
(* The cooldown lasts minutes and a call of Redis does not: it never passes
   while a call is in flight. *)
Cool ==
    /\ ~cooled /\ CallsInFlight = {}
    /\ cooled' = TRUE
    /\ UNCHANGED <<paused, earlyFailover, active, activation, criticals, call, timers, phase, resumeFailed>>

StillTheSame(t) == active /\ activation = t

(* setTimeout in activate: the window is longer than the cooldown. *)
AutoResume(t) ==
    /\ t \in timers
    /\ cooled \/ ~StillTheSame(t)
    /\ call[Timer] = "none"
    /\ timers' = timers \ {t}
    /\ IF StillTheSame(t) THEN Goto(Timer, "resume") ELSE UNCHANGED call
    /\ UNCHANGED <<paused, earlyFailover, active, activation, cooled, criticals, phase, resumeFailed>>

(* The flag's time to live is longer than the window. *)
FlagExpires ==
    /\ earlyFailover /\ ~active
    /\ earlyFailover' = FALSE
    /\ UNCHANGED <<paused, active, activation, cooled, criticals, call, timers, phase, resumeFailed>>

(* onModuleDestroy. *)
Close ==
    /\ phase = "up"
    /\ phase' = "closing"
    /\ IF active THEN Goto(Shutdown, "resume") ELSE UNCHANGED call
    /\ UNCHANGED <<paused, earlyFailover, active, activation, cooled, criticals, timers, resumeFailed>>

(* A crash, or the end of a shutdown, whatever is still in flight. *)
Dies ==
    /\ phase # "down"
    /\ phase' = "down"
    /\ call' = [c \in Callers |-> "none"]
    /\ timers' = {}
    /\ active' = FALSE
    /\ cooled' = FALSE
    /\ criticals' = 0
    /\ UNCHANGED <<paused, earlyFailover, activation, resumeFailed>>

(* Mutation: A startup that leaves the queue as it finds it. *)
Restart_asItWas ==
    /\ phase = "down"
    /\ phase' = "up"
    /\ cooled' = TRUE
    /\ UNCHANGED <<paused, earlyFailover, active, activation, criticals, call, timers, resumeFailed>>

(* A new process: fresh fields, and onModuleInit resumes the queue. *)
Restart ==
    /\ phase = "down"
    /\ phase' = "starting"
    /\ cooled' = TRUE
    /\ Goto(Startup, "resume")
    /\ UNCHANGED <<paused, earlyFailover, active, activation, criticals, timers, resumeFailed>>

SloStep(c) ==
    \/ ActivatePause(c)
    \/ ActivateDone(c)
    \/ Resume(c)
    \/ DeactivateDone(c)
    \/ c = Startup /\ StartupDone

SloNext ==
    \/ \E c \in Polls : EvaluateCritical(c) \/ EvaluateMet(c)
    \/ \E c \in Callers : SloStep(c)
    \/ Cool
    \/ \E t \in timers : AutoResume(t)
    \/ FlagExpires
    \/ Close
    \/ Dies
    \/ Restart

(* Calls of Redis are answered, timers fire, a process that closes ends, its
   supervisor starts another, and a process does not die at its start for ever. *)
SloFairness ==
    /\ \A c \in Callers \ {Startup} : WF_sloVars(SloStep(c))
    /\ SF_sloVars(SloStep(Startup))
    /\ WF_sloVars(Cool)
    /\ WF_sloVars(\E t \in timers : AutoResume(t))
    /\ WF_sloVars(phase = "closing" /\ Dies)
    /\ WF_sloVars(Restart)

SloSpec == SloInit /\ [][SloNext]_sloVars /\ SloFairness

-----------------------------------------------------------------------------
(* Whenever the queue is paused in Redis there is someone left to resume it:
   the mitigation is active and its timer is set, a call is on its way, or
   the process is going and the next one will resume at its start.  The only
   pause that belongs to nobody is one whose resume has failed, since
   deactivate calls the mitigation inactive whether it resumed or not. *)
PausedHasOwner ==
    paused => \/ active /\ activation \in timers
              \/ CallsInFlight # {}
              \/ phase \in {"closing", "down"}
              \/ resumeFailed

(* "Auto-resume after a safety window so we don't stay paused forever": every
   pause ends, through crashes and concurrent evaluations and without one more
   evaluation, unless Redis refuses the resume. *)
PauseEnds == paused ~> (~paused \/ resumeFailed)
=============================================================================
