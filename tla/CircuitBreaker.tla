--------------------------- MODULE CircuitBreaker ---------------------------
(***************************************************************************)
(* CircuitBreakerService and the attempts that go through it, for one key  *)
(* (one stage).  process() asks canExecute before it waits for a permit    *)
(* and runs its script; an attempt that is refused throws a retryable      *)
(* error, and the catch block records every retryable error as a failure   *)
(* of the circuit, the refusal among them.                                 *)
(* Times are ages: openedAt is the time since openedAtMs, and calm the     *)
(* time since the last recorded failure, both counted up to Cooldown.      *)
(***************************************************************************)
EXTENDS Naturals

CONSTANTS
    Attempts,   \* processes of the stage at work at one time
    Threshold,  \* CIRCUIT_BREAKER_FAILURE_THRESHOLD
    Cooldown,   \* CIRCUIT_BREAKER_COOLDOWN_MS, in ticks
    NotOpened   \* openedAtMs is null

ASSUME ThresholdAssumption == Threshold \in Nat \ {0}
ASSUME CooldownAssumption == Cooldown \in Nat \ {0}
ASSUME NotOpenedAssumption == NotOpened \notin Nat

VARIABLES
    circuit,      \* entry.state
    failureCount, \* entry.failureCount, counted up to Threshold
    openedAt,     \* age of entry.openedAtMs
    running,      \* attempts let through and not ended
    streak,       \* history: failures recorded since the last success
    calm          \* history: time since the last failure was recorded

breakerVars == <<circuit, failureCount, openedAt, running, streak, calm>>

BreakerTypeOK ==
    /\ circuit \in {"closed", "open", "half-open"}
    /\ failureCount \in 0..Threshold
    /\ openedAt \in 0..Cooldown \cup {NotOpened}
    /\ running \subseteq Attempts
    /\ streak \in 0..Threshold
    /\ calm \in 0..Cooldown

BreakerInit ==
    /\ circuit = "closed"
    /\ failureCount = 0
    /\ openedAt = NotOpened
    /\ running = {}
    /\ streak = 0
    /\ calm = Cooldown

UpTo(bound, n) == IF n < bound THEN n + 1 ELSE bound

(* Mutation: A circuit that only opens from closed. *)
RecordFailure_onceOnly ==
    /\ failureCount' = UpTo(Threshold, failureCount)
    /\ IF failureCount' >= Threshold /\ circuit # "half-open"
       THEN circuit' = "open" /\ openedAt' = 0
       ELSE UNCHANGED <<circuit, openedAt>>

RecordFailure ==
    /\ failureCount' = UpTo(Threshold, failureCount)
    /\ IF failureCount' >= Threshold
       THEN circuit' = "open" /\ openedAt' = 0
       ELSE UNCHANGED <<circuit, openedAt>>

RecordSuccess ==
    /\ failureCount' = 0
    /\ circuit' = "closed"
    /\ openedAt' = NotOpened

RetryAfter == IF circuit = "open" THEN Cooldown - openedAt ELSE 0

-----------------------------------------------------------------------------
(* canExecute lets the attempt through; after the cooldown it also turns the
   circuit half-open, and nothing limits how many attempts follow. *)
LetThrough(a) ==
    /\ a \notin running
    /\ RetryAfter = 0
    /\ IF circuit = "open"
       THEN circuit' = "half-open" /\ openedAt' = NotOpened
       ELSE UNCHANGED <<circuit, openedAt>>
    /\ running' = running \cup {a}
    /\ UNCHANGED <<failureCount, streak, calm>>

(* canExecute refuses, process() throws and its catch block records it. *)
Refuse(a) ==
    /\ a \notin running
    /\ RetryAfter > 0
    /\ RecordFailure
    /\ streak' = UpTo(Threshold, streak)
    /\ calm' = 0
    /\ UNCHANGED running

AttemptSucceeds(a) ==
    /\ a \in running
    /\ RecordSuccess
    /\ running' = running \ {a}
    /\ streak' = 0
    /\ UNCHANGED calm

(* The catch block does not ask where the error comes from: it may be the
   script's, or of an await before canExecute or after recordSuccess. *)
AttemptFails(a) ==
    /\ RecordFailure
    /\ running' = running \ {a}
    /\ streak' = UpTo(Threshold, streak)
    /\ calm' = 0

(* An error that is not retryable says nothing about the service. *)
AttemptIsWrong(a) ==
    /\ a \in running
    /\ running' = running \ {a}
    /\ UNCHANGED <<circuit, failureCount, openedAt, streak, calm>>

BreakerTick ==
    /\ calm' = UpTo(Cooldown, calm)
    /\ openedAt' = IF openedAt = NotOpened THEN NotOpened ELSE UpTo(Cooldown, openedAt)
    /\ UNCHANGED <<circuit, failureCount, running, streak>>

BreakerNext ==
    \/ \E a \in Attempts :
          \/ LetThrough(a)
          \/ Refuse(a)
          \/ AttemptSucceeds(a)
          \/ AttemptFails(a)
          \/ AttemptIsWrong(a)
    \/ BreakerTick

BreakerSpec == BreakerInit /\ [][BreakerNext]_breakerVars

-----------------------------------------------------------------------------
(* What the circuit is for, said of the history and not of its fields: after
   Threshold failures in a row (refusals count) an attempt is let through
   only when a whole cooldown has passed without another one, and an attempt
   is refused only inside such a cooldown.  The half-open circuit keeps its
   count, so a single failure of any of the attempts it let through has to
   close the gate again for a full cooldown; a late success of an attempt
   from before must open it at once. *)
ShieldedAfterFailures ==
    [][\A a \in Attempts :
          /\ LetThrough(a) => streak < Threshold \/ calm = Cooldown
          /\ Refuse(a) => streak = Threshold /\ calm < Cooldown]_breakerVars
=============================================================================
